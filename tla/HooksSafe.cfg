\* Two members, one seat, three turns; the logs and memories hold one or two. Up to
\* two different things go wrong. Every transcript can be read: one that cannot charges
\* nobody. It stops when MaxTurns turns are over.
CONSTANTS
    ann = ann
    bob = bob
    seat = seat
    Local = local
    Seats = {seat}
    Members = {ann, bob}
    Owner <- MCOwner
    SplitMode = "weighted"
    Keep = 1
    Saved = 1
    Items = 2
    Memory = 1
    MaxTurns = 3
    MaxPrompts = 3
    Length <- MCLength
    Uses = {4}
    MaxNotes = 1
    MaxUpsets = 2
    Upsets = {"own", "refire", "drop", "crash"}
SPECIFICATION Spec
CHECK_DEADLOCK FALSE
INVARIANTS
    ChargedOnce
    RightTurn
