\* Two turns; requests are refused, or else a feed drops once. It stops when MaxTurns
\* turns are over.
CONSTANTS
    MaxTurns = 2
    MaxEvents = 1
    Upsets = {"refuse", "drop"}
    Alone = {"drop"}
SPECIFICATION FairSpec
CHECK_DEADLOCK FALSE
INVARIANTS
    AlwaysTimed
    StopEndsOwnTurn
PROPERTIES
    RoomTurnCloses
