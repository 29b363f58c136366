\* Two turns, two joins, one move of the room, two commands at a time; one kind of
\* upset in each behaviour, as often as it likes. It stops when MaxTurns turns are over.
CONSTANTS
    Commands = {"user", "again"}
    MaxTurns = 2
    MaxJoins = 2
    MaxMoves = 1
    MaxPipe = 2
    MaxUpsets = 1
    Upsets = {"drop", "die", "leave", "move", "refuse", "lose", "overlap"}
SPECIFICATION FairSpec
CHECK_DEADLOCK FALSE
INVARIANTS
    OnlyRoomTurns
    StopEndsItsTurn
    NoOrphan
PROPERTIES
    RoomTurnCloses
