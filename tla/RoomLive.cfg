\* Liveness while no turn is given up, no seat removed and the disk holds.
\* No symmetry: it is unsound for liveness.
\* The room stops for good once MaxMsgs messages are accepted and answered.
CONSTANTS
    Agents = {a, b}
    Local = local
    MaxMsgs = 3
    MaxMints = 1
    Upsets = {"clear", "pause"}
SPECIFICATION FairSpec
CHECK_DEADLOCK FALSE
PROPERTIES
    QueuedEventuallyStarts
