\* One seat and the local channel; the owner removes, re-mints, re-tokens and
\* clears, the feed drops in mid-turn and the disk fails.
\* The room stops for good once MaxMsgs messages are accepted and answered.
CONSTANTS
    Agents = {a}
    Local = local
    MaxMsgs = 3
    MaxMints = 1
    Upsets = {"midturn", "remove", "clear", "disk"}
SPECIFICATION Spec
CHECK_DEADLOCK FALSE
INVARIANTS
    Accounted
    Fifo
    AnsweredOnce
PROPERTIES
    HandedAsAddressed
    LifeSpec
