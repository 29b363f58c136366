\* Five gestures, one report of a worker, two changes of mode; whatever may go wrong,
\* in any combination.
CONSTANTS
    MaxActs = 5
    MaxRelays = 1
    MaxSwitches = 2
    Admitted = {"crash", "kill", "cross", "nostart"}
SPECIFICATION FairChatSpec
CHECK_DEADLOCK FALSE
INVARIANTS
    ViewIsOwed
    ProbesKeepToThemselves
    ChipTellsMode
PROPERTIES
    BypassTakesTwoClicks
    ProbesSettle
