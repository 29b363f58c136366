\* Four events, two to a full buffer; a window in which one cycle may exhaust
\* the budget and two notes are said; one signal is remembered. It stops when
\* nothing more happens.
CONSTANTS
    s1 = s1
    s2 = s2
    Signals = {s1, s2}
    MaxNoted = 4
    MaxEvents = 2
    Debounce = 1
    MinInterval = 2
    Window = 3
    Cap = 2
    MaxCost = 2
    NotesPerWindow = 2
    MaxAnnounced = 1
    Failures = {"full"}
SPECIFICATION FairObserverSpec
CHECK_DEADLOCK FALSE
INVARIANTS
    EventsAccounted
    BudgetHolds
PROPERTIES
    ReachesTheModel
