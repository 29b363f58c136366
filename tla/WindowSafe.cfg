\* Four gestures; one kind of upset in each behaviour, as often as it likes.
CONSTANTS
    MaxGestures = 4
    MaxUpsets = 1
    Upsets = {"slow", "crash", "tool", "refuse", "linger", "overlap"}
SPECIFICATION FairSpec
CHECK_DEADLOCK FALSE
INVARIANTS
    SessionHasRoom
    NoOrphans
    SharingIsTold
PROPERTIES
    FeedFollows
