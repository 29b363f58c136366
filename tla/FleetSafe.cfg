\* Three members beside the owner, three calls of the pool and one command; one
\* kind of upset in each behaviour, as often as it likes.
CONSTANTS
    MaxMembers = 3
    MaxActs = 3
    MaxUpsets = 1
    Upsets = {"exit", "drop", "rebind", "admin", "foreign", "norepo", "crash", "nosession"}
SPECIFICATION FairSpec
CHECK_DEADLOCK FALSE
INVARIANTS
    OneSeatPerAddress
    WorkersAreAccounted
    SidebarAgrees
PROPERTIES
    AddComesBack
