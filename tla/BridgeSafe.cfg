\* Two seats, two messages and two upsets of any kinds.
CONSTANTS
    Handles = {ana, bo}
    ana = ana
    bo = bo
    MaxMessages = 2
    MaxMishaps = 2
    Mishaps = {"drop", "crash", "exit"}
SPECIFICATION FairBridgeSpec
CHECK_DEADLOCK FALSE
INVARIANTS
    HeardAsSent
    HeardOrTold
PROPERTIES
    SeatComesBack
