\* Anything may fail anywhere. Two members who may each be the last owner: one who
\* comes and goes by invitation, one by the fleet.
CONSTANTS
    People = {p1}
    Workers = {w1}
    Upsets = {"crash", "full", "swap"}
SPECIFICATION Spec
INVARIANTS
    Recoverable
    OwnerOnDisk
    BanBeforeRemoval
