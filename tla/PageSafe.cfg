\* One page and another approver: a prompt, a turn, two messages and two upsets of any
\* kinds.
CONSTANTS
    Members = {ana, bo}
    Pages = {ana}
    Approvers = {ana, bo}
    ana = ana
    bo = bo
    MaxAsks = 1
    MaxTurns = 1
    MaxMessages = 2
    MaxRecent = 1
    MaxLoads = 2
    MaxUpsets = 2
    Upsets = {"cut", "role", "remove", "restart"}
SPECIFICATION Spec
CHECK_DEADLOCK FALSE
INVARIANTS
    VerdictsAreDue
    PageAgrees
    StreamFaithful
