\* Connections that replace each other; two requests on one slot, so that the second needs
\* what the first has left.
SPECIFICATION FairSpec
CONSTANTS
    Conns = {d1, d2}
    Reqs = {r1, r2}
    Slots = 1
    None = None
\* A revoked device and a manager without requests take no more steps.
CHECK_DEADLOCK FALSE
INVARIANTS HubMatchesHandlers RevokedIsOff PendingIsInUse
PROPERTIES ReplacementStays InterruptedEnds
