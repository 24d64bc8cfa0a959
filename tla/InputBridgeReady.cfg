\* contracts/console-input-web.md:73: "Delayed acquire response after abandonment is
\* discarded".
SPECIFICATION Spec
CONSTANTS
    Clients = {b1}
    MaxQueue = 3
    MaxAsks = 3
    MaxEvents = 1
    MaxPauses = 0
    None = None
\* Browsers that stop asking, and a bridge that has ended, take no more steps.
CHECK_DEADLOCK FALSE
INVARIANT DelayedReadyDiscarded
