\* Two browsers: one may ask while the other has control, or has just lost it.
SPECIFICATION Spec
CONSTANTS
    Clients = {b1, b2}
    MaxQueue = 2
    MaxAsks = 2
    MaxEvents = 1
    MaxPauses = 1
    None = None
\* Browsers that stop asking, and a bridge that has ended, take no more steps.
CHECK_DEADLOCK FALSE
SYMMETRY MCSymmetry
INVARIANTS SocketInStep ControlAgrees PauseEndsControl ReleaseIsBarrier GoneOwnerLoses
