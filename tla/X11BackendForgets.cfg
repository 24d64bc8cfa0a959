\* The same instance as X11Backend.cfg.
SPECIFICATION Spec
CONSTANTS
    Sizes <- MCSizes
    Preferred <- MCPreferred
    Inputs = {key, shift, button}
    Keys = {key, shift}
    Shift = shift
    MaxWire = 2
    MaxMeddles = 2
    MaxOps = 2
    None = None
\* A worker that a failed release has shut, and one whose requests are used up, take no more
\* steps.
CHECK_DEADLOCK FALSE
INVARIANT ChangeInvalidates
