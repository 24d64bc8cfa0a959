\* A screen with outputs that another client may meddle with, and two requests of the worker: a
\* snapshot and input over it, a resize and the restoration of the one before it.
SPECIFICATION Spec
CONSTANTS
    Sizes <- MCSizes
    Preferred <- MCPreferred
    Inputs = {key, shift, button}
    Keys = {key, shift}
    Shift = shift
    MaxWire = 2
    MaxMeddles = 2
    MaxOps = 2
    None = None
\* A worker that a failed release has shut, and one whose requests are used up, take no more
\* steps.
CHECK_DEADLOCK FALSE
INVARIANTS HeldCoversDown NothingDownInTransaction OneLateRequest SnapshotShowsItsLayout InputMatchesPicture ReportIsTrue UndoWorks
