\* Two callers, one of whom may be overtaken while it waits; the history holds one output, and
\* the second is the last there can be.
SPECIFICATION FairSpec
CONSTANTS
    Viewers = {v1, v2}
    MaxSequence = 2
    Limit = 1
    Retention = 2
    Backlog = 2
    MaxInput = 1
    MaxResize = 1
INVARIANTS ExitIsFinal
PROPERTIES ReplayIsKept DetachedEnds CloseReturns
