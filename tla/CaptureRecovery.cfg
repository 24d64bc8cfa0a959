\* The connection the server was started with and one from the broker; answers that come
\* late; one viewer after the other; channels and sockets that are soon full.
SPECIFICATION FairSpec
CONSTANTS
    MaxConns = 2
    Backlog = 1
    MaxBuffer = 1
    MaxFrames = 3
    MaxAsks = 2
    None = None
    Viewers = {v1}
    MaxViewers = 1
    MaxQueue = 1
\* Connections and viewers are used up, and a server that has stopped takes no more steps.
CHECK_DEADLOCK FALSE
INVARIANTS InputNeedsPicture FailureClosesAll
PROPERTIES PictureContinues LostPictureNotShown UnreadIsLeft
