SPECIFICATION FairSpec
CONSTANTS
    MaxFrames = 3
    MaxSends = 1
INVARIANTS TypeOK OneReadAtATime KeepAliveIsWatched
PROPERTIES UnconnectedIsClosed SilentClientIsClosed ImplementsConnectionLife
CHECK_DEADLOCK FALSE
