SPECIFICATION FairSpec
CONSTANTS
    MaxFrames = 2
    MaxSends = 1
INVARIANT BufferHoldsPendingWrites
CHECK_DEADLOCK FALSE
