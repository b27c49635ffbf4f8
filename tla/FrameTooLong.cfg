SPECIFICATION FairSpec
CONSTANTS
    Base = 2
    MaxLengthBytes = 3
    ReadBufferSize = 6
    Type = {1}
    BodyLength = {0, 1, 2, 3, 7}
    BodyByte = {0}
    MaxPackets = 2
    NoFrame = NoFrame
INVARIANT LongFramesAreRead
CHECK_DEADLOCK FALSE
