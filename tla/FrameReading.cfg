SPECIFICATION FairSpec
CONSTANTS
    Base = 2
    MaxLengthBytes = 3
    ReadBufferSize = 8
    Type = {1, 3}
    BodyLength = {0, 1, 2, 4, 7}
    BodyByte = {0, 2}
    MaxPackets = 3
    NoFrame = NoFrame
INVARIANTS TypeOK OnlyOverlongIsMalformed
PROPERTY ImplementsFrameStream
CHECK_DEADLOCK FALSE
