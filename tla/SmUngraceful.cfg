SPECIFICATION FairSpec
CONSTANTS
    ClientId = {A}
    Connection = {c1, c2}
    Topic = {t}
    AnyTopic = AnyTopic
    QoS = {0, 2}
    MaximumQoS = {0}
    PacketIdentifier = {1}
    NoClientId = NoClientId
    NoSession = NoSession
    NoMessage = NoMessage
    MaxSubscriptions = 0
    MaxMessages = 0
    MaxResends = 0
    MaxLoad = 0
PROPERTY UngracefulWithoutDisconnect
CHECK_DEADLOCK FALSE
