SPECIFICATION Spec
CONSTANTS
    ClientId = {A, B}
    Connection = {c1, c2}
    Topic = {t}
    AnyTopic = AnyTopic
    QoS = {0, 2}
    MaximumQoS = {0, 2, 3}
    PacketIdentifier = {1}
    NoClientId = NoClientId
    NoSession = NoSession
    NoMessage = NoMessage
    MaxSubscriptions = 2
    MaxMessages = 2
    MaxResends = 1
    MaxLoad = 2
INVARIANTS TypeOK RetainedIsLatestDispatched SubscribersGetOneCopy WillAtMostOnce
PROPERTIES WillOnlyToOthers
SYMMETRY Symmetry
CHECK_DEADLOCK FALSE
