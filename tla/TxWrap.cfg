SPECIFICATION FairSpec
CONSTANTS
    MaxPacketIdentifier = 1
    MaxRetries = 1
    MaxRetryCount = 2
    MaxPublications = 3
    IncomingDup = {FALSE}
    NoPublication = NoPublication
INVARIANTS TypeOK InFlightIsTimed AssertionsHold
PROPERTIES ImplementsDelivery PublishNeverFollowsPubrel
CHECK_DEADLOCK FALSE
