SPECIFICATION FairSpec
CONSTANTS
    MaxPacketIdentifier = 2
    MaxRetries = 1
    MaxRetryCount = 2
    MaxPublications = 2
    MaxClientRetries = 2
    NoPublication = NoPublication
INVARIANT TypeOK
PROPERTIES EveryPublicationEnds ImplementsDelivery
CHECK_DEADLOCK FALSE
