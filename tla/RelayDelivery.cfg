SPECIFICATION FairSpec
CONSTANTS
    RxMaxPacketIdentifier = 1
    RxMaxPublications = 1
    MaxClientRetries = 1
    TxMaxPacketIdentifier = 2
    TxMaxPublications = 2
    MaxRetries = 0
    MaxRetryCount = 1
    MaximumQoS = {"AT_MOST_ONCE", "AT_LEAST_ONCE", "EXACTLY_ONCE"}
    NoPublication = NoPublication
INVARIANTS TypeOK ExactlyOnceEndToEnd
PROPERTIES CompletedIsNotLost StoppedOnlyAfterRepetition
CHECK_DEADLOCK FALSE
