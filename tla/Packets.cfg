SPECIFICATION Spec
CONSTANTS
    String <- MCString
    TopicString <- MCTopicString
    Identifier = {1, 256}
    ConnectFlags = {0, 4, 20, 28, 36, 132, 192}
    Byte = {0, 1, 2, 97}
    MaxFilters = 2
    NoPacket = NoPacket
INVARIANTS TypeOK LengthMatches ForwardedIntact AcceptsOnlyEncodings AcceptsWhatIsLegal AnswersFit
CHECK_DEADLOCK FALSE
