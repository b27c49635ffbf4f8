SPECIFICATION TFSpec
CONSTANTS
    Character = {"a", "b"}
    MaxTopicLength = 5
    MaxFilterLength = 5
INVARIANTS TFTypeOK SoundWithoutHash CompleteForNonEmptyLastLevel
CHECK_DEADLOCK FALSE
