SPECIFICATION FairSpec
CONSTANT Connection = {c1, c2}
INVARIANTS TypeOK RunReturnsAfterNetwork NoThreadLeftJoinable
PROPERTIES StartIsNoticed ShutdownCompletes
CHECK_DEADLOCK FALSE
