CONSTANTS
    W = 4
    Messages <- MCMessages
    FeedBound = 4
SPECIFICATION Spec
INVARIANTS ArithmeticIsExact StatusIsGood PositionsFollowTheFeed
PROPERTIES ProgramsEnd
CHECK_DEADLOCK FALSE
