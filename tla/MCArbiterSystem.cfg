CONSTANTS
    Index = {0, 1}
    Tag = {t0, t1}
    Word = {0}
    Byte = {0}
    Value = {a, b}
SPECIFICATION FairSpec
INVARIANTS AnswerIsForOwner AnsweredLine BoundedOvertaking
PROPERTIES LowerRequestSteady DataServiceSpec RequestsAreAnswered
