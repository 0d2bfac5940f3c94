CONSTANTS
    Index = {0}
    Tag = {t0, t1}
    Word = {1, 2, 3, 4}
    Byte = {0}
    Value = {a, b}
SPECIFICATION MCSpec
INVARIANTS TypeOK PmemAssertions BurstsInStep
PROPERTIES ServiceSpec LineIsAnswered
