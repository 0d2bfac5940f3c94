CONSTANTS
    Ways = 2
    Index = {0}
    Tag = {t0, t1, t2}
    ZeroTag = t0
    Word = {0, 1}
    Byte = {0}
    Value = {a, b}
SPECIFICATION Spec
INVARIANTS TypeOK ReadsMatchShadow OneWayHits StaleOnlyIfDirty
PROPERTIES LinePortSpec SerialSpec
SYMMETRY Symmetry
