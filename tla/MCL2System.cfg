CONSTANTS
    Ways = 2
    Index = {0}
    Tag = {t0, t1, t2}
    ZeroTag = t0
    Word = {0}
    Byte = {0}
    Value = {a, b}
SPECIFICATION Spec
INVARIANTS TypeOK OneWayHits StaleOnlyIfDirty
PROPERTIES LinePortSpec ServiceSpec
SYMMETRY Symmetry
