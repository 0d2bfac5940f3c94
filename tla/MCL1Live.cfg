CONSTANTS
    Ways = 2
    Index = {0, 1}
    Tag = {t0, t1, t2}
    ZeroTag = t0
    Word = {0}
    Byte = {0}
    Value = {a}
SPECIFICATION FairSpec
PROPERTIES FillThenHit RequestIsServed
