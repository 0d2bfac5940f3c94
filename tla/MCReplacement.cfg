CONSTANT Ways = 8
SPECIFICATION Spec
INVARIANTS CodeIsTheTree LastUsedIsKept MissesVisitEveryWay
