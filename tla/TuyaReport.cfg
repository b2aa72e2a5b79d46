SPECIFICATION Spec
CONSTANT MaxChanges = 4
INVARIANT TypeOK
PROPERTY CloudCatchesUp
