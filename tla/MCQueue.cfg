SPECIFICATION Spec
CONSTANTS
  NULL = NULL
  Item = {i1, i2, i3, i4, i5}
  List = {l1, l2}
INVARIANTS
  TypeOK
  LinksInverse
PROPERTIES
  ImplementsRings
