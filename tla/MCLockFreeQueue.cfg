CONSTANTS
  Threads = {t1, t2, t3}
  Items = {i1, i2, i3}
  NULL = NULL
SYMMETRY Symmetry
SPECIFICATION Spec
INVARIANTS
  TypeOK
  HeldItemsUnlinked
PROPERTIES
  ImplementsAtomicQueue
  SharedItemsFrozen
