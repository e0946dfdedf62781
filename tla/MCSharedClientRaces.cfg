CONSTANTS
  Threads = {t1, t2}
  Commands = {c1, c2, c3}
  NULL = NULL
SPECIFICATION Spec
INVARIANTS
  OneTaker
