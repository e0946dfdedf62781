CONSTANTS
  Lists = {"tasks", "tasks_pending"}
  Nodes = {n1, n2, n3, n4}
  NULL = NULL
  Poison = Poison
SPECIFICATION Spec
INVARIANTS
  AssertionsHold
PROPERTIES
  ImplementsSequences
