CONSTANTS
  Contents <- Requests
  Buffers = {b1, b2}
  DeviceMayFail = TRUE
  Threads = {t1, t2}
  Api = Api
  Uses = {"play", "stop"}
  MaxPending = 1
SYMMETRY Symmetry
SPECIFICATION Spec
CHECK_DEADLOCK FALSE
INVARIANTS
  NoStreamUsedAfterFree
  NoSamplesUsedAfterFree
  IInv
  CallersSafe
  FenceMeansQuiesced
  ReaperExitClean
PROPERTIES
  NoTasksAfterStop
  ImplementsReclamation
