CONSTANTS
  Contents <- Requests
  Buffers = {b1, b2}
  DeviceMayFail = TRUE
  Threads = {t1}
  Api = Api
  Uses = {"play"}
  MaxPending = 1
SPECIFICATION Spec
CHECK_DEADLOCK FALSE
PROPERTIES
  ReleasedIsFreed
  ShutdownCompletes
