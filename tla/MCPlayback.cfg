CONSTANTS
  Contents <- Requests
  Streams = {"long", "short"}
  NFrames <- MCNFrames
  Period = 3
  Volumes = {0, 256}
  Unity = 256
  Levels = {}
  NoStream = "none"
  MaxPending = 2
SPECIFICATION Spec
INVARIANTS
  IteratorStaysInList
  RenderIsContiguous
  MixedAsAsked
  StatusIsTrue
