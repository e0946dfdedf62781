CONSTANTS
  Contents <- Requests
  Streams = {"long"}
  NFrames <- MCNFramesLong
  Period = 3
  Volumes = {0, 128, 256}
  Unity = 256
  Levels = {0, 128, 256}
  NoStream = "none"
  MaxPending = 2
SPECIFICATION Spec
INVARIANTS
  VolumeIsSet
PROPERTIES
  OneShotEnds
