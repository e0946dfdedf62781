CONSTANTS
  SampleSpan = 4
  Unity = 4
  WorkSpan = 48
  Limit = 3
  MaxStreams = 5
SPECIFICATION Spec
INVARIANTS
  HeardIsClippedSum
