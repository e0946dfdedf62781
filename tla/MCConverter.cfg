CONSTANTS
  Formats <- MCFormats
  SysFormat <- MCSysFormat
  MaxNBytes = 9
  SizeLimit = 64
  Unset = Unset
SPECIFICATION Spec
CHECK_DEADLOCK FALSE
INVARIANTS
  BufferLongEnough
  PositionTracks
  PositionNearEnd
