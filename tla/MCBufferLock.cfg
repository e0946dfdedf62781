CONSTANTS
  Original = "original"
  Clones = {"clone"}
  Formats <- MCFormats
  SysFormat <- MCSysFormat
  FirstFormat <- MCFirstFormat
  ConvNBytes = 2
  SizeLimit = 16
  Requested = {0, 1, 4, 15}
  Values = {1}
  Zero = 0
  MaxSetFormats = 1
  AcmMayFail = TRUE
  NoFormat = NoFormat
  NoGrant = NoGrant
SPECIFICATION LockSpec
CHECK_DEADLOCK FALSE
INVARIANTS
  SpanIsRequest
  WrittenIsHeard
  NoAssertionFails
