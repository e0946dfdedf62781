CONSTANTS
  Streams = {s1}
  Clients = {k1, k2}
  Commands = {c1, c2, c3}
  Volumes = {"unity"}
  Unity = "unity"
  NoStream = NoStream
SPECIFICATION Spec
CHECK_DEADLOCK FALSE
INVARIANTS
  OneOwner
  ChamberEmptyAtIntake
PROPERTIES
  ImplementsCommandPipe
  CommandsComeBack
