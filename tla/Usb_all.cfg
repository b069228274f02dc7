SPECIFICATION Spec
CONSTANTS
  MaxPackets = 2
  MaxResets = 1
  MaxAborts = 1
INVARIANTS Pipes
PROPERTIES Enumerates Delivered
CHECK_DEADLOCK FALSE
