SPECIFICATION LiveSpec
CONSTANTS
  Commands <- AllCommands
  Faults <- AllFaults
  MaxFaults = 2
INVARIANTS StepOnce MaskAsSet
PROPERTIES StopsAreReal GdbTold AttnEndsWait
