SPECIFICATION Spec
CONSTANTS
  Addrs <- FiveAddrs
  Ram <- RamStart
  NumFp = 2
  NumBp = 2
  MaxWatch = 4
  None = None
  MaxHazards = 1
INVARIANT OneSlotEach
