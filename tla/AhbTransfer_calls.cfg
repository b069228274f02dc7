CONSTANTS
  PageWords = 4
  MaxWords = 13
  Overhead = 10
  Starts <- FewStarts
  Counts <- FewCounts
  Skews = {0, 2}
  Core = 2
  Dwt = 5
  CoreRegs = 2
SPECIFICATION Spec
INVARIANTS OnlyAsked SuccessIsComplete BlockFits
