SPECIFICATION LiveSpec
CONSTANTS
  t1 = t1
  t2 = t2
  top = top
  Threads = {t1, t2}
  ListHead = top
  Memories <- AllMemories
  MaxFaults = 1
  MaxRead = 4
  Junk = 9999
  Requests <- AllRequests
  Printers <- OneMore
  MaxPrints = 1
  Mishaps <- AllMishaps
  MaxAddr = 3
  MaxLen = 5
INVARIANTS InStep PacketsWhole SelectionLive ThreadsAsInTarget FreshAtStop WritesExact ReadsExact

PROPERTY Answered
