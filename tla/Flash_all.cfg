SPECIFICATION Spec
CONSTANTS
  Words = 8
  Parts <- MCParts
  Jobs <- MCJobs
  MaxJobs = 2
  MaxFaults = 2
CHECK_DEADLOCK FALSE
INVARIANTS OkMeansFlashed OnlyItsSectors
