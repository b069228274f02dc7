SPECIFICATION LiveSpec
CONSTANTS
  long = long
  page = page
  Images <- MCImages
  Length <- MCLength
  RomPages = 2
  PagePackets = 2
  RamPackets = 3
  Wait = 2
  MaxHazards = 2
INVARIANTS OkayMeansDone InStep ImageStarted RequestIsSpent
PROPERTIES StaysWhenAsked AutoStarts Served
