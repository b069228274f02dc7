CONSTANTS
  console = console
  gdb = gdb
  monitor = monitor
  swd_thread = swd_thread
  nobody = nobody
  Clients <- OneClient
  Monitor = monitor
  Reader = swd_thread
  Nobody = nobody
  BareReads <- NoThreads
  SeqMod = 3
  IdReuse = TRUE
  LinkDepth = 1
  Faults <- WriteFault
  MaxFaults = 1
SPECIFICATION FairSpec
PROPERTY ConnectionComesOnline
