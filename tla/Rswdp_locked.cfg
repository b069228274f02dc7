CONSTANTS
  console = console
  gdb = gdb
  monitor = monitor
  swd_thread = swd_thread
  nobody = nobody
  Clients <- OneClient
  Monitor = monitor
  Reader = swd_thread
  Nobody = nobody
  BareReads <- ConsoleOnly
  SeqMod = 3
  IdReuse = FALSE
  LinkDepth = 1
  Faults <- AllFaults
  MaxFaults = 2
SPECIFICATION Spec
ACTION_CONSTRAINT OneAtATime
INVARIANTS OwnReply ErrorRemembered BufferLive HandleSafe NoLostWakeup
PROPERTIES CallsSpec OnlineByFreshAnswer
