------------------------------- MODULE MCRswdp -------------------------------
(* Small instances of Rswdp for TLC. *)
EXTENDS Rswdp

CONSTANTS console, gdb, monitor, swd_thread, nobody

OneClient  == {console}
TwoClients == {console, gdb}
NoThreads  == {}
ConsoleOnly == {console}

AllFaults    == FaultKinds
LinkFaults   == {"unplug", "readError"}
WriteFault   == {"writeFail"}
NoFaults     == {}

(* One call at a time, as under _dbg_lock, though the console also reads operands
   without it, between the calls of another thread's command.                     *)
OneAtATime == \A t, u \in Threads : exec'[t] # "no" /\ exec'[u] # "no" => t = u
=============================================================================
