------------------------------ MODULE FlashTarget ------------------------------
(***************************************************************************)
(* A target's memory and the ways the host tools write it: through SWD, with  *)
(* an agent that runs on the target (FlashAgent), and through the loaders in  *)
(* the ROM of an STM32 (Stm32Boot, serial) and of an LPC (Dfu, to RAM, over   *)
(* USB).  Flash composes them.                                                *)
(*                                                                           *)
(* A cell of the flash is one word.  What it holds is a word of the image     *)
(* (numbered, and told apart from the words of an earlier command), or one of *)
(* Old, Erased, Zero and Junk.                                                *)
(***************************************************************************)
EXTENDS Integers, Sequences, FiniteSets

CONSTANTS
  Words,      \* cells of the flash
  Parts,      \* for each path: sector starts, words programmed at once, data buffer
  Jobs,       \* the commands given: flash, erase, exec or load, an address, a size in words
  MaxJobs,
  MaxFaults   \* accesses lost without notice, frames damaged, flash errors

Agents == {"lpc", "stm32", "spifi"}
Paths == Agents \cup {"serial", "dfu"}
Cells == 0 .. Words - 1
All == 4 * Words      \* "erase all": a size of 0xffffffff

(* Sectors are whole pages.  agent/flash.h: a data buffer holds a multiple of what write
   needs aligned, for lpc13xx_lpc15xx.c, which writes once, just that much (4096 bytes).
   The serial ROM erases all sectors at once; the flash of the STM32s in arch/, 128 KB
   at least, has room for all that the serial tool reads, 32 KB.                        *)
ASSUME PartsAssumption ==
  /\ {Words, MaxJobs, MaxFaults} \subseteq Nat
  /\ \A p \in Paths :
       /\ 0 \in Parts[p].starts /\ Parts[p].starts \subseteq Cells
       /\ Parts[p].page \in Nat \ {0} /\ Parts[p].buffer \in Nat
       /\ p # "serial" => Parts[p].buffer % Parts[p].page = 0
       /\ p # "dfu" => Parts[p].buffer > 0
       /\ p \in Agents => \A s \in Parts[p].starts \cup {Words} : s % Parts[p].page = 0
  /\ Parts["lpc"].buffer = Parts["lpc"].page
  /\ Parts["serial"].starts = {0} /\ Parts["serial"].buffer <= Words
ASSUME JobsAssumption ==
  Jobs \subseteq [op : {"flash", "erase", "exec", "load"}, addr : Nat, size : Nat]

VARIABLES
  path,       \* which agent, or the serial line, or DFU
  flash, chip,   \* chip: unlocked, and the ROM has set the flash's timing up
  core, buffer,  \* the core, and the data buffer in the target's RAM
  line,       \* the serial line or USB, and the ROM at its other end
  stage, callee, \* where the host is; the agent's function it is at
  job, jobs, pos,   \* the command, which one it is, and the words done of it
  result,
  faults,
  lost,       \* history: an access this command relies on was lost unnoticed
  mayTouch    \* history: the cells the commands so far have a right to change

targetVars == <<flash, chip, core, buffer>>
jobVars == <<path, job, jobs, lost, mayTouch>>
vars == <<jobVars, targetVars, line, stage, callee, pos, result, faults>>

Old == -1
Erased == -2
Zero == -3
Junk == -4
Header == -5
Image(i) == 100 * jobs + i
(* What dfu sends: the program behind a header *)
Stream == [i \in 1 .. job.size + 1 |-> IF i = 1 THEN Header ELSE Image(i - 1)]

Part == Parts[path]
SectorOf(c) == CHOOSE s \in Part.starts : s <= c /\ \A t \in Part.starts : t <= c => t <= s
Sector(s) == {c \in Cells : SectorOf(c) = s}
Region(j) == {c \in Cells : j.addr <= c /\ c < j.addr + j.size}
(* The sectors a command may touch: stm32fxxx.c erases the first before it looks
   at the length, so also when that is 0.                                        *)
Covering(j) ==
  UNION {Sector(SectorOf(c)) :
    c \in Region(IF path = "stm32" /\ j.size = 0 THEN [j EXCEPT !.size = 1] ELSE j)}

Fault == faults < MaxFaults /\ faults' = faults + 1

FlashInit ==
  /\ path \in Paths /\ flash = [c \in Cells |-> Old]
  /\ stage = "idle" /\ callee = "setup" /\ jobs = 0 /\ pos = 0 /\ result = "none"
  /\ job = [op |-> "none", addr |-> 0, size |-> 0]
  /\ faults = 0 /\ lost = FALSE /\ mayTouch = {}

(* do_flash, do_erase, do_run, do_download; the serial tool's main; lpcboot dfu *)
Starts(j, first) ==
  /\ stage = "idle" /\ jobs < MaxJobs /\ jobs' = jobs + 1
  /\ job' = j /\ pos' = 0 /\ result' = "none" /\ lost' = FALSE /\ stage' = first
  /\ mayTouch' = mayTouch \cup (IF j.op \in {"flash", "erase"} THEN Covering(j) ELSE {})
Ends(r) == stage' = "idle" /\ result' = r

-----------------------------------------------------------------------------
(* When a command reports success, the flash (for dfu, the RAM) holds its image, and
   nothing stale is left in the sectors it erased: although the result of most accesses is ignored,
   the target's function may be interrupted, fail, never start or end elsewhere,
   and an earlier command's may still be running.  Not so when the access that is
   lost is one of those that set a function's arguments or start the boot ROM.    *)
OkMeansFlashed ==
  result = "ok" /\ ~lost =>
    /\ job.op = "flash" => \A i \in 1 .. job.size : flash[job.addr + i - 1] = Image(i)
    /\ \A c \in Covering(job) :
         job.op = "erase" \/ (job.op = "flash" /\ c \notin Region(job)) => flash[c] \in {Erased, Zero}
    /\ path = "dfu" => line.image = Stream

(* Whatever fails, and however commands are given up and started over, no command
   touches a sector that holds none of its cells.                                 *)
OnlyItsSectors == \A c \in Cells \ mayTouch : flash[c] = Old
=============================================================================
