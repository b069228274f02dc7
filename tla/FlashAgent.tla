------------------------------ MODULE FlashAgent ------------------------------
(***************************************************************************)
(* tools/debugger-commands.c run_flash_agent, and the agents it downloads     *)
(* and calls: agents/lpc13xx_lpc15xx.c, stm32fxxx.c and lpc43xx-spifi.c.      *)
(*                                                                           *)
(* The host halts and resets the core, loads the agent, and calls its         *)
(* functions: it sets the core's registers, resumes it, and polls until it    *)
(* has halted at the breakpoint at the agent's start.  The function runs      *)
(* meanwhile, and goes on when the host gives up.                             *)
(***************************************************************************)
EXTENDS FlashTarget

(* The core is halted: out of reset, at a function it never ran, in the middle of
   one, back at the agent's breakpoint, or elsewhere; it executes a function, from
   "enter", or the boot ROM, or something else.                                    *)
HaltedAt == {"reset", "entry", "paused", "back", "elsewhere"}
Halted == core.at \in HaltedAt
At(where) == [core EXCEPT !.at = where]
InitAgent ==
  /\ path \in Agents
  /\ core = [at |-> "wild", fn |-> "setup", addr |-> 0, len |-> 0, off |-> 0, r0 |-> 0,
             args |-> TRUE, lr |-> TRUE]
  /\ chip = [unlocked |-> FALSE, ready |-> TRUE]
  /\ buffer = [i \in 1 .. Part.buffer |-> Junk]

-----------------------------------------------------------------------------
(* The agents.  addr and len advance; off is the place in the buffer. *)

Return(code) == core' = IF core.lr THEN [core EXCEPT !.at = "back", !.r0 = code] ELSE At("wild")
ERR_FAIL == -1
ERR_ALIGNMENT == -3

flash_agent_setup ==
  /\ core.at = "enter" /\ core.fn = "setup"
  /\ \/ Return(0) /\ chip' = [chip EXCEPT !.unlocked = TRUE]
     \/ \* the keys written to an open lock close it
        path = "stm32" /\ chip.unlocked /\ Return(ERR_FAIL) /\ chip' = [chip EXCEPT !.unlocked = FALSE]
  /\ UNCHANGED <<flash, faults>>

(* Their erase and write, one description each: what the function refuses at once,
   the cells the next operation is about, whether the flash (or the IAP) says no, and
   whether the loop goes on after it.                                                 *)
Function(aligned, nothing, unit, refused, more) ==
  [aligned |-> aligned, nothing |-> nothing, unit |-> unit, refused |-> refused, more |-> more]
SectorStart == core.addr \in Part.starts
Pages == core.addr .. core.addr + Part.page - 1
Left(unit) == core.len - Cardinality(unit)

(* lpc13xx_lpc15xx.c: the IAP takes all sectors at once; length - 1 wraps at 0. *)
lpc_erase ==
  LET end == core.addr + core.len IN
  Function(SectorStart, FALSE, UNION {Sector(SectorOf(c)) : c \in core.addr .. end - 1},
           core.len = 0 \/ end > Words, FALSE)
lpc_write == Function(SectorStart, FALSE, Pages, FALSE, FALSE)

(* stm32fxxx.c: sector by sector until length is reached or there are no more *)
stm32_erase_bug ==   \* the loop ends one sector late
  LET unit == Sector(core.addr) IN
  Function(SectorStart, FALSE, unit, FALSE, Left(unit) >= 0 /\ core.addr + Cardinality(unit) < Words)
stm32_erase ==
  LET unit == Sector(core.addr) IN
  Function(SectorStart, FALSE, unit, FALSE, Left(unit) > 0 /\ core.addr + Cardinality(unit) < Words)
stm32_write ==
  Function(TRUE, core.len = 0, {core.addr}, ~chip.unlocked \/ core.addr >= Words, core.len > 1)

(* lpc43xx-spifi.c: the address of a serial flash wraps at its size. *)
spifi_erase ==
  LET unit == Sector(core.addr) IN Function(SectorStart, core.len = 0, unit, FALSE, Left(unit) > 0)
spifi_write == Function(SectorStart, core.len = 0, Pages, FALSE, Left(Pages) > 0)

Fn ==
  CASE path = "lpc" -> IF core.fn = "erase" THEN lpc_erase ELSE lpc_write
    [] path = "stm32" -> IF core.fn = "erase" THEN stm32_erase ELSE stm32_write
    [] path = "spifi" -> IF core.fn = "erase" THEN spifi_erase ELSE spifi_write

Enters ==
  /\ core.at = "enter" /\ core.fn # "setup"
  /\ IF ~Fn.aligned THEN Return(ERR_ALIGNMENT)
     ELSE IF Fn.nothing THEN Return(0) ELSE core' = At("running")
  /\ UNCHANGED <<flash, chip, faults>>

(* What a cell should hold, a word of the buffer or zeros to the end of the page, and
   what it does: only an erased cell can be written, and a locked flash ignores.       *)
Meant(c) ==
  LET i == c - core.addr IN
  CASE core.fn = "erase" -> Erased
    [] core.fn = "write" /\ i >= core.len -> Zero
    [] OTHER -> IF core.args /\ core.off + i < Part.buffer THEN buffer[core.off + i + 1] ELSE Junk
Written(c) ==
  CASE path = "stm32" /\ ~chip.unlocked -> flash[c]
    [] ~chip.ready \/ (core.fn = "write" /\ flash[c] # Erased) -> Junk
    [] OTHER -> Meant(c)
verify_page(unit) == path = "spifi" => \A c \in unit : Written(c) = Meant(c)
Garbled(unit) == [c \in Cells |-> IF c \in unit THEN Junk ELSE flash[c]]

Operates ==
  /\ core.at = "running" /\ ~Fn.refused
  /\ flash' = [c \in Cells |-> IF c \in Fn.unit THEN Written(c) ELSE flash[c]]
  /\ LET n == Cardinality(Fn.unit) IN
     IF ~verify_page(Fn.unit) THEN Return(ERR_FAIL)
     ELSE IF ~Fn.more THEN Return(0)
     ELSE core' = [core EXCEPT !.addr = IF path = "spifi" THEN (@ + n) % Words ELSE @ + n, !.len = @ - n, !.off = @ + n]
  /\ UNCHANGED <<chip, faults>>
OperationFails ==
  /\ core.at = "running" /\ Return(ERR_FAIL) /\ UNCHANGED chip
  /\ \/ Fn.refused /\ UNCHANGED <<flash, faults>>
     \/ ~Fn.refused /\ Fault /\ flash' = Garbled(Fn.unit)

(* The boot ROM ends at the watchpoint, or runs on into the program once the host
   has taken that away.                                                           *)
RomEnds ==
  /\ core.at = "rom" /\ chip' = [chip EXCEPT !.ready = TRUE]
  /\ core' = At(IF stage = "romWait" THEN "elsewhere" ELSE "wild")
  /\ UNCHANGED <<flash, faults>>
WildHalts == core.at = "wild" /\ core' = At("elsewhere") /\ UNCHANGED <<flash, chip, faults>>

TargetSteps ==
  /\ flash_agent_setup \/ Enters \/ Operates \/ OperationFails \/ RomEnds \/ WildHalts
  /\ UNCHANGED <<jobVars, buffer, line, stage, callee, pos, result>>

-----------------------------------------------------------------------------
(* The host: run_flash_agent, a stage for every access whose loss matters.  An
   access whose result is ignored may be lost alone; one that is checked, or the
   link, fails in GivesUp, and so does ^C while the core runs.                    *)

To(next) == stage' = next /\ UNCHANGED <<pos, result>>
Begins ==
  /\ \E j \in Jobs :
       Starts(j, CASE j.op = "exec" -> "runHalt" [] j.op = "load" -> "download" [] OTHER -> "attach")
  /\ UNCHANGED <<path, targetVars, callee, faults>>
GivesUp == stage # "idle" /\ Ends("fail") /\ UNCHANGED <<jobVars, targetVars, callee, pos, faults>>

do_attach == stage = "attach" /\ To("halt") /\ UNCHANGED <<jobVars, targetVars, callee, faults>>

(* do_download: the file goes to RAM under the running core, maybe over the agent's
   data buffer.                                                                     *)
do_download ==
  /\ stage = "download" /\ Ends("ok")
  /\ buffer' \in {buffer, [i \in DOMAIN buffer |-> Junk]}
  /\ UNCHANGED <<jobVars, flash, chip, core, callee, pos, faults>>

Stopped ==
  CASE Halted -> core
    [] core.at = "enter" -> At("entry")
    [] core.at = "running" -> At("paused")
    [] OTHER -> At("elsewhere")
Resumed ==
  CASE core.at = "entry" -> At("enter")
    [] core.at = "paused" -> At("running")
    [] core.at = "back" -> core
    [] OTHER -> At("wild")
(* do_run: halt, the file to RAM, then sp, pc and psr and resume, any of which may be
   lost: without its pc the core goes on with what it was halted in.                 *)
do_run ==
  \/ /\ stage = "runHalt" /\ To("runLoad")
     /\ \/ core' = Stopped /\ UNCHANGED faults
        \/ Fault /\ UNCHANGED core
     /\ UNCHANGED <<jobVars, flash, chip, buffer, callee>>
  \/ /\ stage = "runLoad" /\ To("runGo") /\ UNCHANGED <<jobVars, targetVars, callee, faults>>
  \/ /\ stage = "runGo" /\ Ends("ok")
     /\ \/ core' = (IF Halted THEN At("wild") ELSE core) /\ UNCHANGED faults
        \/ Fault /\ core' \in {core, IF Halted THEN Resumed ELSE core}
     /\ UNCHANGED <<jobVars, flash, chip, buffer, callee, pos>>

(* do_reset_stop: swdp_core_halt; the vector catch and the reset, each of which may
   be lost, before do_stop.  A reset while the flash is at work leaves that undone. *)
Halts ==
  /\ stage = "halt" /\ To("reset")
  /\ \/ core' = Stopped /\ UNCHANGED faults
     \/ Fault /\ UNCHANGED core
  /\ UNCHANGED <<jobVars, flash, chip, buffer, callee>>
Torn == {flash} \cup (IF core.at = "running" /\ ~Fn.refused THEN {Garbled(Fn.unit)} ELSE {})
AfterReset == IF path = "lpc" THEN "rom" ELSE "load"
do_reset_stop ==
  /\ stage = "reset" /\ To(AfterReset)
  /\ \/ /\ flash' \in Torn /\ UNCHANGED lost
        /\ \/ core' = At("reset") /\ chip' = [unlocked |-> FALSE, ready |-> path # "lpc"] /\ UNCHANGED faults
           \/ Fault /\ core' = At("elsewhere") /\ chip' = [unlocked |-> FALSE, ready |-> TRUE]
     \/ \* without it the boot ROM an earlier command stopped is never run
        /\ Fault /\ lost' = ~chip.ready /\ UNCHANGED <<flash, chip>>
        /\ core' = Stopped
  /\ UNCHANGED <<path, job, jobs, mayTouch, buffer, callee>>

(* FLAG_BOOT_ROM_HACK: the watchpoint is checked, the rest is not. *)
BootRom ==
  /\ stage = "rom" /\ To("romWait")
  /\ \/ /\ core' = IF core.at = "reset" THEN At("rom") ELSE IF Halted THEN At("wild") ELSE core
        /\ UNCHANGED <<faults, lost>>
     \/ Fault /\ lost' = TRUE /\ UNCHANGED core
  /\ UNCHANGED <<path, job, jobs, mayTouch, flash, chip, buffer, callee>>
BootRomOver == stage = "romWait" /\ To("load") /\ UNCHANGED <<jobVars, targetVars, callee, faults>>

Loads ==
  /\ stage = "load" /\ To("call") /\ callee' = "setup"
  /\ UNCHANGED <<jobVars, targetVars, faults>>

(* invoke: the registers, and resume.  A core that is not halted takes none. *)
Xfer == IF job.size - pos > Part.buffer THEN Part.buffer ELSE job.size - pos
FirstArg == CASE callee = "setup" -> 0 [] callee = "erase" -> job.addr [] callee = "write" -> job.addr + pos
Called ==
  [at |-> "enter", fn |-> callee, off |-> 0, r0 |-> FirstArg, args |-> TRUE, lr |-> TRUE,
   addr |-> FirstArg,
   len  |-> CASE callee = "setup" -> 0 [] callee = "erase" -> job.size [] callee = "write" -> Xfer]
(* Without its write a register holds what the last call left: r0 that call's result,
   0; r1 to r3 and lr anything; pc the agent's breakpoint, where the core halts again
   with the new call's first argument in r0.                                         *)
Missed ==
  {[Called EXCEPT !.addr = core.r0, !.r0 = core.r0], [Called EXCEPT !.args = FALSE], [Called EXCEPT !.lr = FALSE]}
    \cup {[Called EXCEPT !.len = n] : n \in 0 .. Words}
    \cup {IF core.at = "back" THEN [Called EXCEPT !.at = "back"]
          ELSE [Called EXCEPT !.at = "wild"]}
invoke ==
  /\ stage = "call" /\ To("wait")
  /\ \/ core' = (IF Halted THEN Called ELSE core) /\ UNCHANGED <<faults, lost, mayTouch>>
     \/ Halted /\ Fault /\ core' \in Missed /\ lost' = TRUE /\ mayTouch' = Cells
     \/ Halted /\ Fault /\ core' = [Called EXCEPT !.at = "entry"] /\ UNCHANGED <<lost, mayTouch>>
  /\ UNCHANGED <<path, job, jobs, flash, chip, buffer, callee>>

(* invoke's end: the core has halted; pc and r0 are read back. *)
Invoked_bug == stage = "wait" /\ Halted /\ core.r0 = 0   \* pc is not looked at
Invoked == stage = "wait" /\ Halted /\ core.at = "back" /\ core.r0 = 0
WaitFails == stage = "wait" /\ Halted /\ ~Invoked /\ Ends("fail") /\ UNCHANGED <<jobVars, targetVars, callee, pos, faults>>

Whole(j) == IF j.size = All THEN [j EXCEPT !.size = Words] ELSE j
AfterSetup ==
  /\ Invoked /\ callee = "setup" /\ job' = Whole(job)
  /\ IF job'.addr + job'.size > Words THEN Ends("fail") /\ UNCHANGED <<pos, callee>>
     ELSE To("call") /\ callee' = "erase"
AfterErase ==
  /\ Invoked /\ callee = "erase" /\ UNCHANGED <<job, pos, callee>>
  /\ IF job.op = "erase" \/ job.size = 0 THEN Ends("ok") ELSE stage' = "fill" /\ UNCHANGED result
AfterWrite ==
  /\ Invoked /\ callee = "write" /\ pos' = pos + Xfer /\ UNCHANGED <<job, callee>>
  /\ IF pos' = job.size THEN Ends("ok") ELSE stage' = "fill" /\ UNCHANGED result
CallsNext ==
  /\ AfterSetup \/ AfterErase \/ AfterWrite
  /\ UNCHANGED <<path, jobs, lost, mayTouch, targetVars, faults>>

Fills ==
  /\ stage = "fill" /\ To("call") /\ callee' = "write"
  /\ buffer' = [i \in 1 .. Part.buffer |-> IF i <= Xfer THEN Image(pos + i) ELSE buffer[i]]
  /\ UNCHANGED <<jobVars, flash, chip, core, faults>>

HostSteps ==
  /\ \/ Begins \/ GivesUp \/ do_download \/ do_run \/ do_attach \/ Halts \/ do_reset_stop \/ BootRom \/ BootRomOver
     \/ Loads \/ invoke \/ WaitFails \/ CallsNext \/ Fills
  /\ UNCHANGED line

AgentSteps == path \in Agents /\ (TargetSteps \/ HostSteps)
=============================================================================
