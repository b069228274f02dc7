----------------------------- MODULE RunControl ------------------------------
(***************************************************************************)
(* Halting, stepping and resuming the target: swdp_core_halt, _step,        *)
(* _resume and _wait_for_halt of tools/rswdp.c, used by the console's       *)
(* commands and by gdb_server of tools/gdb-bridge.c, whose F_RUNNING flag    *)
(* says whether gdb awaits a stop reply.  A command holds _dbg_lock, but    *)
(* the core runs between any two of its accesses to CDBG_CSR: one action is *)
(* one access, and any access may fail.                                     *)
(***************************************************************************)
EXTENDS Integers

CONSTANTS
  Commands,   \* the console's commands in use: "stop", "go", "step", "until", "maskints"
  Faults,     \* the kinds of failed access that happen: "post", "link"
  MaxFaults   \* how many of them

ASSUME RunAssumption == /\ Commands \subseteq {"stop", "go", "step", "until", "maskints"}
                        /\ Faults \subseteq {"post", "link"} /\ MaxFaults \in Nat

VARIABLES
  halt, step, mask,  \* C_HALT, C_STEP and C_MASKINTS of CDBG_CSR
  live,       \* the core executes: S_HALT is 0
  released,   \* history: the call that released the halted core, if nothing stopped it since
  ran,        \* history: instructions executed since, up to two
  sticky,     \* the DP's sticky error
  swdError,   \* swd_error # 0
  faults,     \* accesses that failed so far
  mode,       \* swdp_step_no_ints
  holder,     \* of _dbg_lock: "gdb", "console" or "none"
  op,         \* the run control call it makes
  task,       \* the command the call is part of
  at,         \* its next access to CDBG_CSR
  x,          \* its copy of C_HALT and C_MASKINTS
  result,     \* of the halt, step, resume or check under _dbg_lock: 0 or -1; 1 before
  asMode,     \* history: mode when that call read it
  running,    \* F_RUNNING
  gdbAt,      \* gdb_server: "check" before the poll, "poll" in it or reading packets
  attn        \* ATTN has changed since the wait began

coreVars == <<halt, step, mask, live, released, ran>>
linkVars == <<sticky, swdError, faults>>
callVars == <<mode, holder, op, task, at, x, result, asMode, running, gdbAt>>
vars == <<halt, step, mask, live, released, ran, sticky, swdError, faults, mode, holder,
          op, task, at, x, result, asMode, running, gdbAt, attn>>

Init ==
  /\ halt = FALSE /\ step = FALSE /\ mask = FALSE /\ live = TRUE
  /\ released = "none" /\ ran = 0
  /\ sticky = FALSE /\ swdError = FALSE /\ faults = 0
  /\ mode = 0 /\ holder = "none" /\ op = "none" /\ task = "none" /\ at = "none"
  /\ x = [halt |-> FALSE, mask |-> FALSE] /\ result = 1 /\ asMode = 0
  /\ running = FALSE /\ gdbAt = "check" /\ attn = FALSE

-----------------------------------------------------------------------------
(* The core *)

(* C_HALT is a request: the core halts in its own time. *)
CoreHalts == live /\ halt /\ live' = FALSE /\ UNCHANGED <<halt, step, mask, released, ran>>

(* An instruction; the core halts after one when stepping, and at a breakpoint. *)
CoreRuns ==
  /\ live /\ ran' = IF ran < 2 THEN ran + 1 ELSE ran
  /\ \/ halt' = TRUE /\ live' = FALSE
     \/ ~step /\ UNCHANGED <<halt, live>>
  /\ UNCHANGED <<step, mask, released>>

Core == (CoreHalts \/ CoreRuns) /\ UNCHANGED <<linkVars, callVars, attn>>

-----------------------------------------------------------------------------
(* Accesses to CDBG_CSR *)

Fault(kind) == kind \in Faults /\ faults < MaxFaults /\ faults' = faults + 1

(* A write that clears C_HALT releases the halted core. *)
Put(h, s, m) ==
  /\ halt' = h /\ step' = s /\ mask' = m /\ live' = (live \/ ~h)
  /\ released' = IF live THEN "none" ELSE IF h THEN released ELSE op
  /\ ran' = IF live \/ ~h THEN 0 ELSE ran

(* A write is made or not.  Posted, it may fail and report 0; the error is
   sticky and refuses the accesses after it.  When the link fails, the call
   reports -1 whether the write was made or not.                            *)
Write(h, s, m, r) ==
  \/ /\ ~sticky /\ Put(h, s, m) /\ UNCHANGED <<sticky, swdError>>
     /\ \/ r = 0 /\ UNCHANGED faults
        \/ r = -1 /\ Fault("link")
  \/ /\ UNCHANGED coreVars
     /\ \/ sticky /\ r = -1 /\ swdError' = TRUE /\ UNCHANGED <<sticky, faults>>
        \/ ~sticky /\ r = 0 /\ Fault("post") /\ sticky' = TRUE /\ UNCHANGED swdError
        \/ r = -1 /\ Fault("link") /\ UNCHANGED <<sticky, swdError>>

Read(r) ==
  /\ UNCHANGED coreVars
  /\ \/ r = 0 /\ ~sticky /\ UNCHANGED linkVars
     \/ r = -1 /\ sticky /\ swdError' = TRUE /\ UNCHANGED <<sticky, faults>>
     \/ r = -1 /\ ~sticky /\ Fault("post") /\ sticky' = TRUE /\ swdError' = TRUE
     \/ r = -1 /\ Fault("link") /\ UNCHANGED <<sticky, swdError>>

-----------------------------------------------------------------------------
(* Taking _dbg_lock, with swdp_clear_error, and giving it back *)

ClearError ==
  /\ holder = "none"
  /\ sticky' = (sticky /\ ~swdError) /\ swdError' = FALSE /\ result' = 1
  /\ UNCHANGED <<coreVars, faults, x, asMode>>

Lock(who, t, o, first) ==
  /\ ClearError /\ holder' = who
  /\ task' = t /\ op' = o /\ at' = first

(* The call ends.  gdb's flag follows the command, whatever the call returned;
   the console's step goes on to swdp_core_wait_for_halt.                   *)
End(r) ==
  /\ result' = r
  /\ IF task \in {"step", "until"} /\ at # "wait"
       THEN at' = "wait" /\ attn' = FALSE /\ UNCHANGED <<holder, task, op>>
       ELSE holder' = "none" /\ at' = "none" /\ task' = "none" /\ UNCHANGED <<op, attn>>
  /\ running' = (task \in {"c", "s"} \/ (running /\ task \notin {"?", "^C"}))

-----------------------------------------------------------------------------
(* The calls *)

WantMask_bug == mode # 0            \* as while stepping
WantMask == IF op = "step" THEN mode # 0 ELSE mode = 2
MaskOrGo(m) == IF m = WantMask THEN "go" ELSE "mask"

ReadFor ==                          \* x = CDBG_CSR
  /\ at = "read" /\ asMode' = mode
  /\ \/ /\ Read(0)
        /\ x' = [halt |-> halt, mask |-> mask]
        /\ at' = IF op = "halt" THEN "halt"
                 ELSE IF op = "step" /\ ~halt THEN "stop" ELSE MaskOrGo(mask)
        /\ UNCHANGED <<holder, op, task, result, running, attn>>
     \/ Read(-1) /\ End(-1) /\ UNCHANGED x
  /\ UNCHANGED <<mode, gdbAt>>

WriteHalt ==
  /\ at = "halt"
  /\ \E r \in {0, -1} : Write(TRUE, FALSE, x.mask, r) /\ End(r)
  /\ UNCHANGED <<mode, x, asMode, gdbAt>>

WriteStop ==                        \* "HALT if we're not already HALTED"
  /\ at = "stop"
  /\ \E r \in {0, -1} : Write(TRUE, FALSE, x.mask, r)
  /\ x' = [x EXCEPT !.halt = TRUE] /\ at' = MaskOrGo(x.mask)
  /\ UNCHANGED <<mode, holder, op, task, result, asMode, running, gdbAt, attn>>

HaltAsRead_bug == FALSE             \* C_HALT cleared too early
HaltAsRead == x.halt
WriteMask ==
  /\ at = "mask"
  /\ \E r \in {0, -1} : Write(HaltAsRead, FALSE, WantMask, r)
  /\ x' = [x EXCEPT !.mask = WantMask] /\ at' = "go"
  /\ UNCHANGED <<mode, holder, op, task, result, asMode, running, gdbAt, attn>>

WriteGo ==
  /\ at = "go"
  /\ \E r \in {0, -1} : Write(FALSE, op = "step", x.mask, r) /\ End(r)
  /\ UNCHANGED <<mode, x, asMode, gdbAt>>

(* swdp_core_wait_for_halt, ended by the core, by ^C at the terminal or by a failed
   read; "step" with an address steps on after each, if it can read the pc.      *)
WaitOver_bug == ~live
WaitOver == ~live \/ attn
WaitForHalt ==
  /\ at = "wait"
  /\ \E r \in {0, -1} : Read(r) /\ (r = 0 => WaitOver)
  /\ \/ End(result)
     \/ /\ task = "until" /\ ~sticky' /\ at' = "read" /\ result' = 1
        /\ UNCHANGED <<holder, task, op, attn, running>>
  /\ UNCHANGED <<mode, x, asMode, gdbAt>>

Interrupt == attn' = TRUE /\ UNCHANGED <<coreVars, linkVars, callVars>>

-----------------------------------------------------------------------------
(* The console's commands and gdb_server *)

ConsoleCommand ==
  /\ \E c \in Commands :
       \/ c = "stop" /\ Lock("console", c, "halt", "read")
       \/ c = "go" /\ Lock("console", c, "resume", "read")
       \/ c \in {"step", "until"} /\ Lock("console", c, "step", "read")
  /\ UNCHANGED <<mode, running, gdbAt, attn>>

Modes == {0, 1, 2}
MaskInts ==
  /\ "maskints" \in Commands /\ mode' \in Modes /\ ClearError
  /\ UNCHANGED <<holder, op, task, at, running, gdbAt, attn>>

(* "check ahead of the poll": has the core halted? *)
GdbCheck ==
  /\ gdbAt = "check"
  /\ \/ running /\ Lock("gdb", "check", "none", "csr") /\ UNCHANGED gdbAt
     \/ ~running /\ ClearError /\ gdbAt' = "poll" /\ UNCHANGED <<holder, op, task, at>>
  /\ UNCHANGED <<mode, running, attn>>

RunsStill_bug == FALSE              \* any answer taken for a halt
RunsStill == live
CheckCsr ==
  /\ at = "csr"
  /\ \/ Read(0) /\ running' = RunsStill /\ result' = 0
     \/ Read(-1) /\ UNCHANGED running /\ result' = -1
  /\ holder' = "none" /\ at' = "none" /\ task' = "none" /\ gdbAt' = "poll"
  /\ UNCHANGED <<mode, op, x, asMode, attn>>

(* gdb sends c, s or ? when it awaits no stop reply, and ^C at any time, maybe
   together with the packet before it.                                       *)
GdbCommand ==
  /\ gdbAt = "poll" /\ gdbAt' \in {"check", "poll"}
  /\ \/ ~running /\ Lock("gdb", "c", "resume", "read")
     \/ ~running /\ Lock("gdb", "s", "step", "read")
     \/ ~running /\ Lock("gdb", "?", "halt", "read")
     \/ Lock("gdb", "^C", "halt", "read")
  /\ UNCHANGED <<mode, running, attn>>

(* While F_RUNNING is set the poll ends after 10 ms; a packet ends it anyway. *)
PollEnds_bug == gdbAt = "poll" /\ holder # "gdb" /\ ~running
PollEnds == gdbAt = "poll" /\ holder # "gdb" /\ running
GdbTimeout ==
  /\ PollEnds /\ gdbAt' = "check"
  /\ UNCHANGED <<coreVars, linkVars, mode, holder, op, task, at, x, result, asMode, running, attn>>

Access == ReadFor \/ WriteHalt \/ WriteStop \/ WriteMask \/ WriteGo \/ WaitForHalt \/ CheckCsr

Next == Core \/ Access \/ Interrupt \/ ConsoleCommand \/ MaskInts \/ GdbCheck \/ GdbCommand
          \/ GdbTimeout

Spec == Init /\ [][Next]_vars

(* An access ends, the poll ends, and gdb_server gets _dbg_lock in the end.
   Nothing is assumed of the core, of gdb or of the terminal.               *)
Fairness == WF_vars(Access) /\ WF_vars(GdbTimeout) /\ SF_vars(GdbCheck)
LiveSpec == Spec /\ Fairness

-----------------------------------------------------------------------------
(* Properties *)

(* Every variable of the calls, the link and their users has its type. *)
CoreOK ==
  /\ halt \in BOOLEAN /\ step \in BOOLEAN /\ mask \in BOOLEAN /\ live \in BOOLEAN
  /\ released \in {"none", "halt", "step", "resume"} /\ ran \in 0 .. 2
LinkOK == sticky \in BOOLEAN /\ swdError \in BOOLEAN /\ faults \in 0 .. MaxFaults
CallOK ==
  /\ holder \in {"gdb", "console", "none"} /\ op \in {"halt", "step", "resume", "none"}
  /\ at \in {"read", "halt", "stop", "mask", "go", "wait", "csr", "none"}
  /\ x \in [halt : BOOLEAN, mask : BOOLEAN] /\ result \in {0, -1, 1}
  /\ mode \in 0 .. 2 /\ asMode \in 0 .. 2
UserOK ==
  /\ task \in {"stop", "go", "step", "until", "c", "s", "?", "^C", "check", "none"}
  /\ gdbAt \in {"check", "poll"} /\ running \in BOOLEAN /\ attn \in BOOLEAN
TypeOK == CoreOK /\ LinkOK /\ CallOK /\ UserOK

(* swdp_core_step lets a halted core execute one instruction at most, though it
   writes CDBG_CSR up to twice and any write may be lost: none of its writes
   before the last one releases the core.                                    *)
StepOnce == released = "step" => ran <= 1

(* When swdp_core_step or swdp_core_resume reports success and no error is
   latched, interrupts are masked exactly if maskints asked for it when the call
   was made, though the result of the write that first changes C_MASKINTS is
   ignored: the last write repeats it.                                        *)
MaskAsSet ==
  (result = 0 /\ ~sticky /\ holder = "none" /\ op \in {"step", "resume"} /\ at = "none") =>
     mask = (asMode = 2 \/ (asMode = 1 /\ op = "step"))

(* F_RUNNING is cleared only for a core that has halted or that the command
   just asked to halt, unless that request failed: gdb never takes a core that
   runs on for a stopped one.                                                 *)
StopsAreReal ==
  [][(running /\ ~running' /\ result' = 0 /\ ~sticky') => halt']_vars

(* A halt gdb waits for is noticed, whatever the console does meanwhile and
   though gdb sends nothing: gdb_server gets round to reading CDBG_CSR.       *)
GdbTold == (running /\ ~live) ~> (~running \/ live)

(* ^C at the terminal gets swdp_core_wait_for_halt, which holds _dbg_lock, to
   return although the core never halts.                                      *)
AttnEndsWait == (at = "wait" /\ attn) ~> (at # "wait")
=============================================================================
