--------------------------- MODULE RunControlProofs ---------------------------
(***************************************************************************)
(* Theorems about RunControl, for every set of console commands and every     *)
(* number and kind of failed accesses.                                        *)
(***************************************************************************)
EXTENDS RunControl, TLAPS

(* Where the code is in a call says what the call is and what it holds. *)
Place ==
  /\ at # "none" => holder # "none"
  /\ at = "read" => op \in {"halt", "step", "resume"}
  /\ at = "halt" => op = "halt"
  /\ at = "stop" => op = "step"
  /\ at \in {"mask", "go"} => op \in {"step", "resume"}
  /\ at = "csr" => op = "none"
  /\ at = "wait" => task \in {"step", "until"}
  /\ task \in {"?", "^C"} => op = "halt"
  /\ task \in {"step", "until"} => op = "step"

(* A halted core has C_HALT set; a core released for a step has C_STEP set until
   it has executed its instruction; and a step about to write keeps C_HALT.      *)
Stepping ==
  /\ ~live => halt
  /\ released = "step" => ran <= 1 /\ (live => step /\ ran = 0)
  /\ at \in {"mask", "go"} /\ op = "step" => x.halt

(* MASKINTS as asked for, first of the value to be written, then of CDBG_CSR. *)
Right(m) == m = (asMode = 2 \/ (asMode = 1 /\ op = "step"))
Masking ==
  /\ at \in {"stop", "mask", "go"} => asMode = mode
  /\ at = "go" => Right(x.mask)
  /\ result = 0 /\ ~sticky /\ op \in {"step", "resume"} /\ at \in {"wait", "none"} => Right(mask)

IInv == CoreOK /\ LinkOK /\ CallOK /\ UserOK /\ Place /\ Stepping /\ Masking

-----------------------------------------------------------------------------
(* What an access does to the core and the link *)

LEMMA FaultFacts ==
  ASSUME LinkOK, NEW kind, Fault(kind)
  PROVE  faults' \in 0 .. MaxFaults
BY RunAssumption DEF RunAssumption, LinkOK, Fault

(* A write is made or not; one that reports 0 was made, or left its error latched. *)
LEMMA WriteFacts ==
  ASSUME CoreOK, LinkOK, op \in {"halt", "step", "resume"},
         NEW h \in BOOLEAN, NEW s \in BOOLEAN, NEW m \in BOOLEAN, NEW r \in {0, -1},
         Write(h, s, m, r)
  PROVE  /\ CoreOK' /\ LinkOK'
         /\ Put(h, s, m) \/ UNCHANGED coreVars
         /\ r = 0 /\ ~sticky' => halt' = h /\ mask' = m
<1>1. LinkOK'
  BY FaultFacts DEF Write, LinkOK
<1>2. Put(h, s, m) \/ UNCHANGED coreVars
  BY DEF Write
<1>3. r = 0 /\ ~sticky' => Put(h, s, m)
  BY DEF Write
<1>4. Put(h, s, m) => CoreOK' /\ halt' = h /\ mask' = m
  BY DEF Put, CoreOK
<1>5. UNCHANGED coreVars => CoreOK'
  BY DEF coreVars, CoreOK
<1>6. QED BY <1>1, <1>2, <1>3, <1>4, <1>5

LEMMA ReadFacts ==
  ASSUME LinkOK, NEW r, Read(r)
  PROVE  LinkOK' /\ UNCHANGED coreVars
<1>1. LinkOK'
  BY FaultFacts DEF Read, LinkOK, linkVars
<1>2. QED BY <1>1 DEF Read

-----------------------------------------------------------------------------
(* One lemma per action *)

LEMMA CoreHaltsKeeps ==
  ASSUME IInv, CoreHalts, UNCHANGED <<linkVars, callVars, attn>>
  PROVE  IInv'
<1> USE DEF IInv
<1>1. CoreOK'
  BY DEF CoreHalts, CoreOK
<1>2. LinkOK'
  BY DEF linkVars, LinkOK
<1>3. CallOK'
  BY DEF callVars, CallOK
<1>4. UserOK'
  BY DEF callVars, UserOK
<1>5. Place'
  BY DEF callVars, Place
<1>6. Stepping'
  BY DEF CoreHalts, Stepping, callVars, CoreOK
<1>7. Masking'
  <2>1. UNCHANGED <<at, asMode, mode, x, op, result, sticky, mask>>
    BY DEF CoreHalts, callVars, linkVars
  <2>2. QED BY <2>1 DEF Masking, Right, CallOK, CoreOK
<1>8. QED BY <1>1, <1>2, <1>3, <1>4, <1>5, <1>6, <1>7

LEMMA CoreRunsKeeps ==
  ASSUME IInv, CoreRuns, UNCHANGED <<linkVars, callVars, attn>>
  PROVE  IInv'
<1> USE DEF IInv
<1>1. CoreOK'
  <2>1. ran \in 0 .. 2 /\ ran' = IF ran < 2 THEN ran + 1 ELSE ran
    BY DEF CoreRuns, CoreOK
  <2>2. ran' \in 0 .. 2 /\ (ran = 0 => ran' = 1)
    BY <2>1
  <2>3. QED BY <2>2 DEF CoreRuns, CoreOK
<1>2. LinkOK'
  BY DEF linkVars, LinkOK
<1>3. CallOK'
  BY DEF callVars, CallOK
<1>4. UserOK'
  BY DEF callVars, UserOK
<1>5. Place'
  BY DEF callVars, Place
<1>6. Stepping'
  <2>1. UNCHANGED <<at, op, x, released>> /\ live /\ (halt' \/ live')
    BY DEF CoreRuns, callVars
  <2>2. released = "step" => step /\ ran = 0
    BY <2>1 DEF Stepping
  <2>3. released = "step" => ran' = 1 /\ ~live'
    BY <2>2 DEF CoreRuns
  <2>4. QED BY <2>1, <2>3 DEF Stepping
<1>7. Masking'
  <2>1. UNCHANGED <<at, asMode, mode, x, op, result, sticky, mask>>
    BY DEF CoreRuns, callVars, linkVars
  <2>2. QED BY <2>1 DEF Masking, Right, CallOK, CoreOK
<1>8. QED BY <1>1, <1>2, <1>3, <1>4, <1>5, <1>6, <1>7

LEMMA ReadForKeeps ==
  ASSUME IInv, ReadFor
  PROVE  IInv'
<1> USE DEF IInv
<1>0. LinkOK' /\ UNCHANGED coreVars
  BY ReadFacts DEF ReadFor
<1>1. CoreOK'
  BY <1>0 DEF coreVars, CoreOK
<1>2. LinkOK'
  BY <1>0
<1>3. CallOK'
  BY DEF ReadFor, CallOK, CoreOK, End, MaskOrGo
<1>4. UserOK'
  BY DEF ReadFor, UserOK, End
<1>5. Place'
  BY DEF ReadFor, Place, CallOK, End, MaskOrGo
<1>6. Stepping'
  BY <1>0 DEF ReadFor, Stepping, CallOK, CoreOK, End, MaskOrGo, coreVars
<1>7. Masking'
  BY <1>0 DEF ReadFor, Masking, Right, CallOK, CoreOK, End, MaskOrGo, WantMask, coreVars
<1>8. QED BY <1>1, <1>2, <1>3, <1>4, <1>5, <1>6, <1>7

LEMMA WriteHaltKeeps ==
  ASSUME IInv, WriteHalt
  PROVE  IInv'
<1> USE DEF IInv
<1>0. PICK r \in {0, -1} : Write(TRUE, FALSE, x.mask, r) /\ End(r)
  BY DEF WriteHalt
<1>9. op \in {"halt", "step", "resume"} /\ x.mask \in BOOLEAN
  BY DEF WriteHalt, Place, CallOK
<1>10. /\ CoreOK' /\ LinkOK'
       /\ Put(TRUE, FALSE, x.mask) \/ UNCHANGED coreVars
       /\ r = 0 /\ ~sticky' => halt' = TRUE /\ mask' = x.mask
  BY <1>0, <1>9, WriteFacts
<1>1. CoreOK'
  BY <1>10
<1>2. LinkOK'
  BY <1>10
<1>3. CallOK'
  BY <1>0, <1>9 DEF WriteHalt, CallOK, End
<1>4. UserOK'
  BY <1>0 DEF WriteHalt, UserOK, End
<1>5. Place'
  BY <1>0 DEF WriteHalt, Place, CallOK, End
<1>6. Stepping'
  BY <1>0, <1>9, <1>10 DEF WriteHalt, Stepping, Place, CallOK, CoreOK, Put, coreVars, End
<1>7. Masking'
  BY <1>0, <1>9, <1>10 DEF WriteHalt, Masking, Right, Place, CallOK, CoreOK, LinkOK, End
<1>8. QED BY <1>1, <1>2, <1>3, <1>4, <1>5, <1>6, <1>7

LEMMA WriteStopKeeps ==
  ASSUME IInv, WriteStop
  PROVE  IInv'
<1> USE DEF IInv
<1>0. PICK r \in {0, -1} : Write(TRUE, FALSE, x.mask, r)
  BY DEF WriteStop
<1>9. op \in {"halt", "step", "resume"} /\ x.mask \in BOOLEAN
  BY DEF WriteStop, Place, CallOK
<1>10. /\ CoreOK' /\ LinkOK'
       /\ Put(TRUE, FALSE, x.mask) \/ UNCHANGED coreVars
       /\ r = 0 /\ ~sticky' => halt' = TRUE /\ mask' = x.mask
  BY <1>0, <1>9, WriteFacts
<1>1. CoreOK'
  BY <1>10
<1>2. LinkOK'
  BY <1>10
<1>3. CallOK'
  BY <1>0, <1>9 DEF WriteStop, CallOK, MaskOrGo, WantMask
<1>4. UserOK'
  BY <1>0 DEF WriteStop, UserOK, MaskOrGo, WantMask
<1>5. Place'
  BY <1>0 DEF WriteStop, Place, CallOK, MaskOrGo, WantMask
<1>6. Stepping'
  BY <1>0, <1>9, <1>10 DEF WriteStop, Stepping, Place, CallOK, CoreOK, Put, coreVars, MaskOrGo, WantMask
<1>7. Masking'
  BY <1>0, <1>9, <1>10 DEF WriteStop, Masking, Right, Place, CallOK, CoreOK, LinkOK, MaskOrGo, WantMask
<1>8. QED BY <1>1, <1>2, <1>3, <1>4, <1>5, <1>6, <1>7

LEMMA WriteMaskKeeps ==
  ASSUME IInv, WriteMask
  PROVE  IInv'
<1> USE DEF IInv
<1>0. PICK r \in {0, -1} : Write(HaltAsRead, FALSE, WantMask, r)
  BY DEF WriteMask
<1>9. op \in {"halt", "step", "resume"} /\ HaltAsRead \in BOOLEAN /\ WantMask \in BOOLEAN
  BY DEF WriteMask, Place, CallOK, HaltAsRead, WantMask
<1>10. /\ CoreOK' /\ LinkOK'
       /\ Put(HaltAsRead, FALSE, WantMask) \/ UNCHANGED coreVars
       /\ r = 0 /\ ~sticky' => halt' = HaltAsRead /\ mask' = WantMask
  BY <1>0, <1>9, WriteFacts
<1>1. CoreOK'
  BY <1>10
<1>2. LinkOK'
  BY <1>10
<1>3. CallOK'
  BY <1>0, <1>9 DEF WriteMask, CallOK, HaltAsRead, WantMask
<1>4. UserOK'
  BY <1>0 DEF WriteMask, UserOK, HaltAsRead, WantMask
<1>5. Place'
  BY <1>0 DEF WriteMask, Place, CallOK, HaltAsRead, WantMask
<1>6. Stepping'
  BY <1>0, <1>9, <1>10 DEF WriteMask, Stepping, Place, CallOK, CoreOK, Put, coreVars, HaltAsRead, WantMask
<1>7. Masking'
  BY <1>0, <1>9, <1>10 DEF WriteMask, Masking, Right, Place, CallOK, CoreOK, LinkOK, HaltAsRead, WantMask
<1>8. QED BY <1>1, <1>2, <1>3, <1>4, <1>5, <1>6, <1>7

LEMMA WriteGoKeeps ==
  ASSUME IInv, WriteGo
  PROVE  IInv'
<1> USE DEF IInv
<1>0. PICK r \in {0, -1} : Write(FALSE, op = "step", x.mask, r) /\ End(r)
  BY DEF WriteGo
<1>9. op \in {"halt", "step", "resume"} /\ x.mask \in BOOLEAN
  BY DEF WriteGo, Place, CallOK
<1>10. /\ CoreOK' /\ LinkOK'
       /\ Put(FALSE, op = "step", x.mask) \/ UNCHANGED coreVars
       /\ r = 0 /\ ~sticky' => halt' = FALSE /\ mask' = x.mask
  BY <1>0, <1>9, WriteFacts
<1>1. CoreOK'
  BY <1>10
<1>2. LinkOK'
  BY <1>10
<1>3. CallOK'
  BY <1>0, <1>9 DEF WriteGo, CallOK, End
<1>4. UserOK'
  BY <1>0 DEF WriteGo, UserOK, End
<1>5. Place'
  BY <1>0 DEF WriteGo, Place, CallOK, End
<1>6. Stepping'
  BY <1>0, <1>9, <1>10 DEF WriteGo, Stepping, Place, CallOK, CoreOK, Put, coreVars, End
<1>7. Masking'
  BY <1>0, <1>9, <1>10 DEF WriteGo, Masking, Right, Place, CallOK, CoreOK, LinkOK, End
<1>8. QED BY <1>1, <1>2, <1>3, <1>4, <1>5, <1>6, <1>7

LEMMA WaitKeeps ==
  ASSUME IInv, WaitForHalt
  PROVE  IInv'
<1> USE DEF IInv
<1>0. LinkOK' /\ UNCHANGED coreVars
  BY ReadFacts DEF WaitForHalt
<1>1. CoreOK'
  BY <1>0 DEF coreVars, CoreOK
<1>2. LinkOK'
  BY <1>0
<1>3. CallOK'
  BY DEF WaitForHalt, CallOK, End
<1>4. UserOK'
  BY DEF WaitForHalt, UserOK, End
<1>5. Place'
  BY DEF WaitForHalt, Place, End
<1>6. Stepping'
  BY <1>0 DEF WaitForHalt, Stepping, End, coreVars
<1>7. Masking'
  BY <1>0 DEF WaitForHalt, Masking, Right, CallOK, End, coreVars, Read, linkVars
<1>8. QED BY <1>1, <1>2, <1>3, <1>4, <1>5, <1>6, <1>7

LEMMA CheckCsrKeeps ==
  ASSUME IInv, CheckCsr
  PROVE  IInv'
<1> USE DEF IInv
<1>0. LinkOK' /\ UNCHANGED coreVars
  BY ReadFacts DEF CheckCsr
<1>1. CoreOK'
  BY <1>0 DEF coreVars, CoreOK
<1>2. LinkOK'
  BY <1>0
<1>3. CallOK'
  BY DEF CheckCsr, CallOK
<1>4. UserOK'
  BY DEF CheckCsr, UserOK, CoreOK, RunsStill
<1>5. Place'
  BY DEF CheckCsr, Place
<1>6. Stepping'
  BY <1>0 DEF CheckCsr, Stepping, coreVars
<1>7. Masking'
  BY DEF CheckCsr, Masking, Place
<1>8. QED BY <1>1, <1>2, <1>3, <1>4, <1>5, <1>6, <1>7

LEMMA ConsoleCommandKeeps ==
  ASSUME IInv, ConsoleCommand
  PROVE  IInv'
<1> USE DEF IInv
<1>1. CoreOK'
  BY DEF ConsoleCommand, CoreOK, Lock, ClearError, coreVars
<1>2. LinkOK'
  BY DEF ConsoleCommand, LinkOK, Lock, ClearError
<1>3. CallOK'
  BY DEF ConsoleCommand, CallOK, Lock, ClearError
<1>4. UserOK'
  BY RunAssumption DEF RunAssumption, ConsoleCommand, UserOK, Lock, ClearError
<1>5. Place'
  BY DEF ConsoleCommand, Place, Lock, ClearError
<1>6. Stepping'
  BY DEF ConsoleCommand, Stepping, Lock, ClearError, Place, coreVars
<1>7. Masking'
  BY DEF ConsoleCommand, Masking, Lock, ClearError, Place
<1>8. QED BY <1>1, <1>2, <1>3, <1>4, <1>5, <1>6, <1>7

LEMMA MaskIntsKeeps ==
  ASSUME IInv, MaskInts
  PROVE  IInv'
<1> USE DEF IInv
<1>1. CoreOK'
  BY DEF MaskInts, CoreOK, ClearError, coreVars
<1>2. LinkOK'
  BY DEF MaskInts, LinkOK, ClearError
<1>3. CallOK'
  BY DEF MaskInts, CallOK, ClearError, Modes
<1>4. UserOK'
  BY DEF MaskInts, UserOK, ClearError
<1>5. Place'
  BY DEF MaskInts, Place, ClearError
<1>6. Stepping'
  BY DEF MaskInts, Stepping, ClearError, Place, coreVars
<1>7. Masking'
  BY DEF MaskInts, Masking, ClearError, Place
<1>8. QED BY <1>1, <1>2, <1>3, <1>4, <1>5, <1>6, <1>7

LEMMA GdbCheckKeeps ==
  ASSUME IInv, GdbCheck
  PROVE  IInv'
<1> USE DEF IInv
<1>1. CoreOK'
  BY DEF GdbCheck, CoreOK, Lock, ClearError, coreVars
<1>2. LinkOK'
  BY DEF GdbCheck, LinkOK, Lock, ClearError
<1>3. CallOK'
  BY DEF GdbCheck, CallOK, Lock, ClearError
<1>4. UserOK'
  BY DEF GdbCheck, UserOK, Lock, ClearError
<1>5. Place'
  BY DEF GdbCheck, Place, Lock, ClearError
<1>6. Stepping'
  BY DEF GdbCheck, Stepping, Lock, ClearError, Place, coreVars
<1>7. Masking'
  BY DEF GdbCheck, Masking, Lock, ClearError, Place
<1>8. QED BY <1>1, <1>2, <1>3, <1>4, <1>5, <1>6, <1>7

LEMMA GdbCommandKeeps ==
  ASSUME IInv, GdbCommand
  PROVE  IInv'
<1> USE DEF IInv
<1>1. CoreOK'
  BY DEF GdbCommand, CoreOK, Lock, ClearError, coreVars
<1>2. LinkOK'
  BY DEF GdbCommand, LinkOK, Lock, ClearError
<1>3. CallOK'
  BY DEF GdbCommand, CallOK, Lock, ClearError
<1>4. UserOK'
  BY DEF GdbCommand, UserOK, Lock, ClearError
<1>5. Place'
  BY DEF GdbCommand, Place, Lock, ClearError
<1>6. Stepping'
  BY DEF GdbCommand, Stepping, Lock, ClearError, Place, coreVars
<1>7. Masking'
  BY DEF GdbCommand, Masking, Lock, ClearError, Place
<1>8. QED BY <1>1, <1>2, <1>3, <1>4, <1>5, <1>6, <1>7

LEMMA OthersKeep ==
  ASSUME IInv, Interrupt \/ GdbTimeout \/ UNCHANGED vars
  PROVE  IInv'
<1>1. /\ UNCHANGED <<coreVars, linkVars, mode, holder, op, task, at, x, result, asMode, running>>
      /\ attn' \in BOOLEAN /\ gdbAt' \in {"check", "poll"}
  BY DEF Interrupt, GdbTimeout, vars, coreVars, linkVars, callVars, IInv, UserOK
<1>2. CoreOK' /\ LinkOK' /\ CallOK' /\ UserOK'
  BY <1>1 DEF IInv, CoreOK, LinkOK, CallOK, UserOK, coreVars, linkVars
<1>3. Place' /\ Stepping' /\ Masking'
  BY <1>1 DEF IInv, Place, Stepping, Masking, Right, CallOK, CoreOK, coreVars, linkVars
<1>4. QED BY <1>2, <1>3 DEF IInv

LEMMA Inductive == IInv /\ [Next]_vars => IInv'
<1> SUFFICES ASSUME IInv, [Next]_vars PROVE IInv'
  OBVIOUS
<1>1. CASE Core
  BY <1>1, CoreHaltsKeeps, CoreRunsKeeps DEF Core
<1>2. CASE Access
  BY <1>2, ReadForKeeps, WriteHaltKeeps, WriteStopKeeps, WriteMaskKeeps, WriteGoKeeps,
     WaitKeeps, CheckCsrKeeps DEF Access
<1>3. CASE ConsoleCommand \/ MaskInts \/ GdbCheck \/ GdbCommand
  BY <1>3, ConsoleCommandKeeps, MaskIntsKeeps, GdbCheckKeeps, GdbCommandKeeps
<1>4. CASE Interrupt \/ GdbTimeout \/ UNCHANGED vars
  BY <1>4, OthersKeep
<1>5. QED BY <1>1, <1>2, <1>3, <1>4 DEF Next

LEMMA Initial == Init => IInv
<1> SUFFICES ASSUME Init PROVE IInv
  OBVIOUS
<1>1. CoreOK
  <2>1. ran \in 0 .. 2
    BY DEF Init
  <2>2. QED BY <2>1, Zenon DEF Init, CoreOK
<1>2. LinkOK
  <2>1. faults \in 0 .. MaxFaults
    BY RunAssumption DEF RunAssumption, Init
  <2>2. QED BY <2>1, Zenon DEF Init, LinkOK
<1>3. CallOK
  <2>1. mode \in 0 .. 2 /\ asMode \in 0 .. 2
    BY DEF Init
  <2>2. QED BY <2>1 DEF Init, CallOK
<1>4. UserOK
  BY Zenon DEF Init, UserOK
<1>5. Place /\ Stepping /\ Masking
  BY DEF Init, Place, Stepping, Masking
<1>6. QED BY <1>1, <1>2, <1>3, <1>4, <1>5 DEF IInv

LEMMA Invariant == Spec => []IInv
BY Initial, Inductive, PTL DEF Spec

-----------------------------------------------------------------------------
(* Theorems *)

(* Every variable of the run control calls and their users keeps its type. *)
THEOREM TypeCorrect == Spec => []TypeOK
<1>1. IInv => TypeOK
  BY DEF IInv, TypeOK
<1>2. QED BY <1>1, Invariant, PTL

(* swdp_core_step executes one instruction at most, whichever of its accesses fail
   and wherever the core executes between them.                                   *)
THEOREM StepsOnce == Spec => []StepOnce
<1>1. IInv => StepOnce
  BY DEF IInv, Stepping, StepOnce
<1>2. QED BY <1>1, Invariant, PTL

(* A step or resume that reports success, with no error latched, left interrupts
   masked as maskints asked for.                                                  *)
THEOREM MasksAsSet == Spec => []MaskAsSet
<1>1. IInv => MaskAsSet
  BY DEF IInv, Masking, Right, MaskAsSet
<1>2. QED BY <1>1, Invariant, PTL

-----------------------------------------------------------------------------
(* gdb is told of real halts only. *)

LEMMA HaltIsReal ==
  ASSUME IInv, Next, running, ~running', result' = 0, ~sticky'
  PROVE  halt'
<1> USE DEF IInv
<1>1. CASE Core \/ Interrupt \/ GdbTimeout \/ ConsoleCommand \/ MaskInts \/ GdbCheck \/ GdbCommand
  <2>1. running' = running
    BY <1>1 DEF Core, Interrupt, GdbTimeout, ConsoleCommand, MaskInts, GdbCheck, GdbCommand, callVars
  <2>2. QED BY <2>1
<1>2. CASE ReadFor
  BY <1>2 DEF ReadFor, End
<1>3. CASE WriteHalt
  <2>1. PICK r \in {0, -1} : Write(TRUE, FALSE, x.mask, r) /\ End(r)
    BY <1>3 DEF WriteHalt
  <2>2. r = 0 /\ op \in {"halt", "step", "resume"} /\ x.mask \in BOOLEAN
    BY <1>3, <2>1 DEF WriteHalt, End, Place, CallOK
  <2>3. QED BY <2>1, <2>2, WriteFacts
<1>4. CASE WriteStop \/ WriteMask
  BY <1>4 DEF WriteStop, WriteMask
<1>5. CASE WriteGo
  <2>1. task \notin {"?", "^C"}
    BY <1>5 DEF WriteGo, Place
  <2>2. QED BY <1>5, <2>1 DEF WriteGo, End
<1>6. CASE WaitForHalt
  <2>1. task \notin {"?", "^C"}
    BY <1>6 DEF WaitForHalt, Place
  <2>2. QED BY <1>6, <2>1 DEF WaitForHalt, End
<1>7. CASE CheckCsr
  <2>1. UNCHANGED coreVars
    BY <1>7, ReadFacts DEF CheckCsr
  <2>2. ~live
    BY <1>7 DEF CheckCsr, RunsStill
  <2>3. QED BY <2>1, <2>2 DEF Stepping, coreVars
<1>8. QED BY <1>1, <1>2, <1>3, <1>4, <1>5, <1>6, <1>7 DEF Next, Access

(* F_RUNNING is cleared only for a core that has halted or was just asked to halt. *)
THEOREM StopsAreAlwaysReal == Spec => StopsAreReal
<1>1. IInv /\ [Next]_vars => [(running /\ ~running' /\ result' = 0 /\ ~sticky') => halt']_vars
  BY HaltIsReal
<1>2. QED BY <1>1, Invariant, PTL DEF Spec, StopsAreReal
=============================================================================
