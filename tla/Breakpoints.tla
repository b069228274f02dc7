----------------------------- MODULE Breakpoints -----------------------------
(***************************************************************************)
(* The hardware breakpoints of the gdb bridge: handle_breakpoint and        *)
(* handle_flashpatch of tools/gdb-bridge.c with their tables, the target's  *)
(* FPB and DWT comparators behind them, and what the console does to the    *)
(* same comparators.                                                        *)
(*                                                                         *)
(* A command holds _dbg_lock throughout and only the debugger writes the    *)
(* comparators, so a command is one action; any of its accesses to the      *)
(* target may fail.  Addresses count halfwords.                             *)
(***************************************************************************)
EXTENDS Integers

CONSTANTS
  Addrs,      \* addresses of breakpoints
  Ram,        \* addresses below it are code, which the FPB covers (0x20000000)
  NumFp,      \* comparators of the FPB
  NumBp,      \* comparators of the DWT
  MaxWatch,   \* those swdp_watchpoint knows of (4)
  MaxHazards, \* how often an access fails, gdb repeats itself, the console uses
              \* a comparator or the target loses power
  None        \* an unused slot

ASSUME BreakpointsAssumption ==
  /\ Addrs \subseteq Nat /\ Ram \in Nat /\ None \notin Nat \cup [word : Nat, replace : {1, 2}]
  /\ NumFp \in Nat /\ NumBp \in Nat /\ NumBp <= MaxWatch /\ MaxWatch \in Nat \ {0}
  /\ MaxHazards \in Nat

VARIABLES
  fp,      \* fp_state and fp_addr: the address in each slot, or None
  bp,      \* bp_state and bp_addr
  fpOn,    \* FP_CTRL.ENABLE
  fpComp,  \* FP_COMP(n): a word and which of its halves, or None
  dwt,     \* DWT_COMP(n) when DWT_FUNC(n) is WATCH_PC, else None
  hazards, \* how many of those happened so far
  wanted   \* history: breakpoints gdb inserted with OK and did not remove

vars == <<fp, bp, fpOn, fpComp, dwt, hazards, wanted>>

FpSlots == 0 .. NumFp - 1
BpSlots == 0 .. NumBp - 1

Init ==
  /\ fp = [n \in FpSlots |-> None] /\ bp = [n \in BpSlots |-> None]
  /\ fpOn = FALSE /\ fpComp = [n \in FpSlots |-> None]
  /\ dwt = [n \in 0 .. MaxWatch - 1 |-> None]
  /\ hazards = 0 /\ wanted = {}

Holding(table, a) == {n \in DOMAIN table : table[n] = a}
First(S) == CHOOSE n \in S : \A m \in S : n <= m

(* FP_COMP's replace field: 2 for the upper half of the word, 1 for the lower. *)
Comparator_bug(a) == [word |-> a \div 2, replace |-> IF a % 2 = 1 THEN 1 ELSE 2]
Comparator(a) == [word |-> a \div 2, replace |-> IF a % 2 = 1 THEN 2 ELSE 1]

(* Which accesses of a command succeed: the reads of the ROM table and control
   registers of each unit, and the writes.                                   *)
Access  == {"readFpb", "readDwt", "fpCtrl", "fpComp", "watch"}
Outcome == SUBSET Access

Hazard(h) == hazards' = hazards + (IF h THEN 1 ELSE 0) /\ hazards' <= MaxHazards

-----------------------------------------------------------------------------
(* handle_flashpatch *)

Flash(a, ok) == a < Ram /\ "readFpb" \in ok

FlashHas(a)  == Holding(fp, a) # {}
FlashRoom    == Holding(fp, None) # {}

SetFlash(a, ok) ==
  LET n == First(Holding(fp, None)) IN
    /\ fp' = [fp EXCEPT ![n] = a]
    /\ fpOn' = (fpOn \/ "fpCtrl" \in ok)
    /\ fpComp' = IF "fpComp" \in ok THEN [fpComp EXCEPT ![n] = Comparator(a)] ELSE fpComp

ClearFlash(a, ok) ==
  LET n == First(Holding(fp, a)) IN
    /\ fp' = [fp EXCEPT ![n] = None]
    /\ fpComp' = IF "fpComp" \in ok THEN [fpComp EXCEPT ![n] = None] ELSE fpComp
    /\ UNCHANGED fpOn

(* swdp_watchpoint; a transaction that fails may have got any part of the way,
   the comparator being disabled first and enabled last.                     *)
Watchpoint(n, a, ok) ==
  \/ "watch" \in ok /\ dwt' = [dwt EXCEPT ![n] = a]
  \/ "watch" \notin ok /\ dwt' \in {dwt, [dwt EXCEPT ![n] = None]}

-----------------------------------------------------------------------------
(* handle_breakpoint, add: the FPB first, then the DWT *)

InFlash(a, ok) == Flash(a, ok) /\ (FlashHas(a) \/ FlashRoom)

ToWatch(a, ok) == ~InFlash(a, ok) /\ "readDwt" \in ok

WatchHas_bug(a) == FALSE
WatchHas(a) == Holding(bp, a) # {}
WatchRoom   == Holding(bp, None) # {}

Inserted(a) == wanted' = wanted \cup {a}

InsertKnown(a, ok) ==                                     \* "already setup"
  /\ (InFlash(a, ok) /\ FlashHas(a)) \/ (ToWatch(a, ok) /\ WatchHas(a))
  /\ Inserted(a)
  /\ UNCHANGED <<fp, bp, fpOn, fpComp, dwt>>

InsertFlash(a, ok) ==
  /\ InFlash(a, ok) /\ ~FlashHas(a)
  /\ SetFlash(a, ok) /\ Inserted(a)
  /\ UNCHANGED <<bp, dwt>>

InsertWatch(a, ok) ==
  /\ ToWatch(a, ok) /\ ~WatchHas(a) /\ WatchRoom
  /\ LET n == First(Holding(bp, None)) IN
       bp' = [bp EXCEPT ![n] = a] /\ Watchpoint(n, a, ok)
  /\ Inserted(a)
  /\ UNCHANGED <<fp, fpOn, fpComp>>

InsertRefused(a, ok) ==
  /\ ~InFlash(a, ok)
  /\ ToWatch(a, ok) => ~WatchHas(a) /\ ~WatchRoom
  /\ UNCHANGED <<fp, bp, fpOn, fpComp, dwt, wanted>>

(* handle_breakpoint, remove: whichever unit has it *)

FromFlash(a, ok) == Flash(a, ok) /\ FlashHas(a)

Removed(a) == wanted' = wanted \ {a}

RemoveFlash(a, ok) ==
  /\ FromFlash(a, ok)
  /\ ClearFlash(a, ok) /\ Removed(a)
  /\ UNCHANGED <<bp, dwt>>

RemoveWatch(a, ok) ==
  /\ ~FromFlash(a, ok) /\ "readDwt" \in ok /\ WatchHas(a)
  /\ LET n == First(Holding(bp, a)) IN
       bp' = [bp EXCEPT ![n] = None] /\ Watchpoint(n, None, ok)
  /\ Removed(a)
  /\ UNCHANGED <<fp, fpOn, fpComp>>

RemoveUnknown(a, ok) ==
  /\ ~FromFlash(a, ok) /\ "readDwt" \in ok /\ ~WatchHas(a)
  /\ Removed(a)
  /\ UNCHANGED <<fp, bp, fpOn, fpComp, dwt>>

RemoveRefused(a, ok) ==
  /\ ~FromFlash(a, ok) /\ "readDwt" \notin ok
  /\ UNCHANGED <<fp, bp, fpOn, fpComp, dwt, wanted>>

-----------------------------------------------------------------------------
(* The console, and the target losing power *)

OthersUnchanged == UNCHANGED <<fp, bp, fpOn, fpComp, wanted>>

(* watch-pc, watch-rw, watch-off and the boot-ROM hack of the flash command. *)
ConsoleWatch(ok) ==
  /\ Hazard(TRUE)
  /\ \E a \in Addrs \cup {None} : Watchpoint(0, a, ok)
  /\ OthersUnchanged

PowerCycle ==
  /\ Hazard(TRUE)
  /\ fpOn' = FALSE /\ fpComp' = [n \in FpSlots |-> None]
  /\ dwt' = [n \in DOMAIN dwt |-> None]
  /\ UNCHANGED <<fp, bp, wanted>>

(* gdb inserts what is not inserted and removes what is, unless it repeats
   itself.                                                                   *)
Insert(a, ok) == /\ Hazard(a \in wanted \/ ok # Access)
                 /\ \/ InsertKnown(a, ok) \/ InsertFlash(a, ok)
                    \/ InsertWatch(a, ok) \/ InsertRefused(a, ok)
Remove(a, ok) == /\ Hazard(a \notin wanted \/ ok # Access)
                 /\ \/ RemoveFlash(a, ok) \/ RemoveWatch(a, ok)
                    \/ RemoveUnknown(a, ok) \/ RemoveRefused(a, ok)

Next ==
  \/ \E a \in Addrs, ok \in Outcome : Insert(a, ok) \/ Remove(a, ok)
  \/ \E ok \in Outcome : ConsoleWatch(ok)
  \/ PowerCycle

Spec == Init /\ [][Next]_vars

-----------------------------------------------------------------------------
(* What the code promises *)

Halves == [word : Nat, replace : {1, 2}]

(* Every variable has its type. *)
TypeOK ==
  /\ fp \in [FpSlots -> Addrs \cup {None}] /\ bp \in [BpSlots -> Addrs \cup {None}]
  /\ fpOn \in BOOLEAN /\ fpComp \in [FpSlots -> Halves \cup {None}]
  /\ dwt \in [0 .. MaxWatch - 1 -> Addrs \cup {None}]
  /\ hazards \in 0 .. MaxHazards
  /\ wanted \subseteq Addrs

(* Where the core stops. *)
Stops(c) == 2 * c.word + (IF c.replace = 2 THEN 1 ELSE 0)
Armed == {Stops(fpComp[n]) : n \in {m \in FpSlots : fpOn /\ fpComp[m] # None}}
           \cup {dwt[n] : n \in {m \in DOMAIN dwt : dwt[m] # None}}

(* The core stops exactly at the breakpoints gdb inserted and was told OK, and
   neither at one that was removed nor at a neighbour, while every access
   works, gdb does not repeat itself and nobody else uses the comparators.   *)
ArmedAsAsked == hazards = 0 => Armed = wanted

(* Whatever fails or is repeated, no address takes two slots of one unit:
   removing it once frees all it has there.                                  *)
NoneTwice ==
  /\ \A m, n \in FpSlots : fp[m] = fp[n] /\ fp[m] # None => m = n
  /\ \A m, n \in BpSlots : bp[m] = bp[n] /\ bp[m] # None => m = n

(* What is "already setup" is not set up again: an address has one slot. *)
OneSlotEach == \A m \in FpSlots, n \in BpSlots : fp[m] = bp[n] => fp[m] = None
=============================================================================
