-------------------------- MODULE BreakpointsProofs --------------------------
(* Theorems about Breakpoints, for any number of comparators and addresses. *)
EXTENDS Breakpoints, WellFoundedInduction, TLAPS

LEMMA FirstFacts ==
  ASSUME NEW S \in SUBSET Nat, S # {}
  PROVE  First(S) \in S
<1> DEFINE less == OpToRel(<, Nat)
<1>1. IsWellFoundedOn(less, Nat)
  BY NatLessThanWellFounded
<1>2. \A x, y \in Nat : <<y, x>> \in less <=> y < x
  BY DEF OpToRel
<1> HIDE DEF less
<1>3. PICK n \in S : \A m \in S : ~(<<m, n>> \in less)
  BY <1>1, WFMin
<1>4. ASSUME NEW m \in S PROVE n <= m
  <2>1. m \in Nat /\ n \in Nat
    OBVIOUS
  <2>2. ~(m < n)
    BY <1>2, <1>3, <2>1
  <2>3. QED BY <2>1, <2>2
<1>5. QED BY <1>4 DEF First

(* The slot a table gives for x holds it. *)
LEMMA HoldingFacts ==
  ASSUME NEW N \in Nat, NEW t \in [0 .. N - 1 -> Addrs \cup {None}], NEW x, Holding(t, x) # {}
  PROVE  First(Holding(t, x)) \in 0 .. N - 1 /\ t[First(Holding(t, x))] = x
<1>1. Holding(t, x) \in SUBSET Nat
  BY DEF Holding
<1>2. First(Holding(t, x)) \in Holding(t, x)
  BY <1>1, FirstFacts
<1>3. QED BY <1>2 DEF Holding

(* The FPB stops at the halfword asked for. *)
LEMMA ComparatorFacts ==
  ASSUME NEW a \in Nat
  PROVE  Comparator(a) \in Halves /\ Stops(Comparator(a)) = a /\ Comparator(a) # None
<1>1. a \div 2 \in Nat /\ a % 2 \in {0, 1} /\ a = 2 * (a \div 2) + (a % 2)
  OBVIOUS
<1>2. Comparator(a) \in Halves
  BY <1>1 DEF Comparator, Halves
<1>3. Stops(Comparator(a)) = a
  BY <1>1 DEF Comparator, Stops
<1>4. QED BY <1>2, <1>3, BreakpointsAssumption DEF BreakpointsAssumption, Halves

LEMMA SlotIsKnown == \A n \in 0 .. NumBp - 1 : n \in 0 .. MaxWatch - 1
BY BreakpointsAssumption DEF BreakpointsAssumption

LEMMA WatchpointType ==
  ASSUME TypeOK, NEW n \in 0 .. MaxWatch - 1, NEW a \in Addrs \cup {None}, NEW ok,
         Watchpoint(n, a, ok)
  PROVE  dwt' \in [0 .. MaxWatch - 1 -> Addrs \cup {None}]
BY DEF TypeOK, Watchpoint

LEMMA HazardType ==
  ASSUME TypeOK, NEW h \in BOOLEAN, Hazard(h)
  PROVE  /\ hazards' \in 0 .. MaxHazards
         /\ hazards' = 0 => hazards = 0 /\ ~h
BY BreakpointsAssumption DEF BreakpointsAssumption, TypeOK, Hazard

LEMMA InsertType ==
  ASSUME TypeOK, NEW a \in Addrs, NEW ok, Insert(a, ok)
  PROVE  TypeOK'
<1> USE DEF TypeOK, FpSlots, BpSlots
<1>0. hazards' \in 0 .. MaxHazards
  BY HazardType DEF Insert
<1> USE <1>0
<1>1. NumFp \in Nat /\ NumBp \in Nat /\ a \in Nat /\ MaxWatch \in Nat /\ NumBp <= MaxWatch
  BY BreakpointsAssumption DEF BreakpointsAssumption
<1>2. CASE InsertKnown(a, ok)
  BY <1>2 DEF InsertKnown, Inserted
<1>3. CASE InsertFlash(a, ok)
  <2> DEFINE n == First(Holding(fp, None))
  <2>1. n \in 0 .. NumFp - 1
    BY <1>1, <1>3, HoldingFacts DEF InsertFlash, InFlash, FlashRoom
  <2>2. Comparator(a) \in Halves
    BY <1>1, ComparatorFacts
  <2>3. /\ fp' = [fp EXCEPT ![n] = a]
        /\ fpComp' \in {fpComp, [fpComp EXCEPT ![n] = Comparator(a)]}
        /\ fpOn' = (fpOn \/ "fpCtrl" \in ok)
        /\ wanted' = wanted \cup {a} /\ UNCHANGED <<bp, dwt>>
    BY <1>3 DEF InsertFlash, SetFlash, Inserted
  <2> HIDE DEF n
  <2>4. fp' \in [FpSlots -> Addrs \cup {None}] /\ fpComp' \in [FpSlots -> Halves \cup {None}]
    BY <2>1, <2>2, <2>3
  <2>5. fpOn' \in BOOLEAN
    BY <2>3
  <2>6. QED BY <2>3, <2>4, <2>5
<1>4. CASE InsertWatch(a, ok)
  <2> DEFINE n == First(Holding(bp, None))
  <2>1. n \in 0 .. NumBp - 1
    BY <1>1, <1>4, HoldingFacts DEF InsertWatch, WatchRoom
  <2>2. bp' = [bp EXCEPT ![n] = a] /\ Watchpoint(n, a, ok)
    BY <1>4 DEF InsertWatch
  <2> HIDE DEF n
  <2>3. n \in 0 .. MaxWatch - 1
    BY <2>1, SlotIsKnown
  <2>4. bp' \in [BpSlots -> Addrs \cup {None}]
    BY <2>1, <2>2
  <2>5. QED BY <1>4, <2>2, <2>3, <2>4, WatchpointType DEF InsertWatch, Inserted
<1>5. CASE InsertRefused(a, ok)
  BY <1>5 DEF InsertRefused
<1>6. QED BY <1>2, <1>3, <1>4, <1>5 DEF Insert

LEMMA RemoveType ==
  ASSUME TypeOK, NEW a \in Addrs, NEW ok, Remove(a, ok)
  PROVE  TypeOK'
<1> USE DEF TypeOK, FpSlots, BpSlots
<1>0. hazards' \in 0 .. MaxHazards
  BY HazardType DEF Remove
<1> USE <1>0
<1>1. NumFp \in Nat /\ NumBp \in Nat /\ MaxWatch \in Nat /\ NumBp <= MaxWatch
  BY BreakpointsAssumption DEF BreakpointsAssumption
<1>2. CASE RemoveFlash(a, ok)
  <2> DEFINE n == First(Holding(fp, a))
  <2>1. n \in 0 .. NumFp - 1
    BY <1>1, <1>2, HoldingFacts DEF RemoveFlash, FromFlash, FlashHas
  <2>2. /\ fp' = [fp EXCEPT ![n] = None]
        /\ fpComp' \in {fpComp, [fpComp EXCEPT ![n] = None]}
        /\ wanted' = wanted \ {a} /\ UNCHANGED <<fpOn, bp, dwt>>
    BY <1>2 DEF RemoveFlash, ClearFlash, Removed
  <2> HIDE DEF n
  <2>3. fp' \in [FpSlots -> Addrs \cup {None}] /\ fpComp' \in [FpSlots -> Halves \cup {None}]
    BY <2>1, <2>2
  <2>4. QED BY <2>2, <2>3
<1>3. CASE RemoveWatch(a, ok)
  <2> DEFINE n == First(Holding(bp, a))
  <2>1. n \in 0 .. NumBp - 1
    BY <1>1, <1>3, HoldingFacts DEF RemoveWatch, WatchHas
  <2>2. bp' = [bp EXCEPT ![n] = None] /\ Watchpoint(n, None, ok)
    BY <1>3 DEF RemoveWatch
  <2> HIDE DEF n
  <2>3. n \in 0 .. MaxWatch - 1
    BY <2>1, SlotIsKnown
  <2>4. bp' \in [BpSlots -> Addrs \cup {None}]
    BY <2>1, <2>2
  <2>5. QED BY <1>3, <2>2, <2>3, <2>4, WatchpointType DEF RemoveWatch, Removed
<1>4. CASE RemoveUnknown(a, ok)
  BY <1>4 DEF RemoveUnknown, Removed
<1>5. CASE RemoveRefused(a, ok)
  BY <1>5 DEF RemoveRefused
<1>6. QED BY <1>2, <1>3, <1>4, <1>5 DEF Remove

LEMMA TypeStep == TypeOK /\ [Next]_vars => TypeOK'
<1> SUFFICES ASSUME TypeOK, [Next]_vars PROVE TypeOK'
  OBVIOUS
<1>1. ASSUME NEW ok, ConsoleWatch(ok) PROVE TypeOK'
  <2>1. 0 \in 0 .. MaxWatch - 1
    BY BreakpointsAssumption DEF BreakpointsAssumption
  <2>2. PICK a \in Addrs \cup {None} : Watchpoint(0, a, ok)
    BY <1>1 DEF ConsoleWatch
  <2>3. QED BY <1>1, <2>1, <2>2, WatchpointType, HazardType DEF ConsoleWatch, OthersUnchanged, TypeOK
<1>2. CASE PowerCycle
  BY <1>2, HazardType DEF PowerCycle, TypeOK
<1>3. CASE UNCHANGED vars
  BY <1>3 DEF vars, TypeOK
<1>4. QED BY <1>1, <1>2, <1>3, InsertType, RemoveType DEF Next

(* Every variable of the breakpoint tables and comparators keeps its type. *)
THEOREM TypeCorrect == Spec => []TypeOK
<1>1. Init => TypeOK
  <2>1. Init => hazards \in 0 .. MaxHazards
    BY BreakpointsAssumption DEF BreakpointsAssumption, Init
  <2>2. QED BY <2>1 DEF Init, TypeOK, FpSlots, BpSlots
<1>2. QED BY <1>1, TypeStep, PTL DEF Spec

-----------------------------------------------------------------------------
(* What has an address, slot by slot. *)
LEMMA HasFacts ==
  ASSUME TypeOK, NEW a
  PROVE  /\ FlashHas(a) <=> \E n \in FpSlots : fp[n] = a
         /\ WatchHas(a) <=> \E n \in BpSlots : bp[n] = a
BY DEF FlashHas, WatchHas, Holding, TypeOK

LEMMA FirstSlots ==
  ASSUME TypeOK, NEW a
  PROVE  /\ Holding(fp, a) # {} => First(Holding(fp, a)) \in FpSlots /\ fp[First(Holding(fp, a))] = a
         /\ Holding(bp, a) # {} => First(Holding(bp, a)) \in BpSlots /\ bp[First(Holding(bp, a))] = a
<1>1. /\ NumFp \in Nat /\ fp \in [0 .. NumFp - 1 -> Addrs \cup {None}]
      /\ NumBp \in Nat /\ bp \in [0 .. NumBp - 1 -> Addrs \cup {None}]
  BY BreakpointsAssumption DEF BreakpointsAssumption, TypeOK, FpSlots, BpSlots
<1>2. Holding(fp, a) # {} => First(Holding(fp, a)) \in FpSlots /\ fp[First(Holding(fp, a))] = a
  BY <1>1, HoldingFacts DEF FpSlots
<1>3. Holding(bp, a) # {} => First(Holding(bp, a)) \in BpSlots /\ bp[First(Holding(bp, a))] = a
  BY <1>1, HoldingFacts DEF BpSlots
<1>4. QED BY <1>2, <1>3

LEMMA NoneIsNoAddress == \A a \in Addrs : a \in Nat /\ a # None
BY BreakpointsAssumption DEF BreakpointsAssumption

LEMMA NoneTwiceStep == TypeOK /\ NoneTwice /\ [Next]_vars => NoneTwice'
<1> SUFFICES ASSUME TypeOK, NoneTwice, [Next]_vars PROVE NoneTwice'
  OBVIOUS
<1>1. ASSUME NEW a \in Addrs, NEW ok, InsertFlash(a, ok) PROVE NoneTwice'
  <2>1. PICK n \in FpSlots : fp' = [fp EXCEPT ![n] = a]
    BY <1>1, FirstSlots DEF InsertFlash, SetFlash, InFlash, FlashRoom
  <2>2. \A m \in FpSlots : fp[m] # a
    BY <1>1, HasFacts DEF InsertFlash
  <2>3. bp' = bp
    BY <1>1 DEF InsertFlash
  <2>4. QED BY <2>1, <2>2, <2>3 DEF NoneTwice, TypeOK
<1>2. ASSUME NEW a \in Addrs, NEW ok, InsertWatch(a, ok) PROVE NoneTwice'
  <2>1. PICK n \in BpSlots : bp' = [bp EXCEPT ![n] = a]
    BY <1>2, FirstSlots DEF InsertWatch, WatchRoom
  <2>2. \A m \in BpSlots : bp[m] # a
    BY <1>2, HasFacts DEF InsertWatch
  <2>3. fp' = fp
    BY <1>2 DEF InsertWatch
  <2>4. QED BY <2>1, <2>2, <2>3 DEF NoneTwice, TypeOK
<1>3. ASSUME NEW a \in Addrs, NEW ok, RemoveFlash(a, ok) PROVE NoneTwice'
  <2>1. PICK n \in FpSlots : fp' = [fp EXCEPT ![n] = None]
    BY <1>3, FirstSlots DEF RemoveFlash, ClearFlash, FromFlash, FlashHas
  <2>2. bp' = bp
    BY <1>3 DEF RemoveFlash
  <2>3. QED BY <2>1, <2>2 DEF NoneTwice, TypeOK
<1>4. ASSUME NEW a \in Addrs, NEW ok, RemoveWatch(a, ok) PROVE NoneTwice'
  <2>1. PICK n \in BpSlots : bp' = [bp EXCEPT ![n] = None]
    BY <1>4, FirstSlots DEF RemoveWatch, WatchHas
  <2>2. fp' = fp
    BY <1>4 DEF RemoveWatch
  <2>3. QED BY <2>1, <2>2 DEF NoneTwice, TypeOK
<1>5. ASSUME UNCHANGED <<fp, bp>> PROVE NoneTwice'
  BY <1>5 DEF NoneTwice
<1>6. QED
  BY <1>1, <1>2, <1>3, <1>4, <1>5 DEF Next, Insert, Remove, InsertKnown, InsertRefused,
     RemoveUnknown, RemoveRefused, ConsoleWatch, PowerCycle, OthersUnchanged, vars

(* Whatever accesses fail and whatever gdb repeats, the console does to the
   comparators or the target forgets, no address has two slots of one unit. *)
THEOREM NoneTwiceAlways == Spec => []NoneTwice
<1>1. Init => NoneTwice
  BY DEF Init, NoneTwice
<1>2. QED BY <1>1, NoneTwiceStep, TypeCorrect, PTL DEF Spec

-----------------------------------------------------------------------------
(* Until the first hazard the tables, the comparators and what gdb asked for agree. *)
FlashAgrees ==
  \A n \in FpSlots :
    /\ fp[n] = None => fpComp[n] = None
    /\ fp[n] # None => fpOn /\ fp[n] < Ram /\ fpComp[n] = Comparator(fp[n])
WatchAgrees ==
  \A n \in 0 .. MaxWatch - 1 : dwt[n] = IF n \in BpSlots THEN bp[n] ELSE None
WantedAgrees ==
  /\ \A a \in Addrs : a \in wanted <=> FlashHas(a) \/ WatchHas(a)
  /\ \A a \in Addrs : ~(FlashHas(a) /\ WatchHas(a))

Agree == FlashAgrees /\ WatchAgrees /\ WantedAgrees /\ NoneTwice

LEMMA InsertAgrees ==
  ASSUME TypeOK, TypeOK', Agree, NEW a \in Addrs, Insert(a, Access), a \notin wanted
  PROVE  FlashAgrees' /\ WatchAgrees' /\ WantedAgrees'
<1> USE DEF Agree
<1>1. a \notin wanted /\ ~FlashHas(a) /\ ~WatchHas(a) /\ a \in Nat /\ a # None
  BY NoneIsNoAddress DEF WantedAgrees
<1>2. CASE InsertFlash(a, Access)
  <2>1. PICK n \in FpSlots : /\ fp[n] = None /\ fp' = [fp EXCEPT ![n] = a] /\ fpOn'
                             /\ fpComp' = [fpComp EXCEPT ![n] = Comparator(a)]
    BY <1>2, FirstSlots DEF InsertFlash, SetFlash, InFlash, FlashRoom, Access
  <2>2. /\ a < Ram /\ wanted' = wanted \cup {a} /\ UNCHANGED <<bp, dwt>>
    BY <1>2 DEF InsertFlash, InFlash, Flash, Inserted
  <2>3. FlashAgrees'
    BY <1>1, <2>1, <2>2 DEF FlashAgrees, TypeOK
  <2>4. \A b \in Addrs : FlashHas(b)' <=> FlashHas(b) \/ b = a
    <3>1. \A b \in Addrs : FlashHas(b)' <=> \E m \in FpSlots : fp'[m] = b
      BY DEF FlashHas, Holding, TypeOK
    <3>2. QED BY <2>1, <3>1, HasFacts, NoneIsNoAddress DEF TypeOK
  <2>5. \A b \in Addrs : WatchHas(b)' <=> WatchHas(b)
    BY <2>2 DEF WatchHas, Holding
  <2>6. WantedAgrees'
    BY <1>1, <2>2, <2>4, <2>5 DEF WantedAgrees
  <2>7. QED BY <2>2, <2>3, <2>6 DEF WatchAgrees
<1>3. CASE InsertWatch(a, Access)
  <2>1. PICK n \in BpSlots : /\ bp[n] = None /\ bp' = [bp EXCEPT ![n] = a]
                             /\ dwt' = [dwt EXCEPT ![n] = a]
    BY <1>3, FirstSlots DEF InsertWatch, WatchRoom, Watchpoint, Access
  <2>2. wanted' = wanted \cup {a} /\ UNCHANGED <<fp, fpOn, fpComp>>
    BY <1>3 DEF InsertWatch, Inserted
  <2>3. WatchAgrees'
    BY <2>1, SlotIsKnown DEF WatchAgrees, TypeOK, BpSlots
  <2>4. \A b \in Addrs : WatchHas(b)' <=> WatchHas(b) \/ b = a
    <3>1. \A b \in Addrs : WatchHas(b)' <=> \E m \in BpSlots : bp'[m] = b
      BY DEF WatchHas, Holding, TypeOK
    <3>2. QED BY <2>1, <3>1, HasFacts, NoneIsNoAddress DEF TypeOK
  <2>5. \A b \in Addrs : FlashHas(b)' <=> FlashHas(b)
    BY <2>2 DEF FlashHas, Holding
  <2>6. WantedAgrees'
    BY <1>1, <2>2, <2>4, <2>5 DEF WantedAgrees
  <2>7. QED BY <2>2, <2>3, <2>6 DEF FlashAgrees
<1>4. CASE InsertRefused(a, Access)
  BY <1>4 DEF InsertRefused, FlashAgrees, WatchAgrees, WantedAgrees, FlashHas, WatchHas, Holding
<1>5. QED BY <1>1, <1>2, <1>3, <1>4 DEF Insert, InsertKnown

LEMMA RemoveAgrees ==
  ASSUME TypeOK, TypeOK', Agree, NEW a \in Addrs, Remove(a, Access), a \in wanted
  PROVE  FlashAgrees' /\ WatchAgrees' /\ WantedAgrees'
<1> USE DEF Agree
<1>1. a \in wanted /\ (FlashHas(a) \/ WatchHas(a)) /\ ~(FlashHas(a) /\ WatchHas(a))
      /\ a \in Nat /\ a # None
  BY NoneIsNoAddress DEF WantedAgrees
<1>2. FlashHas(a) => FromFlash(a, Access)
  BY HasFacts, <1>1 DEF FlashAgrees, FromFlash, Flash, Access
<1>3. CASE RemoveFlash(a, Access)
  <2>1. PICK n \in FpSlots : /\ fp[n] = a /\ fp' = [fp EXCEPT ![n] = None]
                             /\ fpComp' = [fpComp EXCEPT ![n] = None]
    BY <1>3, FirstSlots DEF RemoveFlash, ClearFlash, FromFlash, FlashHas, Access
  <2>2. wanted' = wanted \ {a} /\ UNCHANGED <<bp, dwt, fpOn>>
    BY <1>3 DEF RemoveFlash, ClearFlash, Removed
  <2>3. FlashAgrees'
    BY <2>1, <2>2 DEF FlashAgrees, TypeOK
  <2>4. \A b \in Addrs : FlashHas(b)' <=> FlashHas(b) /\ b # a
    <3>1. \A b \in Addrs : FlashHas(b)' <=> \E m \in FpSlots : fp'[m] = b
      BY DEF FlashHas, Holding, TypeOK
    <3>2. QED BY <1>1, <2>1, <3>1, HasFacts, NoneIsNoAddress DEF TypeOK, NoneTwice
  <2>5. \A b \in Addrs : WatchHas(b)' <=> WatchHas(b)
    BY <2>2 DEF WatchHas, Holding
  <2>6. FlashHas(a)
    BY <2>1, HasFacts
  <2>7. WantedAgrees'
    BY <1>1, <2>2, <2>4, <2>5, <2>6 DEF WantedAgrees
  <2>8. QED BY <2>2, <2>3, <2>7 DEF WatchAgrees
<1>4. CASE RemoveWatch(a, Access)
  <2>1. PICK n \in BpSlots : /\ bp[n] = a /\ bp' = [bp EXCEPT ![n] = None]
                             /\ dwt' = [dwt EXCEPT ![n] = None]
    BY <1>4, FirstSlots DEF RemoveWatch, WatchHas, Watchpoint, Access
  <2>2. wanted' = wanted \ {a} /\ UNCHANGED <<fp, fpOn, fpComp>>
    BY <1>4 DEF RemoveWatch, Removed
  <2>3. WatchAgrees'
    BY <2>1, SlotIsKnown DEF WatchAgrees, TypeOK, BpSlots
  <2>4. \A b \in Addrs : WatchHas(b)' <=> WatchHas(b) /\ b # a
    <3>1. \A b \in Addrs : WatchHas(b)' <=> \E m \in BpSlots : bp'[m] = b
      BY DEF WatchHas, Holding, TypeOK
    <3>2. QED BY <1>1, <2>1, <3>1, HasFacts, NoneIsNoAddress DEF TypeOK, NoneTwice
  <2>5. \A b \in Addrs : FlashHas(b)' <=> FlashHas(b)
    BY <2>2 DEF FlashHas, Holding
  <2>6. WatchHas(a)
    BY <2>1, HasFacts
  <2>7. WantedAgrees'
    BY <1>1, <2>2, <2>4, <2>5, <2>6 DEF WantedAgrees
  <2>8. QED BY <2>2, <2>3, <2>7 DEF FlashAgrees
<1>5. ~RemoveUnknown(a, Access) /\ ~RemoveRefused(a, Access)
  BY <1>1, <1>2 DEF RemoveUnknown, RemoveRefused, Access
<1>6. QED BY <1>3, <1>4, <1>5 DEF Remove

(* No hazard has happened yet, or all agrees. *)
AgreeSoFar == hazards = 0 => Agree

LEMMA AgreeStep == TypeOK /\ AgreeSoFar /\ [Next]_vars => AgreeSoFar'
<1> SUFFICES ASSUME TypeOK, AgreeSoFar, [Next]_vars, hazards' = 0 PROVE Agree'
  BY DEF AgreeSoFar
<1>1. CASE UNCHANGED vars
  BY <1>1 DEF vars, AgreeSoFar, Agree, FlashAgrees, WatchAgrees, WantedAgrees, NoneTwice, FlashHas,
     WatchHas, Holding
<1>2. CASE Next
  <2>1. ~PowerCycle /\ \A ok : ~ConsoleWatch(ok)
    BY HazardType DEF PowerCycle, ConsoleWatch
  <2>2. PICK a \in Addrs, ok \in Outcome : Insert(a, ok) \/ Remove(a, ok)
    BY <1>2, <2>1 DEF Next
  <2>3. \/ Insert(a, ok) /\ hazards = 0 /\ ok = Access /\ a \notin wanted
        \/ Remove(a, ok) /\ hazards = 0 /\ ok = Access /\ a \in wanted
    BY <2>2, HazardType DEF Insert, Remove
  <2>4. TypeOK' /\ Agree /\ NoneTwice'
    BY <2>3, TypeStep, NoneTwiceStep DEF Agree, AgreeSoFar
  <2>5. QED BY <2>2, <2>3, <2>4, InsertAgrees, RemoveAgrees DEF Agree
<1>3. QED BY <1>1, <1>2

LEMMA AgreeIsExact ==
  ASSUME TypeOK, Agree
  PROVE  Armed = wanted
<1> USE DEF Agree
<1>1. \A n \in FpSlots : fpOn /\ fpComp[n] # None => fp[n] # None /\ Stops(fpComp[n]) = fp[n]
  BY ComparatorFacts, NoneIsNoAddress DEF FlashAgrees, TypeOK
<1>2. \A n \in FpSlots : fp[n] # None => fpOn /\ fpComp[n] # None /\ Stops(fpComp[n]) = fp[n]
  BY ComparatorFacts, NoneIsNoAddress DEF FlashAgrees, TypeOK
<1>3. \A n \in BpSlots : n \in 0 .. MaxWatch - 1 /\ dwt[n] = bp[n]
  BY SlotIsKnown DEF WatchAgrees, BpSlots
<1>4. \A n \in 0 .. MaxWatch - 1 : dwt[n] # None => n \in BpSlots /\ bp[n] = dwt[n]
  BY DEF WatchAgrees
<1>5. ASSUME NEW a \in Armed PROVE a \in wanted
  <2>1. CASE \E n \in FpSlots : fpOn /\ fpComp[n] # None /\ a = Stops(fpComp[n])
    <3>1. PICK n \in FpSlots : fp[n] # None /\ fp[n] = a
      BY <1>1, <2>1
    <3>2. a \in Addrs
      BY <3>1 DEF TypeOK
    <3>3. QED BY <3>1, <3>2, HasFacts DEF WantedAgrees
  <2>2. CASE \E n \in DOMAIN dwt : dwt[n] # None /\ a = dwt[n]
    <3>1. PICK n \in BpSlots : bp[n] # None /\ bp[n] = a
      BY <1>4, <2>2 DEF TypeOK
    <3>2. a \in Addrs
      BY <3>1 DEF TypeOK
    <3>3. QED BY <3>1, <3>2, HasFacts DEF WantedAgrees
  <2>3. QED BY <1>5, <2>1, <2>2 DEF Armed
<1>6. ASSUME NEW a \in wanted PROVE a \in Armed
  <2>1. a \in Addrs /\ a # None
    BY NoneIsNoAddress DEF TypeOK
  <2>2. CASE FlashHas(a)
    <3>1. PICK n \in FpSlots : fp[n] = a
      BY <2>2, HasFacts
    <3>2. fpOn /\ fpComp[n] # None /\ Stops(fpComp[n]) = a
      BY <1>2, <2>1, <3>1
    <3>3. QED BY <3>1, <3>2 DEF Armed
  <2>3. CASE WatchHas(a)
    <3>1. PICK n \in BpSlots : bp[n] = a
      BY <2>3, HasFacts
    <3>2. n \in DOMAIN dwt /\ dwt[n] = a
      BY <1>3, <3>1 DEF TypeOK
    <3>3. QED BY <2>1, <3>2 DEF Armed
  <2>4. QED BY <2>1, <2>2, <2>3 DEF WantedAgrees
<1>7. QED BY <1>5, <1>6

(* For any number of comparators and any breakpoints, the core stops exactly
   where gdb asked it to, until an access fails, gdb repeats itself, something
   else uses the comparators or the target loses power.                     *)
THEOREM ExactlyArmed == Spec => []ArmedAsAsked
<1>1. Init => AgreeSoFar
  BY NoneIsNoAddress DEF Init, AgreeSoFar, Agree, FlashAgrees, WatchAgrees, WantedAgrees, NoneTwice,
     FlashHas, WatchHas, Holding, BpSlots, FpSlots
<1>2. TypeOK /\ AgreeSoFar => ArmedAsAsked
  BY AgreeIsExact DEF AgreeSoFar, ArmedAsAsked
<1>3. QED BY <1>1, <1>2, AgreeStep, TypeCorrect, PTL DEF Spec
=============================================================================
