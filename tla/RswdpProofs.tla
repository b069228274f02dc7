----------------------------- MODULE RswdpProofs -----------------------------
(* Theorems about Rswdp, for every set of threads, every number of ids, every
   depth of the link and every budget of faults.                            *)
EXTENDS Rswdp, TLAPS

(* nobody and the reader are no threads; ids are apart from the marks *)
LEMMA Constants ==
  /\ Nobody \notin Threads /\ Reader \notin Threads /\ Monitor \in Threads
  /\ Clients \subseteq Threads /\ Reader # Nobody
  /\ SeqMod \in Nat /\ SeqMod > 1
  /\ Runt \notin Ids /\ Async \notin Ids /\ NoId \notin Ids
BY ConstantsAssumption DEF ConstantsAssumption, Threads, Ids, Runt, Async, NoId

(* Taking, adding and orphaning packets leaves a sequence of packets. *)
LEMMA LinkTypes ==
  ASSUME NEW q \in Seq(Packet), NEW p \in Packet
  PROVE  /\ Append(q, p) \in Seq(Packet)
         /\ q # <<>> => Head(q) \in Packet /\ Tail(q) \in Seq(Packet)
         /\ Orphan(q) \in Seq(Packet)
<1>1. Orphan(q) \in Seq(Packet)
  <2>1. \A i \in DOMAIN q : [q[i] EXCEPT !.call = Nobody] \in Packet
    <3> SUFFICES ASSUME NEW i \in DOMAIN q
                 PROVE  [q[i] EXCEPT !.call = Nobody] \in Packet
      OBVIOUS
    <3>1. q[i] \in Packet
      OBVIOUS
    <3>2. QED BY <3>1 DEF Packet
  <2>2. QED BY <2>1 DEF Orphan
<1>2. QED BY <1>1

LEMMA BlankIsPacket == Blank \in Packet
BY DEF Blank, Packet, Transactions

LEMMA NextIdType == sequence \in Ids /\ NextId => sequence' \in Ids
BY Constants DEF NextId, Ids

(* A request of a thread in a calling stage is a packet. *)
LEMMA RequestType ==
  ASSUME TypeOK, NEW t \in Threads, Calling(t), NEW o \in Threads \cup {Nobody}
  PROVE  Request(t, o) \in Packet
BY DEF TypeOK, Calling, Request, Packet, Transactions, Ids

LEMMA FaultType ==
  ASSUME faults \in 0 .. MaxFaults, NEW k, Fault(k)
  PROVE  faults' \in 0 .. MaxFaults
BY ConstantsAssumption DEF ConstantsAssumption, Fault

-----------------------------------------------------------------------------
LEMMA TypeInit == Init => TypeOK
<1> SUFFICES ASSUME Init PROVE TypeOK
  OBVIOUS
<1>1. sequence \in Ids
  BY Constants DEF Init, Ids
<1>2. buf \in [Threads -> [call : Threads \cup {Reader, Nobody}, err : BOOLEAN]]
  BY DEF Init, Junk
<1>3. toDev \in Seq(Packet) /\ toHost \in Seq(Packet)
  BY DEF Init
<1>4. faults \in 0 .. MaxFaults
  BY ConstantsAssumption DEF Init, ConstantsAssumption
<1>5. QED
  BY <1>1, <1>2, <1>3, <1>4, BlankIsPacket DEF Init, TypeOK, Stages

LEMMA TypeQExec ==
  ASSUME TypeOK, NEW t \in Threads, QExec(t)
  PROVE  TypeOK'
<1> USE DEF TypeOK
<1>1. CASE ExecOffline(t)
  BY <1>1, NextIdType DEF ExecOffline, Broadcast, hostVars, txnVars, readerVars, linkVars
<1>2. CASE ExecSend(t)
  <2>1. toDev' \in Seq(Packet)
    BY <1>2, RequestType, LinkTypes DEF ExecSend
  <2>2. Junk \in [call : Threads \cup {Reader, Nobody}, err : BOOLEAN]
    BY DEF Junk
  <2>3. QED
    BY <1>2, <2>1, <2>2, NextIdType DEF ExecSend, hostVars, readerVars
<1>3. CASE ExecWriteFails(t)
  <2>1. Request(t, Nobody) \in Packet
    BY <1>3, RequestType DEF ExecWriteFails
  <2>2. toDev' = toDev \/ toDev' = Append(toDev, Request(t, Nobody))
    BY <1>3 DEF ExecWriteFails
  <2>3. toDev' \in Seq(Packet)
    BY <2>1, <2>2, LinkTypes
  <2>4. faults' \in 0 .. MaxFaults
    BY <1>3, FaultType DEF ExecWriteFails
  <2>5. QED
    BY <1>3, <2>3, <2>4, NextIdType DEF ExecWriteFails, hostVars, txnVars, readerVars
<1>4. CASE ExecWake(t)
  <2>1. sleepers' \subseteq Threads \cup {Reader} /\ txnData' \in Threads \cup {Nobody}
    BY <1>4 DEF ExecWake
  <2>2. exec' \in [Threads -> {"no", "wait", "ok", "err", "fail"}]
    BY <1>4 DEF ExecWake
  <2>3. swdError' \in BOOLEAN
    BY <1>4 DEF ExecWake, ProcessReply
  <2>4. QED
    BY <1>4, <2>1, <2>2, <2>3 DEF ExecWake, readerVars, linkVars
<1>5. QED BY <1>1, <1>2, <1>3, <1>4 DEF QExec

LEMMA TypeCaller ==
  ASSUME TypeOK, NEW t \in Threads, Caller(t) \/ Lock(t) \/ Operand(t)
  PROVE  TypeOK'
<1>1. /\ dbgLock' \in Threads \cup {Nobody} /\ swdError' \in BOOLEAN
      /\ at' \in [Threads -> Stages]
      /\ exec' \in [Threads -> {"no", "wait", "ok", "err", "fail"}]
      /\ CallerUnchanged
  BY DEF TypeOK, Caller, Lock, Operand, Cleared, Attached, Configured, NextTxn, ResetTarget,
         Unlock, AckEvents, OperandRead, Proceed, Work, Stages
<1>2. QED
  BY <1>1 DEF TypeOK, CallerUnchanged, txnVars, readerVars, linkVars

LEMMA TypeReader ==
  ASSUME TypeOK, ReadLoop
  PROVE  TypeOK'
<1> USE DEF TypeOK
<1>1. CASE ReaderOpen
  BY <1>1 DEF ReaderOpen, hostVars, txnVars, linkVars
<1>2. CASE ReaderQuery
  <2>1. [id |-> sequence, call |-> Reader, op |-> "query", err |-> FALSE] \in Packet
    BY DEF Packet, Transactions
  <2>2. toDev' \in Seq(Packet) /\ faults' \in 0 .. MaxFaults
    BY <1>2, <2>1, LinkTypes, FaultType DEF ReaderQuery
  <2>3. QED
    BY <1>2, <2>2, NextIdType DEF ReaderQuery, hostVars, txnVars
<1>3. CASE ReaderRead
  BY <1>3, LinkTypes, BlankIsPacket DEF ReaderRead, hostVars, txnVars
<1>4. CASE ReaderFails
  <2>1. toDev' \in Seq(Packet) /\ toHost' \in Seq(Packet)
    BY <1>4, LinkTypes, BlankIsPacket DEF ReaderFails
  <2>2. QED
    BY <1>4, <2>1, FaultType DEF ReaderFails, FailTxn, hostVars
<1>5. CASE ReaderHandle
  <2>1. [call |-> hand.call, err |-> hand.err]
          \in [call : Threads \cup {Reader, Nobody}, err : BOOLEAN]
    BY DEF Packet
  <2>2. buf' \in [Threads -> [call : Threads \cup {Reader, Nobody}, err : BOOLEAN]]
    BY <1>5, <2>1 DEF ReaderHandle
  <2>3. QED
    BY <1>5, <2>2, BlankIsPacket DEF ReaderHandle, Broadcast, hostVars, linkVars
<1>6. CASE ReaderAcked
  BY <1>6 DEF ReaderAcked, hostVars, txnVars, linkVars
<1>7. QED BY <1>1, <1>2, <1>3, <1>4, <1>5, <1>6 DEF ReadLoop

(* The DP's error stays one of its three values; a reply with an error leaves one the
   host was told of, or none; one without leaves one so only if it was.      *)
LEMMA DpTypes ==
  ASSUME TypeOK, NEW op \in Transactions, NEW err \in BOOLEAN
  PROVE  /\ DpAfter(op, err) \subseteq {"none", "silent", "told"}
         /\ "told" \in DpAfter(op, err) => err \/ (dpFault = "told" /\ ~Aborts(op))
         /\ op = "query" /\ ~err => DpAfter(op, err) = {dpFault}
<1>1. dpFault \in {"none", "silent", "told"}
  BY DEF TypeOK
<1>2. CASE err
  BY <1>1, <1>2 DEF DpAfter, Aborts
<1>3. CASE ~err
  BY <1>1, <1>3 DEF DpAfter, Aborts, EndsInWrite
<1>4. QED BY <1>2, <1>3

LEMMA TypeProbe ==
  ASSUME TypeOK, ProbeRun \/ ProbeAsync \/ Unplug \/ Plug
  PROVE  TypeOK'
<1> USE DEF TypeOK
<1>1. CASE ProbeRun
  <2> DEFINE p == Head(toDev)
  <2>1. p \in Packet /\ Tail(toDev) \in Seq(Packet)
    BY <1>1, LinkTypes, BlankIsPacket DEF ProbeRun
  <2>2. \A err \in BOOLEAN : [p EXCEPT !.err = err] \in Packet
    BY <2>1 DEF Packet
  <2>3. [Blank EXCEPT !.op = p.op] \in Packet
    BY <2>1, BlankIsPacket DEF Packet
  <2>4. toHost' \in Seq(Packet) /\ faults' \in 0 .. MaxFaults
    BY <1>1, <2>2, <2>3, LinkTypes, FaultType DEF ProbeRun
  <2>5. dpFault' \in {"none", "silent", "told"}
    BY <1>1, <2>1, DpTypes DEF ProbeRun, Packet
  <2>6. QED
    BY <1>1, <2>1, <2>4, <2>5 DEF ProbeRun, hostVars, txnVars, readerVars
<1>2. CASE ProbeAsync
  <2>1. [Blank EXCEPT !.id = Async] \in Packet
    BY BlankIsPacket DEF Packet
  <2>2. QED
    BY <1>2, <2>1, LinkTypes DEF ProbeAsync, hostVars, txnVars, readerVars
<1>3. CASE Unplug
  <2>1. toDev' \in Seq(Packet) /\ toHost' \in Seq(Packet)
    <3>1. toDev' = <<>> /\ toHost' = <<>>
      BY <1>3 DEF Unplug
    <3>2. QED BY <3>1
  <2>2. attached' \in BOOLEAN /\ usb' \in {"null", "open", "dead"}
    BY <1>3 DEF Unplug
  <2>3. faults' \in 0 .. MaxFaults
    <3>1. Fault("unplug")
      BY <1>3 DEF Unplug
    <3>2. QED BY <3>1, FaultType
  <2>4. UNCHANGED <<hostVars, sequence, online, txnVars, exec, buf, sleepers,
                    readerVars, dpFault>>
    BY <1>3 DEF Unplug
  <2>5. QED
    BY <2>1, <2>2, <2>3, <2>4 DEF hostVars, txnVars, readerVars
<1>4. CASE Plug
  BY <1>4 DEF Plug, hostVars, txnVars, readerVars
<1>5. QED BY <1>1, <1>2, <1>3, <1>4

LEMMA TypeStep == TypeOK /\ [Next]_vars => TypeOK'
<1>1. ASSUME TypeOK, UNCHANGED vars PROVE TypeOK'
  BY <1>1 DEF TypeOK, vars
<1>2. QED BY <1>1, TypeQExec, TypeCaller, TypeReader, TypeProbe DEF Next

(* Every variable of Rswdp keeps its type. *)
THEOREM TypeCorrect == Spec => []TypeOK
BY TypeInit, TypeStep, PTL DEF Spec

-----------------------------------------------------------------------------
(* The discipline of swd_lock.  Whatever threads overlap in q_exec, each of
   these is needed to carry the others through a step.                      *)
IdleIsOut == \A t \in Threads : at[t] = "idle" => exec[t] = "no"

ReaderParked == online = -1 => reader = "ack"

SwdLockInv == IdleIsOut /\ ReaderParked /\ BufferLive /\ HandleSafe /\ NoLostWakeup

LEMMA SwdLockInit == Init => SwdLockInv
BY Constants DEF Init, SwdLockInv, IdleIsOut, ReaderParked, BufferLive, HandleSafe, NoLostWakeup

LEMMA SwdLockQExec ==
  ASSUME TypeOK, SwdLockInv, NEW t \in Threads, QExec(t)
  PROVE  SwdLockInv'
<1> USE Constants DEF TypeOK, SwdLockInv, IdleIsOut, ReaderParked, BufferLive, HandleSafe, NoLostWakeup
<1>1. CASE ExecOffline(t)
  BY <1>1 DEF ExecOffline, Calling, MustAck, Broadcast, hostVars, txnVars, readerVars
<1>2. CASE ExecSend(t)
  BY <1>2 DEF ExecSend, Calling, hostVars, readerVars
<1>3. CASE ExecWriteFails(t)
  BY <1>3 DEF ExecWriteFails, Calling, hostVars, txnVars, readerVars
<1>4. CASE ExecWake(t)
  BY <1>4 DEF ExecWake, EndsWait, readerVars
<1>5. QED BY <1>1, <1>2, <1>3, <1>4 DEF QExec

LEMMA SwdLockCaller ==
  ASSUME TypeOK, SwdLockInv, NEW t \in Threads, Caller(t) \/ Lock(t) \/ Operand(t)
  PROVE  SwdLockInv'
<1>1. \E stage \in Stages : Proceed(t, stage)
  BY DEF Caller, Lock, Operand, Cleared, Attached, Configured, NextTxn, ResetTarget, Unlock,
         AckEvents, OperandRead, Work, Stages
<1>2. exec[t] # "wait"
  BY DEF Caller, Lock, Operand, Cleared, Attached, Configured, NextTxn, ResetTarget, Unlock,
         AckEvents, OperandRead, Returned, SwdLockInv, IdleIsOut
<1>3. CallerUnchanged
  BY DEF Caller, Lock, Operand, Cleared, Attached, Configured, NextTxn, ResetTarget, Unlock,
         AckEvents, OperandRead
<1>4. QED
  BY <1>1, <1>2, <1>3, Constants
  DEF TypeOK, SwdLockInv, IdleIsOut, ReaderParked, BufferLive, HandleSafe,
      NoLostWakeup, Proceed, CallerUnchanged, txnVars, readerVars

LEMMA SwdLockReader ==
  ASSUME TypeOK, SwdLockInv, ReadLoop
  PROVE  SwdLockInv'
<1> USE Constants DEF TypeOK, SwdLockInv, IdleIsOut, ReaderParked, BufferLive, HandleSafe, NoLostWakeup
<1>1. CASE ReaderOpen
  BY <1>1 DEF ReaderOpen, hostVars, txnVars
<1>2. CASE ReaderQuery
  BY <1>2 DEF ReaderQuery, hostVars, txnVars
<1>3. CASE ReaderRead
  BY <1>3 DEF ReaderRead, hostVars, txnVars
<1>4. CASE ReaderFails
  BY <1>4 DEF ReaderFails, FailTxn, hostVars
<1>5. CASE ReaderHandle
  BY <1>5 DEF ReaderHandle, Broadcast, hostVars
<1>6. CASE ReaderAcked
  BY <1>6 DEF ReaderAcked, hostVars, txnVars
<1>7. QED BY <1>1, <1>2, <1>3, <1>4, <1>5, <1>6 DEF ReadLoop

LEMMA SwdLockProbe ==
  ASSUME TypeOK, SwdLockInv, ProbeRun \/ ProbeAsync \/ Unplug \/ Plug
  PROVE  SwdLockInv'
<1>1. /\ UNCHANGED <<hostVars, online, txnVars, exec, sleepers, reader>>
      /\ usb' = usb \/ (usb = "open" /\ usb' = "dead")
  BY DEF ProbeRun, ProbeAsync, Unplug, Plug, hostVars, txnVars, readerVars
<1>2. QED
  BY <1>1 DEF SwdLockInv, IdleIsOut, ReaderParked, BufferLive, HandleSafe,
              NoLostWakeup, hostVars, txnVars

LEMMA SwdLockStep == TypeOK /\ SwdLockInv /\ [Next]_vars => SwdLockInv'
<1>1. ASSUME SwdLockInv, UNCHANGED vars PROVE SwdLockInv'
  BY <1>1 DEF SwdLockInv, IdleIsOut, ReaderParked, BufferLive, HandleSafe, NoLostWakeup, vars
<1>2. QED BY <1>1, SwdLockQExec, SwdLockCaller, SwdLockReader, SwdLockProbe DEF Next

(* What swd_lock protects - the reply buffer, the usb handle and the sleepers on
   swd_event - stays consistent through every critical section.             *)
THEOREM SwdLockSafe == Spec => []SwdLockInv
BY SwdLockInit, SwdLockStep, TypeCorrect, PTL DEF Spec

(* swd_reader never copies a reply through NULL or into the frame of a q_exec
   that has returned, even when operand reads race with commands.           *)
THEOREM BufferAlwaysLive == Spec => []BufferLive
<1>1. SwdLockInv => BufferLive
  BY DEF SwdLockInv
<1>2. QED BY <1>1, SwdLockSafe, PTL

(* The usb handle is closed only while swd_reader is parked, and never leaked. *)
THEOREM HandleAlwaysSafe == Spec => []HandleSafe
<1>1. SwdLockInv => HandleSafe
  BY DEF SwdLockInv
<1>2. QED BY <1>1, SwdLockSafe, PTL

(* Every broadcast that could be missed is not: nobody sleeps on a condition
   that already came true.                                                  *)
THEOREM WakeupsNeverLost == Spec => []NoLostWakeup
<1>1. SwdLockInv => NoLostWakeup
  BY DEF SwdLockInv
<1>2. QED BY <1>1, SwdLockSafe, PTL

-----------------------------------------------------------------------------
(* What a call gets, when no two threads are inside q_exec at once and no id is
   taken while an unread packet still carries it.  The first is what _dbg_lock
   is for; an operand read between two commands keeps it too.               *)
OneCall == \A t, u \in Threads : exec[t] # "no" /\ exec[u] # "no" => t = u

FreshIds == ~IdReuse

OneCaller == \A t \in Threads : at[t] # "idle" => dbgLock = t

LEMMA OneCallerStep ==
  ASSUME BareReads = {}
  PROVE  TypeOK /\ IdleIsOut /\ OneCaller /\ [Next]_vars => OneCaller'
<1> SUFFICES ASSUME TypeOK, OneCaller, [Next]_vars PROVE OneCaller'
  OBVIOUS
<1> USE Constants DEF TypeOK, OneCaller
<1>1. ASSUME NEW t \in Threads, Caller(t) \/ Lock(t) \/ Operand(t) PROVE OneCaller'
  BY <1>1 DEF Caller, Lock, Operand, Cleared, Attached, Configured, NextTxn, ResetTarget, Unlock,
              AckEvents, OperandRead, Proceed
<1>2. ASSUME NEW t \in Threads, QExec(t) PROVE OneCaller'
  BY <1>2 DEF QExec, ExecOffline, ExecSend, ExecWriteFails, ExecWake, hostVars
<1>3. ASSUME ReadLoop \/ ProbeRun \/ ProbeAsync \/ Unplug \/ Plug PROVE OneCaller'
  BY <1>3 DEF ReadLoop, ReaderOpen, ReaderQuery, ReaderRead, ReaderFails, ReaderHandle,
              ReaderAcked, ProbeRun, ProbeAsync, Unplug, Plug, hostVars
<1>4. CASE UNCHANGED vars
  BY <1>4 DEF vars
<1>5. QED BY <1>1, <1>2, <1>3, <1>4 DEF Next

(* Threads that only call q_exec under _dbg_lock are never inside it two at a
   time: debugger_lock and the monitor take it before, and keep it until the
   last transaction of a command has returned.                              *)
THEOREM LockSerialises ==
  ASSUME BareReads = {}
  PROVE  Spec => []OneCall
<1>1. Init => OneCaller
  BY DEF Init, OneCaller
<1>2. TypeOK /\ IdleIsOut /\ OneCaller /\ [Next]_vars => OneCaller'
  BY OneCallerStep
<1>3. SwdLockInv => IdleIsOut
  BY DEF SwdLockInv
<1>4. IdleIsOut /\ OneCaller => OneCall
  BY DEF IdleIsOut, OneCaller, OneCall
<1>5. QED BY <1>1, <1>2, <1>3, <1>4, TypeCorrect, SwdLockSafe, PTL DEF Spec

WaiterOwns == \A t \in Threads : exec[t] = "wait" => txnData = t /\ txnStatus # "none"
WaitOnline == txnStatus = "wait" => online = 1
IdOwned    == txnStatus = "wait" =>
                txnId \in Ids /\ \A p \in InLink : p.id = txnId => p.call = txnData
Delivered  == \A t \in Threads : exec[t] = "wait" /\ txnStatus = "done" => buf[t].call = t

ReplyInv == WaiterOwns /\ WaitOnline /\ IdOwned /\ Delivered /\ OwnReply

(* What adding, taking and orphaning do to the packets under way. *)
LEMMA LinkMembers ==
  ASSUME NEW q \in Seq(Packet), NEW p \in Packet
  PROVE  /\ \A i \in DOMAIN Append(q, p) :
              Append(q, p)[i] = p \/ \E j \in DOMAIN q : Append(q, p)[i] = q[j]
         /\ q # <<>> => /\ \E j \in DOMAIN q : Head(q) = q[j]
                        /\ \A i \in DOMAIN Tail(q) : \E j \in DOMAIN q : Tail(q)[i] = q[j]
<1>1. \A i \in DOMAIN Append(q, p) :
        Append(q, p)[i] = p \/ \E j \in DOMAIN q : Append(q, p)[i] = q[j]
  OBVIOUS
<1>2. ASSUME q # <<>> PROVE \E j \in DOMAIN q : Head(q) = q[j]
  BY <1>2
<1>3. ASSUME q # <<>>, NEW i \in DOMAIN Tail(q)
      PROVE  \E j \in DOMAIN q : Tail(q)[i] = q[j]
  <2>1. i + 1 \in DOMAIN q /\ Tail(q)[i] = q[i + 1]
    BY <1>3
  <2>2. QED BY <2>1
<1>4. QED BY <1>1, <1>2, <1>3

(* The probe passes on the ids, callers and operations of the packets it runs. *)
LEMMA ProbeLink ==
  ASSUME TypeOK, ProbeRun \/ ProbeAsync \/ Unplug \/ Plug
  PROVE  \A p \in InLink' :
           \/ p.id \in {Runt, Async} /\ p.call = Nobody
           \/ \E q \in InLink : p.id = q.id /\ p.call = q.call /\ p.op = q.op
<1>h. hand' = hand
  BY DEF ProbeRun, ProbeAsync, Unplug, Plug, readerVars
<1>1. CASE ProbeRun
  <2> DEFINE h == Head(toDev)
  <2>1. h \in Packet /\ h \in InLink
    BY <1>1, LinkTypes, LinkMembers, BlankIsPacket DEF ProbeRun, TypeOK, InLink
  <2>2. PICK r \in Packet : /\ toHost' = Append(toHost, r)
                            /\ \/ r.id = Runt /\ r.call = Nobody
                               \/ r.id = h.id /\ r.call = h.call /\ r.op = h.op
    <3>1. \A err \in BOOLEAN : /\ [h EXCEPT !.err = err] \in Packet
                               /\ [h EXCEPT !.err = err].id = h.id
                               /\ [h EXCEPT !.err = err].call = h.call
                               /\ [h EXCEPT !.err = err].op = h.op
      BY <2>1 DEF Packet
    <3>2. /\ [Blank EXCEPT !.op = h.op] \in Packet
          /\ [Blank EXCEPT !.op = h.op].id = Runt
          /\ [Blank EXCEPT !.op = h.op].call = Nobody
      BY <2>1, BlankIsPacket DEF Packet, Blank
    <3>3. QED BY <1>1, <3>1, <3>2 DEF ProbeRun
  <2>3. \A i \in DOMAIN toDev' : toDev'[i] \in InLink
    BY <1>1, LinkMembers, BlankIsPacket DEF ProbeRun, TypeOK, InLink
  <2>4. \A i \in DOMAIN toHost' : toHost'[i] \in InLink \/ toHost'[i] = r
    BY <2>2, LinkMembers DEF TypeOK, InLink
  <2>5. QED BY <1>h, <2>1, <2>2, <2>3, <2>4 DEF InLink
<1>2. CASE ProbeAsync
  <2> DEFINE r == [Blank EXCEPT !.id = Async]
  <2>1. r \in Packet /\ r.id = Async /\ r.call = Nobody
    BY BlankIsPacket DEF Packet, Blank
  <2>2. \A i \in DOMAIN toHost' : toHost'[i] \in InLink \/ toHost'[i] = r
    BY <1>2, <2>1, LinkMembers DEF ProbeAsync, TypeOK, InLink
  <2>3. toDev' = toDev
    BY <1>2 DEF ProbeAsync
  <2>4. ASSUME NEW p \in InLink' PROVE p \in InLink \/ p = r
    <3>1. \/ p \in {toDev'[i] : i \in DOMAIN toDev'}
          \/ p \in {toHost'[i] : i \in DOMAIN toHost'}
          \/ p = hand'
      BY DEF InLink
    <3>2. CASE p \in {toDev'[i] : i \in DOMAIN toDev'}
      BY <2>3, <3>2 DEF InLink
    <3>3. CASE p \in {toHost'[i] : i \in DOMAIN toHost'}
      BY <2>2, <3>3
    <3>4. CASE p = hand'
      BY <1>h, <3>4 DEF InLink
    <3>5. QED BY <3>1, <3>2, <3>3, <3>4
  <2>5. QED BY <2>1, <2>4
<1>3. CASE Unplug
  BY <1>h, <1>3 DEF Unplug, InLink
<1>4. CASE Plug
  BY <1>h, <1>4 DEF Plug, InLink
<1>5. QED BY <1>1, <1>2, <1>3, <1>4

LEMMA ReplyInit == Init => ReplyInv
BY DEF Init, ReplyInv, WaiterOwns, WaitOnline, IdOwned, Delivered, OwnReply

LEMMA ReplyQExec ==
  ASSUME FreshIds, TypeOK, SwdLockInv, ReplyInv, OneCall, OneCall',
         NEW t \in Threads, QExec(t)
  PROVE  ReplyInv'
<1> USE Constants DEF ReplyInv, WaiterOwns, WaitOnline, IdOwned, Delivered, OwnReply
<1>1. \A u \in Threads : u # t => exec[u] = "no"
  BY DEF QExec, ExecOffline, ExecSend, ExecWriteFails, ExecWake, OneCall, TypeOK
<1>2. CASE ExecOffline(t)
  <2>1. InLink' = InLink
    BY <1>2 DEF ExecOffline, InLink, readerVars, linkVars
  <2>2. QED
    BY <1>2, <2>1 DEF ExecOffline, Calling, TypeOK, hostVars, txnVars
<1>3. CASE ExecSend(t)
  <2>1. \A u \in Threads : exec[u] = "wait" => u = t
    BY <1>1
  <2>2. Request(t, t) \in Packet /\ toDev' = Append(toDev, Request(t, t))
    BY <1>3, RequestType DEF ExecSend
  <2>3. \A p \in InLink' : p \in InLink \/ p = Request(t, t)
    BY <1>3, <2>2, LinkMembers DEF ExecSend, InLink, TypeOK, readerVars
  <2>4. \A p \in InLink : p.id # sequence
    BY <1>3 DEF ExecSend, FreshId, FreshIds
  <2>5. IdOwned'
    BY <1>3, <2>3, <2>4 DEF ExecSend, Request, TypeOK
  <2>6. QED
    BY <1>1, <1>3, <2>1, <2>5 DEF ExecSend, Calling, TypeOK, hostVars
<1>4. CASE ExecWriteFails(t)
  <2>1. txnStatus # "wait"
    <3>1. SUFFICES ASSUME txnStatus = "wait" PROVE FALSE
      OBVIOUS
    <3>2. txnData \in Threads /\ exec[txnData] = "wait"
      BY <3>1 DEF SwdLockInv, BufferLive, TypeOK
    <3>3. txnData = t
      BY <1>1, <3>2
    <3>4. QED BY <1>4, <3>2, <3>3 DEF ExecWriteFails, Calling
  <2>2. QED
    BY <1>4, <2>1 DEF ExecWriteFails, Calling, TypeOK, hostVars, txnVars
<1>5. CASE ExecWake(t)
  <2>1. InLink' = InLink
    BY <1>5 DEF ExecWake, InLink, readerVars, linkVars
  <2>2. CASE UNCHANGED <<exec, txnData>>
    BY <1>5, <2>1, <2>2 DEF ExecWake
  <2>3. CASE EndsWait
    <3>2. txnStatus # "wait"
      BY <2>3 DEF EndsWait
    <3>3. exec'[t] \in {"ok", "err"} => buf[t].call = t
      BY <1>5, <2>3, <3>2 DEF ExecWake, TypeOK
    <3>4. \A u \in Threads : u # t => exec'[u] = "no"
      BY <1>1, <1>5 DEF ExecWake, TypeOK
    <3>5. exec'[t] # "wait"
      BY <1>5, <2>3 DEF ExecWake, TypeOK
    <3>6. QED
      BY <1>5, <3>2, <3>3, <3>4, <3>5 DEF ExecWake
  <2>4. QED BY <1>5, <2>2, <2>3 DEF ExecWake
<1>6. QED BY <1>2, <1>3, <1>4, <1>5 DEF QExec

LEMMA ReplyCaller ==
  ASSUME TypeOK, ReplyInv, NEW t \in Threads, Caller(t) \/ Lock(t) \/ Operand(t)
  PROVE  ReplyInv'
<1>1. exec' = [exec EXCEPT ![t] = "no"] /\ CallerUnchanged
  BY DEF Caller, Lock, Operand, Cleared, Attached, Configured, NextTxn, ResetTarget, Unlock,
         AckEvents, OperandRead, Proceed
<1>2. InLink' = InLink
  BY <1>1 DEF CallerUnchanged, InLink, readerVars, linkVars
<1>3. QED
  BY <1>1, <1>2
  DEF CallerUnchanged, txnVars, TypeOK, ReplyInv, WaiterOwns, WaitOnline, IdOwned,
      Delivered, OwnReply

LEMMA ReplyReader ==
  ASSUME TypeOK, SwdLockInv, ReplyInv, ReadLoop
  PROVE  ReplyInv'
<1> USE DEF ReplyInv, WaiterOwns, WaitOnline, IdOwned, Delivered, OwnReply
<1>1. CASE ReaderOpen
  BY <1>1 DEF ReaderOpen, InLink, hostVars, txnVars, linkVars
<1>2. CASE ReaderQuery
  <2>1. txnStatus # "wait"
    BY <1>2 DEF ReaderQuery, SwdLockInv, HandleSafe
  <2>2. QED
    BY <1>2, <2>1 DEF ReaderQuery, hostVars, txnVars
<1>3. CASE ReaderRead
  <2>1. \A p \in InLink' : p \in InLink
    BY <1>3, LinkMembers, BlankIsPacket DEF ReaderRead, InLink, TypeOK
  <2>2. QED
    BY <1>3, <2>1 DEF ReaderRead, hostVars, txnVars
<1>4. CASE ReaderFails
  BY <1>4 DEF ReaderFails, FailTxn, hostVars
<1>5. CASE ReaderHandle
  <2>1. \A p \in InLink' : p \in InLink \/ p = Blank
    BY <1>5 DEF ReaderHandle, InLink, linkVars
  <2>2. CASE IsAnswer \/ ~IsReply
    <3>1. UNCHANGED <<txnStatus, buf>> /\ (online' = 1 \/ online' = online)
      BY <1>5, <2>2 DEF ReaderHandle, IsReply
    <3>2. IdOwned'
      BY <1>5, <2>1, <3>1, Constants DEF ReaderHandle, Blank
    <3>3. QED BY <1>5, <3>1, <3>2 DEF ReaderHandle, hostVars
  <2>3. CASE IsReply /\ ~IsAnswer
    <3>1. /\ hand.call = txnData /\ txnData \in Threads
          /\ txnStatus' = "done"
          /\ buf' = [buf EXCEPT ![txnData] = [call |-> hand.call, err |-> hand.err]]
          /\ UNCHANGED <<online, exec, txnData>>
      BY <1>5, <2>3 DEF ReaderHandle, IsReply, InLink, SwdLockInv, BufferLive, TypeOK
    <3>2. buf'[txnData].call = txnData
      BY <3>1 DEF TypeOK
    <3>3. exec[txnData] = "wait"
      BY <2>3 DEF IsReply, SwdLockInv, BufferLive
    <3>4. \A t \in Threads : t # txnData => buf'[t] = buf[t]
      BY <3>1 DEF TypeOK
    <3>5. QED BY <1>5, <3>1, <3>2, <3>3, <3>4 DEF ReaderHandle, hostVars
  <2>4. QED BY <2>2, <2>3
<1>6. CASE ReaderAcked
  BY <1>6 DEF ReaderAcked, InLink, hostVars, txnVars, linkVars
<1>7. QED BY <1>1, <1>2, <1>3, <1>4, <1>5, <1>6 DEF ReadLoop

LEMMA ReplyProbe ==
  ASSUME TypeOK, ReplyInv, ProbeRun \/ ProbeAsync \/ Unplug \/ Plug
  PROVE  ReplyInv'
<1>1. UNCHANGED <<hostVars, online, txnVars, exec, buf, hand>>
  BY DEF ProbeRun, ProbeAsync, Unplug, Plug, txnVars, readerVars
<1>2. IdOwned'
  BY <1>1, ProbeLink, Constants DEF ReplyInv, IdOwned, txnVars
<1>3. QED
  BY <1>1, <1>2 DEF ReplyInv, WaiterOwns, WaitOnline, Delivered, OwnReply, txnVars

LEMMA ReplyStep ==
  ASSUME FreshIds
  PROVE  TypeOK /\ SwdLockInv /\ ReplyInv /\ OneCall /\ OneCall' /\ [Next]_vars
           => ReplyInv'
<1> SUFFICES ASSUME TypeOK, SwdLockInv, ReplyInv, OneCall, OneCall', [Next]_vars
             PROVE  ReplyInv'
  OBVIOUS
<1>1. CASE UNCHANGED vars
  BY <1>1 DEF ReplyInv, WaiterOwns, WaitOnline, IdOwned, Delivered, OwnReply, InLink, vars
<1>2. ASSUME NEW t \in Threads, QExec(t) PROVE ReplyInv'
  BY <1>2, ReplyQExec
<1>3. ASSUME NEW t \in Threads, Caller(t) \/ Lock(t) \/ Operand(t) PROVE ReplyInv'
  BY <1>3, ReplyCaller
<1>4. CASE ReadLoop
  BY <1>4, ReplyReader
<1>5. CASE ProbeRun \/ ProbeAsync \/ Unplug \/ Plug
  BY <1>5, ReplyProbe
<1>6. QED BY <1>1, <1>2, <1>3, <1>4, <1>5 DEF Next

LEMMA ReplySafe ==
  ASSUME FreshIds
  PROVE  Spec /\ []OneCall => []ReplyInv
<1>1. TypeOK /\ SwdLockInv /\ ReplyInv /\ OneCall /\ OneCall' /\ [Next]_vars
        => ReplyInv'
  BY ReplyStep
<1>2. QED BY <1>1, ReplyInit, TypeCorrect, SwdLockSafe, PTL DEF Spec

(* Each call that returns a reply returns its own: stale replies, replies to
   other threads and uninitialised buffers are never parsed, as long as no two
   threads are inside q_exec at once and ids do not wrap onto unread packets. *)
THEOREM ReplyIsOwn ==
  ASSUME FreshIds
  PROVE  Spec /\ []OneCall => []OwnReply
<1>1. ReplyInv => OwnReply
  BY DEF ReplyInv
<1>2. QED BY <1>1, ReplySafe, PTL
-----------------------------------------------------------------------------
(* Whose answer brings the link up, whatever threads overlap. *)
QueryOver  == online = 1 => queryId = NoId
QueryOwned == reader \in {"read", "have"} => \A p \in InLink : p.id = queryId => p.call = Reader

QueryInv == QueryOver /\ QueryOwned

(* No packet has the id that queryId holds when no query is out. *)
LEMMA NoPacketUnnamed ==
  ASSUME NEW d \in Seq(Packet), NEW h \in Seq(Packet), NEW k \in Packet
  PROVE  \A p \in {d[i] : i \in DOMAIN d} \cup {h[i] : i \in DOMAIN h} \cup {k} : p.id # NoId
<1>1. \A p \in Packet : p.id # NoId
  BY Constants DEF Packet, Runt, Async, NoId
<1>2. \A i \in DOMAIN d : d[i] \in Packet
  OBVIOUS
<1>3. \A i \in DOMAIN h : h[i] \in Packet
  OBVIOUS
<1>4. QED BY <1>1, <1>2, <1>3

LEMMA QueryInit == Init => QueryInv
BY DEF Init, QueryInv, QueryOver, QueryOwned

LEMMA QueryQExec ==
  ASSUME TypeOK, TypeOK', QueryInv, NEW t \in Threads, QExec(t)
  PROVE  QueryInv'
<1> USE DEF QueryInv, QueryOver, QueryOwned
<1>1. CASE ExecOffline(t) \/ ExecWake(t)
  <2>1. InLink' = InLink /\ UNCHANGED <<reader, queryId>> /\ (online' = online \/ online' = 0)
    BY <1>1 DEF ExecOffline, ExecWake, InLink, readerVars, linkVars
  <2>2. QED BY <2>1
<1>2. CASE ExecSend(t) \/ ExecWriteFails(t)
  <2>1. queryId' = NoId /\ online' = online
    BY <1>2 DEF ExecSend, ExecWriteFails, readerVars
  <2>2. \A p \in InLink' : p.id # NoId
    BY NoPacketUnnamed DEF TypeOK, InLink
  <2>3. QED BY <2>1, <2>2
<1>3. QED BY <1>1, <1>2 DEF QExec

LEMMA QueryReader ==
  ASSUME FreshIds, TypeOK, TypeOK', SwdLockInv, QueryInv, ReadLoop
  PROVE  QueryInv'
<1> USE DEF QueryInv, QueryOver, QueryOwned
<1>1. CASE ReaderOpen
  BY <1>1 DEF ReaderOpen
<1>2. CASE ReaderQuery
  <2> DEFINE q == [id |-> sequence, call |-> Reader, op |-> "query", err |-> FALSE]
  <2>1. q \in Packet
    BY <1>2 DEF ReaderQuery, Packet, Transactions, TypeOK
  <2>2. toDev' = toDev \/ toDev' = Append(toDev, q)
    BY <1>2 DEF ReaderQuery
  <2>3. \A p \in InLink' : p \in InLink \/ p = q
    <3> HIDE DEF q
    <3>1. \A i \in DOMAIN toDev' : toDev'[i] = q \/ \E j \in DOMAIN toDev : toDev'[i] = toDev[j]
      <4>1. CASE toDev' = toDev
        BY <4>1
      <4>2. CASE toDev' = Append(toDev, q)
        <5>1. toDev \in Seq(Packet)
          BY DEF TypeOK
        <5>2. \A i \in DOMAIN Append(toDev, q) :
                Append(toDev, q)[i] = q \/ \E j \in DOMAIN toDev : Append(toDev, q)[i] = toDev[j]
          BY <2>1, <5>1, LinkMembers
        <5>3. QED BY <4>2, <5>2
      <4>3. QED BY <2>2, <4>1, <4>2
    <3>2. UNCHANGED <<toHost, hand>>
      BY <1>2 DEF ReaderQuery
    <3>3. QED BY <3>1, <3>2 DEF InLink
  <2>4. \A p \in InLink : p.id # sequence
    BY <1>2 DEF ReaderQuery, FreshId, FreshIds
  <2>5. online # 1 /\ online' = online /\ queryId' = sequence
    BY <1>2 DEF ReaderQuery, SwdLockInv, HandleSafe
  <2>6. QED BY <2>3, <2>4, <2>5
<1>3. CASE ReaderRead
  <2>1. \A p \in InLink' : p \in InLink
    BY <1>3, LinkMembers, BlankIsPacket DEF ReaderRead, InLink, TypeOK
  <2>2. QED BY <1>3, <2>1 DEF ReaderRead
<1>4. CASE ReaderFails
  BY <1>4 DEF ReaderFails
<1>5. CASE ReaderHandle
  <2>1. \A p \in InLink' : p \in InLink \/ p = Blank
    BY <1>5 DEF ReaderHandle, InLink, linkVars
  <2>2. CASE queryId' = NoId
    <3>1. \A p \in InLink' : p.id # NoId
      BY NoPacketUnnamed DEF TypeOK, InLink
    <3>2. QED BY <2>2, <3>1
  <2>3. CASE queryId' = queryId /\ online' = online
    BY <1>5, <2>1, <2>3, Constants DEF ReaderHandle, TypeOK, Blank, NoId, Runt
  <2>4. QED BY <1>5, <2>2, <2>3 DEF ReaderHandle
<1>6. CASE ReaderAcked
  BY <1>6 DEF ReaderAcked
<1>7. QED BY <1>1, <1>2, <1>3, <1>4, <1>5, <1>6 DEF ReadLoop

LEMMA QueryStep ==
  ASSUME FreshIds
  PROVE  TypeOK /\ SwdLockInv /\ QueryInv /\ [Next]_vars => QueryInv'
<1> SUFFICES ASSUME TypeOK, SwdLockInv, QueryInv, [Next]_vars PROVE QueryInv'
  OBVIOUS
<1>1. TypeOK'
  BY TypeStep
<1>2. CASE UNCHANGED vars
  BY <1>2 DEF QueryInv, QueryOver, QueryOwned, InLink, vars
<1>3. ASSUME NEW t \in Threads, QExec(t) PROVE QueryInv'
  BY <1>1, <1>3, QueryQExec
<1>4. ASSUME NEW t \in Threads, Caller(t) \/ Lock(t) \/ Operand(t) PROVE QueryInv'
  <2>1. CallerUnchanged
    BY <1>4 DEF Caller, Lock, Operand, Cleared, Attached, Configured, NextTxn, ResetTarget, Unlock,
                AckEvents, OperandRead
  <2>2. QED
    BY <2>1 DEF CallerUnchanged, readerVars, linkVars, InLink, QueryInv, QueryOver, QueryOwned
<1>5. CASE ReadLoop
  BY <1>1, <1>5, QueryReader
<1>6. CASE ProbeRun \/ ProbeAsync \/ Unplug \/ Plug
  <2>1. UNCHANGED <<online, queryId, reader>>
    BY <1>6 DEF ProbeRun, ProbeAsync, Unplug, Plug, readerVars
  <2>2. queryId \notin {Runt, Async}
    BY Constants DEF TypeOK, NoId, Runt, Async
  <2>3. QED
    BY <1>6, <2>1, <2>2, ProbeLink DEF QueryInv, QueryOver, QueryOwned
<1>7. QED BY <1>2, <1>3, <1>4, <1>5, <1>6 DEF Next

LEMMA QuerySafe ==
  ASSUME FreshIds
  PROVE  Spec => []QueryInv
<1>1. TypeOK /\ SwdLockInv /\ QueryInv /\ [Next]_vars => QueryInv'
  BY QueryStep
<1>2. QED BY <1>1, QueryInit, TypeCorrect, SwdLockSafe, PTL DEF Spec

(* swd_reader sets swd_online only on the answer to the version query of this
   connection: an answer that an earlier connection left unread, or a reply to
   a transaction, does not bring the link up.                               *)
THEOREM OnlineIsFresh ==
  ASSUME FreshIds
  PROVE  Spec => OnlineByFreshAnswer
<1>1. ASSUME QueryInv, [Next]_vars
      PROVE  [online' = 1 /\ online # 1 => hand.call = Reader]_vars
  <2>1. ASSUME online' = 1, online # 1, Next PROVE hand.call = Reader
    <3>1. ReaderHandle
      BY <2>1 DEF Next, QExec, ExecOffline, ExecSend, ExecWriteFails, ExecWake, Caller,
           Cleared, Attached, Configured, NextTxn, ResetTarget, Unlock, AckEvents, OperandRead, Lock,
           Operand, CallerUnchanged, ReadLoop, ReaderOpen, ReaderQuery, ReaderRead,
           ReaderFails, ReaderAcked, ProbeRun, ProbeAsync, Unplug, Plug
    <3>2. IsAnswer /\ reader = "have"
      BY <2>1, <3>1 DEF ReaderHandle
    <3>3. hand \in InLink
      BY DEF InLink
    <3>4. QED BY <1>1, <3>2, <3>3 DEF IsAnswer, QueryInv, QueryOwned
  <2>2. QED BY <1>1, <2>1
<1>2. QueryInv /\ [Next]_vars => [online' = 1 /\ online # 1 => hand.call = Reader]_vars
  BY <1>1
<1>3. QED BY <1>2, QuerySafe, PTL DEF Spec, OnlineByFreshAnswer
-----------------------------------------------------------------------------
(* Where the packet of a call is: in at most one place, and nowhere once the
   call has given up on it.                                                 *)
HandEmpty == reader # "have" => hand = Blank

Tracked ==
  \A p \in InLink : p.call \in Threads =>
    exec[p.call] = "wait" /\ txnStatus = "wait" /\ p.id = txnId /\ p.op = at[p.call]

Once(t, q) == \A i, j \in DOMAIN q : q[i].call = t /\ q[j].call = t => i = j

AtOnePlace ==
  \A t \in Threads :
    /\ Once(t, toDev) /\ Once(t, toHost)
    /\ Carried(t, toHost) => ~Carried(t, toDev)
    /\ hand.call = t => ~Carried(t, toDev) /\ ~Carried(t, toHost)

TrackInv == HandEmpty /\ Tracked /\ AtOnePlace

(* A packet of t is carried after an Append if it was before, or is the new one;
   a packet that is taken is carried no more.                               *)
LEMMA CarriedAppend ==
  ASSUME NEW q \in Seq(Packet), NEW p \in Packet, NEW t
  PROVE  /\ Carried(t, Append(q, p)) <=> (Carried(t, q) \/ p.call = t)
         /\ Once(t, q) /\ ~(Carried(t, q) /\ p.call = t) => Once(t, Append(q, p))
BY DEF Carried, Once

LEMMA CarriedTail ==
  ASSUME NEW q \in Seq(Packet), q # <<>>, NEW t
  PROVE  /\ Carried(t, q) <=> (Head(q).call = t \/ Carried(t, Tail(q)))
         /\ Once(t, q) => Once(t, Tail(q)) /\ ~(Head(q).call = t /\ Carried(t, Tail(q)))
<1>1. /\ 1 \in DOMAIN q /\ Head(q) = q[1]
      /\ \A i \in DOMAIN Tail(q) : i \in Nat \ {0} /\ i + 1 \in DOMAIN q /\ Tail(q)[i] = q[i + 1]
      /\ \A i \in DOMAIN q : i # 1 => i - 1 \in DOMAIN Tail(q) /\ Tail(q)[i - 1] = q[i]
  OBVIOUS
<1>2. Carried(t, q) <=> (Head(q).call = t \/ Carried(t, Tail(q)))
  BY <1>1 DEF Carried
<1>3. Once(t, q) => Once(t, Tail(q))
  BY <1>1 DEF Once
<1>4. Once(t, q) => ~(Head(q).call = t /\ Carried(t, Tail(q)))
  <2>1. ASSUME Once(t, q), Head(q).call = t, NEW i \in DOMAIN Tail(q), Tail(q)[i].call = t
        PROVE  FALSE
    <3>1. i + 1 = 1
      BY <1>1, <2>1 DEF Once
    <3>2. QED BY <1>1, <3>1
  <2>2. QED BY <2>1 DEF Carried
<1>5. QED BY <1>2, <1>3, <1>4

LEMMA CarriedOrphan ==
  ASSUME NEW q \in Seq(Packet), NEW t \in Threads
  PROVE  ~Carried(t, Orphan(q)) /\ Once(t, Orphan(q))
<1>1. ASSUME NEW i \in DOMAIN Orphan(q) PROVE Orphan(q)[i].call = Nobody
  <2>1. i \in DOMAIN q /\ Orphan(q)[i] = [q[i] EXCEPT !.call = Nobody] /\ q[i] \in Packet
    BY DEF Orphan
  <2>2. QED BY <2>1 DEF Packet
<1>2. QED BY <1>1, Constants DEF Carried, Once

LEMMA TrackInit == Init => TrackInv
BY Constants DEF Init, TrackInv, HandEmpty, Tracked, AtOnePlace, InLink, Carried, Once, Blank

(* Inside q_exec there is only the thread that takes a step of it. *)
LEMMA OnlyCaller ==
  ASSUME TypeOK, OneCall, OneCall', NEW t \in Threads, QExec(t)
  PROVE  \A u \in Threads \ {t} : exec[u] = "no" /\ exec'[u] = "no"
BY DEF QExec, ExecOffline, ExecSend, ExecWriteFails, ExecWake, OneCall, TypeOK

LEMMA TrackQExec ==
  ASSUME TypeOK, TrackInv, OneCall, OneCall', NEW t \in Threads, QExec(t)
  PROVE  TrackInv'
<1> USE Constants DEF TrackInv, HandEmpty, Tracked, AtOnePlace
<1>1. \A u \in Threads \ {t} : exec[u] = "no" /\ exec'[u] = "no"
  BY OnlyCaller
<1>2. UNCHANGED <<toHost, hand, reader, at>>
  BY DEF QExec, ExecOffline, ExecSend, ExecWriteFails, ExecWake, readerVars, linkVars, hostVars
<1>3. CASE ExecOffline(t) \/ ExecWriteFails(t)
  <2>1. exec[t] = "no" /\ UNCHANGED <<txnStatus, txnId>>
    BY <1>3 DEF ExecOffline, ExecWriteFails, Calling, txnVars
  <2>2. \A p \in InLink : p.call \notin Threads
    BY <1>1, <2>1
  <2>3. toDev' = toDev \/ toDev' = Append(toDev, Request(t, Nobody))
    BY <1>3 DEF ExecOffline, ExecWriteFails, linkVars
  <2>4. Calling(t)
    BY <1>3 DEF ExecOffline, ExecWriteFails
  <2>5. Request(t, Nobody) \in Packet /\ Request(t, Nobody).call = Nobody
    BY <2>4, RequestType DEF Request
  <2>6. \A p \in InLink' : p.call \notin Threads
    <3>1. \A i \in DOMAIN toDev' : toDev'[i].call \notin Threads
      <4>1. CASE toDev' = toDev
        BY <2>2, <4>1 DEF InLink
      <4>2. CASE toDev' = Append(toDev, Request(t, Nobody))
        BY <2>2, <2>5, <4>2, LinkMembers DEF InLink, TypeOK
      <4>3. QED BY <2>3, <4>1, <4>2
    <3>2. QED BY <1>2, <2>2, <3>1 DEF InLink
  <2>7. QED BY <1>2, <2>6 DEF InLink, Carried, Once
<1>4. CASE ExecSend(t)
  <2> DEFINE r == Request(t, t)
  <2>1. \A p \in InLink : p.call \notin Threads
    BY <1>1, <1>4 DEF ExecSend, Calling
  <2>2. r \in Packet /\ toDev' = Append(toDev, r)
    BY <1>4, RequestType DEF ExecSend
  <2>3. r.call = t /\ r.id = sequence /\ r.op = at[t]
    BY DEF Request
  <2>4. \A p \in InLink' : p \in InLink \/ p = r
    <3> HIDE DEF r
    <3>1. QED BY <1>2, <2>2, LinkMembers DEF InLink, TypeOK
  <2>5. Tracked'
    BY <1>2, <1>4, <2>1, <2>3, <2>4 DEF ExecSend, TypeOK
  <2>6. AtOnePlace'
    <3> HIDE DEF r
    <3> SUFFICES ASSUME NEW u \in Threads
                 PROVE  /\ Once(u, toDev') /\ Once(u, toHost')
                        /\ Carried(u, toHost') => ~Carried(u, toDev')
                        /\ hand'.call = u => ~Carried(u, toDev') /\ ~Carried(u, toHost')
      BY DEF Carried, Once
    <3>1. ~Carried(u, toDev) /\ ~Carried(u, toHost) /\ hand.call # u
      BY <2>1 DEF Carried, InLink
    <3>2. Once(u, Append(toDev, r))
      BY <2>2, <3>1, CarriedAppend DEF TypeOK
    <3>3. QED BY <1>2, <2>2, <3>1, <3>2
  <2>7. QED BY <1>2, <2>5, <2>6
<1>5. CASE ExecWake(t)
  <2>1. UNCHANGED <<toDev, txnStatus, txnId>>
    BY <1>5 DEF ExecWake, linkVars
  <2>2. txnStatus # "wait" \/ exec' = exec
    BY <1>5 DEF ExecWake, EndsWait
  <2>3. InLink' = InLink
    BY <1>2, <2>1 DEF InLink
  <2>4. QED BY <1>2, <2>1, <2>2, <2>3 DEF Carried, Once
<1>6. QED BY <1>3, <1>4, <1>5 DEF QExec

LEMMA TrackCaller ==
  ASSUME TypeOK, SwdLockInv, TrackInv, NEW t \in Threads, Caller(t) \/ Lock(t) \/ Operand(t)
  PROVE  TrackInv'
<1>1. exec[t] # "wait"
  BY DEF Caller, Lock, Operand, Cleared, Attached, Configured, NextTxn, ResetTarget, Unlock,
         AckEvents, OperandRead, Returned, SwdLockInv, IdleIsOut
<1>2. \E stage \in Stages : Proceed(t, stage)
  BY DEF Caller, Lock, Operand, Cleared, Attached, Configured, NextTxn, ResetTarget, Unlock,
         AckEvents, OperandRead, Work, Stages
<1>3. CallerUnchanged
  BY DEF Caller, Lock, Operand, Cleared, Attached, Configured, NextTxn, ResetTarget, Unlock,
         AckEvents, OperandRead
<1>4. InLink' = InLink /\ UNCHANGED <<toDev, toHost, hand, reader, txnId, txnStatus>>
  BY <1>3 DEF CallerUnchanged, InLink, readerVars, linkVars, txnVars
<1>5. \A u \in Threads : exec[u] = "wait" => exec'[u] = "wait" /\ at'[u] = at[u]
  BY <1>1, <1>2 DEF Proceed, TypeOK
<1>6. QED BY <1>4, <1>5 DEF TrackInv, HandEmpty, Tracked, AtOnePlace, Carried, Once

LEMMA TrackReader ==
  ASSUME TypeOK, SwdLockInv, ReplyInv, TrackInv, OneCall, ReadLoop
  PROVE  TrackInv'
<1> USE Constants DEF TrackInv, HandEmpty, Tracked, AtOnePlace
<1>1. UNCHANGED <<exec, at, txnId, txnData>>
  BY DEF ReadLoop, ReaderOpen, ReaderQuery, ReaderRead, ReaderFails, ReaderHandle,
         ReaderAcked, hostVars, txnVars
<1>2. CASE ReaderOpen \/ ReaderAcked
  <2>1. UNCHANGED <<toDev, toHost, hand, txnStatus>> /\ reader # "have" /\ reader' # "have"
    BY <1>2 DEF ReaderOpen, ReaderAcked, linkVars, txnVars
  <2>2. InLink' = InLink
    BY <2>1 DEF InLink
  <2>3. QED BY <1>1, <2>1, <2>2 DEF Carried, Once
<1>3. CASE ReaderQuery
  <2> DEFINE q == [id |-> sequence, call |-> Reader, op |-> "query", err |-> FALSE]
  <2>1. q \in Packet /\ q.call = Reader
    BY <1>3 DEF ReaderQuery, Packet, Transactions, TypeOK
  <2>2. toDev' = toDev \/ toDev' = Append(toDev, q)
    BY <1>3 DEF ReaderQuery
  <2>3. UNCHANGED <<toHost, hand, txnStatus>> /\ reader # "have" /\ reader' # "have"
    BY <1>3 DEF ReaderQuery, txnVars
  <2> HIDE DEF q
  <2>4. \A p \in InLink' : p \in InLink \/ p = q
    <3>1. \A i \in DOMAIN toDev' : toDev'[i] = q \/ \E j \in DOMAIN toDev : toDev'[i] = toDev[j]
      <4>1. CASE toDev' = toDev
        BY <4>1
      <4>2. CASE toDev' = Append(toDev, q)
        <5>1. toDev \in Seq(Packet)
          BY DEF TypeOK
        <5>2. \A i \in DOMAIN Append(toDev, q) :
                Append(toDev, q)[i] = q \/ \E j \in DOMAIN toDev : Append(toDev, q)[i] = toDev[j]
          BY <2>1, <5>1, LinkMembers
        <5>3. QED BY <4>2, <5>2
      <4>3. QED BY <2>2, <4>1, <4>2
    <3>2. QED BY <2>3, <3>1 DEF InLink
  <2>5. ASSUME NEW u \in Threads
        PROVE  (Carried(u, toDev') <=> Carried(u, toDev)) /\ Once(u, toDev')
    <3>1. q.call # u /\ Once(u, toDev)
      BY <2>1
    <3>2. CASE toDev' = toDev
      BY <3>1, <3>2 DEF Once, Carried
    <3>3. CASE toDev' = Append(toDev, q)
      BY <2>1, <3>1, <3>3, CarriedAppend DEF TypeOK
    <3>4. QED BY <2>2, <3>2, <3>3
  <2>6. Tracked'
    BY <1>1, <2>1, <2>3, <2>4
  <2>7. AtOnePlace'
    BY <2>3, <2>5 DEF Carried, Once
  <2>8. QED BY <2>3, <2>6, <2>7
<1>4. CASE ReaderRead
  <2>1. /\ hand' = Head(toHost) /\ toHost' = Tail(toHost) /\ toHost # <<>>
        /\ hand = Blank /\ reader' = "have" /\ UNCHANGED <<toDev, txnStatus>>
    BY <1>4 DEF ReaderRead, txnVars
  <2>2. \A p \in InLink' : p \in InLink
    BY <2>1, LinkMembers, BlankIsPacket DEF InLink, TypeOK
  <2>3. Tracked'
    BY <1>1, <2>1, <2>2
  <2>4. AtOnePlace'
    <3> SUFFICES ASSUME NEW u \in Threads
                 PROVE  /\ Once(u, toDev') /\ Once(u, toHost')
                        /\ Carried(u, toHost') => ~Carried(u, toDev')
                        /\ hand'.call = u => ~Carried(u, toDev') /\ ~Carried(u, toHost')
      BY DEF Carried, Once
    <3>1. /\ Carried(u, toHost) <=> (hand'.call = u \/ Carried(u, toHost'))
          /\ Once(u, toHost') /\ ~(hand'.call = u /\ Carried(u, toHost'))
      BY <2>1, CarriedTail DEF TypeOK
    <3>2. QED BY <2>1, <3>1
  <2>5. QED BY <2>1, <2>3, <2>4
<1>5. CASE ReaderFails
  <2>1. /\ toDev' = Orphan(toDev) /\ toHost' = Orphan(toHost)
        /\ hand' = Blank /\ reader' = "ack"
    BY <1>5 DEF ReaderFails
  <2>2. ASSUME NEW u \in Threads
        PROVE  /\ ~Carried(u, toDev') /\ ~Carried(u, toHost') /\ hand'.call # u
               /\ Once(u, toDev') /\ Once(u, toHost')
    BY <2>1, CarriedOrphan DEF TypeOK, Blank
  <2>3. \A p \in InLink' : p.call \notin Threads
    BY <2>2 DEF InLink, Carried
  <2>4. QED BY <2>1, <2>2, <2>3
<1>6. CASE ReaderHandle
  <2>1. UNCHANGED <<toDev, toHost>> /\ hand' = Blank /\ reader' = "read"
    BY <1>6 DEF ReaderHandle, linkVars
  <2>2. Blank.call \notin Threads
    BY DEF Blank
  <2>3. AtOnePlace'
    BY <2>1, <2>2 DEF Carried, Once
  <2>4. \A p \in InLink' : p \in InLink \/ p = Blank
    BY <2>1 DEF InLink
  <2>5. CASE txnStatus' = txnStatus
    BY <1>1, <2>1, <2>2, <2>3, <2>4, <2>5
  <2>6. CASE IsReply
    <3>1. txnStatus = "wait" /\ hand.id = txnId /\ hand \in InLink
      BY <2>6 DEF IsReply, InLink
    <3>2. hand.call = txnData /\ txnData \in Threads /\ exec[txnData] = "wait"
      BY <3>1 DEF ReplyInv, IdOwned, SwdLockInv, BufferLive, TypeOK
    <3>3. ~Carried(txnData, toDev) /\ ~Carried(txnData, toHost)
      BY <3>2
    <3>4. ASSUME NEW p \in InLink', p.call \in Threads PROVE FALSE
      <4>1. p \in InLink /\ exec[p.call] = "wait"
        BY <2>2, <2>4, <3>4
      <4>2. p.call = txnData
        BY <3>2, <3>4, <4>1 DEF OneCall
      <4>3. QED BY <2>1, <2>2, <3>3, <3>4, <4>2 DEF InLink, Carried
    <3>5. QED BY <2>1, <2>3, <3>4
  <2>7. QED BY <1>6, <2>5, <2>6 DEF ReaderHandle
<1>7. QED BY <1>2, <1>3, <1>4, <1>5, <1>6 DEF ReadLoop

LEMMA TrackProbe ==
  ASSUME TypeOK, TrackInv, ProbeRun \/ ProbeAsync \/ Unplug \/ Plug
  PROVE  TrackInv'
<1> USE Constants DEF TrackInv, HandEmpty, Tracked, AtOnePlace
<1>1. UNCHANGED <<exec, at, txnId, txnStatus, hand, reader>>
  BY DEF ProbeRun, ProbeAsync, Unplug, Plug, hostVars, txnVars, readerVars
<1>2. Tracked'
  BY <1>1, ProbeLink
<1>3. AtOnePlace'
  <2> SUFFICES ASSUME NEW u \in Threads
               PROVE  /\ Once(u, toDev') /\ Once(u, toHost')
                      /\ Carried(u, toHost') => ~Carried(u, toDev')
                      /\ hand'.call = u => ~Carried(u, toDev') /\ ~Carried(u, toHost')
    BY DEF Carried, Once
  <2>1. CASE ProbeRun
    <3> DEFINE h == Head(toDev)
    <3>1. toDev # <<>> /\ toDev' = Tail(toDev) /\ h \in Packet
      BY <2>1, LinkTypes, BlankIsPacket DEF ProbeRun, TypeOK
    <3>2. PICK r \in Packet : /\ toHost' = Append(toHost, r)
                              /\ r.call \in {h.call, Nobody}
      <4>1. \A err \in BOOLEAN : /\ [h EXCEPT !.err = err] \in Packet
                                 /\ [h EXCEPT !.err = err].call = h.call
        BY <3>1 DEF Packet
      <4>2. /\ [Blank EXCEPT !.op = h.op] \in Packet
            /\ [Blank EXCEPT !.op = h.op].call = Nobody
        BY <3>1, BlankIsPacket DEF Packet, Blank
      <4>3. QED BY <2>1, <4>1, <4>2 DEF ProbeRun
    <3> HIDE DEF h
    <3>3. /\ Carried(u, toDev) <=> (h.call = u \/ Carried(u, toDev'))
          /\ Once(u, toDev') /\ ~(h.call = u /\ Carried(u, toDev'))
      BY <3>1, CarriedTail DEF TypeOK, h
    <3>4. /\ Carried(u, toHost') <=> (Carried(u, toHost) \/ r.call = u)
          /\ ~(Carried(u, toHost) /\ r.call = u) => Once(u, toHost')
      BY <3>2, CarriedAppend DEF TypeOK
    <3>5. QED BY <1>1, <3>2, <3>3, <3>4
  <2>2. CASE ProbeAsync
    <3> DEFINE r == [Blank EXCEPT !.id = Async]
    <3>1. r \in Packet /\ r.call = Nobody /\ toHost' = Append(toHost, r) /\ toDev' = toDev
      BY <2>2, BlankIsPacket DEF ProbeAsync, Packet, Blank
    <3> HIDE DEF r
    <3>2. (Carried(u, toHost') <=> Carried(u, toHost)) /\ Once(u, toHost')
      BY <3>1, CarriedAppend DEF TypeOK
    <3>3. QED BY <1>1, <3>1, <3>2
  <2>3. CASE Unplug
    BY <1>1, <2>3 DEF Unplug, Carried, Once
  <2>4. CASE Plug
    BY <1>1, <2>4 DEF Plug
  <2>5. QED BY <2>1, <2>2, <2>3, <2>4
<1>4. QED BY <1>1, <1>2, <1>3

LEMMA TrackStep ==
  TypeOK /\ SwdLockInv /\ ReplyInv /\ TrackInv /\ OneCall /\ OneCall' /\ [Next]_vars
    => TrackInv'
<1> SUFFICES ASSUME TypeOK, SwdLockInv, ReplyInv, TrackInv, OneCall, OneCall', [Next]_vars
             PROVE  TrackInv'
  OBVIOUS
<1>1. CASE UNCHANGED vars
  BY <1>1 DEF TrackInv, HandEmpty, Tracked, AtOnePlace, Carried, Once, InLink, vars
<1>2. ASSUME NEW t \in Threads, QExec(t) PROVE TrackInv'
  BY <1>2, TrackQExec
<1>3. ASSUME NEW t \in Threads, Caller(t) \/ Lock(t) \/ Operand(t) PROVE TrackInv'
  BY <1>3, TrackCaller
<1>4. CASE ReadLoop
  BY <1>4, TrackReader
<1>5. CASE ProbeRun \/ ProbeAsync \/ Unplug \/ Plug
  BY <1>5, TrackProbe
<1>6. QED BY <1>1, <1>2, <1>3, <1>4, <1>5 DEF Next

LEMMA TrackSafe ==
  ASSUME FreshIds
  PROVE  Spec /\ []OneCall => []TrackInv
BY TrackInit, TrackStep, ReplySafe, TypeCorrect, SwdLockSafe, PTL DEF Spec
-----------------------------------------------------------------------------
(* Each step of Rswdp is a step of TxnCall, or none, seen through Phase. *)
Phases == [t \in Threads |-> Phase(t)]

(* What TxnCall lets happen to the phase of one call. *)
Allowed(a, b) ==
  \/ a = b
  \/ a = "no" /\ b \in {"called", "fail"}
  \/ a = "called" /\ b \in {"ran", "lost"}
  \/ a = "ran" /\ b \in {"lost", "ok", "err"}
  \/ a = "lost" /\ b = "fail"
  \/ a \in {"ok", "err", "fail"} /\ b = "no"

LEMMA OneMoves ==
  ASSUME NEW t \in Threads, Allowed(Phase(t), Phase(t)'),
         \A u \in Threads \ {t} : Phase(u)' = Phase(u)
  PROVE  [Calls!Next]_Phases
<1>1. Phases' = [Phases EXCEPT ![t] = Phase(t)'] /\ Phases[t] = Phase(t)
  BY DEF Phases
<1>2. CASE Phase(t)' = Phase(t)
  BY <1>2 DEF Phases
<1>3. CASE Phase(t)' # Phase(t)
  <2>1. \/ Calls!Call(t) \/ Calls!Refuse(t) \/ Calls!Run(t) \/ Calls!Lose(t)
        \/ Calls!Answer(t) \/ Calls!GiveUp(t) \/ Calls!Retire(t)
    BY <1>1, <1>3 DEF Allowed, Phases, Calls!Call, Calls!Refuse, Calls!Run, Calls!Lose,
                      Calls!Answer, Calls!GiveUp, Calls!Retire, Calls!Step
  <2>2. QED BY <2>1 DEF Calls!Next
<1>4. QED BY <1>2, <1>3

LEMMA NoneMoves ==
  ASSUME \A u \in Threads : Phase(u)' = Phase(u)
  PROVE  [Calls!Next]_Phases
BY DEF Phases

LEMMA CallsInit == Init => Calls!Init
BY DEF Init, Calls!Init, Phase

LEMMA CallsQExec ==
  ASSUME TypeOK, ReplyInv, TrackInv, OneCall, OneCall', NEW t \in Threads, QExec(t)
  PROVE  [Calls!Next]_Phases
<1>1. \A u \in Threads \ {t} : exec[u] = "no" /\ exec'[u] = "no"
  BY OnlyCaller
<1>2. \A u \in Threads \ {t} : Phase(u)' = Phase(u)
  BY <1>1 DEF Phase
<1>3. Allowed(Phase(t), Phase(t)')
  <2>1. CASE ExecOffline(t) \/ ExecWriteFails(t)
    <3>1. exec[t] = "no" /\ exec'[t] = "fail"
      BY <2>1 DEF ExecOffline, ExecWriteFails, Calling, TypeOK
    <3>2. QED BY <3>1 DEF Phase, Allowed
  <2>2. CASE ExecSend(t)
    <3>1. exec[t] = "no" /\ exec'[t] = "wait" /\ txnStatus' = "wait"
      BY <2>2 DEF ExecSend, Calling, TypeOK
    <3>2. Carried(t, toDev)'
      <4>1. Request(t, t) \in Packet /\ toDev' = Append(toDev, Request(t, t))
        BY <2>2, RequestType DEF ExecSend
      <4>2. Carried(t, toDev')
        BY <4>1, CarriedAppend DEF TypeOK, Request
      <4>3. QED BY <4>2 DEF Carried
    <3>3. QED BY <3>1, <3>2 DEF Phase, Allowed
  <2>3. CASE ExecWake(t)
    <3>1. UNCHANGED <<toDev, toHost, hand, txnStatus, buf>> /\ exec[t] = "wait"
      BY <2>3 DEF ExecWake, readerVars, linkVars
    <3>2. CASE exec' = exec
      BY <3>1, <3>2 DEF Phase, Allowed, Carried
    <3>3. CASE EndsWait /\ exec' # exec
      <4>1. PICK r \in {"ok", "err", "fail"} :
              (txnStatus = "fail") = (r = "fail") /\ exec' = [exec EXCEPT ![t] = r]
        BY <2>3, <3>3 DEF ExecWake, ProcessReply
      <4>2. Phase(t)' = r
        BY <4>1 DEF Phase, TypeOK
      <4>3. CASE txnStatus = "fail"
        BY <3>1, <4>1, <4>2, <4>3 DEF Phase, Allowed
      <4>4. CASE txnStatus # "fail"
        <5>1. txnStatus = "done" /\ r \in {"ok", "err"}
          BY <3>1, <3>3, <4>1, <4>4 DEF EndsWait, TypeOK, ReplyInv, WaiterOwns
        <5>2. buf[t].call = t
          BY <3>1, <5>1 DEF ReplyInv, Delivered
        <5>3. ~Carried(t, toDev)
          BY <5>1 DEF TrackInv, Tracked, Carried, InLink
        <5>4. Phase(t) = "ran"
          BY <3>1, <4>4, <5>2, <5>3 DEF Phase
        <5>5. QED BY <4>2, <5>1, <5>4 DEF Allowed
      <4>5. QED BY <4>3, <4>4
    <3>4. QED BY <2>3, <3>2, <3>3 DEF ExecWake
  <2>4. QED BY <2>1, <2>2, <2>3 DEF QExec
<1>4. QED BY <1>2, <1>3, OneMoves

LEMMA CallsCaller ==
  ASSUME TypeOK, SwdLockInv, NEW t \in Threads, Caller(t) \/ Lock(t) \/ Operand(t)
  PROVE  [Calls!Next]_Phases
<1>1. exec[t] # "wait"
  BY DEF Caller, Lock, Operand, Cleared, Attached, Configured, NextTxn, ResetTarget, Unlock,
         AckEvents, OperandRead, Returned, SwdLockInv, IdleIsOut
<1>2. exec' = [exec EXCEPT ![t] = "no"]
  BY DEF Caller, Lock, Operand, Cleared, Attached, Configured, NextTxn, ResetTarget, Unlock,
         AckEvents, OperandRead, Proceed
<1>3. CallerUnchanged
  BY DEF Caller, Lock, Operand, Cleared, Attached, Configured, NextTxn, ResetTarget, Unlock,
         AckEvents, OperandRead
<1>4. UNCHANGED <<toDev, toHost, hand, buf, txnStatus>>
  BY <1>3 DEF CallerUnchanged, readerVars, linkVars, txnVars
<1>5. \A u \in Threads \ {t} : Phase(u)' = Phase(u)
  BY <1>2, <1>4 DEF TypeOK, Phase, Carried
<1>6. Phase(t) \in {"no", "ok", "err", "fail"} /\ Phase(t)' = "no"
  BY <1>1, <1>2 DEF TypeOK, Phase
<1>7. Allowed(Phase(t), Phase(t)')
  BY <1>6 DEF Allowed
<1>8. QED BY <1>5, <1>7, OneMoves

(* A step of swd_reader or of the probe concerns the one call under way. *)
LEMMA OneWaits ==
  ASSUME OneCall, exec' = exec, NEW w \in Threads, exec[w] = "wait",
         Allowed(Phase(w), Phase(w)')
  PROVE  [Calls!Next]_Phases
<1>1. \A u \in Threads \ {w} : exec[u] = "no"
  BY DEF OneCall
<1>2. \A u \in Threads \ {w} : Phase(u)' = Phase(u)
  BY <1>1 DEF Phase
<1>3. QED BY <1>2, OneMoves

LEMMA NoneWaits ==
  ASSUME exec' = exec, \A w \in Threads : exec[w] # "wait"
  PROVE  [Calls!Next]_Phases
BY NoneMoves DEF Phase

LEMMA CallsReader ==
  ASSUME TypeOK, SwdLockInv, ReplyInv, TrackInv, OneCall, ReadLoop
  PROVE  [Calls!Next]_Phases
<1>1. UNCHANGED <<exec, txnData>>
  BY DEF ReadLoop, ReaderOpen, ReaderQuery, ReaderRead, ReaderFails, ReaderHandle,
         ReaderAcked, hostVars, txnVars
<1> SUFFICES ASSUME NEW w \in Threads, exec[w] = "wait" PROVE Allowed(Phase(w), Phase(w)')
  BY <1>1, OneWaits, NoneWaits
<1>2. CASE ReaderOpen \/ ReaderAcked
  <2>1. UNCHANGED <<toDev, toHost, hand, txnStatus, buf>>
    BY <1>2 DEF ReaderOpen, ReaderAcked, linkVars, txnVars
  <2>2. QED BY <1>1, <2>1 DEF Phase, Carried, Allowed
<1>3. CASE ReaderQuery
  <2> DEFINE q == [id |-> sequence, call |-> Reader, op |-> "query", err |-> FALSE]
  <2>1. q \in Packet /\ q.call # w
    BY <1>3, Constants DEF ReaderQuery, Packet, Transactions, TypeOK
  <2>2. toDev' = toDev \/ toDev' = Append(toDev, q)
    BY <1>3 DEF ReaderQuery
  <2>3. UNCHANGED <<toHost, hand, txnStatus, buf>>
    BY <1>3 DEF ReaderQuery, txnVars
  <2> HIDE DEF q
  <2>4. Carried(w, toDev)' <=> Carried(w, toDev)
    <3>1. CASE toDev' = toDev
      BY <3>1 DEF Carried
    <3>2. CASE toDev' = Append(toDev, q)
      <4>1. Carried(w, toDev') <=> Carried(w, toDev)
        BY <2>1, <3>2, CarriedAppend DEF TypeOK
      <4>2. QED BY <4>1 DEF Carried
    <3>3. QED BY <2>2, <3>1, <3>2
  <2>5. Phase(w)' = Phase(w)
    BY <1>1, <2>3, <2>4 DEF Phase, Carried
  <2>6. QED BY <2>5 DEF Allowed
<1>4. CASE ReaderRead
  <2>1. /\ hand' = Head(toHost) /\ toHost' = Tail(toHost) /\ toHost # <<>>
        /\ hand = Blank /\ UNCHANGED <<toDev, txnStatus, buf>>
    BY <1>4 DEF ReaderRead, txnVars, TrackInv, HandEmpty
  <2>2. hand.call # w
    BY <2>1, Constants DEF Blank
  <2>3. Carried(w, toHost) <=> (hand'.call = w \/ Carried(w, toHost'))
    BY <2>1, CarriedTail DEF TypeOK
  <2>4. Phase(w)' = Phase(w)
    BY <1>1, <2>1, <2>2, <2>3 DEF Phase, Carried
  <2>5. QED BY <2>4 DEF Allowed
<1>5. CASE ReaderFails
  <2>1. txnStatus' = "fail"
    BY <1>5 DEF ReaderFails, FailTxn
  <2>2. Phase(w)' = "lost" /\ Phase(w) \in {"called", "ran", "lost"}
    BY <1>1, <2>1 DEF Phase
  <2>3. QED BY <2>2 DEF Allowed
<1>6. CASE ReaderHandle
  <2>1. UNCHANGED <<toDev, toHost>> /\ hand' = Blank
    BY <1>6 DEF ReaderHandle, linkVars
  <2>2. CASE UNCHANGED <<txnStatus, buf>>
    <3>1. Phase(w)' = Phase(w) \/ (Phase(w) = "ran" /\ Phase(w)' = "lost")
      BY <1>1, <2>1, <2>2, Constants DEF Phase, Carried, Blank
    <3>2. QED BY <3>1 DEF Allowed
  <2>3. CASE /\ IsReply /\ txnStatus' = "done"
             /\ buf' = [buf EXCEPT ![txnData] = [call |-> hand.call, err |-> hand.err]]
    <3>1. hand.call = w /\ txnData = w /\ txnStatus = "wait"
      BY <2>3 DEF IsReply, InLink, ReplyInv, IdOwned, WaiterOwns
    <3>2. ~Carried(w, toDev)
      BY <3>1 DEF TrackInv, AtOnePlace
    <3>3. Phase(w) = "ran"
      BY <3>1, <3>2 DEF Phase
    <3>4. buf'[w].call = w
      BY <2>3, <3>1 DEF TypeOK
    <3>5. Phase(w)' = "ran"
      BY <1>1, <2>1, <2>3, <3>2, <3>4 DEF Phase, Carried
    <3>6. QED BY <3>3, <3>5 DEF Allowed
  <2>4. QED BY <1>6, <2>2, <2>3 DEF ReaderHandle
<1>7. QED BY <1>2, <1>3, <1>4, <1>5, <1>6 DEF ReadLoop

LEMMA CallsProbe ==
  ASSUME TypeOK, TrackInv, OneCall, ProbeRun \/ ProbeAsync \/ Unplug \/ Plug
  PROVE  [Calls!Next]_Phases
<1>1. UNCHANGED <<exec, txnStatus, hand, buf>>
  BY DEF ProbeRun, ProbeAsync, Unplug, Plug, txnVars, readerVars
<1> SUFFICES ASSUME NEW w \in Threads, exec[w] = "wait" PROVE Allowed(Phase(w), Phase(w)')
  BY <1>1, OneWaits, NoneWaits
<1>2. CASE ProbeRun
  <2> DEFINE h == Head(toDev)
  <2>1. toDev # <<>> /\ toDev' = Tail(toDev) /\ h \in Packet
    BY <1>2, LinkTypes, BlankIsPacket DEF ProbeRun, TypeOK
  <2>2. PICK r \in Packet : toHost' = Append(toHost, r) /\ r.call \in {h.call, Nobody}
    <3>1. \A err \in BOOLEAN : /\ [h EXCEPT !.err = err] \in Packet
                               /\ [h EXCEPT !.err = err].call = h.call
      BY <2>1 DEF Packet
    <3>2. /\ [Blank EXCEPT !.op = h.op] \in Packet
          /\ [Blank EXCEPT !.op = h.op].call = Nobody
      BY <2>1, BlankIsPacket DEF Packet, Blank
    <3>3. QED BY <1>2, <3>1, <3>2 DEF ProbeRun
  <2> HIDE DEF h
  <2>3. /\ Carried(w, toDev) <=> (h.call = w \/ Carried(w, toDev'))
        /\ ~(h.call = w /\ Carried(w, toDev'))
    BY <2>1, CarriedTail DEF TypeOK, h, TrackInv, AtOnePlace
  <2>4. Carried(w, toHost') <=> (Carried(w, toHost) \/ r.call = w)
    BY <2>2, CarriedAppend DEF TypeOK
  <2>5. r.call = w => h.call = w
    BY <2>2, Constants
  <2>6. \/ Phase(w)' = Phase(w)
        \/ Phase(w) = "called" /\ Phase(w)' \in {"ran", "lost"}
    BY <1>1, <2>3, <2>4, <2>5 DEF Phase, Carried
  <2>7. QED BY <2>6 DEF Allowed
<1>3. CASE ProbeAsync
  <2> DEFINE r == [Blank EXCEPT !.id = Async]
  <2>1. r \in Packet /\ r.call # w /\ toHost' = Append(toHost, r) /\ toDev' = toDev
    BY <1>3, BlankIsPacket, Constants DEF ProbeAsync, Packet, Blank
  <2> HIDE DEF r
  <2>2. Carried(w, toHost') <=> Carried(w, toHost)
    BY <2>1, CarriedAppend DEF TypeOK
  <2>3. Phase(w)' = Phase(w)
    BY <1>1, <2>1, <2>2 DEF Phase, Carried
  <2>4. QED BY <2>3 DEF Allowed
<1>4. CASE Unplug
  <2>1. toDev' = <<>> /\ toHost' = <<>>
    BY <1>4 DEF Unplug
  <2>2. \/ Phase(w)' = Phase(w)
        \/ Phase(w) \in {"called", "ran"} /\ Phase(w)' \in {"ran", "lost"}
    BY <1>1, <2>1 DEF Phase, Carried
  <2>3. QED BY <2>2 DEF Allowed
<1>5. CASE Plug
  BY <1>1, <1>5 DEF Plug, Phase, Carried, Allowed
<1>6. QED BY <1>2, <1>3, <1>4, <1>5

LEMMA CallsStep ==
  TypeOK /\ SwdLockInv /\ ReplyInv /\ TrackInv /\ OneCall /\ OneCall' /\ [Next]_vars
    => [Calls!Next]_Phases
<1> SUFFICES ASSUME TypeOK, SwdLockInv, ReplyInv, TrackInv, OneCall, OneCall', [Next]_vars
             PROVE  [Calls!Next]_Phases
  OBVIOUS
<1>1. CASE UNCHANGED vars
  BY <1>1, NoneMoves DEF vars, Phase, Carried
<1>2. ASSUME NEW t \in Threads, QExec(t) PROVE [Calls!Next]_Phases
  BY <1>2, CallsQExec
<1>3. ASSUME NEW t \in Threads, Caller(t) \/ Lock(t) \/ Operand(t)
      PROVE  [Calls!Next]_Phases
  BY <1>3, CallsCaller
<1>4. CASE ReadLoop
  BY <1>4, CallsReader
<1>5. CASE ProbeRun \/ ProbeAsync \/ Unplug \/ Plug
  BY <1>5, CallsProbe
<1>6. QED BY <1>1, <1>2, <1>3, <1>4, <1>5 DEF Next

(* q_exec over threads, ids, stack buffers, a reader and a lossy link implements
   a remote call that runs at most once and reports only an answer that was
   given: under _dbg_lock every step of it is a step of TxnCall, or none.   *)
THEOREM QExecImplementsCall ==
  ASSUME FreshIds
  PROVE  Spec /\ []OneCall => CallsSpec
BY CallsInit, CallsStep, TrackSafe, ReplySafe, TypeCorrect, SwdLockSafe, PTL
DEF Spec, CallsSpec, Calls!Spec, Phases
-----------------------------------------------------------------------------
(* Where the news of a sticky error is until swd_error says so: while no fault
   has happened, in a reply on its way to a call, or a DP_ABORT is yet to run. *)
CarriedErr(t, q) == \E i \in DOMAIN q : q[i].call = t /\ q[i].err

Reported(t) ==
  /\ exec[t] = "wait"
  /\ \/ CarriedErr(t, toHost)
     \/ hand.call = t /\ hand.err
     \/ txnStatus = "done" /\ buf[t].err

Clearing(t) ==
  \/ at[t] = "attach"
  \/ /\ at[t] \in {"clear", "config"}
     /\ exec[t] = "no" \/ (exec[t] = "wait" /\ Carried(t, toDev))

ErrorKept ==
  faults = 0 /\ dpFault = "told" => swdError \/ \E t \in Threads : Reported(t) \/ Clearing(t)

(* Without a fault the link stays up once it is, nothing is told of before, and
   the probe has only packets that somebody waits for.                      *)
NoFaultYet ==
  faults = 0 =>
    /\ online # -1 /\ usb # "dead" /\ txnStatus # "fail"
    /\ online = 0 => dpFault # "told" /\ \A t \in Threads : exec[t] # "wait"
    /\ \A i \in DOMAIN toDev : toDev[i].call \in Threads \/ toDev[i].op = "query"

LEMMA NoFaultInit == Init => NoFaultYet
BY DEF Init, NoFaultYet

LEMMA FaultCounts ==
  ASSUME TypeOK, NEW k, Fault(k)
  PROVE  faults' # 0
BY ConstantsAssumption DEF ConstantsAssumption, Fault, TypeOK

LEMMA NoFaultQExec ==
  ASSUME TypeOK, SwdLockInv, NoFaultYet, NEW t \in Threads, QExec(t)
  PROVE  NoFaultYet'
<1> USE DEF NoFaultYet
<1>1. CASE ExecOffline(t)
  BY <1>1 DEF ExecOffline, MustAck, TypeOK, txnVars, linkVars
<1>2. CASE ExecSend(t)
  <2>1. Request(t, t) \in Packet /\ Request(t, t).call \in Threads
    BY <1>2, RequestType DEF ExecSend, Request
  <2>2. toDev' = Append(toDev, Request(t, t)) /\ faults' = faults
    BY <1>2 DEF ExecSend
  <2>3. ASSUME faults = 0
        PROVE  \A i \in DOMAIN toDev' : toDev'[i].call \in Threads \/ toDev'[i].op = "query"
    BY <2>1, <2>2, <2>3, LinkMembers DEF TypeOK
  <2>4. QED BY <1>2, <2>2, <2>3 DEF ExecSend
<1>3. CASE ExecWriteFails(t)
  <2>1. ASSUME faults = 0, usb # "open" PROVE FALSE
    BY <1>3, <2>1 DEF ExecWriteFails, SwdLockInv, HandleSafe, TypeOK
  <2>2. faults' = 0 => FALSE
    BY <1>3, <2>1, FaultCounts DEF ExecWriteFails
  <2>3. QED BY <2>2
<1>4. CASE ExecWake(t)
  BY <1>4 DEF ExecWake, linkVars, TypeOK
<1>5. QED BY <1>1, <1>2, <1>3, <1>4 DEF QExec

LEMMA NoFaultReader ==
  ASSUME TypeOK, SwdLockInv, NoFaultYet, ReadLoop
  PROVE  NoFaultYet'
<1> USE DEF NoFaultYet
<1>1. CASE ReaderOpen \/ ReaderAcked
  BY <1>1 DEF ReaderOpen, ReaderAcked, linkVars, txnVars
<1>2. CASE ReaderQuery
  <2> DEFINE q == [id |-> sequence, call |-> Reader, op |-> "query", err |-> FALSE]
  <2>1. q \in Packet /\ q.op = "query"
    BY <1>2, Constants DEF ReaderQuery, Packet, Transactions, TypeOK
  <2>2. toDev' = toDev \/ toDev' = Append(toDev, q)
    BY <1>2 DEF ReaderQuery
  <2>3. UNCHANGED <<online, usb, txnStatus, exec, dpFault>>
    BY <1>2 DEF ReaderQuery, txnVars
  <2>4. faults' = 0 => faults = 0
    BY <1>2, FaultCounts DEF ReaderQuery
  <2> HIDE DEF q
  <2>5. ASSUME faults = 0
        PROVE  \A i \in DOMAIN toDev' : toDev'[i].call \in Threads \/ toDev'[i].op = "query"
    <3>1. CASE toDev' = toDev
      BY <2>5, <3>1
    <3>2. CASE toDev' = Append(toDev, q)
      BY <2>1, <2>5, <3>2, LinkMembers DEF TypeOK
    <3>3. QED BY <2>2, <3>1, <3>2
  <2>6. QED BY <2>3, <2>4, <2>5
<1>3. CASE ReaderRead
  BY <1>3 DEF ReaderRead, txnVars
<1>4. CASE ReaderFails
  <2>1. (usb = "dead" /\ faults' = faults) \/ Fault("readError")
    BY <1>4 DEF ReaderFails
  <2>2. QED BY <2>1, FaultCounts
<1>5. CASE ReaderHandle
  BY <1>5 DEF ReaderHandle, linkVars
<1>6. QED BY <1>1, <1>2, <1>3, <1>4, <1>5 DEF ReadLoop

LEMMA NoFaultProbe ==
  ASSUME TypeOK, TrackInv, NoFaultYet, ProbeRun \/ ProbeAsync \/ Unplug \/ Plug
  PROVE  NoFaultYet'
<1> USE DEF NoFaultYet
<1>1. UNCHANGED <<online, txnStatus, exec>>
  BY DEF ProbeRun, ProbeAsync, Unplug, Plug, txnVars
<1>2. CASE ProbeRun
  <2> DEFINE h == Head(toDev)
  <2>1. toDev # <<>> /\ toDev' = Tail(toDev) /\ usb' = usb
    BY <1>2 DEF ProbeRun
  <2>2. \A i \in DOMAIN toDev' : \E j \in DOMAIN toDev : toDev'[i] = toDev[j]
    BY <2>1, LinkMembers, BlankIsPacket DEF TypeOK
  <2>3. \E j \in DOMAIN toDev : h = toDev[j]
    BY <2>1, LinkMembers, BlankIsPacket DEF TypeOK
  <2>4. faults' = 0 => faults = 0
    BY <1>2, FaultCounts DEF ProbeRun
  <2>5. ASSUME faults = 0, online = 0 PROVE dpFault' # "told"
    <3>1. dpFault # "told" /\ \A w \in Threads : exec[w] # "wait"
      BY <2>5
    <3>2. h \in InLink
      BY <2>3 DEF InLink
    <3>3. h.call \notin Threads
      BY <3>1, <3>2 DEF TrackInv, Tracked
    <3>4. h.op = "query" /\ h.op \in Transactions
      BY <2>3, <2>5, <3>3 DEF Transactions
    <3>5. dpFault' \in DpAfter(h.op, FALSE)
      BY <1>2, <3>4 DEF ProbeRun
    <3>6. QED BY <3>1, <3>4, <3>5, DpTypes
  <2>6. QED BY <1>1, <2>1, <2>2, <2>4, <2>5
<1>3. CASE ProbeAsync
  BY <1>1, <1>3 DEF ProbeAsync
<1>4. CASE Unplug
  BY <1>4, FaultCounts DEF Unplug
<1>5. CASE Plug
  BY <1>1, <1>5 DEF Plug
<1>6. QED BY <1>2, <1>3, <1>4, <1>5

LEMMA NoFaultStep ==
  TypeOK /\ SwdLockInv /\ TrackInv /\ NoFaultYet /\ [Next]_vars => NoFaultYet'
<1> SUFFICES ASSUME TypeOK, SwdLockInv, TrackInv, NoFaultYet, [Next]_vars PROVE NoFaultYet'
  OBVIOUS
<1>1. CASE UNCHANGED vars
  BY <1>1 DEF vars, NoFaultYet
<1>2. ASSUME NEW t \in Threads, QExec(t) PROVE NoFaultYet'
  BY <1>2, NoFaultQExec
<1>3. ASSUME NEW t \in Threads, Caller(t) \/ Lock(t) \/ Operand(t) PROVE NoFaultYet'
  <2>1. CallerUnchanged /\ exec' = [exec EXCEPT ![t] = "no"]
    BY <1>3 DEF Caller, Lock, Operand, Cleared, Attached, Configured, NextTxn, ResetTarget, Unlock,
                AckEvents, OperandRead, Proceed
  <2>2. QED BY <2>1 DEF CallerUnchanged, txnVars, linkVars, TypeOK, NoFaultYet
<1>4. CASE ReadLoop
  BY <1>4, NoFaultReader
<1>5. CASE ProbeRun \/ ProbeAsync \/ Unplug \/ Plug
  BY <1>5, NoFaultProbe
<1>6. QED BY <1>1, <1>2, <1>3, <1>4, <1>5 DEF Next

(* An error on its way stays so when packets are added behind or before it. *)
LEMMA CarriedErrAppend ==
  ASSUME NEW q \in Seq(Packet), NEW p \in Packet, NEW t
  PROVE  CarriedErr(t, Append(q, p)) <=> (CarriedErr(t, q) \/ (p.call = t /\ p.err))
<1>1. /\ \A i \in DOMAIN q : i \in DOMAIN Append(q, p) /\ Append(q, p)[i] = q[i]
      /\ Len(q) + 1 \in DOMAIN Append(q, p) /\ Append(q, p)[Len(q) + 1] = p
      /\ \A i \in DOMAIN Append(q, p) : i = Len(q) + 1 \/ i \in DOMAIN q
  OBVIOUS
<1>2. QED BY <1>1, Zenon DEF CarriedErr

LEMMA CarriedErrTail ==
  ASSUME NEW q \in Seq(Packet), q # <<>>, NEW t, CarriedErr(t, q)
  PROVE  (Head(q).call = t /\ Head(q).err) \/ CarriedErr(t, Tail(q))
<1>1. /\ Head(q) = q[1]
      /\ \A i \in DOMAIN q : i # 1 => i - 1 \in DOMAIN Tail(q) /\ Tail(q)[i - 1] = q[i]
  OBVIOUS
<1>2. QED BY <1>1 DEF CarriedErr

LEMMA KeptInit == Init => ErrorKept
BY DEF Init, ErrorKept

LEMMA KeptQExec ==
  ASSUME TypeOK, SwdLockInv, ReplyInv, TrackInv, NoFaultYet, ErrorKept,
         OneCall, OneCall', NEW t \in Threads, QExec(t), faults' = 0, dpFault' = "told"
  PROVE  swdError' \/ \E u \in Threads : Reported(u)' \/ Clearing(u)'
<1>1. \A u \in Threads \ {t} : exec[u] = "no" /\ exec'[u] = "no"
  BY OnlyCaller
<1>2. UNCHANGED <<at, toHost, hand, dpFault>>
  BY DEF QExec, ExecOffline, ExecSend, ExecWriteFails, ExecWake, hostVars, readerVars, linkVars
<1>3. ASSUME NEW u \in Threads \ {t}, Reported(u) \/ Clearing(u) PROVE Clearing(u)'
  BY <1>1, <1>2, <1>3 DEF Reported, Clearing
<1>4. CASE ExecOffline(t)
  BY <1>2, <1>4 DEF ExecOffline, NoFaultYet, TypeOK
<1>5. CASE ExecWriteFails(t)
  <2>1. ASSUME faults' = faults, usb # "open" PROVE FALSE
    BY <1>5, <2>1 DEF ExecWriteFails, NoFaultYet, SwdLockInv, HandleSafe, TypeOK
  <2>2. QED BY <1>5, <2>1, FaultCounts DEF ExecWriteFails
<1>6. CASE ExecSend(t)
  <2>1. exec[t] = "no" /\ exec'[t] = "wait" /\ faults = 0 /\ swdError' = swdError
    BY <1>6 DEF ExecSend, Calling, TypeOK, hostVars
  <2>2. Carried(t, toDev)'
    <3>1. Request(t, t) \in Packet /\ toDev' = Append(toDev, Request(t, t))
      BY <1>6, RequestType DEF ExecSend
    <3>2. Carried(t, toDev')
      BY <3>1, CarriedAppend DEF TypeOK, Request
    <3>3. QED BY <3>2 DEF Carried
  <2>3. ~Reported(t) /\ (Clearing(t) => Clearing(t)')
    BY <1>2, <2>1, <2>2 DEF Reported, Clearing
  <2>4. QED BY <1>2, <1>3, <2>1, <2>3 DEF ErrorKept
<1>7. CASE ExecWake(t)
  <2>1. exec[t] = "wait" /\ faults = 0 /\ UNCHANGED <<txnStatus, toDev, buf>>
    BY <1>7 DEF ExecWake, linkVars
  <2>2. CASE UNCHANGED <<exec, swdError>>
    BY <1>2, <2>1, <2>2 DEF ErrorKept, Reported, Clearing, Carried, CarriedErr
  <2>3. CASE EndsWait
    <3>1. txnStatus = "done"
      BY <2>1, <2>3 DEF EndsWait, TypeOK, ReplyInv, WaiterOwns, NoFaultYet
    <3>2. PICK r \in {"ok", "err", "fail"} :
            /\ buf[t].call # Nobody => (r = "err") = buf[t].err
            /\ swdError' = (swdError \/ r = "err")
      BY <1>7, <2>3, <3>1 DEF ExecWake, ProcessReply
    <3>3. \A p \in InLink : p.call # t
      BY <3>1 DEF TrackInv, Tracked
    <3>4. Clearing(t) => at[t] = "attach"
      BY <2>1, <3>3 DEF Clearing, Carried, InLink
    <3>5. ASSUME Reported(t) PROVE swdError'
      <4>1. buf[t].err
        BY <3>3, <3>5 DEF Reported, CarriedErr, InLink
      <4>2. buf[t].call = t
        BY <2>1, <3>1 DEF ReplyInv, Delivered
      <4>3. r = "err"
        BY <3>1, <3>2, <4>1, <4>2, Constants
      <4>4. QED BY <3>2, <4>3
    <3>6. Clearing(t) => Clearing(t)'
      BY <1>2, <3>4 DEF Clearing
    <3>7. QED BY <1>2, <1>3, <2>1, <3>2, <3>5, <3>6 DEF ErrorKept
  <2>4. QED BY <1>7, <2>2, <2>3 DEF ExecWake
<1>8. QED BY <1>4, <1>5, <1>6, <1>7 DEF QExec

LEMMA KeptCaller ==
  ASSUME TypeOK, SwdLockInv, ErrorKept, NEW t \in Threads,
         Caller(t) \/ Lock(t) \/ Operand(t), faults' = 0, dpFault' = "told"
  PROVE  swdError' \/ \E u \in Threads : Reported(u)' \/ Clearing(u)'
<1>1. exec[t] # "wait"
  BY DEF Caller, Lock, Operand, Cleared, Attached, Configured, NextTxn, ResetTarget, Unlock,
         AckEvents, OperandRead, Returned, SwdLockInv, IdleIsOut
<1>2. CallerUnchanged /\ exec' = [exec EXCEPT ![t] = "no"]
      /\ \A u \in Threads \ {t} : at'[u] = at[u]
  BY DEF Caller, Lock, Operand, Cleared, Attached, Configured, NextTxn, ResetTarget, Unlock,
         AckEvents, OperandRead, Proceed, TypeOK
<1>3. UNCHANGED <<toDev, toHost, hand, txnStatus, buf, dpFault, faults>>
  BY <1>2 DEF CallerUnchanged, linkVars, readerVars, txnVars
<1>4. ASSUME NEW u \in Threads \ {t}, Reported(u) \/ Clearing(u)
      PROVE  Reported(u)' \/ Clearing(u)'
  BY <1>2, <1>3, <1>4 DEF Reported, Clearing, Carried, CarriedErr, TypeOK
<1>5. ~Reported(t)
  BY <1>1 DEF Reported
<1>6. swdError \/ Clearing(t) => swdError' \/ Clearing(t)'
  <2>1. CASE Attached(t) \/ ResetTarget(t)
    BY <2>1 DEF Attached, ResetTarget, Proceed, Clearing, TypeOK
  <2>2. CASE Cleared(t)
    BY <2>2 DEF Cleared, Returned, Proceed, Clearing, TypeOK
  <2>3. CASE Lock(t)
    BY <2>3 DEF Lock, Proceed, Clearing, TypeOK
  <2>4. CASE Configured(t) \/ NextTxn(t) \/ Unlock(t) \/ AckEvents(t) \/ OperandRead(t)
             \/ Operand(t)
    <3>1. swdError' = swdError
      BY <2>4 DEF Configured, NextTxn, Unlock, AckEvents, OperandRead, Operand
    <3>2. ~Clearing(t)
      BY <2>4 DEF Configured, NextTxn, Unlock, AckEvents, OperandRead, Operand, Returned, Clearing
    <3>3. QED BY <3>1, <3>2
  <2>5. QED BY <2>1, <2>2, <2>3, <2>4 DEF Caller
<1>7. QED BY <1>3, <1>4, <1>5, <1>6 DEF ErrorKept

LEMMA KeptReader ==
  ASSUME TypeOK, SwdLockInv, ReplyInv, TrackInv, QueryInv, NoFaultYet, ErrorKept,
         ReadLoop, faults' = 0, dpFault' = "told"
  PROVE  swdError' \/ \E u \in Threads : Reported(u)' \/ Clearing(u)'
<1>1. UNCHANGED <<exec, at, swdError, dpFault>>
  BY DEF ReadLoop, ReaderOpen, ReaderQuery, ReaderRead, ReaderFails, ReaderHandle,
         ReaderAcked, hostVars, linkVars
<1>2. faults = 0
  <2>1. faults' = faults \/ Fault("writeFail") \/ Fault("readError")
    BY DEF ReadLoop, ReaderOpen, ReaderQuery, ReaderRead, ReaderFails, ReaderHandle, ReaderAcked
  <2>2. QED BY <2>1, FaultCounts
<1> SUFFICES ASSUME NEW u \in Threads, Reported(u) \/ Clearing(u)
             PROVE  Reported(u)' \/ Clearing(u)'
  BY <1>1, <1>2 DEF ErrorKept
<1>3. CASE ReaderOpen \/ ReaderAcked
  <2>1. UNCHANGED <<toDev, toHost, hand, txnStatus, buf>>
    BY <1>3 DEF ReaderOpen, ReaderAcked, linkVars, txnVars
  <2>2. QED BY <1>1, <2>1 DEF Reported, Clearing, Carried, CarriedErr
<1>4. CASE ReaderQuery
  <2> DEFINE q == [id |-> sequence, call |-> Reader, op |-> "query", err |-> FALSE]
  <2>1. q \in Packet
    BY <1>4 DEF ReaderQuery, Packet, Transactions, TypeOK
  <2>2. toDev' = toDev \/ toDev' = Append(toDev, q)
    BY <1>4 DEF ReaderQuery
  <2>3. UNCHANGED <<toHost, hand, txnStatus, buf>>
    BY <1>4 DEF ReaderQuery, txnVars
  <2> HIDE DEF q
  <2>4. Carried(u, toDev) => Carried(u, toDev)'
    <3>1. CASE toDev' = toDev
      BY <3>1 DEF Carried
    <3>2. CASE toDev' = Append(toDev, q)
      <4>1. Carried(u, toDev) => Carried(u, toDev')
        BY <2>1, <3>2, CarriedAppend DEF TypeOK
      <4>2. QED BY <4>1 DEF Carried
    <3>3. QED BY <2>2, <3>1, <3>2
  <2>5. QED BY <1>1, <2>3, <2>4 DEF Reported, Clearing, CarriedErr
<1>5. CASE ReaderRead
  <2>1. /\ hand' = Head(toHost) /\ toHost' = Tail(toHost) /\ toHost # <<>>
        /\ hand = Blank /\ UNCHANGED <<toDev, txnStatus, buf>>
    BY <1>5 DEF ReaderRead, txnVars, TrackInv, HandEmpty
  <2>2. hand.call # u
    BY <2>1, Constants DEF Blank
  <2>3. CarriedErr(u, toHost) => (hand'.call = u /\ hand'.err) \/ CarriedErr(u, toHost')
    BY <2>1, CarriedErrTail DEF TypeOK
  <2>4. QED BY <1>1, <2>1, <2>2, <2>3 DEF Reported, Clearing, Carried, CarriedErr
<1>6. CASE ReaderFails
  BY <1>2, <1>6, FaultCounts DEF ReaderFails, NoFaultYet
<1>7. CASE ReaderHandle
  <2>1. UNCHANGED <<toDev, toHost>> /\ hand' = Blank
    BY <1>7 DEF ReaderHandle, linkVars
  <2>2. CASE Clearing(u) \/ (exec[u] = "wait" /\ CarriedErr(u, toHost))
    BY <1>1, <2>1, <2>2 DEF Reported, Clearing, Carried, CarriedErr
  <2>3. CASE exec[u] = "wait" /\ txnStatus = "done" /\ buf[u].err
    <3>1. UNCHANGED <<txnStatus, buf>>
      BY <1>7, <2>3 DEF ReaderHandle, IsReply
    <3>2. QED BY <1>1, <2>3, <3>1 DEF Reported
  <2>4. CASE exec[u] = "wait" /\ hand.call = u /\ hand.err
    <3>1. txnStatus = "wait" /\ hand.id = txnId
      BY <2>4 DEF TrackInv, Tracked, InLink
    <3>2. txnData = u /\ txnId \in Ids /\ online = 1
      BY <2>4, <3>1 DEF ReplyInv, WaiterOwns, IdOwned, WaitOnline
    <3>3. IsReply
      BY <3>1, <3>2, Constants DEF IsReply, IsAnswer, QueryInv, QueryOver
    <3>4. txnStatus' = "done" /\ buf' = [buf EXCEPT ![u] = [call |-> hand.call, err |-> hand.err]]
      BY <1>7, <3>2, <3>3 DEF ReaderHandle, IsReply
    <3>5. buf'[u].err
      BY <2>4, <3>4 DEF TypeOK
    <3>6. QED BY <1>1, <2>4, <3>4, <3>5 DEF Reported
  <2>5. QED BY <2>2, <2>3, <2>4 DEF Reported
<1>8. QED BY <1>3, <1>4, <1>5, <1>6, <1>7 DEF ReadLoop

LEMMA KeptProbe ==
  ASSUME TypeOK, TrackInv, NoFaultYet, ErrorKept,
         ProbeRun \/ ProbeAsync \/ Unplug \/ Plug, faults' = 0, dpFault' = "told"
  PROVE  swdError' \/ \E u \in Threads : Reported(u)' \/ Clearing(u)'
<1>1. UNCHANGED <<exec, at, swdError, txnStatus, hand, buf>>
  BY DEF ProbeRun, ProbeAsync, Unplug, Plug, hostVars, txnVars, readerVars
<1>2. CASE ProbeRun
  <2> DEFINE h == Head(toDev)
             r(err) == [h EXCEPT !.err = err]
  <2>1. toDev # <<>> /\ toDev' = Tail(toDev) /\ h \in Packet /\ h \in InLink
    BY <1>2, LinkTypes, LinkMembers, BlankIsPacket DEF ProbeRun, TypeOK, InLink
  <2>2. faults = 0
    BY <1>2, FaultCounts DEF ProbeRun
  <2>3. h.call \in Threads \/ h.op = "query"
    BY <2>1, <2>2, LinkMembers, BlankIsPacket DEF NoFaultYet, TypeOK
  <2>4. PICK err \in BOOLEAN :
          /\ h.op = "query" => ~err
          /\ dpFault = "told" /\ UsesAP(h.op) => err
          /\ err \/ (dpFault = "told" /\ ~Aborts(h.op))
          /\ toHost' = Append(toHost, r(err))
    <3>1. PICK err \in BOOLEAN :
            /\ h.op = "query" => ~err
            /\ dpFault # "none" /\ UsesAP(h.op) => err
            /\ dpFault' \in DpAfter(h.op, err)
            /\ toHost' = Append(toHost, r(err))
      BY <1>2, <2>2, FaultCounts DEF ProbeRun
    <3>2. err \/ (dpFault = "told" /\ ~Aborts(h.op))
      BY <2>1, <3>1, DpTypes DEF Packet
    <3>3. QED BY <3>1, <3>2
  <2>5. r(err) \in Packet /\ r(err).call = h.call /\ r(err).err = err
    BY <2>1 DEF Packet
  <2> HIDE DEF h, r
  <2>6. \A u \in Threads : CarriedErr(u, toHost') <=> (CarriedErr(u, toHost) \/ (h.call = u /\ err))
    <3>1. toHost \in Seq(Packet)
      BY DEF TypeOK
    <3>2. TAKE u \in Threads
    <3>3. CarriedErr(u, Append(toHost, r(err)))
            <=> (CarriedErr(u, toHost) \/ (r(err).call = u /\ r(err).err))
      BY <2>5, <3>1, CarriedErrAppend
    <3>4. toHost' = Append(toHost, r(err)) /\ r(err).call = h.call /\ r(err).err = err
      BY <2>4, <2>5
    <3>5. QED BY <3>3, <3>4, Zenon
  <2>7. CASE h.call \in Threads
    <3> DEFINE w == h.call
    <3>1. exec[w] = "wait" /\ h.op = at[w] /\ at[w] # "query"
      BY <2>1, <2>7 DEF TrackInv, Tracked, TypeOK, Stages
    <3>2. CASE err
      BY <1>1, <2>6, <2>7, <3>1, <3>2 DEF Reported, CarriedErr
    <3>3. CASE ~err
      <4>1. at[w] = "attach"
        BY <2>4, <3>1, <3>3 DEF Aborts, UsesAP, TypeOK, Stages
      <4>2. QED BY <1>1, <2>7, <4>1 DEF Clearing
    <3>4. QED BY <3>2, <3>3
  <2>8. CASE h.call \notin Threads
    <3>1. dpFault = "told"
      BY <2>3, <2>4, <2>8
    <3>2. ASSUME NEW u \in Threads, Reported(u) \/ Clearing(u)
          PROVE  Reported(u)' \/ Clearing(u)'
      <4>1. Carried(u, toDev) => Carried(u, toDev')
        BY <2>1, <2>8, CarriedTail DEF TypeOK, h
      <4>2. QED BY <1>1, <2>6, <3>2, <4>1 DEF Reported, Clearing, Carried, CarriedErr
    <3>3. QED BY <1>1, <2>2, <3>1, <3>2 DEF ErrorKept
  <2>9. QED BY <2>7, <2>8
<1>3. CASE ProbeAsync \/ Plug
  <2>1. faults = 0 /\ dpFault = "told" /\ toDev' = toDev
    BY <1>3 DEF ProbeAsync, Plug
  <2>2. \A u \in Threads : CarriedErr(u, toHost) => CarriedErr(u, toHost')
    <3> DEFINE r == [Blank EXCEPT !.id = Async]
    <3>1. r \in Packet
      BY BlankIsPacket DEF Packet, Blank
    <3>2. toHost' = toHost \/ toHost' = Append(toHost, r)
      BY <1>3 DEF ProbeAsync, Plug
    <3> HIDE DEF r
    <3>3. CASE toHost' = toHost
      BY <3>3
    <3>4. CASE toHost' = Append(toHost, r)
      BY <3>1, <3>4, CarriedErrAppend DEF TypeOK
    <3>5. QED BY <3>2, <3>3, <3>4
  <2>3. ASSUME NEW u \in Threads, Reported(u) \/ Clearing(u)
        PROVE  Reported(u)' \/ Clearing(u)'
    BY <1>1, <2>1, <2>2, <2>3 DEF Reported, Clearing, Carried, CarriedErr
  <2>4. QED BY <1>1, <2>1, <2>3 DEF ErrorKept
<1>4. CASE Unplug
  BY <1>4, FaultCounts DEF Unplug
<1>5. QED BY <1>2, <1>3, <1>4

LEMMA KeptStep ==
  TypeOK /\ SwdLockInv /\ ReplyInv /\ TrackInv /\ QueryInv /\ NoFaultYet /\ ErrorKept
    /\ OneCall /\ OneCall' /\ [Next]_vars => ErrorKept'
<1> SUFFICES ASSUME TypeOK, SwdLockInv, ReplyInv, TrackInv, QueryInv, NoFaultYet, ErrorKept,
                    OneCall, OneCall', [Next]_vars, faults' = 0, dpFault' = "told"
             PROVE  swdError' \/ \E u \in Threads : Reported(u)' \/ Clearing(u)'
  BY DEF ErrorKept
<1> DEFINE Kept == swdError' \/ \E u \in Threads : Reported(u)' \/ Clearing(u)'
<1> HIDE DEF Kept
<1>1. CASE UNCHANGED vars
  BY <1>1 DEF vars, ErrorKept, Reported, Clearing, Carried, CarriedErr
<1>2. ASSUME NEW t \in Threads, QExec(t) PROVE Kept
  BY <1>2, KeptQExec DEF Kept
<1>3. ASSUME NEW t \in Threads, Caller(t) \/ Lock(t) \/ Operand(t) PROVE Kept
  BY <1>3, KeptCaller DEF Kept
<1>4. CASE ReadLoop
  BY <1>4, KeptReader
<1>5. CASE ProbeRun \/ ProbeAsync \/ Unplug \/ Plug
  BY <1>5, KeptProbe
<1>6. QED
  <2> USE DEF Kept
  <2>1. QED BY <1>1, <1>2, <1>3, <1>4, <1>5 DEF Next

(* A latched error the probe has told of is not forgotten while the link works,
   through every attach, swdp_reset in a command, DP_ABORT and refusal: when no
   call is under way and nobody is inside debugger_lock or swdp_reset, swd_error
   is set, so that the next debugger_lock sends the DP_ABORT.               *)
THEOREM ErrorsAreRemembered ==
  ASSUME FreshIds
  PROVE  Spec /\ []OneCall => []ErrorRemembered
<1>1. TypeOK /\ ErrorKept => ErrorRemembered
  BY DEF ErrorKept, ErrorRemembered, Reported, Clearing, TypeOK
<1>2. QED
  BY <1>1, KeptInit, KeptStep, NoFaultInit, NoFaultStep, TrackSafe, ReplySafe, QuerySafe,
     TypeCorrect, SwdLockSafe, PTL DEF Spec
=============================================================================
