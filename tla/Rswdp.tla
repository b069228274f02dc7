-------------------------------- MODULE Rswdp --------------------------------
(***************************************************************************)
(* The host side of the remote serial wire debug protocol                  *)
(* (tools/rswdp.c) with the threads that use it (tools/debugger-core.c)    *)
(* and the probe that answers it (m3debug/main.c).                         *)
(*                                                                         *)
(* Each thread that wants the target builds a transaction and calls        *)
(* q_exec(), which writes it to the USB handle and sleeps on swd_event     *)
(* until swd_reader() has copied the reply into q_exec's own stack buffer. *)
(* One action below is one critical section of swd_lock: q_exec holds it   *)
(* through usb_write and gives it up only in pthread_cond_wait, swd_reader *)
(* gives it up around usb_read_forever.                                    *)
(***************************************************************************)
EXTENDS Integers, Sequences

CONSTANTS
  Clients,    \* threads that enter through debugger_lock: console, gdb server
  Monitor,    \* the debugger_monitor thread
  Reader,     \* the swd_reader thread
  Nobody,     \* no thread: NULL, or a packet nobody waits for any more
  BareReads,  \* clients that also evaluate operands before they take _dbg_lock
  SeqMod,     \* number of transaction ids (65536 in the code)
  IdReuse,    \* may an id be taken again while a packet still carries it?
  LinkDepth,  \* packets each direction of the link can hold
  Faults,     \* kinds of fault that may happen
  MaxFaults   \* bound on how many do

FaultKinds == {"unplug", "readError", "writeFail", "writeLate", "runt"}

ASSUME ConstantsAssumption ==
  /\ Monitor \notin Clients
  /\ Reader \notin Clients \cup {Monitor}
  /\ Nobody \notin Clients \cup {Monitor, Reader}
  /\ BareReads \subseteq Clients
  /\ SeqMod \in Nat \ {0, 1}
  /\ LinkDepth \in Nat \ {0}
  /\ Faults \subseteq FaultKinds
  /\ MaxFaults \in Nat
  /\ IdReuse \in BOOLEAN

Threads == Clients \cup {Monitor}

(* RSWD_TXN_START(seq) for seq = 0 .. SeqMod-1 never equals RSWD_TXN_ASYNC,
   0, or the first word of a packet that is too short to have one.          *)
Ids   == 0 .. SeqMod - 1
NoId  == -1
Async == SeqMod
Runt  == SeqMod + 1

(* Where a thread is.  In every stage but "idle" the thread may call q_exec:
     clear    swdp_clear_error, its DP_ABORT write
     attach   swdp_reset, CMD_ATTACH and the IDCODE read
     config   swdp_reset, DP_ABORT, power up, AHB_CSW
     cmd      a debugger command or a gdb request, holding _dbg_lock
     operand  parse_number: a register or memory operand, no lock held
     dfsr     monitor, the DFSR read        dfsrAck  monitor, the DFSR write *)
Stages == {"idle", "clear", "attach", "config", "cmd", "operand", "dfsr", "dfsrAck"}
Transactions == (Stages \ {"idle"}) \cup {"query"}

(* A packet: first word, the call it belongs to (history: Nobody once that
   call has given up on it), the operation it carries, and the error bit of
   its CMD_STATUS when it is a reply.                                       *)
Packet == [id: Ids \cup {Async, Runt}, call: Threads \cup {Reader, Nobody},
           op: Transactions, err: BOOLEAN]

VARIABLES
  dbgLock,     \* owner of _dbg_lock
  swdError,    \* swd_error # 0
  sequence,    \* u16 sequence
  online,      \* swd_online
  usb,         \* the usb handle: "null", "open", or "dead" (device went away)
  txnId,       \* swd_txn_id
  txnData,     \* swd_txn_data: whose stack buffer, or Nobody for NULL
  txnStatus,   \* swd_txn_status: "none", "wait", "fail" or "done" (a length)
  at,          \* stage of each thread
  exec,        \* its q_exec: "no", "wait" inside, "ok" / "err" / "fail" returned
  buf,         \* data[] of its q_exec: [call, err] of the reply copied there
  sleepers,    \* threads asleep in pthread_cond_wait(&swd_event)
  reader,      \* where swd_reader is
  hand,        \* data[] of swd_reader
  queryId,     \* its query_id, NoId for 0
  attached,    \* is the probe on the bus
  toDev,       \* packets under way to the probe
  toHost,      \* packets under way to the host
  dpFault,     \* the target's DP has a sticky error latched: "none", one the
               \* probe has kept "silent" about, or one it has "told" the host
  faults       \* faults so far

hostVars   == <<dbgLock, swdError, at>>
txnVars    == <<txnId, txnData, txnStatus>>
readerVars == <<reader, hand, queryId>>
linkVars   == <<attached, toDev, toHost, dpFault>>
vars == <<dbgLock, swdError, sequence, online, usb, txnId, txnData, txnStatus,
          at, exec, buf, sleepers, reader, hand, queryId, attached, toDev,
          toHost, dpFault, faults>>

Junk == [call |-> Nobody, err |-> FALSE]
Blank == [id |-> Runt, call |-> Nobody, op |-> "query", err |-> FALSE]

Init ==
  /\ dbgLock = Nobody /\ swdError = FALSE
  /\ sequence = 1 /\ online = 0 /\ usb = "null"
  /\ txnId = NoId /\ txnData = Nobody /\ txnStatus = "none"
  /\ at = [t \in Threads |-> "idle"]
  /\ exec = [t \in Threads |-> "no"]
  /\ buf = [t \in Threads |-> Junk]
  /\ sleepers = {}
  /\ reader = "open" /\ hand = Blank /\ queryId = NoId
  /\ attached \in BOOLEAN /\ toDev = <<>> /\ toHost = <<>>
  /\ dpFault \in {"none", "silent"} /\ faults = 0

-----------------------------------------------------------------------------
(* Helpers *)

InLink == {toDev[i] : i \in DOMAIN toDev} \cup {toHost[i] : i \in DOMAIN toHost} \cup {hand}

(* Definitions named ..._bug are plausible mistakes; nothing in the
   specification uses them, the mutants of the project put them in place.   *)

(* seq = sequence++ *)
NextId == sequence' = (sequence + 1) % SeqMod

(* Unless IdReuse, no id is waited for that a packet still unread carries:
   sequence has not wrapped around while that packet was under way.         *)
FreshId == IdReuse \/ \A p \in InLink : p.id # sequence

Fault(kind) == kind \in Faults /\ faults < MaxFaults /\ faults' = faults + 1

(* The broadcast is forgotten. *)
Broadcast_bug == UNCHANGED sleepers

(* pthread_cond_broadcast(&swd_event) *)
Broadcast == sleepers' = {}

(* The packets of q whose callers have given up on them. *)
Orphan(q) == [i \in DOMAIN q |-> [q[i] EXCEPT !.call = Nobody]]

-----------------------------------------------------------------------------
(* q_exec *)

Calling(t) == at[t] # "idle" /\ exec[t] = "no"

Request(t, owner) == [id |-> sequence, call |-> owner, op |-> at[t], err |-> FALSE]

MustAck_bug == TRUE
NoAck_bug   == FALSE
MustAck     == online = -1

(* Not online: fail at once, and acknowledge a disconnect. *)
ExecOffline(t) ==
  /\ Calling(t) /\ online # 1
  /\ NextId
  /\ exec' = [exec EXCEPT ![t] = "fail"]
  /\ IF MustAck
       THEN usb' = "null" /\ online' = 0 /\ Broadcast
       ELSE UNCHANGED <<usb, online, sleepers>>
  /\ UNCHANGED <<hostVars, txnVars, buf, readerVars, linkVars, faults>>

(* The whole transaction is written: sleep until the reader has the reply. *)
ExecSend(t) ==
  /\ Calling(t) /\ online = 1 /\ usb = "open" /\ Len(toDev) < LinkDepth
  /\ NextId /\ FreshId
  /\ toDev' = Append(toDev, Request(t, t))
  /\ txnId' = sequence /\ txnData' = t /\ txnStatus' = "wait"
  /\ exec' = [exec EXCEPT ![t] = "wait"]
  /\ buf' = [buf EXCEPT ![t] = Junk]
  /\ sleepers' = sleepers \cup {t}
  /\ UNCHANGED <<hostVars, online, usb, readerVars, attached, toHost, dpFault, faults>>

(* swd_txn_* set before the write, and left so when it fails *)
ExecWriteFails_bug(t) ==
  /\ Calling(t) /\ online = 1 /\ NextId /\ Fault("writeFail")
  /\ txnId' = sequence /\ txnData' = t /\ txnStatus' = "wait"
  /\ exec' = [exec EXCEPT ![t] = "fail"]
  /\ UNCHANGED <<hostVars, online, usb, buf, sleepers, readerVars, linkVars>>

(* usb_write fails: the device is gone, or the transfer failed or timed out;
   "writeLate" is a time out that the probe did not see.                    *)
ExecWriteFails(t) ==
  /\ Calling(t) /\ online = 1
  /\ NextId
  /\ \/ usb # "open" /\ UNCHANGED <<toDev, faults>>
     \/ Fault("writeFail") /\ UNCHANGED toDev
     \/ /\ Fault("writeLate") /\ usb = "open" /\ FreshId /\ Len(toDev) < LinkDepth
        /\ toDev' = Append(toDev, Request(t, Nobody))
  /\ exec' = [exec EXCEPT ![t] = "fail"]
  /\ UNCHANGED <<hostVars, online, usb, txnVars, buf, sleepers, readerVars,
                 attached, toHost, dpFault>>

EndsWait_bug == TRUE                  \* if instead of while
EndsWait     == txnStatus # "wait"

(* process_reply() of t's buffer: a CMD_STATUS with an error is the result and
   sets swd_error.  A buffer nothing was copied to is parsed as whatever the
   stack held.                                                              *)
ProcessReply(t, r) ==
  /\ r \in {"ok", "err"}
  /\ buf[t].call # Nobody => (r = "err") = buf[t].err
  /\ swdError' = (swdError \/ r = "err")

(* pthread_cond_wait returns; while the status is still WAIT, sleep again.
   Otherwise leave with it.                                                 *)
ExecWake(t) ==
  /\ exec[t] = "wait" /\ t \notin sleepers
  /\ \/ /\ ~EndsWait
        /\ sleepers' = sleepers \cup {t}
        /\ UNCHANGED <<exec, txnData, swdError>>
     \/ /\ EndsWait
        /\ txnData' = Nobody
        /\ \E r \in {"ok", "err", "fail"} :
             /\ exec' = [exec EXCEPT ![t] = r]
             /\ IF txnStatus = "fail" THEN r = "fail" /\ UNCHANGED swdError
                                      ELSE ProcessReply(t, r)
        /\ UNCHANGED sleepers
  /\ UNCHANGED <<dbgLock, at, sequence, online, usb, txnId, txnStatus, buf,
                 readerVars, linkVars, faults>>

-----------------------------------------------------------------------------
(* The callers of q_exec: debugger_lock, commands, operands, monitor *)

Proceed(t, stage) == at' = [at EXCEPT ![t] = stage] /\ exec' = [exec EXCEPT ![t] = "no"]

CallerUnchanged == UNCHANGED <<sequence, online, usb, txnVars, buf, sleepers,
                               readerVars, linkVars, faults>>

Work(t) == IF t = Monitor THEN "dfsr" ELSE "cmd"

(* debugger_lock, or the monitor's lock and swdp_clear_error: an old error
   is forgotten first and its DP_ABORT sent after.                          *)
Lock(t) ==
  /\ at[t] = "idle" /\ dbgLock = Nobody
  /\ dbgLock' = t
  /\ swdError' = FALSE
  /\ Proceed(t, IF swdError THEN "clear" ELSE Work(t))
  /\ CallerUnchanged

Returned(t) == exec[t] \in {"ok", "err", "fail"}

(* swdp_clear_error returns swd_error; debugger_lock then tries swdp_reset,
   which forgets the error before each of its transactions; the monitor gives
   up until its next round.                                                 *)
Cleared(t) ==
  /\ at[t] = "clear" /\ Returned(t)
  /\ \/ /\ ~swdError
        /\ Proceed(t, Work(t)) /\ UNCHANGED <<dbgLock, swdError>>
     \/ /\ swdError /\ t # Monitor
        /\ Proceed(t, "attach") /\ swdError' = FALSE /\ UNCHANGED dbgLock
     \/ /\ swdError /\ t = Monitor
        /\ Proceed(t, "idle") /\ dbgLock' = Nobody /\ UNCHANGED swdError
  /\ CallerUnchanged

Attached(t) ==
  /\ at[t] = "attach" /\ Returned(t)
  /\ Proceed(t, "config") /\ swdError' = FALSE
  /\ UNCHANGED dbgLock /\ CallerUnchanged

Configured_bug(t) ==                    \* swd_error = 0 after it, not before
  /\ at[t] = "config" /\ Returned(t)
  /\ Proceed(t, "cmd") /\ swdError' = FALSE
  /\ UNCHANGED dbgLock /\ CallerUnchanged

Configured(t) ==
  /\ at[t] = "config" /\ Returned(t)
  /\ Proceed(t, "cmd")
  /\ UNCHANGED <<dbgLock, swdError>> /\ CallerUnchanged

(* A command goes on to its next transaction, whatever the last one gave ... *)
NextTxn(t) ==
  /\ at[t] = "cmd" /\ Returned(t)
  /\ Proceed(t, "cmd")
  /\ UNCHANGED <<dbgLock, swdError>> /\ CallerUnchanged

(* ... which may be swdp_reset: the attach command, or do_db after a failed
   read.  It forgets the error first, as in debugger_lock ...               *)
ResetTarget(t) ==
  /\ at[t] = "cmd" /\ exec[t] # "wait"
  /\ Proceed(t, "attach") /\ swdError' = FALSE
  /\ UNCHANGED dbgLock /\ CallerUnchanged

(* ... or ends: debugger_unlock.  The monitor ends its round after the DFSR
   read, or after acknowledging the events it read.                         *)
Unlock(t) ==
  /\ \/ at[t] = "cmd" /\ exec[t] # "wait"
     \/ at[t] \in {"dfsr", "dfsrAck"} /\ Returned(t)
  /\ Proceed(t, "idle") /\ dbgLock' = Nobody
  /\ UNCHANGED swdError /\ CallerUnchanged

AckEvents(t) ==
  /\ at[t] = "dfsr" /\ exec[t] = "ok"
  /\ Proceed(t, "dfsrAck")
  /\ UNCHANGED <<dbgLock, swdError>> /\ CallerUnchanged

(* parse_number on a register name or a *address operand: read_register and
   read_memory_word run q_exec before any command has locked the debugger.  *)
Operand(t) ==
  /\ t \in BareReads /\ at[t] = "idle"
  /\ Proceed(t, "operand")
  /\ UNCHANGED <<dbgLock, swdError>> /\ CallerUnchanged

OperandRead(t) ==
  /\ at[t] = "operand" /\ Returned(t)
  /\ Proceed(t, "idle")
  /\ UNCHANGED <<dbgLock, swdError>> /\ CallerUnchanged

-----------------------------------------------------------------------------
(* swd_reader *)

ReaderOpen ==
  /\ reader = "open" /\ attached
  /\ usb' = "open" /\ reader' = "query"
  /\ UNCHANGED <<hostVars, sequence, online, txnVars, exec, buf, sleepers, hand,
                 queryId, linkVars, faults>>

(* The version query.  The result of its usb_write is not looked at. *)
ReaderQuery ==
  /\ reader = "query"
  /\ NextId /\ FreshId
  /\ queryId' = sequence
  /\ \/ /\ usb = "open" /\ Len(toDev) < LinkDepth
        /\ toDev' = Append(toDev, [id |-> sequence, call |-> Reader,
                                   op |-> "query", err |-> FALSE])
        /\ UNCHANGED faults
     \/ usb # "open" /\ UNCHANGED <<toDev, faults>>
     \/ Fault("writeFail") /\ UNCHANGED toDev
  /\ reader' = "read"
  /\ UNCHANGED <<hostVars, online, usb, txnVars, exec, buf, sleepers, hand,
                 attached, toHost, dpFault>>

(* usb_read_forever returns a packet; swd_lock is not held. *)
ReaderRead ==
  /\ reader = "read" /\ toHost # <<>> /\ usb = "open"
  /\ hand' = Head(toHost) /\ toHost' = Tail(toHost)
  /\ reader' = "have"
  /\ UNCHANGED <<hostVars, sequence, online, usb, txnVars, exec, buf, sleepers,
                 queryId, attached, toDev, dpFault, faults>>

FailTxn_bug   == UNCHANGED txnStatus   \* the waiting call is not told
PassTxn_bug   == txnStatus' = "done"   \* or told of a reply
FailTxn       == txnStatus' = "fail"

(* usb_read_forever fails: tell the waiting call, wait to be acknowledged.
   What the link still holds answers nobody any more.                       *)
ReaderFails ==
  /\ reader = "read"
  /\ \/ usb = "dead" /\ UNCHANGED faults
     \/ Fault("readError")
  /\ online' = -1 /\ FailTxn
  /\ reader' = "ack" /\ sleepers' = {Reader}
  /\ toDev' = Orphan(toDev) /\ toHost' = Orphan(toHost)
  /\ UNCHANGED <<hostVars, sequence, usb, txnId, txnData, exec, buf, hand,
                 queryId, attached, dpFault>>

(* The packet in hand answers the query, or the transaction under way.  A
   packet that is too short, or not a whole number of words, does neither.  *)
IsAnswer_bug == hand.id # Runt /\ queryId # NoId
IsAnswer     == hand.id # Runt /\ hand.id = queryId
IsReply_bug  == hand.id \notin {Runt, Async} /\ ~IsAnswer /\ txnStatus = "wait"
IsReply      == hand.id # Runt /\ ~IsAnswer /\ txnStatus = "wait" /\ hand.id = txnId

(* With swd_lock taken again: the answer to the query brings the link up, the
   reply to the current transaction wakes its caller, the rest is dropped.
   process_async runs with swd_lock released and leaves this state alone.   *)
ReaderHandle ==
  /\ reader = "have" /\ reader' = "read"
  /\ hand' = Blank
  /\ \/ /\ IsAnswer
        /\ queryId' = NoId /\ online' = 1
        /\ UNCHANGED <<txnStatus, buf, sleepers>>
     \/ /\ IsReply
        /\ txnStatus' = "done"
        /\ buf' = [buf EXCEPT ![txnData] = [call |-> hand.call, err |-> hand.err]]
        /\ Broadcast
        /\ UNCHANGED <<queryId, online>>
     \/ /\ ~IsAnswer /\ ~IsReply
        /\ UNCHANGED <<queryId, online, txnStatus, buf, sleepers>>
  /\ UNCHANGED <<hostVars, sequence, usb, txnId, txnData, exec, linkVars, faults>>

(* while (swd_online == -1) pthread_cond_wait: then start over. *)
ReaderAcked ==
  /\ reader = "ack" /\ Reader \notin sleepers
  /\ IF online = -1
       THEN sleepers' = sleepers \cup {Reader} /\ UNCHANGED reader
       ELSE reader' = "open" /\ UNCHANGED sleepers
  /\ UNCHANGED <<hostVars, sequence, online, usb, txnVars, exec, buf, hand,
                 queryId, linkVars, faults>>

-----------------------------------------------------------------------------
(* The probe's main loop and process_txn, and the cable *)

(* The DP after one transaction.  While a sticky error is latched it refuses
   every AP access; DP_ABORT clears it.  An access that fails is an error of
   the reply's CMD_STATUS, and may leave one latched.  A write is done with
   when the DP has taken its data: what goes wrong after that, on the bus or
   with the data's parity, latches an error the next access shows.  So a
   transaction that ends in a write may latch one with CMD_STATUS 0.        *)
Aborts(op)    == op \in {"clear", "config"}
UsesAP(op)    == op \notin {"clear", "config", "attach", "query"}
EndsInWrite(op) == op \in {"clear", "config", "cmd", "dfsrAck"}

DpAfter(op, err) ==
  IF err THEN {"told"} \cup (IF Aborts(op) THEN {"none"} ELSE {dpFault} \cap {"none"})
  ELSE (IF Aborts(op) THEN {"none"} ELSE {dpFault})
         \cup (IF EndsInWrite(op) THEN {"silent"} ELSE {})

(* Receive one transaction, run it, send the reply.  A reply that is lost in
   a "runt" never reaches its caller.                                       *)
ProbeRun ==
  /\ toDev # <<>> /\ attached /\ Len(toHost) < LinkDepth
  /\ LET p == Head(toDev)
     IN  \E err \in BOOLEAN :
           /\ p.op = "query" => ~err
           /\ dpFault # "none" /\ UsesAP(p.op) => err
           /\ dpFault' \in DpAfter(p.op, err)
           /\ \/ /\ toHost' = Append(toHost, [p EXCEPT !.err = err])
                 /\ UNCHANGED faults
              \/ /\ Fault("runt")
                 /\ toHost' = Append(toHost, [Blank EXCEPT !.op = p.op])
  /\ toDev' = Tail(toDev)
  /\ UNCHANGED <<hostVars, sequence, online, usb, txnVars, exec, buf, sleepers,
                 readerVars, attached>>

(* printu, or a buffer of SWO data *)
ProbeAsync ==
  /\ attached /\ Len(toHost) < LinkDepth
  /\ toHost' = Append(toHost, [Blank EXCEPT !.id = Async])
  /\ UNCHANGED <<hostVars, sequence, online, usb, txnVars, exec, buf, sleepers,
                 readerVars, attached, toDev, dpFault, faults>>

Unplug ==
  /\ attached /\ Fault("unplug")
  /\ attached' = FALSE /\ toDev' = <<>> /\ toHost' = <<>>
  /\ usb' = IF usb = "open" THEN "dead" ELSE usb
  /\ UNCHANGED <<hostVars, sequence, online, txnVars, exec, buf, sleepers,
                 readerVars, dpFault>>

Plug ==
  /\ ~attached /\ attached' = TRUE
  /\ UNCHANGED <<hostVars, sequence, online, usb, txnVars, exec, buf, sleepers,
                 readerVars, toDev, toHost, dpFault, faults>>

-----------------------------------------------------------------------------
QExec(t)  == ExecOffline(t) \/ ExecSend(t) \/ ExecWriteFails(t) \/ ExecWake(t)
Caller(t) == \/ Cleared(t) \/ Attached(t) \/ Configured(t) \/ NextTxn(t)
             \/ ResetTarget(t) \/ Unlock(t) \/ AckEvents(t) \/ OperandRead(t)
ReadLoop  == \/ ReaderOpen \/ ReaderQuery \/ ReaderRead \/ ReaderFails
             \/ ReaderHandle \/ ReaderAcked

Next ==
  \/ \E t \in Threads : QExec(t) \/ Caller(t) \/ Lock(t) \/ Operand(t)
  \/ ReadLoop
  \/ ProbeRun \/ ProbeAsync \/ Unplug \/ Plug

Spec == Init /\ [][Next]_vars

(* The threads keep running; the probe keeps serving (SF: between the packets
   it sends of its own accord it comes back to usb_recv); the monitor's turn
   at _dbg_lock comes (SF: clients let go of it between commands); a probe
   that is pulled is plugged in again.                                      *)
Fairness ==
  /\ \A t \in Threads : WF_vars(QExec(t)) /\ WF_vars(Caller(t))
  /\ SF_vars(Lock(Monitor))
  /\ WF_vars(ReadLoop)
  /\ SF_vars(ProbeRun)
  /\ WF_vars(Plug)

FairSpec == Spec /\ Fairness

-----------------------------------------------------------------------------
(* What the code promises *)

(* Every variable has its type. *)
TypeOK ==
  /\ dbgLock \in Threads \cup {Nobody} /\ swdError \in BOOLEAN
  /\ sequence \in Ids /\ online \in {-1, 0, 1} /\ usb \in {"null", "open", "dead"}
  /\ txnId \in Ids \cup {NoId} /\ txnData \in Threads \cup {Nobody}
  /\ txnStatus \in {"none", "wait", "fail", "done"}
  /\ at \in [Threads -> Stages]
  /\ exec \in [Threads -> {"no", "wait", "ok", "err", "fail"}]
  /\ buf \in [Threads -> [call : Threads \cup {Reader, Nobody}, err : BOOLEAN]]
  /\ sleepers \subseteq Threads \cup {Reader}
  /\ reader \in {"open", "query", "read", "have", "ack"}
  /\ hand \in Packet /\ queryId \in Ids \cup {NoId}
  /\ attached \in BOOLEAN /\ dpFault \in {"none", "silent", "told"}
  /\ faults \in 0 .. MaxFaults
  /\ toDev \in Seq(Packet) /\ toHost \in Seq(Packet)

(* While a transaction is outstanding, swd_txn_data points into the frame of
   a q_exec that has not returned: swd_reader's memcpy never goes through
   NULL or into a dead stack frame, whichever threads call q_exec at once.  *)
BufferLive ==
  txnStatus = "wait" => txnData # Nobody /\ exec[txnData] = "wait"

(* usb_close is only reached while swd_reader is parked, and swd_reader only
   opens a handle when the last one was closed: no I/O on a closed handle,
   no handle leaked.                                                        *)
HandleSafe ==
  /\ (usb = "null") <=> (reader = "open" \/ (reader = "ack" /\ online # -1))
  /\ online = 1 => reader \in {"read", "have"}

(* Nobody sleeps on a condition that already came true: a q_exec whose
   transaction ended has been signalled, and so has a reader whose
   disconnect was acknowledged.                                             *)
NoLostWakeup ==
  /\ \A t \in Threads : exec[t] = "wait" /\ t \in sleepers => txnStatus = "wait"
  /\ Reader \in sleepers => reader = "ack" /\ online = -1

(* A q_exec that returns a reply parsed the reply to its own transaction: not
   a stale one of a call that timed out or of an earlier connection, not one
   meant for another thread, not an uninitialised buffer.                   *)
OwnReply ==
  \A t \in Threads : exec[t] \in {"ok", "err"} => buf[t].call = t

(* The link is reported up only by the answer to this connection's own
   version query, never by one left over from an earlier connection.        *)
OnlineByFreshAnswer ==
  [][online' = 1 /\ online # 1 => hand.call = Reader]_vars

(* A sticky error that the probe has told of stays with the host until the DP
   is cleared of it: whatever was attached, reset, aborted and refused since,
   when no thread is inside q_exec, debugger_lock or swdp_reset, swd_error is
   set, so that the next debugger_lock clears the DP.  An error of a posted
   write is not told of before the next access.  Holds until the link itself
   fails: swdp_clear_error forgets the error although its DP_ABORT was not
   sent.                                                                    *)
ErrorRemembered ==
  (faults = 0 /\ \A t \in Threads : at[t] \in {"idle", "cmd", "dfsr", "dfsrAck"} /\ exec[t] # "wait")
    => (dpFault = "told" => swdError)

(* A caller asleep in q_exec returns: by its reply or by the disconnect. *)
CallReturns == \A t \in Threads : (exec[t] = "wait") ~> (exec[t] # "wait")

(* A connection error is acknowledged by the next swd io attempt - the
   monitor's, if no other - and the reader goes on to reconnect.            *)
DisconnectAcked == (online = -1) ~> (reader = "open")

(* "swd_thread is responsible for setting swd_online to 1 once the USB
   connection is active": a handle that stays good comes online.            *)
ConnectionComesOnline == (usb = "open" /\ reader = "read") ~> (online = 1 \/ usb # "open")

(* At-most-once execution with honest results: each q_exec is a call of
   TxnCall, seen through where its packet is.                               *)
Carried(t, q) == \E i \in DOMAIN q : q[i].call = t

Phase(t) ==
  IF exec[t] # "wait" THEN exec[t]
  ELSE IF txnStatus = "fail" THEN "lost"    \* even when its reply had arrived
  ELSE IF Carried(t, toDev) THEN "called"
  ELSE IF Carried(t, toHost) \/ hand.call = t \/ buf[t].call = t THEN "ran"
  ELSE "lost"

Calls == INSTANCE TxnCall WITH phase <- [t \in Threads |-> Phase(t)]
CallsSpec == Calls!Spec
=============================================================================
