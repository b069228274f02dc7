----------------------------- MODULE AhbTransfer -----------------------------
(***************************************************************************)
(* Memory access of the debugger: the calls of tools/rswdp.c that read and  *)
(* write target memory (swdp_ahb_read32 and _write32, swdp_ahb_read and     *)
(* _write, the core register and watchpoint calls), the probe executing     *)
(* their transactions one SWD access at a time (process_txn), and the       *)
(* target's AHB-AP with its auto-increment, posted accesses and sticky      *)
(* error.                                                                   *)
(*                                                                         *)
(* One action is one SWD access, so that a failure can fall on any of them. *)
(* An address is a word number and, for a block, a skew: the caller's       *)
(* address & 3, the same for every word of the block.  What a word holds    *)
(* does not matter here: the accesses that reach the bus are recorded in    *)
(* order, and a word read is known by its address.                          *)
(***************************************************************************)
EXTENDS Integers, Sequences, FiniteSets

CONSTANTS
  PageWords,  \* words in the range auto-increment stays in (1024)
  MaxWords,   \* swd_maxwords, words in the probe's receive buffer (512)
  Overhead,   \* words MAXDATAWORDS keeps for the rest of a transaction (16)
  Starts,     \* addresses block transfers are started at
  Counts,     \* lengths of block transfers, in words
  Skews,      \* what their addresses leave over from a word boundary, in bytes
  Core,       \* CDBG_REG_ADDR; CDBG_REG_DATA and DEMCR follow
  Dwt,        \* DWT_COMP(n); DWT_MASK(n) and DWT_FUNC(n) follow
  CoreRegs    \* registers swdp_core_read_all reads (19)

ArgMod == 65536     \* the field of a message that counts words has 16 bits

ASSUME AhbAssumption ==
  /\ PageWords \in Nat \ {0}
  /\ MaxWords \in Nat /\ Overhead \in Nat /\ MaxWords > Overhead
  /\ MaxWords < ArgMod                  \* process_query takes it from such a field
  /\ Starts \subseteq Nat /\ Counts \subseteq Nat /\ Skews \subseteq 0 .. 3
  /\ Core \in Nat /\ Dwt \in Nat /\ Core # Dwt /\ CoreRegs \in Nat \ {0}

MaxDataWords_bug == MaxWords         \* a mistake a mutant puts in its place
MaxDataWords == MaxWords - Overhead

Junk == -1      \* a word of a reply that was not read from the target

Access == [rw : {"r", "w"}, addr : Nat]                   \* asked for
Made   == [rw : {"r", "w"}, addr : Nat, good : BOOLEAN]   \* on the bus
R(a) == [rw |-> "r", addr |-> a]
W(a) == [rw |-> "w", addr |-> a]

VARIABLES
  op,       \* the call under way or last made
  skew,     \* its address & 3
  asked,    \* the accesses it asks for, in order
  addr,     \* its loop: next address ...
  count,    \* ... and words not yet in a transaction
  xfer,     \* words of the transaction under way
  pc,       \* the message of it that the probe executes next
  left,     \* words of it not yet accessed
  item,     \* in a list of single accesses: the next one
  failed,   \* the transaction's CMD_STATUS is an error
  got,      \* words of its reply
  out,      \* words handed to the caller
  result,   \* of the call: "none" yet, "ok" or "fail"
  swdError, \* the host's swd_error # 0
  inc,      \* AHB_CSW has INC_SINGLE set
  tar,      \* AHB_TAR
  posted,   \* address of the word in the read buffer
  sticky,   \* the DP's sticky error
  bus       \* history: accesses made on the AHB by this call, and their success

hostVars   == <<op, skew, asked, addr, count, xfer, item, out, result, swdError>>
targetVars == <<inc, tar, posted, sticky, bus>>
vars == <<op, skew, asked, addr, count, xfer, pc, left, item, failed, got, out, result,
          swdError, inc, tar, posted, sticky, bus>>

Init ==
  /\ op = "none" /\ skew = 0 /\ asked = <<>> /\ addr = 0 /\ count = 0 /\ xfer = 0
  /\ pc = "idle" /\ left = 0 /\ item = 0 /\ failed = FALSE
  /\ got = <<>> /\ out = <<>> /\ result = "none" /\ swdError = FALSE
  /\ inc = FALSE /\ tar = 0 /\ posted = Junk /\ sticky = FALSE /\ bus = <<>>

-----------------------------------------------------------------------------
(* The calls *)

Run(rw, a, n) == [i \in 1 .. n |-> [rw |-> rw, addr |-> a + i - 1]]

(* The calls that are one transaction of single accesses. *)
Batch ==
  [core_write    |-> <<W(Core + 1), W(Core)>>,
   core_read     |-> <<W(Core), R(Core + 1)>>,
   core_read_all |-> [i \in 1 .. 2 * CoreRegs |->
                        IF i % 2 = 1 THEN W(Core) ELSE R(Core + 1)],
   watchpoint    |-> <<W(Core + 2), W(Dwt + 2), W(Dwt), W(Dwt + 1), W(Dwt + 2)>>,
   watch_off     |-> <<W(Core + 2), W(Dwt + 2)>>]

Calls == {"none", "read32", "write32", "ahb_read", "ahb_write", "db_csw"} \cup DOMAIN Batch

Block == op \in {"read32", "write32"}

Begin(o, list) ==
  /\ op' = o /\ asked' = list
  /\ out' = <<>> /\ result' = "none" /\ bus' = <<>>
  /\ got' = <<>> /\ failed' = FALSE /\ pc' = "ready" /\ item' = 1
  /\ xfer' = 0 /\ left' = 0
  /\ UNCHANGED <<swdError, inc, tar, posted, sticky>>

CallBlock ==
  /\ pc = "idle"
  /\ \E o \in {"read32", "write32"}, a \in Starts, n \in Counts :
       /\ Begin(o, Run(IF o = "read32" THEN "r" ELSE "w", a, n))
       /\ addr' = a /\ count' = n /\ skew' \in Skews

CallSingle ==
  /\ pc = "idle"
  /\ \/ \E a \in Starts : Begin("ahb_read", <<R(a)>>) \/ Begin("ahb_write", <<W(a)>>)
     \/ \E o \in DOMAIN Batch : Begin(o, Batch[o])
  /\ addr' = 0 /\ count' = 0 /\ skew' = 0

(* AHB_CSW is register 0 of the AP: do_db passes it to swdp_ahb_write, the
   call that takes a memory address.                                        *)
CallDumpBytes ==
  /\ pc = "idle"
  /\ Begin("db_csw", <<W(0)>>)
  /\ addr' = 0 /\ count' = 0 /\ skew' = 0

ToPage_bug(a) == PageWords           \* the start within the page is forgotten
ToPage(a) == (4 * (PageWords - (a % PageWords)) - skew) \div 4

Least(S) == CHOOSE x \in S : \A y \in S : x <= y

(* (0x1000 - (addr & 0xFFF)) / 4, and no more than is left or fits.  It is 0
   for an address in the last three bytes of a page: the transaction then
   asks for no word, or for 0 - 1 of them, and the loop is where it was.    *)
Chunk == Least({ToPage(addr), count, MaxDataWords})

(* The next transaction of the call is built and sent. *)
Send ==
  /\ pc = "ready" /\ pc' = "select"
  /\ IF Block
       THEN /\ count > 0
            /\ xfer' = Chunk /\ left' = Chunk
            /\ addr' = addr + Chunk /\ count' = count - Chunk
       ELSE UNCHANGED <<addr, count, xfer, left>>
  /\ got' = <<>> /\ failed' = FALSE
  /\ UNCHANGED <<op, skew, asked, item, out, result, swdError, targetVars>>

(* What the probe is at while it executes a transaction. *)
Accesses == {"select", "csw", "tar", "write", "discard", "read", "buffer", "restore"}

Return(r) ==
  /\ pc' = "idle" /\ result' = r
  /\ UNCHANGED <<op, skew, asked, addr, count, xfer, left, item, failed, got, targetVars>>

(* The loop ends; or q_exec fails before or after the probe ran. *)
Finished == Block /\ count = 0
ReturnOk == pc = "ready" /\ Finished /\ Return("ok") /\ UNCHANGED <<out, swdError>>
LinkFails == /\ pc # "idle" /\ ~(pc = "ready" /\ Finished)
             /\ Return("fail") /\ UNCHANGED <<out, swdError>>

(* Or its wait ends with an error and the probe works on: the rest of the
   transaction is still executed, and its reply has no taker (LinkFails again).
   The link keeps order, so the probe takes up the next transaction after it. *)
TimesOut ==
  /\ pc \in Accesses \cup {"runaway", "gone"} /\ result = "none" /\ result' = "fail"
  /\ UNCHANGED <<op, skew, asked, addr, count, xfer, item, out, swdError, pc, left,
                 failed, got, targetVars>>

(* process_reply: the words read go to the caller, whatever the status. *)
Reply ==
  /\ pc = "reply" /\ result = "none"
  /\ out' = out \o got
  /\ \/ failed /\ Return("fail") /\ swdError' = TRUE
     \/ ~failed /\ ~Block /\ Return("ok") /\ UNCHANGED swdError
     \/ /\ ~failed /\ Block /\ pc' = "ready"
        /\ UNCHANGED <<op, skew, asked, addr, count, xfer, left, item, failed, got,
                       result, swdError, targetVars>>

-----------------------------------------------------------------------------
(* The probe executes the transaction *)

(* swdp_write, swdp_read: a WAIT is tried again, so what counts is the answer after
   it.  The DP accepts an access unless its sticky error is set, and takes the data. *)
Accepted(at, next) == pc = at /\ ~sticky /\ pc' = next /\ UNCHANGED failed

(* TAR counts up within its page when CSW says so. *)
Advance(a) == IF (a + 1) % PageWords = 0 THEN a + 1 - PageWords ELSE a + 1

(* DRW is accessed: the AHB access it starts may fail, which the DP tells
   from the next access on.                                                 *)
OnBus(rw) ==
  \E good \in BOOLEAN :
    /\ bus' = Append(bus, [rw |-> rw, addr |-> tar, good |-> good])
    /\ sticky' = ~good
    /\ tar' = IF inc THEN Advance(tar) ELSE tar
    /\ posted' = IF rw = "w" THEN posted ELSE IF good THEN tar ELSE Junk

(* After the data of a block: "restore state after last batch". *)
AfterBlock == IF count = 0 THEN "restore" ELSE "reply"

Drw(i) == IF asked[i].rw = "w" THEN "write" ELSE "discard"

(* q_ahb_write, q_ahb_read: TAR is written unless it was for the access before. *)
AfterItem(i) ==
  IF i > Len(asked) THEN "reply"
  ELSE IF asked[i].addr = asked[i - 1].addr THEN Drw(i) ELSE "tar"

Select ==
  /\ Accepted("select", IF Block THEN "csw" ELSE "tar")
  /\ UNCHANGED <<hostVars, left, got, targetVars>>

SetInc ==
  /\ Accepted("csw", "tar")
  /\ inc' = TRUE
  /\ UNCHANGED <<hostVars, left, got, tar, posted, sticky, bus>>

SetTar ==
  /\ Accepted("tar", IF op = "read32" THEN "discard"
                     ELSE IF op = "write32" THEN IF left > 0 THEN "write" ELSE AfterBlock
                     ELSE Drw(item))
  /\ tar' = IF Block THEN addr - xfer ELSE asked[item].addr
  /\ UNCHANGED <<hostVars, left, got, inc, posted, sticky, bus>>

WriteWord ==
  /\ Accepted("write", IF ~Block THEN AfterItem(item + 1)
                       ELSE IF left > 1 THEN "write" ELSE AfterBlock)
  /\ OnBus("w")
  /\ IF Block THEN left' = left - 1 /\ UNCHANGED item
              ELSE item' = item + 1 /\ UNCHANGED left
  /\ UNCHANGED <<op, skew, asked, addr, count, xfer, out, result, swdError, got, inc>>

(* The words the CMD_SWD_READ of a block asks for, in a field of 16 bits, and
   whether the probe's transmit buffer has room for them after two words.   *)
ReadCount == (xfer - 1) % ArgMod
HasRoom   == ReadCount + 2 <= MaxWords + 1

(* CMD_SWD_DISCARD: the first read only starts an access. *)
FirstRead ==
  /\ Accepted("discard", IF ~Block \/ ReadCount = 0 THEN "buffer"
                         ELSE IF HasRoom THEN "read" ELSE "runaway")
  /\ OnBus("r")
  /\ left' = IF Block THEN ReadCount ELSE left
  /\ UNCHANGED <<hostVars, got, inc>>

(* Each further one returns the word of the access before, ... *)
NextRead ==
  /\ Accepted("read", IF left > 1 THEN "read" ELSE "buffer")
  /\ OnBus("r")
  /\ got' = Append(got, posted) /\ left' = left - 1
  /\ UNCHANGED <<hostVars, inc>>

(* Without room process_txn fills the memory after its buffer, with words read
   or, once an access is refused, with 0xfefefefe, and is not heard of again
   until the probe is reset.  Of the words it reads, one is recorded.       *)
Overrun ==
  /\ pc = "runaway" /\ pc' = "gone"
  /\ OnBus("r") \/ UNCHANGED <<tar, posted, sticky, bus>>
  /\ UNCHANGED <<hostVars, inc, left, failed, got>>

(* ... and DP_BUFFER the last. *)
ReadBuffer ==
  /\ Accepted("buffer", IF Block THEN AfterBlock ELSE AfterItem(item + 1))
  /\ got' = Append(got, posted)
  /\ item' = IF Block THEN item ELSE item + 1
  /\ UNCHANGED <<op, skew, asked, addr, count, xfer, out, result, swdError, left, targetVars>>

Restore ==
  /\ Accepted("restore", "reply")
  /\ inc' = FALSE
  /\ UNCHANGED <<hostVars, left, got, tar, posted, sticky, bus>>

(* An access is refused, or the line fails: process_txn stops there, filling
   up the words of a CMD_SWD_READ.                                          *)
Refused_bug ==                         \* status = 3 is forgotten
  /\ pc \in {"write", "discard", "read", "buffer"}
  /\ pc' = "reply" /\ UNCHANGED <<failed, got, hostVars, left, targetVars>>

Refused ==
  /\ pc \in Accesses
  /\ pc' = "reply" /\ failed' = TRUE
  /\ got' = got \o [i \in 1 .. (CASE pc = "read" -> left [] pc = "buffer" -> 1
                                  [] OTHER -> 0) |-> Junk]
  /\ UNCHANGED <<hostVars, left, targetVars>>

-----------------------------------------------------------------------------
(* swdp_clear_error, at the next debugger_lock; and swdp_reset (attach).
   Either may fail and leave things as they were, having cleared swd_error.  *)

Settled == /\ pc = "idle" /\ result' = "none" /\ bus' = <<>> /\ out' = <<>>
           /\ UNCHANGED <<op, skew, asked, addr, count, xfer, pc, left, item, failed,
                          got, tar, posted>>

ClearError == /\ swdError /\ Settled /\ UNCHANGED inc
              /\ \/ sticky' = FALSE /\ swdError' = FALSE
                 \/ sticky' = sticky /\ swdError' \in BOOLEAN

Reset == /\ Settled
         /\ \/ sticky' = FALSE /\ inc' = FALSE /\ swdError' = FALSE
            \/ sticky' \in {sticky, FALSE} /\ inc' = inc /\ swdError' \in BOOLEAN

Host  == CallBlock \/ CallSingle \/ CallDumpBytes \/ Send \/ ReturnOk \/ LinkFails
           \/ TimesOut \/ Reply \/ ClearError \/ Reset
Probe == Select \/ SetInc \/ SetTar \/ WriteWord \/ FirstRead \/ NextRead
           \/ Overrun \/ ReadBuffer \/ Restore \/ Refused

Next == Host \/ Probe

Spec == Init /\ [][Next]_vars

-----------------------------------------------------------------------------
(* What the code promises *)

(* Every variable has its type. *)
FlagsOK == failed \in BOOLEAN /\ swdError \in BOOLEAN /\ inc \in BOOLEAN /\ sticky \in BOOLEAN
CallOK  == /\ op \in Calls /\ asked \in Seq(Access) /\ result \in {"none", "ok", "fail"}
           /\ addr \in Nat /\ count \in Nat /\ xfer \in Nat /\ left \in Nat /\ item \in Nat
           /\ pc \in Accesses \cup {"idle", "ready", "reply", "runaway", "gone"}
           /\ skew \in 0 .. 3
DataOK  == /\ got \in Seq(Int) /\ out \in Seq(Int) /\ posted \in Int /\ tar \in Nat
           /\ bus \in Seq(Made)
TypeOK  == FlagsOK /\ CallOK /\ DataOK

(* A call the code makes as its callee expects it: no AP register number where
   a memory address belongs (do_db), and no block off a word boundary.      *)
WellFormed == op # "db_csw" /\ (Block => skew = 0)

(* The target's bus sees the accesses such a call asks for, each once and in
   order, and no other: no word beyond the end or across a page is read or
   written, no access goes to the address a failed call left behind, whatever
   failed before, wherever this call fails, and even when the probe goes on
   with it after the host has given it up.                                  *)
OnlyAsked ==
  WellFormed =>
    /\ Len(bus) <= Len(asked)
    /\ \A i \in DOMAIN bus : bus[i].rw = asked[i].rw /\ bus[i].addr = asked[i].addr

(* The words w are those of the reads among a list's first n accesses: the
   k-th word is the k-th read's.                                            *)
Reads(list, n) == Cardinality({i \in 1 .. n : list[i].rw = "r"})
ReadOut(list, w, n) ==
  /\ Len(w) = Reads(list, n)
  /\ \A i \in 1 .. n : list[i].rw = "r" => w[Reads(list, i)] = list[i].addr

(* A call that returns 0 made all its accesses, and gave its caller the words
   at the addresses it asked for, in order.  Only the last of single writes
   can have failed without the call knowing; the error is then still latched,
   so that the next access reports it.                                      *)
SuccessIsComplete ==
  result = "ok" =>
    /\ Len(bus) = Len(asked)
    /\ ReadOut(asked, out, Len(asked))
    /\ \A i \in DOMAIN bus :
         bus[i].good \/ (~Block /\ i = Len(bus) /\ bus[i].rw = "w" /\ sticky)

(* A transaction of a block on a word boundary moves the loop on, fits the
   probe's receive buffer, and its reply the probe's transmit buffer of one
   word more, padding included.                                             *)
RequestWords == 1 + 4 + 2 + 1 + xfer + 2
ReplyWords   == 1 + 1 + ReadCount + 1 + 1 + 1
Padded(n) == IF n % 16 = 0 /\ n # MaxWords THEN n + 1 ELSE n
BlockFits ==
  Block /\ skew = 0 /\ pc \notin {"idle", "ready"} =>
    0 < xfer /\ Padded(RequestWords) <= MaxWords /\ Padded(ReplyWords) <= MaxWords + 1
=============================================================================
