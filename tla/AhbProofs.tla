------------------------------ MODULE AhbProofs ------------------------------
(* Theorems about AhbTransfer, for every page size, buffer size, address and
   length.                                                                  *)
EXTENDS AhbTransfer, FiniteSetTheorems, TLAPS

(* Walking within a page does not wrap. *)
LEMMA InPage ==
  ASSUME NEW a \in Nat, NEW P \in Nat \ {0}, NEW k \in Nat, (a % P) + k < P
  PROVE  (a + k) % P = (a % P) + k
<1> DEFINE q == a \div P
           r == (a % P) + k
<1>1. /\ a = P * q + (a % P)
      /\ q \in Nat /\ r \in 0 .. P - 1
  OBVIOUS
<1>2. ASSUME NEW x \in Nat, NEW y \in 0 .. P - 1 PROVE (P * x + y) % P = y
  OBVIOUS
<1>3. (P * q + r) % P = r
  BY <1>1, <1>2
<1>4. a + k = P * q + r
  <2>1. P * q \in Int /\ a % P \in Int
    BY <1>1
  <2>2. QED BY <1>1, <2>1
<1>5. QED BY <1>3, <1>4

(* The words from a on in its page, whole or in part; ToPage leaves one in
   part out.                                                                *)
Room(a) == PageWords - (a % PageWords)

LEMMA PageFacts ==
  ASSUME NEW a \in Nat, skew \in 0 .. 3
  PROVE  /\ ToPage(a) \in Nat /\ ToPage(a) <= Room(a)
         /\ skew = 0 => 0 < ToPage(a)
<1>1. Room(a) \in Nat \ {0}
  BY AhbAssumption DEF AhbAssumption, Room
<1>2. ToPage(a) = (4 * Room(a) - skew) \div 4
  BY DEF ToPage, Room
<1>3. CASE skew = 0
  BY <1>1, <1>2, <1>3
<1>4. CASE skew \in 1 .. 3
  <2>1. (4 * Room(a) - skew) \div 4 = Room(a) - 1
    BY <1>1, <1>4
  <2>2. QED BY <1>1, <1>2, <1>4, <2>1
<1>5. QED BY <1>3, <1>4

(* Auto-increment is increment, short of the end of the page. *)
LEMMA AdvanceInPage ==
  ASSUME NEW a \in Nat, NEW k \in Nat, k + 1 < Room(a)
  PROVE  Advance(a + k) = a + k + 1
<1>1. PageWords \in Nat \ {0} /\ a % PageWords \in Nat /\ (a % PageWords) + (k + 1) < PageWords
  BY AhbAssumption DEF AhbAssumption, Room
<1>2. (a + (k + 1)) % PageWords = (a % PageWords) + (k + 1)
  BY <1>1, InPage
<1>3. (a + k) + 1 = a + (k + 1) /\ (a % PageWords) + (k + 1) # 0
  BY <1>1
<1>4. QED BY <1>2, <1>3 DEF Advance

LEMMA LeastOfThree ==
  ASSUME NEW a \in Int, NEW b \in Int, NEW c \in Int
  PROVE  /\ Least({a, b, c}) \in {a, b, c}
         /\ Least({a, b, c}) <= a /\ Least({a, b, c}) <= b /\ Least({a, b, c}) <= c
<1>1. \E x \in {a, b, c} : \A y \in {a, b, c} : x <= y
  <2>1. CASE a <= b /\ a <= c
    BY <2>1
  <2>2. CASE b <= a /\ b <= c
    BY <2>2
  <2>3. CASE c <= a /\ c <= b
    BY <2>3
  <2>4. QED BY <2>1, <2>2, <2>3
<1>2. QED BY <1>1 DEF Least

(* A chunk is not more than is left, or than fits, and ends in its page; only
   off a word boundary can it be empty.                                     *)
LEMMA ChunkFacts ==
  ASSUME addr \in Nat, count \in Nat, count > 0, skew \in 0 .. 3
  PROVE  /\ Chunk \in 0 .. count /\ Chunk <= Room(addr) /\ Chunk <= MaxDataWords
         /\ skew = 0 => 0 < Chunk
<1>1. /\ ToPage(addr) \in Nat /\ ToPage(addr) <= Room(addr) /\ Room(addr) \in Int
      /\ MaxDataWords \in Nat \ {0}
      /\ skew = 0 => 0 < ToPage(addr)
  BY AhbAssumption, PageFacts DEF AhbAssumption, MaxDataWords, Room
<1>2. ToPage(addr) \in Int /\ count \in Int /\ MaxDataWords \in Int
  BY <1>1
<1>3. /\ Chunk \in {ToPage(addr), count, MaxDataWords}
      /\ Chunk <= ToPage(addr) /\ Chunk <= count /\ Chunk <= MaxDataWords
  BY <1>2, LeastOfThree DEF Chunk
<1>4. QED BY <1>1, <1>3

LEMMA FieldFacts ==
  ASSUME NEW P \in Nat \ {0}, NEW n \in 0 .. P
  PROVE  (n - 1) % P = IF n = 0 THEN P - 1 ELSE n - 1
<1>1. ASSUME NEW x \in Int, NEW y \in 0 .. P - 1 PROVE (P * x + y) % P = y
  OBVIOUS
<1>2. CASE n # 0
  <2>1. n - 1 \in 0 .. P - 1 /\ P * 0 + (n - 1) = n - 1
    BY <1>2
  <2>2. QED BY <1>1, <1>2, <2>1
<1>3. CASE n = 0
  <2>1. P - 1 \in 0 .. P - 1 /\ P * (-1) + (P - 1) = n - 1
    BY <1>3
  <2>2. QED BY <1>1, <1>3, <2>1
<1>4. QED BY <1>2, <1>3

(* The count of a block's CMD_SWD_READ is what it should be, and has room,
   unless there is no word to read.                                         *)
LEMMA ReadCountFacts ==
  ASSUME xfer \in Nat, xfer <= MaxDataWords
  PROVE  /\ 0 < xfer => ReadCount = xfer - 1 /\ HasRoom
         /\ xfer = 0 => ReadCount = ArgMod - 1 /\ ~HasRoom /\ ArgMod > 1
<1>1. /\ MaxWords \in Nat /\ MaxWords > 0 /\ MaxWords < ArgMod /\ ArgMod \in Nat \ {0}
      /\ MaxDataWords <= MaxWords /\ MaxDataWords \in Nat
  BY AhbAssumption DEF AhbAssumption, MaxDataWords, ArgMod
<1>2. CASE 0 < xfer
  <2>1. ReadCount = xfer - 1
    BY <1>1, <1>2, FieldFacts DEF ReadCount
  <2>2. QED BY <1>1, <1>2, <2>1 DEF HasRoom
<1>3. CASE xfer = 0
  <2>1. ReadCount = ArgMod - 1
    BY <1>1, <1>3, FieldFacts DEF ReadCount
  <2>2. QED BY <1>1, <1>3, <2>1 DEF HasRoom
<1>4. QED BY <1>2, <1>3

(* The lists of single accesses: accesses, no two in a row to one address. *)
NoRepeat(list) == \A i \in DOMAIN list : i > 1 => list[i].addr # list[i - 1].addr

LEMMA AccessType == \A a \in Nat : R(a) \in Access /\ W(a) \in Access
BY DEF R, W, Access

LEMMA RunFacts ==
  ASSUME NEW rw \in {"r", "w"}, NEW a \in Nat, NEW n \in Nat
  PROVE  /\ Run(rw, a, n) \in Seq(Access) /\ Len(Run(rw, a, n)) = n
         /\ \A i \in 1 .. n : Run(rw, a, n)[i] = [rw |-> rw, addr |-> a + i - 1]
<1>1. \A i \in 1 .. n : [rw |-> rw, addr |-> a + i - 1] \in Access
  BY DEF Access
<1>2. QED BY <1>1 DEF Run

LEMMA BatchFacts ==
  ASSUME NEW o \in DOMAIN Batch
  PROVE  Batch[o] \in Seq(Access) /\ NoRepeat(Batch[o]) /\ Len(Batch[o]) > 0
<1>1. /\ Core \in Nat /\ Dwt \in Nat /\ Core # Dwt
      /\ CoreRegs \in Nat /\ CoreRegs > 0
  BY AhbAssumption DEF AhbAssumption
<1>2. CASE o = "core_write"
  BY <1>1, <1>2 DEF Batch, NoRepeat, R, W, Access
<1>3. CASE o = "core_read"
  BY <1>1, <1>3 DEF Batch, NoRepeat, R, W, Access
<1>4. CASE o = "core_read_all"
  <2> DEFINE f == [i \in 1 .. 2 * CoreRegs |-> IF i % 2 = 1 THEN W(Core) ELSE R(Core + 1)]
  <2>1. Batch[o] = f
    BY <1>4 DEF Batch
  <2>2. f \in Seq(Access) /\ Len(f) = 2 * CoreRegs
    BY <1>1, AccessType
  <2>3. ASSUME NEW i \in 1 .. 2 * CoreRegs, i > 1
        PROVE  f[i].addr # f[i - 1].addr
    <3>1. (i % 2 = 1) # ((i - 1) % 2 = 1)
      BY <1>1, <2>3
    <3>2. i - 1 \in 1 .. 2 * CoreRegs
      BY <1>1, <2>3
    <3>3. W(Core).addr # R(Core + 1).addr
      BY <1>1 DEF W, R
    <3>4. QED BY <3>1, <3>2, <3>3
  <2>4. DOMAIN f = 1 .. 2 * CoreRegs
    OBVIOUS
  <2>5. NoRepeat(f)
    BY <2>3, <2>4 DEF NoRepeat
  <2> HIDE DEF f
  <2>6. QED BY <1>1, <2>1, <2>2, <2>5
<1>5. CASE o = "watchpoint"
  BY <1>1, <1>5 DEF Batch, NoRepeat, R, W, Access
<1>6. CASE o = "watch_off"
  BY <1>1, <1>6 DEF Batch, NoRepeat, R, W, Access
<1>7. QED BY <1>2, <1>3, <1>4, <1>5, <1>6 DEF Batch

-----------------------------------------------------------------------------
(* Where a call stands. *)

(* A block asks for the words up to addr + count; a list never asks for the
   same word twice in a row, so its cached TAR is never relied upon, and what
   a failed block left in CSW does no harm.                                 *)
AskedShape ==
  /\ Block => /\ count <= Len(asked) /\ Len(asked) <= addr + count
              /\ \A i \in DOMAIN asked :
                   asked[i] = [rw |-> IF op = "read32" THEN "r" ELSE "w",
                               addr |-> addr + count - Len(asked) + i - 1]
  /\ ~Block => NoRepeat(asked) /\ (pc # "idle" => Len(asked) > 0)

(* Every chunk fits, and off a word boundary only can it be empty; only an
   empty one makes the probe run away.                                      *)
ChunkPlace ==
  /\ Block => xfer <= MaxDataWords
  /\ Block /\ pc \notin {"idle", "ready"} /\ skew = 0 => 0 < xfer
  /\ pc \in {"runaway", "gone"} => Block /\ skew # 0

BlockPlace ==
  Block /\ pc \notin {"idle", "runaway", "gone"} /\ ~failed =>
    /\ Len(bus) = Len(asked) - count - left
    /\ pc \in {"ready", "buffer", "restore", "reply"} => left = 0
    /\ pc \in {"select", "csw", "tar", "write", "discard", "read"} =>
         left <= xfer /\ xfer <= addr /\ xfer <= Room(addr - xfer)
    /\ pc \in {"select", "csw", "tar", "discard"} => left = xfer /\ (left = 0 => 0 < count)
    /\ pc \in {"write", "read"} => 0 < left
    /\ pc \in {"tar", "write", "discard", "read"} => inc
    /\ pc \in {"write", "discard", "read"} => tar = addr - left
    /\ pc = "write" => op = "write32"
    /\ pc \in {"discard", "read"} => op = "read32"

ListPlace ==
  ~Block /\ pc # "idle" /\ ~failed =>
    /\ pc \notin {"csw", "read", "restore"}
    /\ pc \in {"ready", "select", "tar", "write", "discard"} =>
         item = Len(bus) + 1 /\ item <= Len(asked)
    /\ pc = "buffer" => item = Len(bus) /\ item <= Len(asked) /\ 0 < item
    /\ pc = "reply" => Len(bus) = Len(asked)
    /\ pc \in {"write", "discard"} => tar = asked[item].addr
    /\ pc = "write" => asked[item].rw = "w"
    /\ pc = "discard" => asked[item].rw = "r"

FailedEnds == /\ failed => pc \in {"reply", "idle"}
              /\ result = "ok" => pc = "idle"

AllMade == result = "ok" => Len(bus) = Len(asked)

(* What the bus saw is what was asked for, but for what a probe that has run
   away reads.                                                              *)
Matches ==
  /\ Len(bus) <= Len(asked)
  /\ \A i \in DOMAIN bus : bus[i].rw = asked[i].rw /\ bus[i].addr = asked[i].addr
BusInv == (Block /\ skew # 0 => pc \notin {"idle", "gone"}) => Matches

AhbInv == AskedShape /\ ChunkPlace /\ BlockPlace /\ ListPlace /\ FailedEnds /\ AllMade /\ BusInv

Good == CallOK /\ DataOK /\ AhbInv

LEMMA FlagStep == FlagsOK /\ [Next]_vars => FlagsOK'
<1> USE DEF FlagsOK, hostVars, targetVars
<1>1. ASSUME FlagsOK, UNCHANGED vars PROVE FlagsOK'
  BY <1>1 DEF vars
<1>2. ASSUME FlagsOK, Host PROVE FlagsOK'
  BY <1>2 DEF Host, CallBlock, CallSingle, CallDumpBytes, Begin, Send, ReturnOk,
     LinkFails, TimesOut,
     Reply, Return, ClearError, Reset, Settled
<1>3. ASSUME FlagsOK, Probe PROVE FlagsOK'
  BY <1>3 DEF Probe, Select, SetInc, SetTar, WriteWord, FirstRead, NextRead, ReadBuffer,
     Restore, Refused, Overrun, Accepted, OnBus
<1>4. QED BY <1>1, <1>2, <1>3 DEF Next

LEMMA InitGood == Init => FlagsOK /\ Good
<1>1. Init => FlagsOK
  BY DEF Init, FlagsOK
<1>2. Init => CallOK
  BY DEF Init, CallOK, Calls
<1>3. Init => DataOK
  BY DEF Init, DataOK, Junk
<1>4. Init => AhbInv
  BY DEF Init, AhbInv, AskedShape, ChunkPlace, MaxDataWords, BlockPlace, Room,
     ListPlace, FailedEnds, AllMade, BusInv, Matches,
         Block, NoRepeat
<1>5. QED BY <1>1, <1>2, <1>3, <1>4 DEF Good

-----------------------------------------------------------------------------
(* The host's steps *)

LEMMA BeginGood ==
  ASSUME Good, NEW o \in Calls, NEW list \in Seq(Access), Begin(o, list),
         addr' \in Nat, count' \in Nat, skew' \in 0 .. 3,
         o \in {"read32", "write32"} =>
           /\ count' = Len(list)
           /\ \A i \in DOMAIN list :
                list[i] = [rw |-> IF o = "read32" THEN "r" ELSE "w", addr |-> addr' + i - 1],
         o \notin {"read32", "write32"} => NoRepeat(list) /\ Len(list) > 0
  PROVE  Good'
<1> USE DEF Begin
<1>1. CallOK'
  BY DEF Good, CallOK
<1>2. DataOK'
  BY DEF Good, DataOK
<1>3. AskedShape'
  BY DEF AskedShape, Block
<1>4. Len(bus') = 0 /\ Len(asked') \in Nat
  OBVIOUS
<1>5. BlockPlace'
  BY <1>4 DEF BlockPlace, Block, Room
<1>6. ListPlace'
  BY <1>4 DEF ListPlace, Block
<1>7. FailedEnds' /\ AllMade' /\ ChunkPlace' /\ BusInv'
  BY <1>4, AhbAssumption DEF FailedEnds, AllMade, ChunkPlace, MaxDataWords, BusInv, Matches,
     AhbAssumption
<1>8. QED BY <1>1, <1>2, <1>3, <1>5, <1>6, <1>7 DEF Good, AhbInv

LEMMA CallGood ==
  ASSUME Good, CallBlock \/ CallSingle \/ CallDumpBytes
  PROVE  Good'
<1>1. CASE CallBlock
  <2>1. PICK o \in {"read32", "write32"}, a \in Starts, n \in Counts :
          /\ Begin(o, Run(IF o = "read32" THEN "r" ELSE "w", a, n))
          /\ addr' = a /\ count' = n /\ skew' \in Skews
    BY <1>1 DEF CallBlock
  <2>2. a \in Nat /\ n \in Nat /\ o \in Calls
    BY AhbAssumption DEF AhbAssumption, Calls
  <2> DEFINE list == Run(IF o = "read32" THEN "r" ELSE "w", a, n)
  <2>3. /\ list \in Seq(Access) /\ Len(list) = n
        /\ \A i \in DOMAIN list :
             list[i] = [rw |-> IF o = "read32" THEN "r" ELSE "w", addr |-> a + i - 1]
    <3> DEFINE rw == IF o = "read32" THEN "r" ELSE "w"
    <3>1. rw \in {"r", "w"} /\ list = Run(rw, a, n)
      OBVIOUS
    <3> HIDE DEF rw, list
    <3>2. /\ list \in Seq(Access) /\ Len(list) = n
          /\ \A i \in 1 .. n : list[i] = [rw |-> rw, addr |-> a + i - 1]
      <4>1. /\ Run(rw, a, n) \in Seq(Access) /\ Len(Run(rw, a, n)) = n
            /\ \A i \in 1 .. n : Run(rw, a, n)[i] = [rw |-> rw, addr |-> a + i - 1]
        BY <2>2, <3>1, RunFacts
      <4>2. QED BY <3>1, <4>1
    <3>3. DOMAIN list = 1 .. n
      BY <2>2, <3>2
    <3>4. QED BY <3>2, <3>3 DEF rw
  <2> HIDE DEF list
  <2>4. Begin(o, list)
    BY <2>1 DEF list
  <2>5. skew' \in 0 .. 3
    BY <2>1, AhbAssumption DEF AhbAssumption
  <2>6. /\ addr' \in Nat /\ count' \in Nat /\ count' = Len(list)
        /\ \A i \in DOMAIN list :
             list[i] = [rw |-> IF o = "read32" THEN "r" ELSE "w", addr |-> addr' + i - 1]
    BY <2>1, <2>2, <2>3
  <2>7. QED BY <2>2, <2>3, <2>4, <2>5, <2>6, BeginGood
<1>2. CASE CallSingle \/ CallDumpBytes
  <2>1. ASSUME NEW a \in Nat, NEW o \in {"ahb_read", "ahb_write", "db_csw"},
               NEW x \in {R(a), W(a)}, Begin(o, <<x>>)
        PROVE  Good'
    <3>1. <<x>> \in Seq(Access) /\ NoRepeat(<<x>>) /\ Len(<<x>>) > 0
      BY AccessType DEF NoRepeat
    <3>2. addr' = 0 /\ count' = 0 /\ skew' \in 0 .. 3 /\ o \in Calls
      BY <1>2 DEF CallSingle, CallDumpBytes, Calls
    <3>3. QED BY <2>1, <3>1, <3>2, BeginGood
  <2>2. ASSUME NEW o \in DOMAIN Batch, Begin(o, Batch[o])
        PROVE  Good'
    <3>1. o \in Calls /\ o \notin {"read32", "write32"}
      BY DEF Calls, Batch
    <3>2. addr' = 0 /\ count' = 0 /\ skew' \in 0 .. 3
      BY <1>2 DEF CallSingle, CallDumpBytes
    <3>3. QED BY <2>2, <3>1, <3>2, BatchFacts, BeginGood
  <2>3. Starts \subseteq Nat
    BY AhbAssumption DEF AhbAssumption
  <2>4. QED BY <1>2, <2>1, <2>2, <2>3 DEF CallSingle, CallDumpBytes
<1>3. QED BY <1>1, <1>2

LEMMA SendGood ==
  ASSUME Good, Send
  PROVE  Good'
<1> USE DEF Good, AhbInv
<1>1. CASE Block
  <2>1. /\ Chunk \in 0 .. count /\ Chunk <= Room(addr) /\ Chunk <= MaxDataWords
        /\ skew = 0 => 0 < Chunk
        /\ addr \in Nat /\ count \in Nat /\ 0 < count /\ pc = "ready"
        /\ xfer' = Chunk /\ left' = Chunk /\ addr' = addr + Chunk /\ count' = count - Chunk
        /\ pc' = "select" /\ got' = <<>> /\ failed' = FALSE
        /\ UNCHANGED <<op, skew, asked, item, out, result, swdError, targetVars>>
    BY <1>1, ChunkFacts DEF Send, CallOK
  <2>2. CallOK' /\ DataOK'
    BY <2>1 DEF CallOK, DataOK, Accesses, targetVars
  <2>3. addr' + count' = addr + count /\ addr' - xfer' = addr
    BY <2>1
  <2>4. AskedShape'
    BY <1>1, <2>1, <2>3, SMTT(30) DEF AskedShape, Block, CallOK
  <2>5. ~failed
    BY <2>1 DEF FailedEnds
  <2>6. Len(bus') = Len(asked') - count' - left'
    BY <1>1, <2>1, <2>5 DEF BlockPlace, CallOK, targetVars
  <2>7. BlockPlace'
    BY <1>1, <2>1, <2>3, <2>6 DEF BlockPlace, Block, Room
  <2>8. ListPlace' /\ FailedEnds' /\ AllMade' /\ ChunkPlace' /\ BusInv'
    BY <1>1, <2>1 DEF ListPlace, FailedEnds, AllMade, ChunkPlace, MaxDataWords, BusInv,
       Matches, Block, targetVars
  <2>9. QED BY <2>2, <2>4, <2>7, <2>8
<1>2. CASE ~Block
  BY <1>2 DEF Send, CallOK, DataOK, Accesses, AskedShape, BlockPlace, Room, ListPlace,
     FailedEnds,
     AllMade, ChunkPlace, MaxDataWords, BusInv, Matches, Block, targetVars
<1>3. QED BY <1>1, <1>2

LEMMA ReturnGood ==
  ASSUME Good, ReturnOk \/ LinkFails \/ TimesOut \/ Reply \/ ClearError \/ Reset
  PROVE  Good'
<1> USE DEF Good, AhbInv, targetVars
<1>1. CASE ReturnOk
  BY <1>1 DEF ReturnOk, Finished, Return, CallOK, DataOK, AskedShape, BlockPlace, Room,
     ListPlace,
     FailedEnds, AllMade, ChunkPlace, MaxDataWords, BusInv, Matches, Block
<1>2. CASE LinkFails
  BY <1>2 DEF LinkFails, Return, CallOK, DataOK, AskedShape, BlockPlace, Room, ListPlace,
     FailedEnds, AllMade, ChunkPlace, MaxDataWords, BusInv, Matches, Block
<1>3. CASE Reply
  <2>1. out \o got \in Seq(Int)
    BY DEF DataOK
  <2>2. CASE failed
    BY <1>3, <2>1, <2>2 DEF Reply, Return, CallOK, DataOK, AskedShape, BlockPlace,
       Room, ListPlace,
       FailedEnds, AllMade, ChunkPlace, MaxDataWords, BusInv, Matches, Block
  <2>3. CASE ~failed /\ Block
    <3>1. /\ pc = "reply" /\ pc' = "ready" /\ out' = out \o got
          /\ UNCHANGED <<op, skew, asked, addr, count, xfer, left, item, failed, got,
                         result, swdError, targetVars>>
      BY <1>3, <2>3 DEF Reply
    <3>2. CallOK' /\ DataOK'
      BY <2>1, <3>1 DEF CallOK, DataOK
    <3>3. BlockPlace' /\ ListPlace'
      BY <2>3, <3>1 DEF BlockPlace, ListPlace, Block
    <3>4. AskedShape' /\ FailedEnds' /\ AllMade' /\ ChunkPlace' /\ BusInv'
      BY <2>3, <3>1 DEF AskedShape, FailedEnds, AllMade, ChunkPlace, MaxDataWords,
         BusInv, Matches, Block
    <3>5. QED BY <3>2, <3>3, <3>4
  <2>4. CASE ~failed /\ ~Block
    BY <1>3, <2>1, <2>4 DEF Reply, Return, CallOK, DataOK, AskedShape, BlockPlace,
       Room, ListPlace,
       FailedEnds, AllMade, ChunkPlace, MaxDataWords, BusInv, Matches, Block
  <2>5. QED BY <2>2, <2>3, <2>4
<1>4. CASE ClearError \/ Reset
  <2>1. /\ pc = "idle" /\ result' = "none" /\ bus' = <<>> /\ out' = <<>>
        /\ UNCHANGED <<op, skew, asked, addr, count, xfer, pc, left, item, failed, got, tar, posted>>
    BY <1>4 DEF ClearError, Reset, Settled
  <2>2. CallOK' /\ DataOK'
    BY <2>1 DEF CallOK, DataOK
  <2>3. Len(bus') = 0 /\ Len(asked') \in Nat
    BY <2>1 DEF CallOK
  <2>4. AskedShape'
    BY <2>1 DEF AskedShape, Block
  <2>5. BlockPlace' /\ ListPlace' /\ FailedEnds' /\ AllMade'
    BY <2>1, <2>3 DEF BlockPlace, ListPlace, FailedEnds, AllMade
  <2>6. ChunkPlace' /\ BusInv'
    BY <2>1, <2>3 DEF ChunkPlace, MaxDataWords, BusInv, Matches, Block
  <2>7. QED BY <2>2, <2>4, <2>5, <2>6
<1>5. CASE TimesOut
  BY <1>5 DEF TimesOut, Accesses, CallOK, DataOK, AskedShape, ChunkPlace, MaxDataWords,
     BlockPlace, Room, ListPlace,
     FailedEnds, AllMade, BusInv, Matches, Block
<1>6. QED BY <1>1, <1>2, <1>3, <1>4, <1>5

-----------------------------------------------------------------------------
(* The probe's steps *)

LEMMA AdvanceNat ==
  ASSUME NEW a \in Nat
  PROVE  Advance(a) \in Nat
<1>1. PageWords \in Nat \ {0} /\ a + 1 \in Nat
  BY AhbAssumption DEF AhbAssumption
<1>2. ASSUME (a + 1) % PageWords = 0 PROVE a + 1 >= PageWords
  <2>1. ASSUME NEW P \in Nat \ {0}, NEW y \in 0 .. P - 1 PROVE (P * 0 + y) % P = y
    OBVIOUS
  <2>2. ASSUME NEW P \in Nat \ {0}, NEW y \in 0 .. P - 1 PROVE y % P = y
    BY <2>1
  <2>3. ASSUME a + 1 < PageWords PROVE (a + 1) % PageWords = a + 1
    BY <1>1, <2>2, <2>3
  <2>4. QED BY <1>1, <1>2, <2>3
<1>3. QED BY <1>1, <1>2 DEF Advance

(* One access to DRW adds one access, at TAR, to the bus. *)
LEMMA BusFacts ==
  ASSUME DataOK, NEW rw \in {"r", "w"}, OnBus(rw)
  PROVE  /\ bus' \in Seq(Made) /\ tar' \in Nat /\ posted' \in Int
         /\ tar' = IF inc THEN Advance(tar) ELSE tar
         /\ Len(bus) \in Nat /\ Len(bus') = Len(bus) + 1
         /\ DOMAIN bus' = 1 .. Len(bus) + 1
         /\ bus'[Len(bus) + 1].rw = rw /\ bus'[Len(bus) + 1].addr = tar
         /\ \A i \in 1 .. Len(bus) : bus'[i] = bus[i]
<1>1. PICK good \in BOOLEAN :
        /\ bus' = Append(bus, [rw |-> rw, addr |-> tar, good |-> good])
        /\ tar' = IF inc THEN Advance(tar) ELSE tar
        /\ posted' = IF rw = "w" THEN posted ELSE IF good THEN tar ELSE Junk
  BY DEF OnBus
<1>2. tar \in Nat /\ Advance(tar) \in Nat /\ bus \in Seq(Made) /\ posted \in Int /\ Junk \in Int
  <2>1. tar \in Nat /\ bus \in Seq(Made) /\ posted \in Int
    BY DEF DataOK
  <2>2. Advance(tar) \in Nat
    BY <2>1, AdvanceNat
  <2>3. Junk \in Int
    BY DEF Junk
  <2>4. QED BY <2>1, <2>2, <2>3
<1> DEFINE x == [rw |-> rw, addr |-> tar, good |-> good]
<1>3. x \in Made /\ x.rw = rw /\ x.addr = tar
  BY <1>2 DEF Made
<1> HIDE DEF x
<1>4. bus' = Append(bus, x)
  BY <1>1 DEF x
<1>5. /\ bus' \in Seq(Made) /\ Len(bus) \in Nat /\ Len(bus') = Len(bus) + 1
      /\ bus'[Len(bus) + 1] = x
      /\ \A i \in 1 .. Len(bus) : bus'[i] = bus[i]
  BY <1>2, <1>3, <1>4
<1>6. DOMAIN bus' = 1 .. Len(bus) + 1
  BY <1>5
<1>7. tar' \in Nat /\ posted' \in Int
  BY <1>1, <1>2
<1>8. QED BY <1>1, <1>3, <1>5, <1>6, <1>7

(* The steps that do not touch the bus. *)
LEMMA SetupGood ==
  ASSUME Good, Select \/ SetInc \/ Restore \/ Refused
  PROVE  Good'
<1> USE DEF Good, AhbInv, hostVars, targetVars
<1>1. CASE Select
  BY <1>1 DEF Select, Accepted, CallOK, DataOK, Accesses, AskedShape, BlockPlace, Room,
     ListPlace,
     FailedEnds, AllMade, ChunkPlace, MaxDataWords, BusInv, Matches, Block
<1>2. CASE SetInc
  BY <1>2 DEF SetInc, Accepted, CallOK, DataOK, Accesses, AskedShape, BlockPlace, Room,
     ListPlace,
     FailedEnds, AllMade, ChunkPlace, MaxDataWords, BusInv, Matches, Block
<1>3. CASE Restore
  BY <1>3 DEF Restore, Accepted, CallOK, DataOK, Accesses, AskedShape, BlockPlace,
     Room, ListPlace,
     FailedEnds, AllMade, ChunkPlace, MaxDataWords, BusInv, Matches, Block
<1>4. CASE Refused
  <2> DEFINE n == CASE pc = "read" -> left [] pc = "buffer" -> 1 [] OTHER -> 0
             fill == [i \in 1 .. n |-> Junk]
  <2>1. n \in Nat
    BY DEF CallOK
  <2> HIDE DEF n
  <2>2. fill \in Seq(Int)
    BY <2>1 DEF Junk
  <2> HIDE DEF fill
  <2>3. got' = got \o fill
    BY <1>4 DEF Refused, fill, n
  <2>4. got' \in Seq(Int)
    BY <2>2, <2>3 DEF DataOK
  <2>5. QED
    BY <1>4, <2>4 DEF Refused, CallOK, DataOK, Accesses, AskedShape, BlockPlace, Room,
       ListPlace,
       FailedEnds, AllMade, ChunkPlace, MaxDataWords, BusInv, Matches, Block
<1>5. QED BY <1>1, <1>2, <1>3, <1>4

LEMMA SetTarGood ==
  ASSUME Good, SetTar
  PROVE  Good'
<1> USE DEF Good, AhbInv, SetTar, Accepted, hostVars
<1>1. ~failed /\ pc = "tar" /\ UNCHANGED <<op, skew, asked, addr, count, xfer, item, out, result,
                                           left, got, inc, posted, sticky, bus, failed>>
  BY DEF FailedEnds
<1>2. CASE Block
  <2>1. /\ xfer <= addr /\ left = xfer /\ (left = 0 => 0 < count)
        /\ addr \in Nat /\ xfer \in Nat /\ tar' = addr - xfer
    BY <1>1, <1>2 DEF BlockPlace, CallOK
  <2>2. \/ op = "read32" /\ pc' = "discard"
        \/ op = "write32" /\ pc' = "write" /\ 0 < left
        \/ op = "write32" /\ pc' = "reply" /\ left = 0
    BY <1>2, <2>1 DEF Block, AfterBlock
  <2>3. CallOK' /\ DataOK'
    BY <1>1, <2>1, <2>2 DEF CallOK, DataOK, Accesses
  <2>4. BlockPlace'
    BY <1>1, <1>2, <2>1, <2>2 DEF BlockPlace, Block, Room
  <2>5. AskedShape' /\ ListPlace' /\ FailedEnds' /\ AllMade' /\ ChunkPlace' /\ BusInv'
    BY <1>1, <1>2, <2>2 DEF AskedShape, ListPlace, FailedEnds, AllMade, ChunkPlace,
       MaxDataWords, BusInv, Matches, Block
  <2>6. QED BY <2>3, <2>4, <2>5
<1>3. CASE ~Block
  <2>1. item = Len(bus) + 1 /\ item <= Len(asked)
    BY <1>1, <1>3 DEF ListPlace
  <2>2. Len(bus) \in Nat
    BY DEF DataOK
  <2>3. item \in DOMAIN asked /\ asked \in Seq(Access)
    BY <2>1, <2>2 DEF CallOK
  <2>4. asked[item].addr \in Nat /\ asked[item].rw \in {"r", "w"}
    <3>1. asked[item] \in Access
      BY <2>3
    <3>2. QED BY <3>1 DEF Access
  <2>5. pc' = Drw(item) /\ tar' = asked[item].addr
    BY <1>3 DEF Block
  <2>6. \/ asked[item].rw = "w" /\ pc' = "write"
        \/ asked[item].rw = "r" /\ pc' = "discard"
    BY <2>4, <2>5 DEF Drw
  <2>7. CallOK' /\ DataOK'
    BY <1>1, <2>4, <2>5, <2>6 DEF CallOK, DataOK, Accesses
  <2>8. ListPlace'
    BY <1>1, <1>3, <2>1, <2>5, <2>6 DEF ListPlace, Block
  <2>9. AskedShape' /\ BlockPlace' /\ FailedEnds' /\ AllMade' /\ ChunkPlace' /\ BusInv'
    BY <1>1, <1>3, <2>6 DEF AskedShape, BlockPlace, FailedEnds, AllMade, ChunkPlace,
       MaxDataWords, BusInv, Matches, Block
  <2>10. QED BY <2>7, <2>8, <2>9
<1>4. QED BY <1>2, <1>3

(* After an access of a list comes the next, which needs its own address. *)
LEMMA NextItem ==
  ASSUME asked \in Seq(Access), NoRepeat(asked), NEW i \in Nat, 1 < i
  PROVE  AfterItem(i) = IF i > Len(asked) THEN "reply" ELSE "tar"
<1>1. CASE i > Len(asked)
  BY <1>1 DEF AfterItem
<1>2. CASE i <= Len(asked)
  <2>1. i \in DOMAIN asked
    BY <1>2
  <2>2. asked[i].addr # asked[i - 1].addr
    BY <2>1 DEF NoRepeat
  <2>3. QED BY <1>2, <2>2 DEF AfterItem
<1>3. QED BY <1>1, <1>2

(* An access of a block to the word it is at. *)
LEMMA BlockAccess ==
  ASSUME Good, Block, ~failed, pc \in {"write", "discard", "read"}, 0 < left \/ 0 < count,
         NEW rw \in {"r", "w"}, OnBus(rw), rw = IF op = "read32" THEN "r" ELSE "w",
         UNCHANGED <<asked, inc, op, skew>>
  PROVE  /\ bus' \in Seq(Made) /\ tar' \in Nat /\ posted' \in Int /\ Matches'
         /\ Len(bus') = Len(asked) - count - (left - 1)
         /\ left > 1 => tar' = addr - (left - 1)
<1> USE DEF Good, AhbInv
<1>1. /\ Len(bus) = Len(asked) - count - left
      /\ left <= xfer /\ xfer <= addr /\ xfer <= Room(addr - xfer)
      /\ inc /\ tar = addr - left /\ Matches /\ skew \in 0 .. 3
  BY DEF BlockPlace, BusInv, CallOK
<1>2. /\ addr \in Nat /\ count \in Nat /\ left \in Nat /\ xfer \in Nat /\ Len(asked) \in Nat
      /\ asked \in Seq(Access)
  BY DEF CallOK
<1>3. /\ bus' \in Seq(Made) /\ tar' \in Nat /\ posted' \in Int /\ tar' = Advance(tar)
      /\ Len(bus) \in Nat /\ Len(bus') = Len(bus) + 1 /\ DOMAIN bus' = 1 .. Len(bus) + 1
      /\ bus'[Len(bus) + 1].rw = rw /\ bus'[Len(bus) + 1].addr = tar
      /\ \A i \in 1 .. Len(bus) : bus'[i] = bus[i]
  BY <1>1, BusFacts
<1>4. Len(bus') = Len(asked) - count - (left - 1)
  BY <1>1, <1>2, <1>3
<1>5. left > 1 => tar' = addr - (left - 1)
  <2>1. HAVE left > 1
  <2> DEFINE a == addr - xfer
             k == xfer - left
  <2>2. a \in Nat /\ k \in Nat /\ tar = a + k /\ k + 1 < xfer /\ xfer <= Room(a)
    BY <1>1, <1>2, <2>1
  <2>3. Room(a) \in Int
    BY <2>2, AhbAssumption DEF AhbAssumption, Room
  <2>4. k + 1 < Room(a)
    BY <1>2, <2>2, <2>3
  <2>5. a + k + 1 = addr - (left - 1)
    BY <1>2
  <2> HIDE DEF a, k
  <2>6. Advance(a + k) = a + k + 1
    BY <2>2, <2>4, AdvanceInPage
  <2>7. QED BY <1>3, <2>2, <2>5, <2>6
<1>6. Len(bus) + 1 <= Len(asked)
  BY <1>1, <1>2
<1>7. asked[Len(bus) + 1] = [rw |-> rw, addr |-> tar]
  <2>1. Len(bus) + 1 \in DOMAIN asked
    BY <1>2, <1>3, <1>6
  <2>2. asked[Len(bus) + 1] = [rw |-> IF op = "read32" THEN "r" ELSE "w",
                               addr |-> addr + count - Len(asked) + (Len(bus) + 1) - 1]
    BY <2>1 DEF AskedShape
  <2>3. addr + count - Len(asked) + (Len(bus) + 1) - 1 = tar
    BY <1>1, <1>2, <1>3
  <2>4. QED BY <2>2, <2>3
<1>8. Matches'
  <2>1. ASSUME NEW i \in 1 .. Len(bus) + 1
        PROVE  bus'[i].rw = asked[i].rw /\ bus'[i].addr = asked[i].addr
    <3>1. CASE i = Len(bus) + 1
      BY <1>3, <1>7, <3>1
    <3>2. CASE i # Len(bus) + 1
      <4>1. i \in 1 .. Len(bus) /\ i \in DOMAIN bus
        BY <1>3, <3>2 DEF DataOK
      <4>2. QED BY <1>1, <1>3, <4>1 DEF Matches
    <3>3. QED BY <3>1, <3>2
  <2>2. QED BY <1>3, <1>6, <2>1 DEF Matches
<1>9. QED BY <1>3, <1>4, <1>5, <1>8

(* An access of a list to the address TAR was set to. *)
LEMMA ListAccess ==
  ASSUME Good, ~Block, ~failed, pc \in {"write", "discard"},
         NEW rw \in {"r", "w"}, OnBus(rw), rw = asked[item].rw,
         UNCHANGED <<asked, op>>
  PROVE  /\ bus' \in Seq(Made) /\ tar' \in Nat /\ posted' \in Int /\ Matches'
         /\ Len(bus') = item /\ item <= Len(asked) /\ item \in Nat /\ 0 < item
<1> USE DEF Good, AhbInv
<1>1. item = Len(bus) + 1 /\ item <= Len(asked) /\ tar = asked[item].addr /\ Matches
  BY DEF ListPlace, BusInv
<1>2. /\ bus' \in Seq(Made) /\ tar' \in Nat /\ posted' \in Int
      /\ Len(bus) \in Nat /\ Len(bus') = Len(bus) + 1 /\ DOMAIN bus' = 1 .. Len(bus) + 1
      /\ bus'[Len(bus) + 1].rw = rw /\ bus'[Len(bus) + 1].addr = tar
      /\ \A i \in 1 .. Len(bus) : bus'[i] = bus[i]
  BY BusFacts
<1>3. ASSUME NEW i \in 1 .. Len(bus) + 1
      PROVE  bus'[i].rw = asked[i].rw /\ bus'[i].addr = asked[i].addr
  <2>1. CASE i = Len(bus) + 1
    BY <1>1, <1>2, <2>1
  <2>2. CASE i # Len(bus) + 1
    <3>1. i \in 1 .. Len(bus) /\ i \in DOMAIN bus
      BY <1>2, <2>2 DEF DataOK
    <3>2. QED BY <1>1, <1>2, <3>1 DEF Matches
  <2>3. QED BY <2>1, <2>2
<1>4. Matches'
  BY <1>1, <1>2, <1>3 DEF Matches
<1>5. QED BY <1>1, <1>2, <1>4
LEMMA WriteGood ==
  ASSUME Good, WriteWord
  PROVE  Good'
<1> USE DEF Good, AhbInv
<1>1. /\ pc = "write" /\ ~failed /\ OnBus("w")
      /\ UNCHANGED <<op, skew, asked, addr, count, xfer, out, result, swdError, got, inc, failed>>
  BY DEF WriteWord, Accepted, FailedEnds
<1>2. CASE Block
  <2>1. /\ left' = left - 1 /\ item' = item
        /\ pc' = IF left > 1 THEN "write" ELSE AfterBlock
    BY <1>2 DEF WriteWord, Accepted
  <2>2. op = "write32" /\ 0 < left /\ left <= xfer /\ left \in Nat /\ xfer \in Nat
    BY <1>1, <1>2 DEF BlockPlace, CallOK
  <2>3. /\ bus' \in Seq(Made) /\ tar' \in Nat /\ posted' \in Int /\ Matches'
        /\ Len(bus') = Len(asked) - count - (left - 1)
        /\ left > 1 => tar' = addr - (left - 1)
    BY <1>1, <1>2, <2>2, BlockAccess
  <2>4. /\ left > 1 => pc' = "write"
        /\ left <= 1 => pc' \in {"restore", "reply"}
    BY <2>1, <2>2 DEF AfterBlock
  <2>5. CallOK' /\ DataOK'
    BY <1>1, <2>1, <2>2, <2>3, <2>4 DEF CallOK, DataOK, Accesses
  <2>6. BlockPlace'
    BY <1>1, <1>2, <2>1, <2>2, <2>3, <2>4 DEF BlockPlace, Block, Room
  <2>7. AskedShape' /\ ChunkPlace' /\ ListPlace' /\ FailedEnds' /\ AllMade' /\ BusInv'
    BY <1>1, <1>2, <2>1, <2>2, <2>3, <2>4 DEF AskedShape, ChunkPlace, MaxDataWords,
       BusInv, ListPlace,
       FailedEnds, AllMade, Block
  <2>8. QED BY <2>3, <2>5, <2>6, <2>7
<1>3. CASE ~Block
  <2>1. left' = left /\ item' = item + 1 /\ pc' = AfterItem(item + 1)
    BY <1>3 DEF WriteWord, Accepted
  <2>2. asked[item].rw = "w" /\ NoRepeat(asked) /\ asked \in Seq(Access)
    BY <1>1, <1>3 DEF ListPlace, AskedShape, CallOK
  <2>3. /\ bus' \in Seq(Made) /\ tar' \in Nat /\ posted' \in Int /\ Matches'
        /\ Len(bus') = item /\ item <= Len(asked) /\ item \in Nat /\ 0 < item
    BY <1>1, <1>3, <2>2, ListAccess
  <2>4. pc' = IF item + 1 > Len(asked) THEN "reply" ELSE "tar"
    BY <2>1, <2>2, <2>3, NextItem
  <2>5. CallOK' /\ DataOK'
    BY <1>1, <2>1, <2>3, <2>4 DEF CallOK, DataOK, Accesses
  <2>6. ListPlace'
    BY <1>1, <1>3, <2>1, <2>2, <2>3, <2>4 DEF ListPlace, Block
  <2>7. AskedShape' /\ ChunkPlace' /\ BlockPlace' /\ FailedEnds' /\ AllMade' /\ BusInv'
    BY <1>1, <1>3, <2>3, <2>4 DEF AskedShape, ChunkPlace, MaxDataWords, BusInv, BlockPlace,
       FailedEnds, AllMade, Block
  <2>8. QED BY <2>3, <2>5, <2>6, <2>7
<1>4. QED BY <1>2, <1>3

LEMMA FirstReadGood ==
  ASSUME Good, FirstRead
  PROVE  Good'
<1> USE DEF Good, AhbInv
<1>1. /\ pc = "discard" /\ ~failed /\ OnBus("r")
      /\ UNCHANGED <<op, skew, asked, addr, count, xfer, item, out, result, swdError, got, inc, failed>>
  BY DEF FirstRead, Accepted, FailedEnds, hostVars
<1>2. CASE Block
  <2>1. /\ left' = ReadCount
        /\ pc' = IF ReadCount = 0 THEN "buffer" ELSE IF HasRoom THEN "read" ELSE "runaway"
    BY <1>2 DEF FirstRead, Accepted
  <2>2. /\ op = "read32" /\ left = xfer /\ left \in Nat /\ xfer \in Nat /\ xfer <= MaxDataWords
        /\ left = 0 => 0 < count /\ skew # 0
    BY <1>1, <1>2 DEF BlockPlace, ChunkPlace, MaxDataWords, CallOK
  <2>3. /\ 0 < left => ReadCount = left - 1 /\ HasRoom
        /\ left = 0 => ReadCount \in Nat \ {0} /\ ~HasRoom
    BY <2>2, ReadCountFacts DEF ArgMod
  <2>4. /\ bus' \in Seq(Made) /\ tar' \in Nat /\ posted' \in Int /\ Matches'
        /\ Len(bus') = Len(asked) - count - (left - 1)
        /\ left > 1 => tar' = addr - (left - 1)
    BY <1>1, <1>2, <2>2, BlockAccess
  <2>5. \/ pc' = "buffer" /\ left = 1 /\ left' = 0
        \/ pc' = "read" /\ left > 1 /\ left' = left - 1
        \/ pc' = "runaway" /\ left = 0 /\ left' \in Nat
    <3>1. CASE left = 0
      BY <2>1, <2>3, <3>1
    <3>2. CASE left = 1
      BY <2>1, <2>3, <3>2
    <3>3. CASE left > 1
      BY <2>1, <2>2, <2>3, <3>3
    <3>4. QED BY <2>2, <3>1, <3>2, <3>3
  <2>6. CallOK' /\ DataOK'
    BY <1>1, <2>2, <2>4, <2>5 DEF CallOK, DataOK, Accesses
  <2>7. BlockPlace'
    BY <1>1, <1>2, <2>2, <2>4, <2>5 DEF BlockPlace, Block, Room
  <2>8. AskedShape' /\ ChunkPlace' /\ ListPlace' /\ FailedEnds' /\ AllMade' /\ BusInv'
    BY <1>1, <1>2, <2>2, <2>4, <2>5 DEF AskedShape, ChunkPlace, MaxDataWords, BusInv,
       ListPlace,
       FailedEnds, AllMade, Block
  <2>9. QED BY <2>6, <2>7, <2>8
<1>3. CASE ~Block
  <2>1. left' = left /\ pc' = "buffer"
    BY <1>3 DEF FirstRead, Accepted
  <2>2. asked[item].rw = "r"
    BY <1>1, <1>3 DEF ListPlace
  <2>3. /\ bus' \in Seq(Made) /\ tar' \in Nat /\ posted' \in Int /\ Matches'
        /\ Len(bus') = item /\ item <= Len(asked) /\ item \in Nat /\ 0 < item
    BY <1>1, <1>3, <2>2, ListAccess
  <2>4. CallOK' /\ DataOK'
    BY <1>1, <2>1, <2>3 DEF CallOK, DataOK, Accesses
  <2>5. ListPlace'
    BY <1>1, <1>3, <2>1, <2>3 DEF ListPlace, Block
  <2>6. AskedShape' /\ ChunkPlace' /\ BlockPlace' /\ FailedEnds' /\ AllMade' /\ BusInv'
    BY <1>1, <1>3, <2>1, <2>3 DEF AskedShape, ChunkPlace, MaxDataWords, BusInv, BlockPlace,
       FailedEnds, AllMade, Block
  <2>7. QED BY <2>3, <2>4, <2>5, <2>6
<1>4. QED BY <1>2, <1>3

LEMMA NextReadGood ==
  ASSUME Good, NextRead
  PROVE  Good'
<1> USE DEF Good, AhbInv
<1>1. /\ pc = "read" /\ ~failed /\ OnBus("r") /\ left' = left - 1
      /\ pc' = IF left > 1 THEN "read" ELSE "buffer"
      /\ UNCHANGED <<op, skew, asked, addr, count, xfer, item, out, result, swdError, inc, failed>>
  BY DEF NextRead, Accepted, FailedEnds, hostVars
<1>2. Block
  BY <1>1 DEF ListPlace
<1>3. op = "read32" /\ 0 < left /\ left <= xfer /\ left \in Nat /\ xfer \in Nat
  BY <1>1, <1>2 DEF BlockPlace, CallOK
<1>4. /\ bus' \in Seq(Made) /\ tar' \in Nat /\ posted' \in Int /\ Matches'
      /\ Len(bus') = Len(asked) - count - (left - 1)
      /\ left > 1 => tar' = addr - (left - 1)
  BY <1>1, <1>2, <1>3, BlockAccess
<1>5. got' \in Seq(Int)
  BY DEF DataOK, NextRead
<1>6. CallOK' /\ DataOK'
  BY <1>1, <1>3, <1>4, <1>5 DEF CallOK, DataOK, Accesses
<1>7. BlockPlace'
  BY <1>1, <1>2, <1>3, <1>4 DEF BlockPlace, Block, Room
<1>8. AskedShape' /\ ChunkPlace' /\ ListPlace' /\ FailedEnds' /\ AllMade' /\ BusInv'
  BY <1>1, <1>2, <1>3, <1>4 DEF AskedShape, ChunkPlace, MaxDataWords, BusInv, ListPlace,
     FailedEnds, AllMade, Block
<1>9. QED BY <1>4, <1>6, <1>7, <1>8

(* A probe that runs away touches no more than the bus. *)
LEMMA OverrunGood ==
  ASSUME Good, Overrun
  PROVE  Good'
<1> USE DEF Good, AhbInv
<1>1. /\ pc = "runaway" /\ pc' = "gone" /\ ~failed
      /\ UNCHANGED <<op, skew, asked, addr, count, xfer, left, item, failed, got, out, result,
                     swdError, inc>>
  BY DEF Overrun, FailedEnds, hostVars
<1>2. bus' \in Seq(Made) /\ tar' \in Nat /\ posted' \in Int
  BY BusFacts DEF Overrun, DataOK
<1>3. Block /\ skew # 0 /\ result # "ok"
  BY <1>1 DEF ChunkPlace, MaxDataWords, FailedEnds
<1>4. CallOK' /\ DataOK'
  BY <1>1, <1>2 DEF CallOK, DataOK
<1>5. AskedShape' /\ ChunkPlace' /\ BlockPlace' /\ ListPlace' /\ FailedEnds' /\ AllMade' /\ BusInv'
  BY <1>1, <1>3 DEF AskedShape, ChunkPlace, MaxDataWords, BlockPlace, Room, ListPlace,
     FailedEnds, AllMade, BusInv,
     Block
<1>6. QED BY <1>4, <1>5

LEMMA ReadBufferGood ==
  ASSUME Good, ReadBuffer
  PROVE  Good'
<1> USE DEF Good, AhbInv
<1>1. /\ pc = "buffer" /\ ~failed
      /\ UNCHANGED <<op, skew, asked, addr, count, xfer, out, result, swdError, left, failed,
                     inc, tar, posted, sticky, bus>>
  BY DEF ReadBuffer, Accepted, FailedEnds, targetVars
<1>2. got' \in Seq(Int)
  BY DEF DataOK, ReadBuffer
<1>3. DataOK'
  BY <1>1, <1>2 DEF DataOK
<1>4. CASE Block
  <2>1. item' = item /\ pc' \in {"restore", "reply"} /\ left = 0
    BY <1>1, <1>4 DEF ReadBuffer, Accepted, AfterBlock, BlockPlace
  <2>2. CallOK'
    BY <1>1, <2>1 DEF CallOK, Accesses
  <2>3. BlockPlace'
    BY <1>1, <1>4, <2>1 DEF BlockPlace, Block, Room
  <2>4. AskedShape' /\ ListPlace' /\ FailedEnds' /\ AllMade' /\ ChunkPlace' /\ BusInv'
    BY <1>1, <1>4, <2>1 DEF AskedShape, ListPlace, FailedEnds, AllMade, ChunkPlace,
       MaxDataWords, BusInv, Matches, Block
  <2>5. QED BY <1>3, <2>2, <2>3, <2>4
<1>5. CASE ~Block
  <2>1. item' = item + 1 /\ pc' = AfterItem(item + 1)
    BY <1>5 DEF ReadBuffer, Accepted
  <2>2. item = Len(bus) /\ item <= Len(asked) /\ item \in Nat
    BY <1>1, <1>5 DEF ListPlace, CallOK
  <2>3. 0 < item
    BY <1>1, <1>5 DEF ListPlace
  <2>4. pc' = IF item + 1 > Len(asked) THEN "reply" ELSE "tar"
    BY <1>5, <2>1, <2>2, <2>3, NextItem DEF AskedShape, CallOK
  <2>5. CallOK'
    BY <1>1, <2>1, <2>2, <2>4 DEF CallOK, Accesses
  <2>6. ListPlace'
    BY <1>1, <1>5, <2>1, <2>2, <2>4 DEF ListPlace, Block, CallOK
  <2>7. AskedShape' /\ BlockPlace' /\ FailedEnds' /\ AllMade' /\ ChunkPlace' /\ BusInv'
    BY <1>1, <1>5, <2>4 DEF AskedShape, BlockPlace, FailedEnds, AllMade, ChunkPlace,
       MaxDataWords, BusInv, Matches, Block
  <2>8. QED BY <1>3, <2>5, <2>6, <2>7
<1>6. QED BY <1>4, <1>5

LEMMA GoodStep == Good /\ [Next]_vars => Good'
<1> SUFFICES ASSUME Good, [Next]_vars PROVE Good'
  OBVIOUS
<1>1. CASE UNCHANGED vars
  BY <1>1 DEF vars, Good, CallOK, DataOK, AhbInv, AskedShape, BlockPlace, Room, ListPlace,
     FailedEnds, AllMade, ChunkPlace, MaxDataWords, BusInv, Matches, Block
<1>2. CASE Host
  BY <1>2, CallGood, SendGood, ReturnGood DEF Host
<1>3. CASE Probe
  BY <1>3, SetupGood, SetTarGood, WriteGood, FirstReadGood, NextReadGood, OverrunGood,
     ReadBufferGood DEF Probe
<1>4. QED BY <1>1, <1>2, <1>3 DEF Next

LEMMA Inductive == Spec => [](FlagsOK /\ Good)
<1>1. FlagsOK /\ Good /\ [Next]_vars => (FlagsOK /\ Good)'
  BY FlagStep, GoodStep
<1>2. QED BY InitGood, <1>1, PTL DEF Spec

-----------------------------------------------------------------------------
(* Every variable of the memory calls, the probe's executor and the AHB-AP
   keeps its type.                                                          *)
THEOREM TypeCorrect == Spec => []TypeOK
<1>1. FlagsOK /\ Good => TypeOK
  BY DEF Good, TypeOK
<1>2. QED BY Inductive, <1>1, PTL

(* swdp_ahb_read32 and _write32 on word boundaries, and the single-access
   calls, put on the target's bus exactly the accesses they were asked for, in
   order, up to the point of failure: for every page size, buffer size, address
   and length, whatever earlier calls that failed left in CSW, TAR and the DP,
   and also where the probe executes what the host no longer waits for.     *)
THEOREM OnlyAskedAlways == Spec => []OnlyAsked
<1>1. Good => OnlyAsked
  BY DEF Good, AhbInv, BusInv, Matches, OnlyAsked, WellFormed
<1>2. QED BY Inductive, <1>1, PTL

(* A call that returns 0 has made every access it was asked for. *)
THEOREM SuccessMadeAll == Spec => []AllMade
<1>1. Good => AllMade
  BY DEF Good, AhbInv
<1>2. QED BY Inductive, <1>1, PTL

-----------------------------------------------------------------------------
(* The words a call hands out.  Reads(list, n) is a rank, so it grows by one
   at each read and stays at each write.                                    *)

LEMMA ReadsFacts ==
  ASSUME NEW list, NEW n \in Nat
  PROVE  /\ Reads(list, n) \in Nat
         /\ Reads(list, 0) = 0
         /\ Reads(list, n + 1) = Reads(list, n) + (IF list[n + 1].rw = "r" THEN 1 ELSE 0)
<1> DEFINE S(k) == {i \in 1 .. k : list[i].rw = "r"}
<1>1. ASSUME NEW k \in Nat PROVE IsFiniteSet(S(k))
  <2>1. IsFiniteSet(1 .. k)
    BY FS_Interval
  <2>2. QED BY <2>1, FS_Subset
<1>2. Cardinality(S(n)) \in Nat
  BY <1>1, FS_CardinalityType
<1>3. Cardinality(S(0)) = 0
  <2>1. S(0) = {}
    OBVIOUS
  <2>2. QED BY <2>1, FS_EmptySet
<1>4. CASE list[n + 1].rw = "r"
  <2>1. S(n + 1) = S(n) \cup {n + 1} /\ n + 1 \notin S(n)
    BY <1>4
  <2>2. Cardinality(S(n + 1)) = Cardinality(S(n)) + 1
    <3> HIDE DEF S
    <3>1. QED BY <1>1, <2>1, FS_AddElement
  <2>3. QED BY <1>2, <1>3, <1>4, <2>2 DEF Reads
<1>5. CASE list[n + 1].rw # "r"
  <2>1. S(n + 1) = S(n)
    BY <1>5
  <2>2. Cardinality(S(n + 1)) = Cardinality(S(n))
    BY <2>1
  <2>3. QED BY <1>2, <1>3, <1>5, <2>2 DEF Reads
<1>6. QED BY <1>4, <1>5

(* A read is one of those up to any later point. *)
LEMMA ReadsRank ==
  ASSUME NEW list, NEW n \in Nat, NEW i \in 1 .. n, list[i].rw = "r"
  PROVE  Reads(list, i) \in 1 .. Reads(list, n)
<1> DEFINE S(k) == {j \in 1 .. k : list[j].rw = "r"}
<1>1. ASSUME NEW k \in Nat PROVE IsFiniteSet(S(k))
  <2>1. IsFiniteSet(1 .. k)
    BY FS_Interval
  <2>2. QED BY <2>1, FS_Subset
<1>2. S(i) \subseteq S(n) /\ S(i) # {} /\ i \in Nat
  <2>1. i \in S(i)
    OBVIOUS
  <2>2. QED BY <2>1
<1>3. Cardinality(S(i)) <= Cardinality(S(n))
  BY <1>1, <1>2, FS_Subset
<1>4. Cardinality(S(i)) # 0
  <2> HIDE DEF S
  <2>1. QED BY <1>1, <1>2, FS_EmptySet
<1>5. Cardinality(S(i)) \in Nat /\ Cardinality(S(n)) \in Nat
  BY <1>1, <1>2, FS_CardinalityType
<1>6. QED BY <1>3, <1>4, <1>5 DEF Reads

LEMMA NoneRead ==
  ASSUME NEW list
  PROVE  ReadOut(list, <<>>, 0)
BY ReadsFacts DEF ReadOut

(* A write hands out nothing, a read its word. *)
LEMMA WriteOut ==
  ASSUME NEW list, NEW w \in Seq(Int), NEW n \in Nat, ReadOut(list, w, n), list[n + 1].rw # "r"
  PROVE  ReadOut(list, w, n + 1)
<1>1. Reads(list, n + 1) = Reads(list, n)
  <2>1. /\ Reads(list, n + 1) = Reads(list, n) + (IF list[n + 1].rw = "r" THEN 1 ELSE 0)
        /\ Reads(list, n) \in Nat
    BY ReadsFacts
  <2>2. QED BY <2>1
<1>2. ASSUME NEW i \in 1 .. n + 1, list[i].rw = "r" PROVE w[Reads(list, i)] = list[i].addr
  <2>1. i \in 1 .. n
    BY <1>2
  <2>2. QED BY <1>2, <2>1 DEF ReadOut
<1>3. QED BY <1>1, <1>2 DEF ReadOut

LEMMA WordOut ==
  ASSUME NEW list, NEW w \in Seq(Int), NEW n \in Nat, ReadOut(list, w, n), list[n + 1].rw = "r",
         NEW x \in Int, x = list[n + 1].addr
  PROVE  ReadOut(list, Append(w, x), n + 1)
<1> DEFINE v == Append(w, x)
<1>1. /\ Reads(list, n + 1) = Reads(list, n) + 1 /\ Reads(list, n) \in Nat
      /\ Len(w) = Reads(list, n)
  BY ReadsFacts DEF ReadOut
<1>2. Len(v) = Len(w) + 1 /\ v[Len(w) + 1] = x /\ \A k \in 1 .. Len(w) : v[k] = w[k]
  OBVIOUS
<1> HIDE DEF v
<1>3. ASSUME NEW i \in 1 .. n + 1, list[i].rw = "r" PROVE v[Reads(list, i)] = list[i].addr
  <2>1. CASE i = n + 1
    BY <1>1, <1>2, <2>1
  <2>2. CASE i # n + 1
    <3>1. i \in 1 .. n
      BY <2>2
    <3>2. Reads(list, i) \in 1 .. Len(w)
      BY <1>1, <1>3, <3>1, ReadsRank
    <3>3. w[Reads(list, i)] = list[i].addr
      BY <1>3, <3>1 DEF ReadOut
    <3>4. QED BY <1>2, <3>2, <3>3
  <2>3. QED BY <2>1, <2>2
<1>4. QED BY <1>1, <1>2, <1>3 DEF ReadOut, v

(* The reads confirmed so far: the word of the last read on the bus is still
   in the AP's buffer.                                                      *)
Confirmed == IF pc \in {"read", "buffer"} THEN Len(bus) - 1 ELSE Len(bus)

(* The words handed out, or of the transaction under way. *)
Words == IF pc = "ready" THEN out ELSE out \o got

WordsInOrder == ReadOut(asked, Words, Confirmed)

PostedIsLast ==
  pc \in {"read", "buffer"} =>
    /\ 0 < Len(bus) /\ asked[Len(bus)].rw = "r"
    /\ ~sticky => posted = asked[Len(bus)].addr

(* An access that failed on the bus is the last, and latched; the reply of a
   transaction without an error covers it only where no access follows it.  *)
OnlyLastIsBad == \A i \in DOMAIN bus : bus[i].good \/ (i = Len(bus) /\ sticky)
ReplyKnows ==
  pc \in {"ready", "reply"} =>
    \A i \in DOMAIN bus : bus[i].good \/ (bus[i].rw = "w" /\ (Block => count # 0))

Answers == pc \notin {"idle", "runaway", "gone"} /\ ~failed => WordsInOrder /\ PostedIsLast /\ OnlyLastIsBad /\ ReplyKnows

AnswerInv == Answers /\ SuccessIsComplete

(* What an access to DRW leaves: it is the last, and a failure is latched. *)
LEMMA BusOutcome ==
  ASSUME DataOK, NEW rw \in {"r", "w"}, OnBus(rw), \A i \in DOMAIN bus : bus[i].good
  PROVE  /\ OnlyLastIsBad'
         /\ rw = "r" /\ ~sticky' => posted' = tar
<1>1. PICK good \in BOOLEAN :
        /\ bus' = Append(bus, [rw |-> rw, addr |-> tar, good |-> good])
        /\ sticky' = ~good
        /\ posted' = IF rw = "w" THEN posted ELSE IF good THEN tar ELSE Junk
  BY DEF OnBus
<1> DEFINE x == [rw |-> rw, addr |-> tar, good |-> good]
<1>2. x.good = good
  OBVIOUS
<1> HIDE DEF x
<1>3. bus' = Append(bus, x) /\ bus \in Seq(Made) /\ x \in Made
  BY <1>1 DEF x, DataOK, Made
<1>4. /\ DOMAIN bus = 1 .. Len(bus) /\ DOMAIN bus' = 1 .. Len(bus) + 1
      /\ Len(bus') = Len(bus) + 1 /\ bus'[Len(bus) + 1] = x
      /\ \A i \in 1 .. Len(bus) : bus'[i] = bus[i]
  BY <1>3
<1>5. ASSUME NEW i \in DOMAIN bus' PROVE bus'[i].good \/ (i = Len(bus') /\ sticky')
  <2>1. CASE i = Len(bus) + 1
    <3>1. bus'[i].good = good
      BY <1>2, <1>4, <2>1
    <3>2. i = Len(bus')
      BY <1>4, <2>1
    <3>3. QED BY <1>1, <3>1, <3>2
  <2>2. CASE i # Len(bus) + 1
    <3>1. i \in DOMAIN bus /\ bus'[i] = bus[i]
      BY <1>3, <1>4, <2>2
    <3>2. QED BY <3>1
  <2>3. QED BY <2>1, <2>2
<1>6. rw = "r" /\ ~sticky' => posted' = tar
  BY <1>1
<1>7. QED BY <1>5, <1>6 DEF OnlyLastIsBad

LEMMA InitAnswers == Init => AnswerInv
BY DEF Init, AnswerInv, Answers, SuccessIsComplete

(* A new call has read nothing yet. *)
LEMMA BeginAnswers ==
  ASSUME NEW o, NEW list, Begin(o, list)
  PROVE  AnswerInv'
<1>1. /\ pc' = "ready" /\ out' = <<>> /\ bus' = <<>> /\ result' = "none" /\ asked' = list
  BY DEF Begin
<1>2. ReadOut(list, <<>>, 0)
  BY NoneRead
<1>3. WordsInOrder'
  <2>1. Words' = <<>> /\ Confirmed' = 0
    BY <1>1 DEF Words, Confirmed
  <2>2. QED BY <1>1, <1>2, <2>1 DEF WordsInOrder
<1>4. QED BY <1>1, <1>3 DEF AnswerInv, Answers, PostedIsLast, OnlyLastIsBad, ReplyKnows,
         SuccessIsComplete

LEMMA SendAnswers ==
  ASSUME Good, AnswerInv, Send
  PROVE  AnswerInv'
<1>1. /\ pc = "ready" /\ ~failed /\ pc' = "select" /\ got' = <<>>
      /\ UNCHANGED <<asked, out, result, bus, sticky>>
  BY DEF Good, AhbInv, FailedEnds, Send, targetVars
<1>2. Words' = Words /\ Confirmed' = Confirmed
  <2>1. out \o <<>> = out
    BY DEF Good, DataOK
  <2>2. QED BY <1>1, <2>1 DEF Words, Confirmed
<1>3. WordsInOrder' /\ OnlyLastIsBad'
  BY <1>1, <1>2 DEF AnswerInv, Answers, WordsInOrder, OnlyLastIsBad
<1>4. result' # "ok"
  BY <1>1 DEF Good, AhbInv, FailedEnds
<1>5. QED BY <1>1, <1>3, <1>4 DEF AnswerInv, Answers, PostedIsLast, ReplyKnows,
   SuccessIsComplete

(* A call returns: with 0 only when nothing is missing. *)
LEMMA ReturnAnswers ==
  ASSUME Good, Good', AnswerInv, ReturnOk \/ LinkFails \/ TimesOut \/ Reply \/ ClearError \/ Reset
  PROVE  AnswerInv'
<1> USE DEF targetVars
<1>1. CASE ReturnOk
  <2>1. /\ pc = "ready" /\ Block /\ count = 0 /\ pc' = "idle" /\ result' = "ok" /\ ~failed
        /\ UNCHANGED <<op, skew, asked, out, bus, sticky>>
    BY <1>1 DEF ReturnOk, Finished, Return, Good, AhbInv, FailedEnds
  <2>2. Len(bus') = Len(asked')
    BY <2>1 DEF Good, AhbInv, AllMade
  <2>3. ReadOut(asked, out, Len(bus)) /\ \A i \in DOMAIN bus : bus[i].good
    BY <2>1 DEF AnswerInv, Answers, WordsInOrder, Words, Confirmed, ReplyKnows
  <2>4. QED BY <2>1, <2>2, <2>3 DEF AnswerInv, Answers, SuccessIsComplete
<1>2. CASE LinkFails
  BY <1>2 DEF LinkFails, Return, AnswerInv, Answers, SuccessIsComplete
<1>3. CASE Reply
  <2>1. pc = "reply" /\ out' = out \o got
    BY <1>3 DEF Reply
  <2>2. CASE failed
    BY <1>3, <2>2 DEF Reply, Return, AnswerInv, Answers, SuccessIsComplete
  <2>3. CASE ~failed /\ Block
    <3>1. pc' = "ready" /\ UNCHANGED <<op, skew, asked, count, result, bus, sticky>>
      BY <1>3, <2>3 DEF Reply
    <3>2. Words' = Words /\ Confirmed' = Confirmed
      BY <2>1, <3>1 DEF Words, Confirmed
    <3>3. WordsInOrder' /\ OnlyLastIsBad' /\ ReplyKnows'
      BY <2>1, <2>3, <3>1, <3>2 DEF AnswerInv, Answers, WordsInOrder, OnlyLastIsBad,
         ReplyKnows,
         Block
    <3>4. result' # "ok"
      BY <2>1, <3>1 DEF Good, AhbInv, FailedEnds
    <3>5. QED BY <3>1, <3>3, <3>4 DEF AnswerInv, Answers, PostedIsLast, SuccessIsComplete
  <2>4. CASE ~failed /\ ~Block
    <3>1. /\ pc' = "idle" /\ result' = "ok" /\ UNCHANGED <<op, skew, asked, bus, sticky>>
      BY <1>3, <2>4 DEF Reply, Return
    <3>2. Len(bus') = Len(asked')
      BY <3>1 DEF Good, AhbInv, AllMade
    <3>3. ReadOut(asked, out', Len(bus))
      BY <2>1, <2>4 DEF AnswerInv, Answers, WordsInOrder, Words, Confirmed
    <3>4. ASSUME NEW i \in DOMAIN bus
          PROVE  bus[i].good \/ (~Block /\ i = Len(bus) /\ bus[i].rw = "w" /\ sticky)
      BY <2>1, <2>4 DEF AnswerInv, Answers, OnlyLastIsBad, ReplyKnows
    <3>5. ~Block'
      BY <2>4, <3>1 DEF Block
    <3>6. QED BY <2>4, <3>1, <3>2, <3>3, <3>4, <3>5 DEF AnswerInv, Answers,
       SuccessIsComplete
  <2>5. QED BY <2>2, <2>3, <2>4
<1>4. CASE ClearError \/ Reset
  BY <1>4 DEF ClearError, Reset, Settled, AnswerInv, Answers, SuccessIsComplete
<1>5. CASE TimesOut
  <2>1. /\ result' = "fail"
        /\ UNCHANGED <<pc, failed, op, skew, asked, count, out, got, posted, sticky, bus>>
    BY <1>5 DEF TimesOut
  <2>2. Words' = Words /\ Confirmed' = Confirmed
    BY <2>1 DEF Words, Confirmed
  <2>3. Answers'
    BY <2>1, <2>2 DEF AnswerInv, Answers, WordsInOrder, PostedIsLast, OnlyLastIsBad,
       ReplyKnows, Block
  <2>4. QED BY <2>1, <2>3 DEF AnswerInv, SuccessIsComplete
<1>6. QED BY <1>1, <1>2, <1>3, <1>4, <1>5

(* An access the DP accepts finds every earlier one good. *)
LEMMA AcceptedIsClean ==
  ASSUME Good, AnswerInv, NEW at \in Accesses, NEW next, Accepted(at, next)
  PROVE  /\ ~failed /\ WordsInOrder /\ PostedIsLast /\ OnlyLastIsBad
         /\ \A i \in DOMAIN bus : bus[i].good
<1>1. pc = at /\ ~sticky /\ pc \notin {"idle", "runaway", "gone"} /\ ~failed
  BY DEF Accepted, Accesses, Good, AhbInv, FailedEnds
<1>2. QED BY <1>1 DEF AnswerInv, Answers, OnlyLastIsBad

(* The steps of the probe that leave the bus alone, or run away. *)
LEMMA SetupAnswers ==
  ASSUME Good, AnswerInv, Select \/ SetInc \/ SetTar \/ Restore \/ Refused \/ Overrun
  PROVE  AnswerInv'
<1> USE DEF hostVars, targetVars
<1>1. result' # "ok"
  BY DEF Good, AhbInv, FailedEnds, Select, SetInc, SetTar, Restore, Refused, Overrun,
        Accepted, Accesses
<1>2. CASE Refused
  BY <1>1, <1>2 DEF Refused, AnswerInv, Answers, SuccessIsComplete
<1>3. CASE Select \/ SetInc \/ SetTar
  <2>1. /\ pc \in {"select", "csw", "tar"}
        /\ pc' \in {"csw", "tar", "write", "discard", "restore", "reply"}
        /\ failed' = failed /\ UNCHANGED <<asked, out, got, bus, sticky>>
    BY <1>3 DEF Select, SetInc, SetTar, Accepted, Drw, AfterBlock
  <2>2. Words' = Words /\ Confirmed' = Confirmed
    BY <2>1 DEF Words, Confirmed
  <2>3. /\ ~failed /\ WordsInOrder /\ OnlyLastIsBad
        /\ \A i \in DOMAIN bus : bus[i].good
    BY <1>3, AcceptedIsClean DEF Select, SetInc, SetTar, Accesses
  <2>4. WordsInOrder' /\ OnlyLastIsBad' /\ ReplyKnows'
    BY <2>1, <2>2, <2>3 DEF WordsInOrder, OnlyLastIsBad, ReplyKnows
  <2>5. QED BY <1>1, <2>1, <2>4 DEF AnswerInv, Answers, PostedIsLast, SuccessIsComplete
<1>4. CASE Restore
  <2>1. /\ pc = "restore" /\ pc' = "reply" /\ ~sticky
        /\ failed' = failed /\ UNCHANGED <<asked, out, got, bus, sticky>>
    BY <1>4 DEF Restore, Accepted
  <2>2. Words' = Words /\ Confirmed' = Confirmed
    BY <2>1 DEF Words, Confirmed
  <2>3. ~failed => WordsInOrder' /\ OnlyLastIsBad' /\ ReplyKnows'
    BY <2>1, <2>2 DEF AnswerInv, Answers, WordsInOrder, OnlyLastIsBad, ReplyKnows
  <2>4. QED BY <1>1, <2>1, <2>3 DEF AnswerInv, Answers, PostedIsLast, SuccessIsComplete
<1>5. CASE Overrun
  BY <1>1, <1>5 DEF Overrun, AnswerInv, Answers, SuccessIsComplete
<1>6. QED BY <1>2, <1>3, <1>4, <1>5

LEMMA WriteAnswers ==
  ASSUME Good, Good', AnswerInv, WriteWord
  PROVE  AnswerInv'
<1>1. /\ pc = "write" /\ ~failed /\ WordsInOrder /\ \A i \in DOMAIN bus : bus[i].good
  BY AcceptedIsClean DEF WriteWord, Accepted, Accesses
<1>2. /\ pc' \in {"write", "restore", "reply", "tar", "discard"} /\ failed' = failed
      /\ OnBus("w") /\ UNCHANGED <<op, skew, asked, count, out, got, result>>
  BY DEF WriteWord, Accepted, AfterBlock, AfterItem, Drw
<1>3. /\ Len(bus') = Len(bus) + 1 /\ Len(bus) \in Nat /\ DOMAIN bus' = 1 .. Len(bus) + 1
      /\ bus'[Len(bus) + 1].rw = "w"
  BY <1>2, BusFacts DEF Good
<1>4. asked[Len(bus) + 1].rw # "r"
  <2>1. bus'[Len(bus) + 1].rw = asked'[Len(bus) + 1].rw
    BY <1>2, <1>3 DEF Good, AhbInv, BusInv, Matches
  <2>2. QED BY <1>2, <1>3, <2>1
<1>5. WordsInOrder'
  <2>1. Words' = Words /\ Confirmed = Len(bus) /\ Confirmed' = Len(bus) + 1
    BY <1>1, <1>2, <1>3 DEF Words, Confirmed
  <2>2. Words \in Seq(Int)
    BY DEF Words, Good, DataOK
  <2>3. ReadOut(asked, Words, Len(bus))
    BY <1>1, <2>1 DEF WordsInOrder
  <2>4. ReadOut(asked, Words, Len(bus) + 1)
    BY <1>3, <1>4, <2>2, <2>3, WriteOut
  <2>5. QED BY <1>2, <2>1, <2>4 DEF WordsInOrder
<1>6. OnlyLastIsBad'
  BY <1>1, <1>2, BusOutcome DEF Good
<1>7. ReplyKnows'
  <2>1. SUFFICES ASSUME pc' = "reply"
                 PROVE  \A i \in DOMAIN bus' :
                          bus'[i].good \/ (bus'[i].rw = "w" /\ (Block' => count' # 0))
    BY <1>2 DEF ReplyKnows
  <2>2. Block => count # 0
    <3>1. HAVE Block
    <3>2. AfterBlock = "reply"
      BY <2>1, <3>1 DEF WriteWord, Accepted
    <3>3. QED BY <3>2 DEF AfterBlock
  <2>3. Block' => count' # 0
    BY <1>2, <2>2 DEF Block
  <2>4. QED BY <1>3, <1>6, <2>3 DEF OnlyLastIsBad
<1>8. result' # "ok"
  BY <1>1, <1>2 DEF Good, AhbInv, FailedEnds
<1>9. QED BY <1>2, <1>5, <1>6, <1>7, <1>8 DEF AnswerInv, Answers, PostedIsLast,
   SuccessIsComplete

(* A read on the bus leaves its word in the AP's buffer, if it was good. *)
LEMMA PostedAfterRead ==
  ASSUME Good, Good', OnBus("r"), \A i \in DOMAIN bus : bus[i].good, UNCHANGED asked,
         pc' \notin {"idle", "gone"}
  PROVE  /\ Len(bus') = Len(bus) + 1 /\ Len(bus) \in Nat
         /\ asked[Len(bus) + 1].rw = "r" /\ asked[Len(bus) + 1].addr = tar
         /\ OnlyLastIsBad' /\ PostedIsLast'
<1>1. /\ Len(bus') = Len(bus) + 1 /\ Len(bus) \in Nat /\ DOMAIN bus' = 1 .. Len(bus) + 1
      /\ bus'[Len(bus) + 1].rw = "r" /\ bus'[Len(bus) + 1].addr = tar
  BY BusFacts DEF Good
<1>2. asked[Len(bus) + 1].rw = "r" /\ asked[Len(bus) + 1].addr = tar
  <2>1. /\ bus'[Len(bus) + 1].rw = asked'[Len(bus) + 1].rw
        /\ bus'[Len(bus) + 1].addr = asked'[Len(bus) + 1].addr
    BY <1>1 DEF Good, AhbInv, BusInv, Matches
  <2>2. QED BY <1>1, <2>1
<1>3. OnlyLastIsBad' /\ (~sticky' => posted' = tar)
  BY BusOutcome DEF Good
<1>4. QED BY <1>1, <1>2, <1>3 DEF PostedIsLast

LEMMA FirstReadAnswers ==
  ASSUME Good, Good', AnswerInv, FirstRead
  PROVE  AnswerInv'
<1>1. /\ pc = "discard" /\ ~failed /\ WordsInOrder /\ \A i \in DOMAIN bus : bus[i].good
  BY AcceptedIsClean DEF FirstRead, Accepted, Accesses
<1>2. /\ pc' \in {"read", "buffer", "runaway"} /\ failed' = failed
      /\ OnBus("r") /\ UNCHANGED <<asked, out, got, result>>
  BY DEF FirstRead, Accepted, hostVars
<1>3. result' # "ok"
  BY <1>1, <1>2 DEF Good, AhbInv, FailedEnds
<1>4. CASE pc' = "runaway"
  BY <1>3, <1>4 DEF AnswerInv, Answers, SuccessIsComplete
<1>5. CASE pc' # "runaway"
  <2>1. Len(bus') = Len(bus) + 1 /\ Len(bus) \in Nat /\ OnlyLastIsBad' /\ PostedIsLast'
    BY <1>1, <1>2, PostedAfterRead
  <2>2. Words' = Words /\ Confirmed = Len(bus) /\ Confirmed' = Len(bus)
    BY <1>1, <1>2, <1>5, <2>1 DEF Words, Confirmed
  <2>3. WordsInOrder'
    BY <1>1, <1>2, <2>2 DEF WordsInOrder
  <2>4. QED BY <1>2, <1>3, <1>5, <2>1, <2>3 DEF AnswerInv, Answers, ReplyKnows,
     SuccessIsComplete
<1>6. QED BY <1>4, <1>5

(* The word of the read before arrives. *)
LEMMA WordArrives ==
  ASSUME Good, AnswerInv, pc \in {"read", "buffer"}, ~failed, ~sticky,
         got' = Append(got, posted), UNCHANGED <<asked, out>>, pc' \notin {"ready"}
  PROVE  ReadOut(asked', Words', Len(bus))
<1>1. /\ WordsInOrder /\ 0 < Len(bus) /\ asked[Len(bus)].rw = "r"
      /\ posted = asked[Len(bus)].addr
  BY DEF AnswerInv, Answers, PostedIsLast
<1>2. /\ out \in Seq(Int) /\ got \in Seq(Int) /\ posted \in Int /\ Len(bus) \in Nat
  BY DEF Good, DataOK
<1>3. Words = out \o got /\ Words' = out \o Append(got, posted)
  BY DEF Words
<1>4. out \o got \in Seq(Int) /\ out \o Append(got, posted) = Append(out \o got, posted)
  BY <1>2
<1>5. ReadOut(asked, Words, Len(bus) - 1)
  BY <1>1 DEF WordsInOrder, Confirmed
<1> DEFINE n == Len(bus) - 1
<1>6. n \in Nat /\ n + 1 = Len(bus)
  BY <1>1, <1>2
<1> HIDE DEF n
<1>7. ReadOut(asked, Append(out \o got, posted), n + 1)
  <2>1. ReadOut(asked, out \o got, n)
    BY <1>3, <1>5 DEF n
  <2>2. QED BY <1>1, <1>2, <1>4, <1>6, <2>1, WordOut
<1>8. QED BY <1>3, <1>4, <1>6, <1>7

LEMMA NextReadAnswers ==
  ASSUME Good, Good', AnswerInv, NextRead
  PROVE  AnswerInv'
<1>1. /\ pc = "read" /\ ~sticky /\ ~failed /\ \A i \in DOMAIN bus : bus[i].good
  BY AcceptedIsClean DEF NextRead, Accepted, Accesses
<1>2. /\ pc' \in {"read", "buffer"} /\ failed' = failed /\ got' = Append(got, posted)
      /\ OnBus("r") /\ UNCHANGED <<asked, out, result>>
  BY DEF NextRead, Accepted, hostVars
<1>3. Len(bus') = Len(bus) + 1 /\ Len(bus) \in Nat /\ OnlyLastIsBad' /\ PostedIsLast'
  BY <1>1, <1>2, PostedAfterRead
<1>4. WordsInOrder'
  <2>1. Confirmed' = Len(bus)
    BY <1>2, <1>3 DEF Confirmed
  <2>2. QED BY <1>1, <1>2, <2>1, WordArrives DEF WordsInOrder
<1>5. result' # "ok"
  BY <1>1, <1>2 DEF Good, AhbInv, FailedEnds
<1>6. QED BY <1>2, <1>3, <1>4, <1>5 DEF AnswerInv, Answers, ReplyKnows, SuccessIsComplete

LEMMA ReadBufferAnswers ==
  ASSUME Good, AnswerInv, ReadBuffer
  PROVE  AnswerInv'
<1>1. /\ pc = "buffer" /\ ~sticky /\ ~failed /\ \A i \in DOMAIN bus : bus[i].good
  BY AcceptedIsClean DEF ReadBuffer, Accepted, Accesses
<1>2. /\ pc' \in {"write", "restore", "reply", "tar", "discard"} /\ failed' = failed
      /\ got' = Append(got, posted) /\ UNCHANGED <<asked, out, result, bus, sticky>>
  BY DEF ReadBuffer, Accepted, AfterBlock, AfterItem, Drw, targetVars
<1>3. WordsInOrder'
  <2>1. Confirmed' = Len(bus)
    BY <1>2 DEF Confirmed
  <2>2. QED BY <1>1, <1>2, <2>1, WordArrives DEF WordsInOrder
<1>4. OnlyLastIsBad' /\ ReplyKnows'
  BY <1>1, <1>2 DEF OnlyLastIsBad, ReplyKnows
<1>5. result' # "ok"
  BY <1>1, <1>2 DEF Good, AhbInv, FailedEnds
<1>6. QED BY <1>2, <1>3, <1>4, <1>5 DEF AnswerInv, Answers, PostedIsLast, SuccessIsComplete

LEMMA AnswersStep == Good /\ AnswerInv /\ [Next]_vars => AnswerInv'
<1> SUFFICES ASSUME Good, AnswerInv, [Next]_vars PROVE AnswerInv'
  OBVIOUS
<1>1. Good'
  BY GoodStep
<1>2. CASE UNCHANGED vars
  BY <1>2 DEF vars, AnswerInv, Answers, WordsInOrder, Words, Confirmed, PostedIsLast,
     OnlyLastIsBad, ReplyKnows, SuccessIsComplete, Block
<1>3. CASE CallBlock \/ CallSingle \/ CallDumpBytes
  BY <1>3, BeginAnswers DEF CallBlock, CallSingle, CallDumpBytes
<1>4. CASE Send
  BY <1>4, SendAnswers
<1>5. CASE ReturnOk \/ LinkFails \/ TimesOut \/ Reply \/ ClearError \/ Reset
  BY <1>1, <1>5, ReturnAnswers
<1>6. CASE Select \/ SetInc \/ SetTar \/ Restore \/ Refused \/ Overrun
  BY <1>6, SetupAnswers
<1>7. CASE WriteWord
  BY <1>1, <1>7, WriteAnswers
<1>8. CASE FirstRead
  BY <1>1, <1>8, FirstReadAnswers
<1>9. CASE NextRead
  BY <1>1, <1>9, NextReadAnswers
<1>10. CASE ReadBuffer
  BY <1>10, ReadBufferAnswers
<1>11. QED BY <1>2, <1>3, <1>4, <1>5, <1>6, <1>7, <1>8, <1>9, <1>10 DEF Next, Host, Probe

(* A call of swdp_ahb_read32, _write32 or of the single-access calls that
   returns 0 made every access, and its caller holds the word of each read, in
   order: the read-ahead of CMD_SWD_READ and DP_BUFFER drops and repeats none,
   however the block was cut into transactions.  Only the last of single
   writes can have failed unnoticed, and the DP still has its error.        *)
THEOREM SuccessAlwaysComplete == Spec => []SuccessIsComplete
<1>1. Init => FlagsOK /\ Good /\ AnswerInv
  BY InitGood, InitAnswers
<1>2. Good /\ AnswerInv /\ [Next]_vars => (Good /\ AnswerInv)'
  BY GoodStep, AnswersStep
<1>3. AnswerInv => SuccessIsComplete
  BY DEF AnswerInv
<1>4. QED BY <1>1, <1>2, <1>3, PTL DEF Spec

-----------------------------------------------------------------------------
(* The probe's buffers *)

(* Padding adds a word, but never to a message that fills the buffer. *)
LEMMA PaddedFits ==
  ASSUME NEW n \in Int, NEW m \in {MaxWords, MaxWords + 1}, n <= MaxWords
  PROVE  Padded(n) <= m
<1>1. MaxWords \in Nat
  BY AhbAssumption DEF AhbAssumption
<1>2. CASE n = MaxWords
  BY <1>1, <1>2 DEF Padded
<1>3. CASE n # MaxWords
  BY <1>1, <1>3 DEF Padded
<1>4. QED BY <1>2, <1>3

(* With the ten words the code needs of the sixteen MAXDATAWORDS keeps, every
   transaction of a block that starts on a word boundary moves at least a word,
   fits rswdp.c's struct txn and the probe's receive buffer, and its reply the
   probe's transmit buffer, whatever the buffer's size.                     *)
THEOREM BlockAlwaysFits ==
  ASSUME Overhead >= 10
  PROVE  Spec => []BlockFits
<1>1. Good => BlockFits
  <2>1. SUFFICES ASSUME Good, Block, skew = 0, pc \notin {"idle", "ready"}
                 PROVE  /\ 0 < xfer /\ Padded(RequestWords) <= MaxWords
                        /\ Padded(ReplyWords) <= MaxWords + 1
    BY DEF BlockFits
  <2>2. MaxWords \in Nat /\ Overhead \in Nat /\ xfer \in Nat
    BY <2>1, AhbAssumption DEF AhbAssumption, Good, CallOK
  <2>3. 0 < xfer /\ xfer <= MaxDataWords
    BY <2>1 DEF Good, AhbInv, ChunkPlace
  <2>4. ReadCount = xfer - 1
    BY <2>2, <2>3, ReadCountFacts
  <2>5. /\ RequestWords \in Int /\ RequestWords <= MaxWords
        /\ ReplyWords \in Int /\ ReplyWords <= MaxWords
    BY <2>2, <2>3, <2>4 DEF RequestWords, ReplyWords, MaxDataWords
  <2>6. QED BY <2>3, <2>5, PaddedFits
<1>2. QED BY Inductive, <1>1, PTL
=============================================================================
