------------------------------ MODULE GdbProofs ------------------------------
(***************************************************************************)
(* gdb_server, for any requests, threads, lists and lengths: what m and M     *)
(* packets do to memory; that its packets are whole; that the threads it       *)
(* shows, and those selected of them, are the target's; that it and gdb stay   *)
(* in step, and that gdb is told of stops when they are so.                     *)
(***************************************************************************)
EXTENDS GdbServer, SequenceTheorems, FiniteSetTheorems, TLAPS

(* An address is its word's and an offset of less than four. *)
LEMMA BaseFacts ==
  ASSUME NEW a \in Nat
  PROVE  /\ Base(a) \in Nat /\ a % 4 \in 0 .. 3 /\ Base(a) + (a % 4) = a
         /\ a % 4 = 0 => Base(a) = a
BY DEF Base

-----------------------------------------------------------------------------
(* write_memory *)

(* The bytes up to a word's end, and the whole words after them *)
LEMMA HeadFacts ==
  ASSUME NEW x \in Nat, NEW len \in Nat, NEW head, head = HeadCount(x, len),
         NEW body, body = 4 * ((len - head) \div 4)
  PROVE  /\ head \in 0 .. len /\ body \in 0 .. len - head
         /\ head < len => Base(x + head) = x + head
         /\ Base(x + head) \in Nat
<1>1. /\ head \in 0 .. len /\ body \in 0 .. len - head
      /\ head < len => (x + head) % 4 = 0
  BY BaseFacts DEF HeadCount, Least
<1>2. x + head \in Nat
  BY <1>1
<1>3. QED BY <1>1, <1>2, BaseFacts

(* A sequence in two parts *)
LEMMA Split ==
  ASSUME NEW data \in Seq(Int), NEW m \in 0 .. Len(data), NEW n \in m .. Len(data)
  PROVE  SubSeq(data, 1, m) \o SubSeq(data, m + 1, n) = SubSeq(data, 1, n)
<1>1. 1 \in 1 .. Len(data) + 1 /\ m \in 1 - 1 .. Len(data)
  OBVIOUS
<1>2. QED BY <1>1, ConcatAdjacentSubSeq

LEMMA Appended ==
  ASSUME NEW p \in Seq(Int), NEW q \in Seq(Int)
  PROVE  p \o q \in Seq(Int) /\ Len(p \o q) = Len(p) + Len(q) /\ (q = <<>> => p \o q = p)
<1>1. p \o q \in Seq(Int) /\ Len(p \o q) = Len(p) + Len(q)
  OBVIOUS
<1>2. p \o <<>> = p
  OBVIOUS
<1>3. QED BY <1>1, <1>2

(* Bytes written one after the other are written at once. *)
LEMMA Joined ==
  ASSUME NEW D \in SUBSET Nat, NEW mem \in [D -> Int], NEW x \in Nat, NEW p \in Seq(Int), NEW q \in Seq(Int)
  PROVE  Patched(Patched(mem, x, p), x + Len(p), q) = Patched(mem, x, p \o q)
<1> DEFINE m == Len(p)
           n == Len(q)
<1>1. /\ m \in Nat /\ n \in Nat /\ Len(p \o q) = m + n
      /\ \A i \in 1 .. m : (p \o q)[i] = p[i]
      /\ \A i \in m + 1 .. m + n : (p \o q)[i] = q[i - m]
  OBVIOUS
<1> HIDE DEF m, n
<1>2. Patched(mem, x, p) = [a \in D |-> IF a \in x .. x + m - 1 THEN p[a - x + 1] ELSE mem[a]]
  BY DEF Patched, m
<1>3. Patched(Patched(mem, x, p), x + m, q) =
        [a \in D |-> IF a \in x + m .. x + m + n - 1 THEN q[a - (x + m) + 1]
                     ELSE IF a \in x .. x + m - 1 THEN p[a - x + 1] ELSE mem[a]]
  BY <1>2 DEF Patched, n
<1>4. Patched(mem, x, p \o q) =
        [a \in D |-> IF a \in x .. x + m + n - 1 THEN (p \o q)[a - x + 1] ELSE mem[a]]
  BY <1>1 DEF Patched
<1>5. \A a \in D : a \in x + m .. x + m + n - 1 => (p \o q)[a - x + 1] = q[a - (x + m) + 1]
  <2> SUFFICES ASSUME NEW a \in D, a \in x + m .. x + m + n - 1
               PROVE  (p \o q)[a - x + 1] = q[a - (x + m) + 1]
    OBVIOUS
  <2> DEFINE i == a - x + 1
  <2>1. i \in m + 1 .. m + n /\ i - m = a - (x + m) + 1
    BY <1>1
  <2> HIDE DEF i
  <2>2. (p \o q)[i] = q[i - m]
    BY <1>1, <2>1
  <2>3. QED BY <2>1, <2>2 DEF i
<1>6. \A a \in D : a \in x .. x + m - 1 => (p \o q)[a - x + 1] = p[a - x + 1]
  <2> SUFFICES ASSUME NEW a \in D, a \in x .. x + m - 1
               PROVE  (p \o q)[a - x + 1] = p[a - x + 1]
    OBVIOUS
  <2> DEFINE i == a - x + 1
  <2>1. i \in 1 .. m
    BY <1>1
  <2> HIDE DEF i
  <2>2. (p \o q)[i] = p[i]
    BY <1>1, <2>1
  <2>3. QED BY <2>2 DEF i
<1>7. \A a \in D : a \in x .. x + m + n - 1
                      <=> (a \in x + m .. x + m + n - 1 \/ a \in x .. x + m - 1)
  BY <1>1
<1>8. QED BY <1>3, <1>4, <1>5, <1>6, <1>7 DEF m

(* Bytes are bytes wherever they are written, and no bytes change nothing. *)
LEMMA PatchedFacts ==
  ASSUME NEW D \in SUBSET Nat, NEW mem \in [D -> Int], NEW x \in Nat, NEW p \in Seq(Int)
  PROVE  Patched(mem, x, p) \in [D -> Int]
<1>1. ASSUME NEW a \in D, a \in x .. x + Len(p) - 1
      PROVE  p[a - x + 1] \in Int
  <2>1. a - x + 1 \in 1 .. Len(p)
    BY <1>1
  <2>2. QED BY <2>1, ElementOfSeq
<1>2. QED BY <1>1 DEF Patched

LEMMA NothingPatched ==
  ASSUME NEW D, NEW mem \in [D -> Int], NEW x \in Nat
  PROVE  Patched(mem, x, <<>>) = mem
BY DEF Patched

(* The head to a word's end, whole words, and the tail: together, the bytes named. *)
LEMMA WriteFacts ==
  ASSUME NEW D \in SUBSET Nat, NEW mem \in [D -> Int], NEW x \in Nat, NEW data \in Seq(Int)
  PROVE  WriteMemory(mem, x, data, {}) = Patched(mem, x, data)
<1> DEFINE len == Len(data)
           head == HeadCount(x, len)
           body == 4 * ((len - head) \div 4)
           start == Base(x + head)
           first == SubSeq(data, 1, head)
           middle == SubSeq(data, head + 1, head + body)
           last == SubSeq(data, head + body + 1, len)
           Headed == PatchWord(mem, Base(x), x % 4, first, "readHead", "writeHead", {})
           Bodied == PatchWords(Headed, start, middle, {})
<1>1. len \in Nat
  OBVIOUS
<1>2. /\ head \in 0 .. len /\ body \in 0 .. len - head /\ start \in Nat
      /\ head < len => start = x + head
  <2> HIDE DEF len
  <2>1. QED BY <1>1, HeadFacts
<1> HIDE DEF head, body, start
<1>3. /\ first \in Seq(Int) /\ middle \in Seq(Int) /\ last \in Seq(Int)
      /\ Len(first) = head /\ Len(middle) = body /\ Len(last) = len - head - body
  BY <1>1, <1>2, SubSeqProperties, ElementOfSeq
<1>4. first \o middle = SubSeq(data, 1, head + body) /\ (first \o middle) \o last = data
  <2> DEFINE m == head + body
  <2>1. m \in 0 .. len /\ m \in head .. len /\ len \in m .. len
    BY <1>1, <1>2
  <2>2. first \o middle = SubSeq(data, 1, m)
    BY <1>2, <2>1, Split
  <2> HIDE DEF m
  <2>3. SubSeq(data, 1, m) \o SubSeq(data, m + 1, len) = SubSeq(data, 1, len)
    BY <2>1, Split
  <2>4. SubSeq(data, 1, len) = data
    BY SubSeqFull
  <2>5. QED BY <2>2, <2>3, <2>4 DEF m
<1> HIDE DEF len, first, middle, last
<1>5. Headed = Patched(mem, x, first)
  <2>1. Base(x) \in Nat /\ x % 4 \in Nat /\ Base(x) + (x % 4) = x
    BY DEF Base
  <2>2. CASE first = <<>>
    <3>1. Headed = mem /\ Patched(mem, x, first) = mem
      BY <2>2, NothingPatched DEF PatchWord, Headed
    <3>2. QED BY <3>1
  <2>3. CASE first # <<>>
    BY <2>1, <2>3 DEF PatchWord, Headed
  <2>4. QED BY <2>2, <2>3
<1> HIDE DEF Headed
<1>6. Bodied = Patched(mem, x, first \o middle)
  <2>1. Bodied = Patched(Headed, start, middle)
    BY DEF PatchWords
  <2>2. Headed \in [D -> Int]
    BY <1>3, <1>5, PatchedFacts
  <2>3. CASE middle = <<>>
    <3>1. Bodied = Headed
      <4>1. start \in Nat
        BY <1>2
      <4>2. Patched(Headed, start, <<>>) = Headed
        BY <2>2, <4>1, NothingPatched
      <4>3. QED BY <2>1, <2>3, <4>2
    <3>2. first \o middle = first
      BY <1>3, <2>3, Appended
    <3>3. QED BY <1>5, <3>1, <3>2
  <2>4. CASE middle # <<>>
    <3>1. start = x + Len(first)
      BY <1>1, <1>2, <1>3, <2>4
    <3>2. Patched(Patched(mem, x, first), x + Len(first), middle) = Patched(mem, x, first \o middle)
      BY <1>3, Joined
    <3>3. QED BY <1>5, <2>1, <3>1, <3>2
  <2>5. QED BY <2>3, <2>4
<1> HIDE DEF Bodied
<1> DEFINE front == first \o middle
<1>7. front \in Seq(Int) /\ Len(front) = head + body
  BY <1>3, Appended
<1> HIDE DEF front
<1>8. Bodied \in [D -> Int]
  BY <1>6, <1>7, PatchedFacts DEF front
<1>9. last # <<>> => start + body = x + Len(front)
  BY <1>1, <1>2, <1>3, <1>7
<1> DEFINE word == start + body
<1>10. word \in Nat /\ (last # <<>> => word + 0 = x + Len(front))
  BY <1>1, <1>2, <1>7, <1>9
<1> HIDE DEF word
<1>11. PatchWord(Bodied, word, 0, last, "readTail", "writeTail", {}) = Patched(Bodied, x + Len(front), last)
  <2>1. x + Len(front) \in Nat
    BY <1>2, <1>7
  <2>2. CASE last = <<>>
    <3>1. PatchWord(Bodied, word, 0, last, "readTail", "writeTail", {}) = Bodied
      BY <2>2 DEF PatchWord
    <3>2. Patched(Bodied, x + Len(front), last) = Bodied
      BY <1>8, <2>1, <2>2, NothingPatched
    <3>3. QED BY <3>1, <3>2
  <2>3. CASE last # <<>>
    BY <1>10, <2>3 DEF PatchWord
  <2>4. QED BY <2>2, <2>3
<1>12. Patched(Bodied, x + Len(front), last) = Patched(mem, x, data)
  <2>1. Patched(Patched(mem, x, front), x + Len(front), last) = Patched(mem, x, front \o last)
    BY <1>3, <1>7, Joined
  <2>2. front \o last = data /\ Bodied = Patched(mem, x, front)
    BY <1>4, <1>6 DEF front
  <2>3. QED BY <2>1, <2>2
<1>13. WriteMemory(mem, x, data, {}) = PatchWord(Bodied, word, 0, last, "readTail", "writeTail", {})
  BY DEF WriteMemory, Bodied, Headed, word, first, middle, last, start, body, head, len
<1>14. QED BY <1>11, <1>12, <1>13
-----------------------------------------------------------------------------
(* handle_command's m *)

(* The reply to an m, and its bytes that come from a word read *)
LEMMA ReadFacts ==
  ASSUME NEW x \in 0 .. MaxAddr, NEW n \in 0 .. MaxLen,
         NEW bytes, bytes = ReadMemory(Fresh, x, n, WordsRead(MaxRead))
  PROVE  /\ Len(bytes) = Least(n, MaxRead)
         /\ \A i \in DOMAIN bytes : (x % 4) + i <= Len(bytes) => bytes[i] = x + i - 1
<1> USE MemoryAssumption, ServerAssumption
<1> DEFINE count == Least(n, MaxRead)
           most == Least(WordsRead(MaxRead), WordsRead(count))
           buffer == [j \in 0 .. MaxRead + 7 |-> IF j < 4 * most THEN Fresh[Base(x) + j] ELSE Junk]
<1>1. count \in 0 .. MaxRead
  BY DEF Least
<1>2. bytes = [j \in 1 .. count |-> buffer[(x % 4) + j - 1]]
  BY DEF ReadMemory
<1> HIDE DEF count
<1>3. DOMAIN bytes = 1 .. count /\ Len(bytes) = count
  BY <1>1, <1>2
<1>4. /\ WordsRead(MaxRead) \in Nat /\ 4 * WordsRead(MaxRead) >= count
      /\ WordsRead(count) \in Nat /\ 4 * WordsRead(count) >= count
  BY <1>1 DEF WordsRead, MemoryAssumption
<1>5. most \in Nat /\ 4 * most >= count
  BY <1>4 DEF Least
<1> HIDE DEF most
<1>6. x \in Nat /\ Base(x) \in Nat /\ x % 4 \in 0 .. 3 /\ Base(x) + (x % 4) = x
  <2>1. x \in Nat
    BY DEF ServerAssumption
  <2>2. QED BY <2>1, BaseFacts
<1>7. ASSUME NEW i \in DOMAIN bytes, (x % 4) + i <= Len(bytes)
      PROVE  bytes[i] = x + i - 1
  <2> DEFINE j == (x % 4) + i - 1
  <2>1. j \in 0 .. MaxRead + 7 /\ j < 4 * most
    BY <1>1, <1>3, <1>5, <1>6, <1>7
  <2>2. Base(x) + j = x + (i - 1) /\ i \in 1 .. MaxRead
    BY <1>1, <1>3, <1>6, <1>7
  <2>3. Base(x) + j \in 0 .. MaxAddr + MaxLen + MaxRead + 8
    <3>1. i \in Nat /\ x \in Nat /\ x <= MaxAddr /\ MaxLen \in Nat
      BY <1>6, <2>2
    <3>2. x + (i - 1) \in 0 .. MaxAddr + MaxLen + MaxRead + 8
      BY <2>2, <3>1
    <3>3. QED BY <2>2, <3>2
  <2> HIDE DEF j
  <2>4. buffer[j] = Base(x) + j
    BY <2>1, <2>3 DEF Fresh
  <2>5. bytes[i] = buffer[j]
    BY <1>2, <1>3 DEF j
  <2>6. QED BY <2>2, <2>4, <2>5
<1>8. QED BY <1>3, <1>7 DEF count

-----------------------------------------------------------------------------
(* Only the handlers of m and M make an access, and Reply forgets it. *)
LEMMA IoSteps ==
  ASSUME [Next]_vars
  PROVE  io' = io \/ io' = NoIo \/ HandleRead \/ HandleWrite
<1>1. CASE GdbSteps \/ GdbReads \/ CoreRuns \/ Command \/ \E w \in Writers : ConsolePuts(w)
  BY <1>1 DEF GdbSteps, GdbReads, CoreRuns, Command, ConsolePuts
<1>2. CASE Server
  <2>1. CASE Handle
    <3>1. CASE HandleSimple \/ HandleSelect \/ HandleNoAck
      BY <3>1 DEF HandleSimple, HandleSelect, HandleNoAck
    <3>2. CASE HandleResume \/ HandleStop \/ HandleMonitor
      BY <3>2 DEF HandleResume, HandleStop, HandleMonitor
    <3>3. QED BY <2>1, <3>1, <3>2 DEF Handle
  <2>2. CASE MonitorEnds \/ Reply \/ UpdateThreads \/ WalkGoesOn \/ ThreadsUpdated
    BY <2>2 DEF MonitorEnds, Reply, UpdateThreads, WalkGoesOn, ThreadsUpdated
  <2>3. CASE Recv \/ ChunkDone \/ CheckStop \/ CheckNothing \/ PollReads \/ PollTimesOut \/ Reconnect
    BY <2>3 DEF Recv, ChunkDone, CheckStop, CheckNothing, PollReads, PollTimesOut, Reconnect
  <2>4. QED BY <1>2, <2>1, <2>2, <2>3 DEF Server
<1>3. CASE UNCHANGED vars
  BY <1>3 DEF vars
<1>4. QED BY <1>1, <1>2, <1>3 DEF Next

(* write_memory with every access made writes the bytes of the packet, wherever
   they begin and however many they are, and keeps their neighbours.           *)
THEOREM WritesAreExact == Spec => []WritesExact
<1>1. Init => WritesExact
  BY DEF Init, NoIo, WritesExact
<1>2. ASSUME WritesExact, [Next]_vars PROVE WritesExact'
  <2>1. CASE HandleWrite
    <3>1. PICK x \in 0 .. MaxAddr, n \in 0 .. MaxLen, failed \in SUBSET Accesses :
             io' = [kind |-> "write", addr |-> x, len |-> n, bytes |-> Data(n),
                    mem |-> WriteMemory(Fresh, x, Data(n), failed), failed |-> failed]
      BY <2>1 DEF HandleWrite
    <3>2. x \in Nat /\ n \in Nat
      BY ServerAssumption
    <3>3. Data(n) \in Seq(Int) /\ Len(Data(n)) = n
      BY <3>2 DEF Data
    <3> DEFINE D == 0 .. MaxAddr + MaxLen + MaxRead + 8
    <3>4. D \in SUBSET Nat /\ Fresh \in [D -> Int]
      BY DEF Fresh
    <3> HIDE DEF D
    <3>5. failed = {} => WriteMemory(Fresh, x, Data(n), failed) = Patched(Fresh, x, Data(n))
      BY <3>2, <3>3, <3>4, WriteFacts
    <3>6. \A a \in DOMAIN Fresh : a \in Int
      BY DEF Fresh
    <3>7. DOMAIN Data(n) = 1 .. n
      BY <3>3
    <3>8. ASSUME NEW a \in DOMAIN Fresh
          PROVE  Patched(Fresh, x, Data(n))[a] =
                   IF a - x + 1 \in DOMAIN Data(n) THEN Data(n)[a - x + 1] ELSE a
      <4>1. Fresh[a] = a
        BY DEF Fresh
      <4>2. a \in x .. x + n - 1 <=> a - x + 1 \in 1 .. n
        BY <3>2, <3>6
      <4>3. Patched(Fresh, x, Data(n))[a] = IF a \in x .. x + n - 1 THEN Data(n)[a - x + 1] ELSE Fresh[a]
        BY <3>3 DEF Patched
      <4>4. QED BY <3>7, <4>1, <4>2, <4>3
    <3>9. QED BY <3>1, <3>5, <3>8 DEF WritesExact, Fresh
  <2>2. CASE HandleRead
    BY <2>2 DEF HandleRead, NoIo, WritesExact
  <2>3. CASE io' = io \/ io' = NoIo
    BY <1>2, <2>3 DEF WritesExact, NoIo, Fresh
  <2>4. QED BY <1>2, <2>1, <2>2, <2>3, IoSteps
<1>3. QED BY <1>1, <1>2, PTL DEF Spec

(* An m with every access made is answered with as many bytes as it asks for and
   fit, however many it asks for, and they are the bytes it names, but for the last
   few of an address within a word.                                               *)
THEOREM ReadsAreExact == Spec => []ReadsExact
<1>1. Init => ReadsExact
  BY DEF Init, NoIo, ReadsExact
<1>2. ASSUME ReadsExact, [Next]_vars PROVE ReadsExact'
  <2>1. CASE HandleRead
    <3>1. PICK x \in 0 .. MaxAddr, n \in 0 .. MaxLen, got \in 0 .. WordsRead(MaxRead) :
             io' = [NoIo EXCEPT !.kind = "read", !.addr = x, !.len = n,
                                !.bytes = ReadMemory(Fresh, x, n, got),
                                !.failed = IF got < WordsRead(MaxRead) THEN {"read"} ELSE {}]
      BY <2>1 DEF HandleRead
    <3>2. io'.addr = x /\ io'.len = n /\ io'.bytes = ReadMemory(Fresh, x, n, got)
          /\ io'.failed = IF got < WordsRead(MaxRead) THEN {"read"} ELSE {}
      BY <3>1 DEF NoIo
    <3>3. WordsRead(MaxRead) \in Nat
      BY MemoryAssumption DEF WordsRead
    <3>4. io'.failed = {} => got = WordsRead(MaxRead)
      BY <3>2, <3>3
    <3>5. io'.failed = {} =>
            /\ Len(io'.bytes) = Least(n, MaxRead)
            /\ \A i \in DOMAIN io'.bytes :
                 (x % 4) + i <= Len(io'.bytes) => io'.bytes[i] = x + i - 1
      <4>1. SUFFICES ASSUME io'.failed = {}, NEW bytes, bytes = io'.bytes
                     PROVE  /\ Len(bytes) = Least(n, MaxRead)
                            /\ \A i \in DOMAIN bytes :
                                 (x % 4) + i <= Len(bytes) => bytes[i] = x + i - 1
        OBVIOUS
      <4>2. bytes = ReadMemory(Fresh, x, n, WordsRead(MaxRead))
        BY <3>2, <3>4, <4>1
      <4>3. QED BY <4>2, ReadFacts
    <3>6. QED BY <3>2, <3>5 DEF ReadsExact
  <2>2. CASE HandleWrite
    BY <2>2 DEF HandleWrite, ReadsExact
  <2>3. CASE io' = io \/ io' = NoIo
    BY <1>2, <2>3 DEF ReadsExact, NoIo
  <2>4. QED BY <1>2, <2>1, <2>2, <2>3, IoSteps
<1>3. QED BY <1>1, <1>2, PTL DEF Spec

-----------------------------------------------------------------------------
(* What passes between gdb and gdb_server *)

Names == Requests \cup {"none", "closing", "other", "^C", "stop", "O", "Rcmd", "NoAck", ""}
Texts == {"", "OK", "E00", "E01", "saved", "core", "junk", "m1", "list", "bytes", "S05", "text"}
Bytes == {"$", "body", "#", "sum", "^C", "+", "eof"} \X Names
Msgs  == [kind : {"packet", "+", "-"}, to : Names, body : Texts, whole : BOOLEAN, alone : BOOLEAN]

WireType ==
  /\ toServer \in Seq(Bytes) /\ chunk \in Seq(Bytes) /\ toGdb \in Seq(Msgs)
  /\ rx \in [state : {"idle", "recv", "chk1", "chk2"}, body : Names, bad : {FALSE}]
  /\ req \in [cmd : Names, body : Texts]
  /\ asked \in Names

LEMMA SeqFacts ==
  ASSUME NEW S, NEW s \in Seq(S)
  PROVE  /\ <<>> \in Seq(S) /\ Len(s) \in Nat /\ (s = <<>> <=> Len(s) = 0)
         /\ \A e \in S : Append(s, e) \in Seq(S)
         /\ s # <<>> => Tail(s) \in Seq(S) /\ Head(s) \in S
OBVIOUS

(* An element more at the end, and elements less at the front *)
LEMMA Added ==
  ASSUME NEW S, NEW s \in Seq(S), NEW e \in S
  PROVE  /\ Append(s, e) \in Seq(S) /\ Len(s) \in Nat /\ Len(Append(s, e)) = Len(s) + 1
         /\ Append(s, e)[Len(s) + 1] = e
         /\ \A i \in 1 .. Len(s) : Append(s, e)[i] = s[i]
         /\ \A i \in 1 .. Len(s) + 1 : i = Len(s) + 1 \/ i \in 1 .. Len(s)
OBVIOUS

LEMMA Dropped ==
  ASSUME NEW S, NEW s \in Seq(S), NEW n \in 1 .. Len(s)
  PROVE  /\ SubSeq(s, n + 1, Len(s)) \in Seq(S)
         /\ Len(SubSeq(s, n + 1, Len(s))) = Len(s) - n
         /\ \A i \in 1 .. Len(s) - n : /\ n + i \in 1 .. Len(s)
                                     /\ SubSeq(s, n + 1, Len(s))[i] = s[n + i]
<1> DEFINE m == Len(s)
<1>1. m \in Nat /\ n \in 1 .. m
  OBVIOUS
<1>2. \A i \in n + 1 .. m : s[i] \in S
  OBVIOUS
<1> DEFINE t == SubSeq(s, n + 1, m)
<1>3. /\ t \in Seq(S) /\ Len(t) = IF n + 1 <= m THEN m - (n + 1) + 1 ELSE 0
      /\ \A i \in 1 .. m - (n + 1) + 1 : t[i] = s[n + 1 + i - 1]
  <2> HIDE DEF m
  <2>1. n + 1 \in Int /\ m \in Int
    BY <1>1
  <2>2. QED BY <1>2, <2>1, SubSeqProperties
<1> HIDE DEF m, t
<1>4. \A i \in 1 .. m - n : n + 1 + i - 1 = n + i /\ n + i \in 1 .. m
  BY <1>1
<1>5. m - (n + 1) + 1 = m - n
  BY <1>1
<1>6. Len(t) = m - n /\ \A i \in 1 .. m - n : n + i \in 1 .. m /\ t[i] = s[n + i]
  BY <1>1, <1>3, <1>4, <1>5
<1>7. QED BY <1>3, <1>6 DEF m, t

LEMMA PacketBytes ==
  ASSUME NEW c \in Names, NEW d \in Names
  PROVE  Packet(c, d) \in Seq(Bytes)
<1>1. "" \in Names
  BY DEF Names
<1>2. /\ <<"$", "">> \in Bytes /\ <<"body", c>> \in Bytes /\ <<"#", "">> \in Bytes
      /\ <<"sum", d>> \in Bytes
  BY <1>1 DEF Bytes
<1>3. ASSUME NEW a \in Bytes, NEW b \in Bytes, NEW h \in Bytes, NEW s \in Bytes
      PROVE  <<a, b, h, s, s>> \in Seq(Bytes)
  OBVIOUS
<1>4. QED BY <1>2, <1>3 DEF Packet

LEMMA SentBytes ==
  ASSUME toServer \in Seq(Bytes), NEW c \in Names, SendPacket(c)
  PROVE  toServer' \in Seq(Bytes)
<1>1. "other" \in Names
  BY DEF Names
<1>2. Packet(c, c) \in Seq(Bytes) /\ Packet("other", c) \in Seq(Bytes)
  BY <1>1, PacketBytes
<1>3. toServer' = toServer \o Packet(c, c) \/ toServer' = toServer \o Packet("other", c)
  BY DEF SendPacket
<1>4. ASSUME NEW s \in Seq(Bytes) PROVE toServer \o s \in Seq(Bytes)
  OBVIOUS
<1>5. QED BY <1>2, <1>3, <1>4

(* The packet a sender's epilogue adds to what gdb has to read. *)
LEMMA PacketSent ==
  ASSUME toGdb \in Seq(Msgs), NEW w, NEW to \in Names, NEW body \in Texts,
         Epilogue(w, to, body), asked # "closing"
  PROVE  /\ toGdb' \in Seq(Msgs) /\ Len(toGdb) \in Nat /\ Len(toGdb') = Len(toGdb) + 1
         /\ \A i \in 1 .. Len(toGdb) : toGdb'[i] = toGdb[i]
         /\ toGdb'[Len(toGdb) + 1].kind = "packet" /\ toGdb'[Len(toGdb) + 1].to = to
         /\ toGdb'[Len(toGdb) + 1].whole = (tx = <<<<w, to>>>>)
         /\ toGdb'[Len(toGdb) + 1].alone = (~overlap')
<1> DEFINE x == [kind |-> "packet", to |-> to, body |-> body,
                 whole |-> tx = <<<<w, to>>>>, alone |-> ~overlap']
<1>1. toGdb' = Append(toGdb, x)
  BY DEF Epilogue
<1>2. /\ x \in Msgs /\ x.kind = "packet" /\ x.to = to
      /\ x.whole = (tx = <<<<w, to>>>>) /\ x.alone = (~overlap')
  BY Zenon DEF Msgs
<1> HIDE DEF x
<1>3. /\ toGdb' \in Seq(Msgs) /\ Len(toGdb) \in Nat /\ Len(toGdb') = Len(toGdb) + 1
      /\ toGdb'[Len(toGdb) + 1] = x /\ \A i \in 1 .. Len(toGdb) : toGdb'[i] = toGdb[i]
  BY <1>1, <1>2
<1>4. QED BY <1>2, <1>3

-----------------------------------------------------------------------------
(* The walk of the thread list *)

WalkType ==
  /\ memory \in Shape /\ threadlist \in Seq(Nodes) /\ lkFaults \in Nat
  /\ walk \in [at : {"none", "info", "next"}, node : Nodes, list : Seq(Threads), current : Nodes]
  /\ walk.at = "none" => walk = NoWalk
  /\ walk.at = "info" => walk.node = ListHead /\ walk.list = <<>>

(* The nodes passed so far: all but the last lead to one of them. *)
OnPath(P) ==
  /\ P \subseteq memory.magic \cap Within(memory) /\ walk.node \in P \cup {ListHead}
  /\ Range(walk.list) = P \ {walk.current} /\ Len(walk.list) = Cardinality(P \ {walk.current})
  /\ \A x \in (P \cup {ListHead}) \ {walk.node} : memory.next[x] \in P

(* Either the walk has passed no node twice, or it will never come to the head. *)
Walking ==
  walk.at = "next" =>
    /\ memory.info /\ walk.current = memory.current /\ memory.current \in memory.magic
    /\ walk.node \in Within(memory) \cup {ListHead}
    /\ ListHead \notin Within(memory) \/ \E P \in SUBSET Threads : OnPath(P)

(* What the walk found is the list that is in memory. *)
ListIsTarget ==
  threadlist # <<>> =>
    /\ Sound(memory) /\ threadlist[1] = memory.current
    /\ Len(threadlist) = Cardinality(Range(threadlist))
    /\ Range(threadlist) = OnList(memory) \cup {memory.current}

LEMMA WithinFacts ==
  ASSUME NEW m \in Shape
  PROVE  /\ Within(m) \subseteq Nodes /\ m.next[ListHead] \in Within(m)
         /\ \A n \in Within(m) : m.next[n] \in Within(m)
         /\ \A S \in SUBSET Nodes : Closed(m, S) => Within(m) \subseteq S
<1>1. ListHead \in Nodes /\ m.next \in [Nodes -> Nodes]
  BY DEF Nodes, Shape
<1>2. QED BY <1>1 DEF Within, Closed

LEMMA OneMore ==
  ASSUME NEW S, NEW s \in Seq(S), NEW n \in S
  PROVE  /\ <<n>> \o s \in Seq(S) /\ Len(<<n>> \o s) = Len(s) + 1 /\ (<<n>> \o s)[1] = n
         /\ Range(<<n>> \o s) = Range(s) \cup {n}
<1> DEFINE t == <<n>> \o s
<1>1. /\ t \in Seq(S) /\ Len(t) = Len(s) + 1 /\ t[1] = n /\ Len(s) \in Nat
      /\ \A i \in 1 .. Len(s) : t[i + 1] = s[i]
  OBVIOUS
<1>2. DOMAIN t = 1 .. Len(s) + 1 /\ DOMAIN s = 1 .. Len(s)
  BY <1>1
<1> HIDE DEF t
<1>3. Range(t) \subseteq Range(s) \cup {n}
  <2>1. ASSUME NEW i \in DOMAIN t PROVE t[i] \in Range(s) \cup {n}
    <3>1. CASE i = 1
      BY <1>1, <3>1
    <3>2. CASE i # 1
      <4>1. i - 1 \in 1 .. Len(s) /\ (i - 1) + 1 = i
        BY <1>1, <1>2, <3>2
      <4>2. t[i] = s[i - 1]
        BY <1>1, <4>1
      <4>3. QED BY <1>2, <4>1, <4>2 DEF Range
    <3>3. QED BY <3>1, <3>2
  <2>2. QED BY <2>1 DEF Range
<1>4. Range(s) \cup {n} \subseteq Range(t)
  <2>1. ASSUME NEW i \in DOMAIN s PROVE s[i] \in Range(t)
    <3>1. i + 1 \in DOMAIN t /\ t[i + 1] = s[i]
      BY <1>1, <1>2
    <3>2. QED BY <3>1 DEF Range
  <2>2. 1 \in DOMAIN t
    BY <1>1, <1>2
  <2>3. n \in Range(t)
    BY <1>1, <2>2 DEF Range
  <2>4. QED BY <2>1, <2>3 DEF Range
<1>5. QED BY <1>1, <1>3, <1>4 DEF t

LEMMA PathSize ==
  ASSUME NEW P \in SUBSET Threads, NEW c
  PROVE  /\ Cardinality(P \ {c}) \in Nat /\ Cardinality(P \ {c}) <= Cardinality(Threads)
         /\ Cardinality(Threads) \in Nat /\ IsFiniteSet(P)
         /\ \A n \in Threads : n \notin P /\ n # c =>
              Cardinality((P \cup {n}) \ {c}) = Cardinality(P \ {c}) + 1
         /\ Cardinality(P \cup {c}) = Cardinality(P \ {c}) + 1
<1>1. IsFiniteSet(Threads)
  BY LkAssumption
<1>2. IsFiniteSet(P) /\ IsFiniteSet(P \ {c}) /\ Cardinality(P \ {c}) <= Cardinality(Threads)
  <2>1. P \ {c} \in SUBSET Threads
    OBVIOUS
  <2>2. QED BY <1>1, <2>1, FS_Subset
<1>3. Cardinality(P \ {c}) \in Nat /\ Cardinality(Threads) \in Nat
  BY <1>1, <1>2, FS_CardinalityType
<1>4. ASSUME NEW n \in Threads, n \notin P, n # c
      PROVE  Cardinality((P \cup {n}) \ {c}) = Cardinality(P \ {c}) + 1
  <2>1. (P \cup {n}) \ {c} = (P \ {c}) \cup {n} /\ n \notin P \ {c}
    BY <1>4
  <2>2. QED BY <1>2, <2>1, FS_AddElement
<1>5. Cardinality(P \cup {c}) = Cardinality(P \ {c}) + 1
  <2>1. P \cup {c} = (P \ {c}) \cup {c} /\ c \notin P \ {c}
    OBVIOUS
  <2>2. QED BY <1>2, <2>1, FS_AddElement
<1>6. QED BY <1>2, <1>3, <1>4, <1>5

LEMMA WalkTypeStep ==
  ASSUME WalkType, Walk
  PROVE  WalkType' /\ (walk'.at = "next" \/ walk' = NoWalk)
<1>1. memory' = memory /\ lkFaults' \in Nat /\ memory.current \in Nodes
  BY DEF WalkType, Walk, WalkInfo, WalkNext, Fails, WalkEnds, Shape, Nodes
<1>2. CASE WalkInfo
  <2>1. CASE walk' = [walk EXCEPT !.at = "next", !.current = memory.current] /\ UNCHANGED threadlist
    BY <1>1, <2>1 DEF WalkType, NoWalk
  <2>2. CASE WalkEnds(<<>>)
    BY <1>1, <2>2 DEF WalkType, WalkEnds, NoWalk, Nodes
  <2>3. \/ walk' = [walk EXCEPT !.at = "next", !.current = memory.current] /\ UNCHANGED threadlist
        \/ WalkEnds(<<>>)
    BY <1>2 DEF WalkInfo
  <2>4. QED BY <2>1, <2>2, <2>3
<1>3. CASE WalkNext
  <2> DEFINE n == memory.next[walk.node]
  <2>1. n \in Nodes /\ walk.current \in Nodes /\ walk.list \in Seq(Threads) /\ walk.at = "next"
    BY <1>3 DEF WalkType, Shape, WalkNext
  <2>2. n # ListHead => n \in Threads
    BY <2>1 DEF Nodes
  <2>3. n # ListHead => Keep(n) \in Seq(Threads)
    BY <2>1, <2>2, OneMore DEF Keep
  <2>4. <<walk.current>> \o walk.list \in Seq(Nodes)
    <3>1. walk.list \in Seq(Nodes)
      BY <2>1 DEF Nodes
    <3>2. QED BY <2>1, <3>1, OneMore
  <2>5. \/ WalkEnds(<<walk.current>> \o walk.list)
        \/ WalkEnds(<<>>)
        \/ n # ListHead /\ walk' = [walk EXCEPT !.node = n] /\ UNCHANGED threadlist
        \/ n # ListHead /\ walk' = [walk EXCEPT !.node = n, !.list = Keep(n)] /\ UNCHANGED threadlist
    BY <1>3 DEF WalkNext, Passing
  <2> HIDE DEF n
  <2>6. CASE WalkEnds(<<walk.current>> \o walk.list) \/ WalkEnds(<<>>)
    <3>1. threadlist' \in Seq(Nodes)
      <4>1. threadlist' = <<walk.current>> \o walk.list \/ threadlist' = <<>>
        BY <2>6 DEF WalkEnds
      <4>2. <<>> \in Seq(Nodes)
        OBVIOUS
      <4>3. QED BY <2>4, <4>1, <4>2, Zenon
    <3>2. walk' = NoWalk
      BY <2>6 DEF WalkEnds
    <3>3. QED BY <1>1, <3>1, <3>2 DEF WalkType, NoWalk, Nodes
  <2>7. CASE n # ListHead /\ walk' = [walk EXCEPT !.node = n] /\ UNCHANGED threadlist
    BY <1>1, <2>1, <2>7 DEF WalkType, NoWalk
  <2>8. CASE n # ListHead /\ walk' = [walk EXCEPT !.node = n, !.list = Keep(n)] /\ UNCHANGED threadlist
    BY <1>1, <2>1, <2>3, <2>8 DEF WalkType, NoWalk
  <2>9. QED BY <2>5, <2>6, <2>7, <2>8
<1>4. QED BY <1>2, <1>3 DEF Walk

(* A step along a list: the path grows by a node, or closes on itself. *)
LEMMA PathGrows ==
  ASSUME WalkType, NEW P \in SUBSET Threads, OnPath(P), NEW n \in Threads,
         n = memory.next[walk.node], n \in Within(memory), n \in memory.magic,
         memory' = memory, walk'.node = n, walk'.current = walk.current,
         walk'.list = IF n = walk.current THEN walk.list ELSE Keep(n)
  PROVE  ListHead \notin Within(memory) \/ OnPath(P \cup {n})'
<1> USE DEF OnPath
<1>1. ListHead \notin Threads /\ memory \in Shape /\ walk.list \in Seq(Threads)
  BY LkAssumption DEF WalkType
<1>2. CASE n \in P
  <2>1. \A x \in P \cup {ListHead} : memory.next[x] \in P
    BY <1>2
  <2>2. Closed(memory, P) /\ P \in SUBSET Nodes
    BY <2>1 DEF Closed, Nodes
  <2>3. Within(memory) \subseteq P
    BY <1>1, <2>2, WithinFacts
  <2>4. QED BY <1>1, <2>3
<1>3. CASE n \notin P
  <2> DEFINE Q == P \cup {n}
             c == walk.current
  <2>1. Q \subseteq memory.magic \cap Within(memory)
    BY <1>3
  <2>2. \A x \in (Q \cup {ListHead}) \ {n} : memory.next[x] \in Q
    <3>1. SUFFICES ASSUME NEW x \in (Q \cup {ListHead}) \ {n} PROVE memory.next[x] \in Q
      OBVIOUS
    <3>2. CASE x = walk.node
      BY <3>2
    <3>3. CASE x # walk.node
      BY <3>1, <3>3
    <3>4. QED BY <3>2, <3>3
  <2>3. Range(walk'.list) = Q \ {c} /\ Len(walk'.list) = Cardinality(Q \ {c})
    <3>1. CASE n = c
      <4>1. Q \ {c} = P \ {c} /\ walk'.list = walk.list
        BY <3>1
      <4>2. QED BY <4>1
    <3>2. CASE n # c
      <4>1. Len(walk.list) < Cardinality(Threads)
        <5>1. /\ Cardinality(Q \ {c}) = Cardinality(P \ {c}) + 1
              /\ Cardinality(Q \ {c}) <= Cardinality(Threads)
          BY <1>3, <3>2, PathSize
        <5>2. Cardinality(P \ {c}) \in Nat /\ Cardinality(Threads) \in Nat
          BY PathSize
        <5>3. QED BY <5>1, <5>2
      <4>2. walk'.list = <<n>> \o walk.list
        BY <3>2, <4>1 DEF Keep
      <4>3. /\ Len(walk'.list) = Len(walk.list) + 1 /\ Range(walk'.list) = Range(walk.list) \cup {n}
        <5>1. /\ Len(<<n>> \o walk.list) = Len(walk.list) + 1
              /\ Range(<<n>> \o walk.list) = Range(walk.list) \cup {n}
          BY <1>1, OneMore
        <5>2. QED BY <4>2, <5>1, Zenon
      <4>4. Cardinality(Q \ {c}) = Cardinality(P \ {c}) + 1
        BY <1>3, <3>2, PathSize
      <4>5. Q \ {c} = (P \ {c}) \cup {n}
        BY <3>2
      <4>6. QED BY <4>3, <4>4, <4>5
    <3>3. QED BY <3>1, <3>2
  <2> HIDE DEF Q
  <2>4. Within(memory)' = Within(memory)
    BY DEF Within, Closed
  <2>5. n \in Q
    BY DEF Q
  <2>6. OnPath(Q)'
    BY <2>1, <2>2, <2>3, <2>4, <2>5
  <2>7. QED BY <2>6 DEF Q
<1>4. QED BY <1>2, <1>3

(* At the head, the path is the list. *)
LEMMA PathIsList ==
  ASSUME WalkType, NEW P \in SUBSET Threads, OnPath(P), memory.next[walk.node] = ListHead,
         memory.info, walk.current = memory.current, memory.current \in memory.magic,
         walk.node \in Within(memory) \cup {ListHead},
         memory' = memory, threadlist' = <<walk.current>> \o walk.list
  PROVE  ListIsTarget'
<1> DEFINE c == memory.current
<1>1. /\ ListHead \notin Threads /\ memory \in Shape /\ walk.list \in Seq(Threads)
      /\ c \in Threads
  BY LkAssumption DEF WalkType, Shape
<1>2. P \subseteq Within(memory) /\ P \subseteq memory.magic
  BY DEF OnPath
<1>3. ListHead \in Within(memory)
  BY <1>1, WithinFacts
<1>4. Within(memory) \subseteq P \cup {ListHead}
  <2>1. \A x \in P \cup {ListHead} : memory.next[x] \in P \cup {ListHead}
    BY DEF OnPath
  <2>2. Closed(memory, P \cup {ListHead}) /\ P \cup {ListHead} \in SUBSET Nodes
    BY <2>1 DEF Closed, Nodes
  <2>3. QED BY <1>1, <2>2, WithinFacts
<1>5. OnList(memory) = P
  BY <1>1, <1>2, <1>4 DEF OnList
<1>6. Sound(memory)
  BY <1>2, <1>3, <1>5 DEF Sound
<1>7. /\ Len(threadlist') = Cardinality(P \ {c}) + 1 /\ threadlist'[1] = c
      /\ Range(threadlist') = (P \ {c}) \cup {c}
  BY <1>1, OneMore DEF OnPath
<1>8. (P \ {c}) \cup {c} = P \cup {c}
  OBVIOUS
<1>9. Cardinality(P \cup {c}) = Cardinality(P \ {c}) + 1
  BY PathSize
<1>10. Sound(memory') /\ OnList(memory') = P /\ memory'.current = c
  BY <1>5, <1>6
<1> HIDE DEF c
<1>11. QED BY <1>7, <1>8, <1>9, <1>10 DEF ListIsTarget

LEMMA WalkStep ==
  ASSUME WalkType, Walking, ListIsTarget, Walk
  PROVE  /\ Walking' /\ ListIsTarget'
         /\ walk' = NoWalk /\ Sound(memory) /\ lkFaults' = 0 => threadlist' # <<>>
<1>1. memory' = memory /\ memory \in Shape /\ lkFaults \in Nat /\ (Fails => lkFaults' # 0)
  BY DEF WalkType, Walk, WalkInfo, WalkNext, Fails
<1>2. Within(memory)' = Within(memory) /\ Sound(memory)' = Sound(memory)
  BY <1>1 DEF Within, Closed, Sound, OnList
<1>3. ASSUME WalkEnds(<<>>), Sound(memory) => lkFaults' # 0
      PROVE  /\ Walking' /\ ListIsTarget'
             /\ walk' = NoWalk /\ Sound(memory) /\ lkFaults' = 0 => threadlist' # <<>>
  BY <1>3 DEF WalkEnds, NoWalk, Walking, ListIsTarget
<1>4. ASSUME UNCHANGED threadlist, Walking', walk'.at = "next"
      PROVE  /\ Walking' /\ ListIsTarget'
             /\ walk' = NoWalk /\ Sound(memory) /\ lkFaults' = 0 => threadlist' # <<>>
  BY <1>1, <1>4 DEF ListIsTarget, NoWalk
<1>5. CASE WalkInfo
  <2>1. CASE /\ memory.info /\ HasMagic(memory.current)
             /\ walk' = [walk EXCEPT !.at = "next", !.current = memory.current]
             /\ UNCHANGED threadlist
    <3>1. /\ walk'.at = "next" /\ walk'.node = ListHead /\ walk'.list = <<>>
          /\ walk'.current = memory.current
      BY <1>5, <2>1 DEF WalkType, WalkInfo
    <3>2. OnPath({})'
      <4>1. Range(<<>>) = {} /\ Len(<<>>) = 0
        BY DEF Range
      <4>2. Cardinality({} \ {memory.current}) = 0
        <5>1. {} \ {memory.current} = {}
          OBVIOUS
        <5>2. QED BY <5>1, FS_EmptySet
      <4>3. QED BY <1>1, <3>1, <4>1, <4>2 DEF OnPath
    <3>3. Walking'
      BY <1>1, <2>1, <3>1, <3>2 DEF Walking, HasMagic
    <3>4. QED BY <1>4, <2>1, <3>1, <3>3
  <2>2. CASE ~(memory.info /\ HasMagic(memory.current)) /\ WalkEnds(<<>>)
    <3>1. ~Sound(memory)
      BY <2>2 DEF Sound, HasMagic
    <3>2. QED BY <1>3, <2>2, <3>1
  <2>3. CASE Fails /\ WalkEnds(<<>>)
    BY <1>1, <1>3, <2>3
  <2>4. QED BY <1>5, <2>1, <2>2, <2>3 DEF WalkInfo
<1>6. CASE WalkNext
  <2> DEFINE n == memory.next[walk.node]
  <2>1. /\ walk.at = "next" /\ memory.info /\ walk.current = memory.current
        /\ memory.current \in memory.magic /\ walk.node \in Within(memory) \cup {ListHead}
    BY <1>6 DEF WalkNext, Walking
  <2>2. n \in Within(memory) /\ n \in Nodes
    BY <1>1, <2>1, WithinFacts
  <2>3. ASSUME n # ListHead, n \in memory.magic, walk'.at = "next", walk'.node = n,
               walk'.current = walk.current, UNCHANGED threadlist,
               walk'.list = IF n = walk.current THEN walk.list ELSE Keep(n)
        PROVE  Walking'
    <3>1. n \in Threads
      BY <2>2, <2>3 DEF Nodes
    <3>2. ListHead \notin Within(memory) \/ \E P \in SUBSET Threads : OnPath(P)'
      <4>1. CASE ListHead \notin Within(memory)
        BY <4>1
      <4>2. ASSUME NEW P \in SUBSET Threads, OnPath(P)
            PROVE  ListHead \notin Within(memory) \/ \E Q \in SUBSET Threads : OnPath(Q)'
        <5>1. PICK k \in Threads : k = n
          BY <3>1
        <5>2. /\ k = memory.next[walk.node] /\ k \in Within(memory) /\ k \in memory.magic
              /\ walk'.node = k /\ walk'.list = IF k = walk.current THEN walk.list ELSE Keep(k)
          BY <2>2, <2>3, <5>1
        <5> HIDE DEF n
        <5>3. ListHead \notin Within(memory) \/ OnPath(P \cup {k})'
          BY <1>1, <2>3, <4>2, <5>2, PathGrows
        <5>4. P \cup {k} \in SUBSET Threads
          OBVIOUS
        <5>5. QED BY <5>3, <5>4
      <4>3. QED BY <2>1, <4>1, <4>2 DEF Walking
    <3>3. QED BY <1>1, <1>2, <2>1, <2>2, <2>3, <3>2 DEF Walking
  <2>4. CASE n = ListHead /\ WalkEnds(<<walk.current>> \o walk.list)
    <3>1. ListHead \in Within(memory) /\ walk' = NoWalk /\ threadlist' = <<walk.current>> \o walk.list
      BY <2>2, <2>4 DEF WalkEnds
    <3>2. PICK P \in SUBSET Threads : OnPath(P)
      BY <2>1, <3>1 DEF Walking
    <3>3. ListIsTarget'
      BY <1>1, <2>1, <2>4, <3>1, <3>2, PathIsList
    <3>4. Walking'
      BY <3>1 DEF Walking, NoWalk
    <3>5. threadlist' # <<>>
      <4>1. walk.list \in Seq(Threads)
        BY DEF WalkType
      <4>2. Len(<<walk.current>> \o walk.list) = Len(walk.list) + 1 /\ Len(walk.list) \in Nat
        BY <4>1
      <4>3. QED BY <3>1, <4>2
    <3>6. QED BY <3>3, <3>4, <3>5
  <2>5. CASE n # ListHead /\ IsCurrent(n) /\ walk' = [walk EXCEPT !.node = n] /\ UNCHANGED threadlist
    <3>1. /\ n = walk.current /\ walk'.at = "next" /\ walk'.node = n
          /\ walk'.current = walk.current /\ walk'.list = walk.list
      BY <2>1, <2>5 DEF WalkType, IsCurrent
    <3>2. Walking'
      BY <2>1, <2>3, <2>5, <3>1
    <3>3. QED BY <1>4, <2>5, <3>1, <3>2
  <2>6. CASE /\ n # ListHead /\ ~IsCurrent(n) /\ HasMagic(n)
             /\ walk' = [walk EXCEPT !.node = n, !.list = Keep(n)] /\ UNCHANGED threadlist
    <3>1. /\ n # walk.current /\ n \in memory.magic /\ walk'.at = "next" /\ walk'.node = n
          /\ walk'.current = walk.current /\ walk'.list = Keep(n)
      BY <2>1, <2>6 DEF WalkType, IsCurrent, HasMagic
    <3>2. Walking'
      BY <2>3, <2>6, <3>1
    <3>3. QED BY <1>4, <2>6, <3>1, <3>2
  <2>7. CASE n # ListHead /\ ~HasMagic(n) /\ WalkEnds(<<>>)
    <3>1. ~Sound(memory)
      BY <2>2, <2>7 DEF Sound, HasMagic, OnList
    <3>2. QED BY <1>3, <2>7, <3>1
  <2>8. CASE Fails /\ WalkEnds(<<>>)
    BY <1>1, <1>3, <2>8
  <2>9. \/ n = ListHead /\ WalkEnds(<<walk.current>> \o walk.list)
        \/ n # ListHead /\ IsCurrent(n) /\ walk' = [walk EXCEPT !.node = n] /\ UNCHANGED threadlist
        \/ /\ n # ListHead /\ ~IsCurrent(n) /\ HasMagic(n)
           /\ walk' = [walk EXCEPT !.node = n, !.list = Keep(n)] /\ UNCHANGED threadlist
        \/ n # ListHead /\ ~HasMagic(n) /\ WalkEnds(<<>>)
        \/ Fails /\ WalkEnds(<<>>)
    BY <1>6, Zenon DEF WalkNext, Passing
  <2>10. QED BY <2>4, <2>5, <2>6, <2>7, <2>8, <2>9
<1>7. QED BY <1>5, <1>6 DEF Walk

-----------------------------------------------------------------------------
(* What is on the wire keeps its type. *)

LEMMA GdbWire ==
  ASSUME WireType, GdbSteps \/ GdbReads
  PROVE  WireType'
<1> USE DEF WireType
<1>1. /\ UNCHANGED <<chunk, rx, req>>
      /\ \A k \in {"^C", "eof", "+"} : <<k, "">> \in Bytes
  BY DEF GdbSteps, GdbReads, rxVars, Bytes, Names
<1>2. \A k \in {"^C", "eof", "+"} : Append(toServer, <<k, "">>) \in Seq(Bytes)
  BY <1>1, SeqFacts
<1>3. ASSUME NEW c \in Requests, SendPacket(c), UNCHANGED toGdb, asked' = c PROVE WireType'
  <2>1. c \in Names
    BY DEF Names
  <2>2. toServer' \in Seq(Bytes)
    BY <1>3, <2>1, SentBytes
  <2>3. QED BY <1>1, <1>3, <2>1, <2>2
<1>4. ASSUME Close PROVE WireType'
  <2>1. "closing" \in Names
    BY DEF Names
  <2>2. toServer' \in Seq(Bytes) /\ toGdb' \in Seq(Msgs)
    <3>1. toServer' = Append(toServer, <<"eof", "">>) /\ toGdb' = <<>>
      BY <1>4 DEF Close
    <3>2. <<>> \in Seq(Msgs)
      OBVIOUS
    <3>3. QED BY <1>2, <3>1, <3>2, Zenon
  <2>3. QED BY <1>1, <1>4, <2>1, <2>2 DEF Close
<1>5. CASE GdbSteps
  <2>1. CASE GdbInterrupts \/ GdbGivesUp
    <3>1. "none" \in Names
      BY DEF Names
    <3>2. toServer' = toServer \/ toServer' = Append(toServer, <<"^C", "">>)
      BY <2>1 DEF GdbInterrupts, GdbGivesUp, links
    <3>3. toServer' \in Seq(Bytes)
      BY <1>2, <3>2
    <3>4. QED BY <1>1, <2>1, <3>1, <3>3 DEF GdbInterrupts, GdbGivesUp, links
  <2>2. CASE GdbAsks
    BY <1>3, <2>2 DEF GdbAsks
  <2>3. CASE GdbQuits
    BY <1>4, <2>3 DEF GdbQuits
  <2>4. QED BY <1>5, <2>1, <2>2, <2>3 DEF GdbSteps
<1>6. CASE GdbTakes
  <2>1. toGdb' \in Seq(Msgs)
    <3>1. toGdb # <<>> /\ toGdb' = Tail(toGdb)
      BY <1>6 DEF GdbTakes
    <3>2. QED BY <3>1, SeqFacts, Zenon
  <2>2. toServer' \in Seq(Bytes)
    <3>1. CASE SendPacket(asked)
      BY <3>1, SentBytes
    <3>2. CASE toServer' = toServer \/ toServer' = Append(toServer, <<"+", "">>)
      BY <1>2, <3>2
    <3>3. \/ SendPacket(asked) \/ toServer' = toServer
          \/ toServer' = Append(toServer, <<"+", "">>)
      BY <1>6, Zenon DEF GdbTakes
    <3>4. QED BY <3>1, <3>2, <3>3
  <2>3. asked' \in Names
    BY <1>6 DEF GdbTakes, Names
  <2>4. QED BY <1>1, <2>1, <2>2, <2>3
<1>7. QED BY <1>4, <1>5, <1>6 DEF GdbReads, GdbRefuses

LEMMA HandleWire ==
  ASSUME WireType, Handle \/ CheckStop
  PROVE  WireType'
<1>1. UNCHANGED <<asked, toServer, toGdb, chunk, rx>>
  BY DEF Handle, CheckStop, Rest, rxVars, gdbVars
<1>2. req.cmd \in Names /\ "stop" \in Names
  BY DEF WireType, Names
<1>3. req' \in [cmd : Names, body : Texts]
  <2>1. ASSUME NEW cmd \in Names, NEW body \in Texts, Compose(cmd, body)
        PROVE  req' \in [cmd : Names, body : Texts]
    BY <2>1 DEF Compose
  <2>2. CASE Handle
    <3>1. CASE HandleSimple
      <4>1. ASSUME NEW body \in Bodies(req.cmd) PROVE body \in Texts
        BY DEF Bodies, Texts
      <4>2. QED BY <1>2, <2>1, <3>1, <4>1 DEF HandleSimple
    <3>2. CASE HandleSelect \/ HandleRead \/ HandleWrite \/ HandleNoAck \/ HandleStop
      <4>1. \E body \in {"OK", "bytes", "S05"} : Compose(req.cmd, body)
        BY <3>2 DEF HandleSelect, HandleRead, HandleWrite, HandleNoAck, HandleStop
      <4>2. QED BY <1>2, <2>1, <4>1 DEF Texts
    <3>3. CASE HandleResume \/ HandleMonitor
      <4>1. NoRequest \in [cmd : Names, body : Texts]
        BY DEF NoRequest, Names, Texts
      <4>2. req' = req \/ req' = NoRequest
        BY <3>3 DEF HandleResume, HandleMonitor
      <4>3. QED BY <4>1, <4>2 DEF WireType
    <3>4. QED BY <2>2, <3>1, <3>2, <3>3 DEF Handle
  <2>3. CASE CheckStop
    BY <1>2, <2>1, <2>3 DEF CheckStop, Texts
  <2>4. QED BY <2>2, <2>3
<1>4. QED BY <1>1, <1>3 DEF WireType

(* A packet is sent, or dropped because gdb has closed the connection. *)
LEMMA EpilogueWire ==
  ASSUME toGdb \in Seq(Msgs), NEW w, NEW to \in Names, NEW body \in Texts, Epilogue(w, to, body)
  PROVE  toGdb' \in Seq(Msgs)
<1>1. CASE asked = "closing"
  BY <1>1 DEF Epilogue
<1>2. CASE asked # "closing"
  BY <1>2, PacketSent
<1>3. QED BY <1>1, <1>2

LEMMA RecvWire ==
  ASSUME WireType, Recv
  PROVE  WireType'
<1>1. chunk # <<>> /\ Head(chunk) \in Bytes /\ Tail(chunk) \in Seq(Bytes)
  BY SeqFacts DEF Recv, WireType
<1>2. Head(chunk)[2] \in Names
  BY <1>1 DEF Bytes
<1>3. UNCHANGED <<asked, toServer>>
  BY DEF Recv, Rest, gdbVars
<1>4. "none" \in Names /\ "^C" \in Names /\ "" \in Texts /\ rx.body \in Names
  BY DEF Names, Texts, WireType
<1>5. ASSUME NEW state \in {"idle", "recv", "chk1", "chk2"}, NEW body \in Names,
             Take(state, body, FALSE)
      PROVE  /\ chunk' \in Seq(Bytes)
             /\ rx' \in [state : {"idle", "recv", "chk1", "chk2"}, body : Names, bad : {FALSE}]
  BY <1>1, <1>5 DEF Take
<1>6. /\ chunk' \in Seq(Bytes)
      /\ rx' \in [state : {"idle", "recv", "chk1", "chk2"}, body : Names, bad : {FALSE}]
  BY <1>2, <1>4, <1>5 DEF Recv, Idles, Checked
<1>7. req' \in [cmd : Names, body : Texts]
  <2>1. \/ req' = req \/ req' = [cmd |-> "^C", body |-> ""] \/ req' = [cmd |-> rx.body, body |-> ""]
    BY DEF Recv, Checked
  <2>2. ASSUME NEW c \in Names PROVE [cmd |-> c, body |-> ""] \in [cmd : Names, body : Texts]
    BY <1>4
  <2>3. QED BY <1>4, <2>1, <2>2, Zenon DEF WireType
<1>8. toGdb' \in Seq(Msgs)
  <2>1. ASSUME NEW b
        PROVE  [kind |-> AckOf(b), to |-> rx.body, body |-> "", whole |-> TRUE, alone |-> TRUE]
                 \in Msgs
    BY <1>4 DEF Msgs, AckOf
  <2>2. \/ toGdb' = toGdb
        \/ \E b : toGdb' = Append(toGdb, [kind |-> AckOf(b), to |-> rx.body, body |-> "",
                                          whole |-> TRUE, alone |-> TRUE])
    BY DEF Recv, Checked
  <2>3. ASSUME NEW m \in Msgs PROVE Append(toGdb, m) \in Seq(Msgs)
    BY DEF WireType
  <2>4. QED BY <2>1, <2>2, <2>3 DEF WireType
<1>9. QED BY <1>3, <1>6, <1>7, <1>8 DEF WireType

LEMMA PollWire ==
  ASSUME WireType, PollReads
  PROVE  WireType'
<1>1. PICK n \in {1, Len(toServer)} :
        /\ chunk' = SubSeq(toServer, 1, n) /\ toServer' = SubSeq(toServer, n + 1, Len(toServer))
  BY DEF PollReads
<1>2. toServer \in Seq(Bytes) /\ Len(toServer) \in Nat /\ Len(toServer) >= 1
  <2>1. toServer \in Seq(Bytes) /\ toServer # <<>>
    BY DEF WireType, PollReads
  <2>2. QED BY <2>1, SeqFacts
<1>3. chunk' \in Seq(Bytes) /\ toServer' \in Seq(Bytes)
  BY <1>1, <1>2
<1>4. QED BY <1>3 DEF WireType, PollReads, gdbVars

LEMMA WireStep == WireType /\ [Next]_vars => WireType'
<1> SUFFICES ASSUME WireType, [Next]_vars PROVE WireType'
  OBVIOUS
<1>1. CASE UNCHANGED vars
  BY <1>1 DEF vars, WireType, gdbVars, links, rxVars
<1>2. CASE CoreRuns \/ Command
  BY <1>2 DEF CoreRuns, Command, WireType, gdbVars, links, rxVars
<1>3. CASE \E w \in Writers : ConsolePuts(w)
  <2>1. PICK w \in Writers : ConsolePuts(w)
    BY <1>3
  <2>2. "O" \in Names /\ "text" \in Texts
    BY DEF Names, Texts
  <2>3. toGdb' \in Seq(Msgs)
    BY <2>1, <2>2, EpilogueWire DEF ConsolePuts, PutsEnter, PutsPrologue, PutsText, PutsSend, WireType
  <2>4. QED BY <2>1, <2>3 DEF ConsolePuts, WireType, gdbVars, rxVars
<1>4. CASE MonitorEnds \/ UpdateThreads \/ WalkGoesOn \/ ThreadsUpdated \/ ChunkDone
           \/ CheckNothing \/ PollTimesOut
  <2>1. UNCHANGED <<asked, toServer, toGdb, chunk, rx>>
    BY <1>4 DEF MonitorEnds, UpdateThreads, WalkGoesOn, ThreadsUpdated, ChunkDone, CheckNothing,
       PollTimesOut, Rest, gdbVars, rxVars
  <2>2. req' \in [cmd : Names, body : Texts]
    <3>1. req' = req \/ req' = NoRequest \/ req' = [req EXCEPT !.body = "OK"]
      BY <1>4 DEF MonitorEnds, UpdateThreads, WalkGoesOn, ThreadsUpdated, ChunkDone, CheckNothing,
         PollTimesOut
    <3>2. NoRequest \in [cmd : Names, body : Texts] /\ "OK" \in Texts
      BY DEF NoRequest, Names, Texts
    <3>3. QED BY <3>1, <3>2 DEF WireType
  <2>3. QED BY <2>1, <2>2 DEF WireType
<1>5. CASE Reply
  <2>1. req.cmd \in Names /\ req.body \in Texts
    BY DEF WireType
  <2>2. toGdb' \in Seq(Msgs)
    BY <1>5, <2>1, EpilogueWire DEF Reply, WireType
  <2>3. NoRequest \in [cmd : Names, body : Texts]
    BY DEF NoRequest, Names, Texts
  <2>4. QED BY <1>5, <2>2, <2>3 DEF Reply, WireType, Rest, gdbVars, rxVars
<1>6. CASE Reconnect
  <2>1. "none" \in Names
    BY DEF Names
  <2>2. toServer' = <<>> /\ toGdb' = <<>> /\ chunk' = <<>> /\ asked' = "none" /\ req' = req
    BY <1>6 DEF Reconnect
  <2>3. rx' \in [state : {"idle", "recv", "chk1", "chk2"}, body : Names, bad : {FALSE}]
    BY <1>6, <2>1, Zenon DEF Reconnect
  <2>4. <<>> \in Seq(Bytes) /\ <<>> \in Seq(Msgs)
    OBVIOUS
  <2>5. QED BY <2>1, <2>2, <2>3, <2>4, Zenon DEF WireType
<1>7. CASE Handle \/ CheckStop
  BY <1>7, HandleWire
<1>8. CASE GdbSteps \/ GdbReads
  BY <1>8, GdbWire
<1>9. CASE Recv
  BY <1>9, RecvWire
<1>10. CASE PollReads
  BY <1>10, PollWire
<1>11. QED BY <1>1, <1>2, <1>3, <1>4, <1>5, <1>6, <1>7, <1>8, <1>9, <1>10 DEF Next, Server

LEMMA InitWire == Init => WireType
<1> SUFFICES ASSUME Init PROVE WireType
  OBVIOUS
<1>1. "none" \in Names /\ "" \in Texts
  BY DEF Names, Texts
<1>2. rx \in [state : {"idle", "recv", "chk1", "chk2"}, body : Names, bad : {FALSE}]
  BY <1>1, Zenon DEF Init
<1>3. toServer = <<>> /\ toGdb = <<>> /\ chunk = <<>> /\ asked = "none" /\ req = NoRequest
  BY DEF Init
<1>4. <<>> \in Seq(Bytes) /\ <<>> \in Seq(Msgs)
  OBVIOUS
<1>5. NoRequest \in [cmd : Names, body : Texts]
  BY <1>1 DEF NoRequest
<1>6. QED BY <1>1, <1>2, <1>3, <1>4, <1>5, Zenon DEF WireType

-----------------------------------------------------------------------------
(* The end of a connection: gdb, having closed it, is sent nothing, and a
   connection has no end before it is closed.                              *)

Eof == <<"eof", "">>
Open == \A i \in 1 .. Len(toServer) : toServer[i] # Eof
Closing == /\ asked = "closing" => ~met /\ toGdb = <<>>
           /\ asked # "closing" => Open

(* What gdb sends while the connection is open does not end it. *)
LEMMA StaysOpen ==
  ASSUME toServer \in Seq(Bytes), Open, NEW s \in Seq(Bytes), toServer' = toServer \o s,
         \A i \in 1 .. Len(s) : s[i] # Eof
  PROVE  Open'
<1> DEFINE n == Len(toServer)
<1>1. /\ n \in Nat /\ Len(s) \in Nat /\ Len(toServer') = n + Len(s)
      /\ \A i \in 1 .. n : toServer'[i] = toServer[i]
      /\ \A i \in n + 1 .. n + Len(s) : toServer'[i] = s[i - n]
  OBVIOUS
<1>2. \A i \in 1 .. n : toServer[i] # Eof
  BY DEF Open
<1> HIDE DEF n
<1>3. SUFFICES ASSUME NEW i \in 1 .. n + Len(s) PROVE toServer'[i] # Eof
  BY <1>1 DEF Open
<1>4. CASE i \in 1 .. n
  BY <1>1, <1>2, <1>4
<1>5. CASE i \in n + 1 .. n + Len(s)
  <2>1. i - n \in 1 .. Len(s)
    BY <1>1, <1>5
  <2>2. QED BY <1>1, <1>5, <2>1
<1>6. QED BY <1>1, <1>3, <1>4, <1>5

LEMMA PacketOpen ==
  ASSUME toServer \in Seq(Bytes), Open, NEW c \in Names, SendPacket(c)
  PROVE  Open'
<1>1. ASSUME NEW b \in Names, NEW d \in Names
      PROVE  \A i \in 1 .. Len(Packet(b, d)) : Packet(b, d)[i] # Eof
  <2> DEFINE p == Packet(b, d)
  <2>1. Len(p) = 5
    BY DEF Packet
  <2>2. p[1] # Eof /\ p[2] # Eof /\ p[3] # Eof /\ p[4] # Eof /\ p[5] # Eof
    BY DEF Packet, Eof
  <2> HIDE DEF p
  <2>3. \A i \in 1 .. 5 : i = 1 \/ i = 2 \/ i = 3 \/ i = 4 \/ i = 5
    OBVIOUS
  <2>4. \A i \in 1 .. Len(p) : p[i] # Eof
    BY <2>1, <2>2, <2>3
  <2>5. QED BY <2>4 DEF p
<1>2. "other" \in Names
  BY DEF Names
<1>3. PICK b \in Names : toServer' = toServer \o Packet(b, c)
  BY <1>2 DEF SendPacket
<1>4. Packet(b, c) \in Seq(Bytes)
  BY PacketBytes
<1>5. QED BY <1>1, <1>3, <1>4, StaysOpen

LEMMA ByteOpen ==
  ASSUME toServer \in Seq(Bytes), Open, NEW e \in Bytes, e # Eof, toServer' = Append(toServer, e)
  PROVE  Open'
<1> DEFINE n == Len(toServer)
           t == Append(toServer, e)
<1>1. toServer' = t /\ \A i \in 1 .. n : toServer[i] # Eof
  BY DEF Open
<1>2. /\ Len(t) = n + 1 /\ t[n + 1] = e /\ \A i \in 1 .. n : t[i] = toServer[i]
      /\ \A i \in 1 .. n + 1 : i = n + 1 \/ i \in 1 .. n
  BY Added
<1> HIDE DEF n, t
<1>3. \A i \in 1 .. Len(t) : t[i] # Eof
  BY <1>1, <1>2
<1>4. QED BY <1>1, <1>3 DEF Open

LEMMA InitClosing == Init => Closing
BY DEF Init, Closing, Open

(* Taking bytes off the front leaves none that was not there. *)
LEMMA RestOpen ==
  ASSUME toServer \in Seq(Bytes), Open, PollReads
  PROVE  Open'
<1>1. PICK n \in {1, Len(toServer)} : toServer' = SubSeq(toServer, n + 1, Len(toServer))
  BY DEF PollReads
<1>2. Len(toServer) \in Nat /\ Len(toServer) >= 1
  <2>1. toServer \in Seq(Bytes) /\ toServer # <<>>
    BY DEF PollReads
  <2>2. QED BY <2>1, SeqFacts
<1>3. n \in 1 .. Len(toServer)
  BY <1>2
<1> DEFINE t == SubSeq(toServer, n + 1, Len(toServer))
           m == Len(toServer)
<1>4. Len(t) = m - n /\ \A i \in 1 .. m - n : n + i \in 1 .. m /\ t[i] = toServer[n + i]
  BY <1>3, Dropped
<1>5. toServer' = t /\ \A i \in 1 .. m : toServer[i] # Eof
  BY <1>1 DEF Open
<1> HIDE DEF t, m
<1>6. \A i \in 1 .. Len(t) : t[i] # Eof
  BY <1>4, <1>5
<1>7. QED BY <1>5, <1>6 DEF Open

LEMMA GdbClosing ==
  ASSUME WireType, Closing, GdbSteps \/ GdbReads
  PROVE  Closing'
<1>1. toServer \in Seq(Bytes) /\ asked \in Names
      /\ \A k \in {"^C", "+"} : <<k, "">> \in Bytes /\ <<k, "">> # Eof
  BY DEF WireType, Bytes, Names, Eof
<1>2. ASSUME Close PROVE Closing'
  BY <1>2 DEF Close, Closing
<1>3. CASE GdbSteps
  <2>1. CASE GdbAsks
    <3>1. PICK c \in Requests : asked' = c /\ SendPacket(c)
      BY <2>1 DEF GdbAsks
    <3>2. c \in Names /\ c # "closing" /\ asked = "none"
      BY <2>1, NamesAssumption DEF Names, GdbAsks
    <3>3. QED BY <1>1, <3>1, <3>2, PacketOpen DEF Closing
  <2>2. CASE GdbInterrupts
    <3>1. toServer' = Append(toServer, <<"^C", "">>) /\ asked # "closing" /\ asked' = asked
      BY <2>2 DEF GdbInterrupts, Resumes
    <3>2. QED BY <1>1, <3>1, ByteOpen DEF Closing
  <2>3. CASE GdbGivesUp
    BY <2>3 DEF GdbGivesUp, Closing, links, Open
  <2>4. QED BY <1>2, <1>3, <2>1, <2>2, <2>3 DEF GdbSteps, GdbQuits
<1>4. CASE GdbTakes
  <2>1. asked # "closing" /\ (asked' = asked \/ asked' = "none")
    BY <1>4 DEF GdbTakes, Closing
  <2>2. SendPacket(asked) \/ toServer' = toServer \/ toServer' = Append(toServer, <<"+", "">>)
    BY <1>4, Zenon DEF GdbTakes
  <2>3. Open
    BY <2>1 DEF Closing
  <2>4. Open'
    <3>1. toServer' = toServer => Open'
      BY <2>3 DEF Open
    <3>2. QED BY <1>1, <2>2, <2>3, <3>1, PacketOpen, ByteOpen
  <2>5. QED BY <2>1, <2>4 DEF Closing
<1>5. QED BY <1>2, <1>3, <1>4 DEF GdbReads, GdbRefuses

LEMMA ClosingStep == WireType /\ Closing /\ [Next]_vars => Closing'
<1> SUFFICES ASSUME WireType, Closing, [Next]_vars PROVE Closing'
  OBVIOUS
<1>1. ASSUME UNCHANGED <<asked, met, toServer>>, asked = "closing" => toGdb' = toGdb
      PROVE  Closing'
  BY <1>1 DEF Closing, Open
<1>2. ASSUME NEW w, NEW to, NEW body, Epilogue(w, to, body) PROVE asked = "closing" => toGdb' = toGdb
  BY <1>2 DEF Epilogue
<1>3. CASE UNCHANGED vars \/ CoreRuns \/ Command
  BY <1>1, <1>3 DEF vars, CoreRuns, Command, gdbVars, links
<1>4. CASE \E w \in Writers : ConsolePuts(w)
  BY <1>1, <1>2, <1>4 DEF ConsolePuts, PutsEnter, PutsPrologue, PutsText, PutsSend, gdbVars
<1>5. CASE Handle \/ CheckStop \/ CheckNothing \/ ChunkDone \/ PollTimesOut
  BY <1>1, <1>5 DEF Handle, CheckStop, CheckNothing, ChunkDone, PollTimesOut, Rest, gdbVars
<1>6. CASE MonitorEnds \/ UpdateThreads \/ WalkGoesOn \/ ThreadsUpdated
  BY <1>1, <1>6 DEF MonitorEnds, UpdateThreads, WalkGoesOn, ThreadsUpdated, Rest, gdbVars
<1>7. CASE Reply
  BY <1>1, <1>2, <1>7 DEF Reply, Rest, gdbVars
<1>8. CASE Recv
  BY <1>1, <1>8 DEF Recv, Checked, Rest, gdbVars
<1>9. CASE PollReads
  <2>1. UNCHANGED <<asked, met, toGdb>>
    BY <1>9 DEF PollReads, gdbVars
  <2>2. toServer \in Seq(Bytes) /\ (Open => Open')
    BY <1>9, RestOpen DEF WireType
  <2>3. QED BY <2>1, <2>2 DEF Closing
<1>10. CASE Reconnect
  <2>1. toServer' = <<>> /\ asked' = "none"
    BY <1>10 DEF Reconnect
  <2>2. QED BY <2>1 DEF Closing, Open
<1>11. CASE GdbSteps \/ GdbReads
  BY <1>11, GdbClosing
<1>12. QED BY <1>3, <1>4, <1>5, <1>6, <1>7, <1>8, <1>9, <1>10, <1>11 DEF Next, Server

-----------------------------------------------------------------------------
(* Who is in the transmit buffer: gdb_server's own thread while a reply is under
   way, or, in a monitor command, whoever prints.                              *)

Place ==
  /\ print \in [Writers -> {"out", "flag", "text", "send", "reply"}]
  /\ "console" \in flags => at = "monitor"
  /\ at = "monitor" => req.cmd = "Rcmd"
  /\ print[Gdb] \in {"flag", "text", "send"} => at = "monitor"
  /\ print[Gdb] = "reply" <=> at = "reply" \/ (at \in {"update", "walk"} /\ req.cmd # "stop")
  /\ \A w \in Writers : print[w] = "reply" => w = Gdb

(* What the buffer holds for a thread that is alone in it *)
Held(w) == IF print[w] = "text" THEN <<>> ELSE <<<<w, IF print[w] = "reply" THEN req.cmd ELSE "O">>>>
Buffer ==
  ~overlap => \A w \in Writers : InBuffer(w) =>
                 tx = Held(w) /\ \A v \in Writers : InBuffer(v) => v = w

LEMMA InitPlace == Init => Place /\ Buffer
BY DEF Init, Place, Buffer, InBuffer, Writers

(* A request is taken up, or a command's answer begun, by a thread that is not in
   the buffer.                                                                   *)
Begins(cmd) ==
  /\ tx' = <<<<Gdb, cmd>>>> /\ Enter(Gdb) /\ print' = [print EXCEPT ![Gdb] = "reply"]
  /\ req'.cmd = cmd /\ "console" \notin flags'
  /\ (at' = "reply" /\ cmd # "?") \/ (at' = "update" /\ cmd # "stop")

LEMMA HandleBegins ==
  ASSUME Place, Handle \/ CheckStop \/ MonitorEnds, ~HandleResume, ~HandleMonitor
  PROVE  \E cmd : Begins(cmd)
<1>1. ASSUME NEW cmd, NEW body, Compose(cmd, body),
             "console" \notin flags',
             (at' = "reply" /\ cmd # "?") \/ (at' = "update" /\ cmd # "stop")
      PROVE  Begins(cmd)
  BY <1>1 DEF Compose, Begins
<1>2. CASE Handle
  <2>1. "console" \notin flags
    BY <1>2 DEF Handle, Place
  <2>2. CASE HandleSimple
    BY <1>1, <2>1, <2>2 DEF HandleSimple, Simple
  <2>3. CASE HandleSelect
    BY <1>1, <2>1, <2>3 DEF HandleSelect
  <2>4. CASE HandleRead
    BY <1>1, <2>1, <2>4 DEF HandleRead
  <2>5. CASE HandleWrite
    BY <1>1, <2>1, <2>5 DEF HandleWrite
  <2>6. CASE HandleNoAck
    BY <1>1, <2>1, <2>6 DEF HandleNoAck
  <2>7. CASE HandleStop
    <3>1. Compose(req.cmd, "S05") /\ flags' = flags \ {"running"} /\ at' = "update" /\ req.cmd # "stop"
      BY <2>7 DEF HandleStop
    <3>2. QED BY <1>1, <2>1, <3>1
  <2>8. QED BY <1>2, <2>2, <2>3, <2>4, <2>5, <2>6, <2>7 DEF Handle
<1>3. CASE CheckStop
  <2>1. Compose("stop", "S05") /\ flags' = flags \ {"running"} /\ at' = "reply" /\ at = "check"
    BY <1>3 DEF CheckStop
  <2>2. "console" \notin flags
    BY <2>1 DEF Place
  <2>3. QED BY <1>1, <2>1, <2>2
<1>4. CASE MonitorEnds
  <2>1. req.cmd = "Rcmd" /\ tx' = <<<<Gdb, "Rcmd">>>>
    BY <1>4 DEF MonitorEnds, AfterMonitor, Place
  <2>2. req'.cmd = req.cmd
    BY <1>4, <2>1 DEF MonitorEnds
  <2>3. QED BY <1>4, <2>1, <2>2 DEF MonitorEnds, Begins
<1>5. QED BY <1>2, <1>3, <1>4

(* What a step does to the buffer and to those who are in it *)
Idle == {"check", "poll", "recv", "handle"}
Aside ==
  /\ UNCHANGED txVars
  /\ \/ UNCHANGED <<at, req, flags>>
     \/ at \in Idle /\ at' \in Idle /\ "console" \notin flags'
     \/ at = "handle" /\ at' = "monitor" /\ req.cmd = "Rcmd" /\ UNCHANGED req
     \/ UpdateThreads /\ at = "update" /\ at' = "walk" /\ UNCHANGED <<req, flags>>
     \/ ThreadsUpdated /\ at = "walk" /\ at' = "reply" /\ req.cmd # "stop" /\ UNCHANGED <<req, flags>>
     \/ at = "walk" /\ at' = "poll" /\ req.cmd = "stop" /\ UNCHANGED flags
Begun == print[Gdb] = "out" /\ \E cmd : Begins(cmd)
Puts == \E w \in Writers : /\ PutsEnter(w) \/ PutsPrologue(w) \/ PutsText(w) \/ PutsSend(w)
                          /\ UNCHANGED <<at, req, flags>>

LEMMA Kinds ==
  ASSUME Place, [Next]_vars
  PROVE  Aside \/ Begun \/ Puts \/ Reply
<1>1. CASE UNCHANGED vars \/ CoreRuns \/ Command
  BY <1>1 DEF vars, CoreRuns, Command, txVars, Aside
<1>2. CASE GdbSteps \/ GdbReads
  BY <1>2 DEF GdbSteps, GdbReads, txVars, Aside
<1>3. CASE \E w \in Writers : ConsolePuts(w)
  BY <1>3 DEF ConsolePuts, Puts
<1>4. CASE HandleResume /\ Handle
  <2>1. at = "handle" /\ at' = "recv" /\ flags' = flags \cup {"running"} /\ UNCHANGED txVars
    BY <1>4 DEF Handle, HandleResume
  <2>2. QED BY <2>1 DEF Aside, Place, Idle
<1>5. CASE HandleMonitor /\ Handle
  BY <1>5 DEF Handle, HandleMonitor, Aside
<1>6. CASE (Handle \/ CheckStop \/ MonitorEnds) /\ ~HandleResume /\ ~HandleMonitor
  <2>1. print[Gdb] = "out"
    <3>1. Gdb \in Writers
      BY DEF Writers
    <3>2. (at \in {"handle", "check"}) \/ print[Gdb] = "out"
      BY <1>6 DEF Handle, CheckStop, MonitorEnds
    <3>3. QED BY <3>1, <3>2 DEF Place
  <2>2. QED BY <1>6, <2>1, HandleBegins DEF Begun
<1>7. CASE CheckStop
  <2>1. ~HandleResume /\ ~HandleMonitor
    BY <1>7 DEF CheckStop, HandleResume, HandleMonitor
  <2>2. QED BY <1>6, <1>7, <2>1
<1>8. CASE MonitorEnds
  <2>1. ~HandleResume /\ ~HandleMonitor
    BY <1>8 DEF MonitorEnds, HandleResume, HandleMonitor
  <2>2. QED BY <1>6, <1>8, <2>1
<1>9. CASE Reply
  BY <1>9
<1>10. CASE UpdateThreads \/ WalkGoesOn \/ ThreadsUpdated
  BY <1>10 DEF UpdateThreads, WalkGoesOn, ThreadsUpdated, Aside, txVars
<1>11. CASE ChunkDone \/ CheckNothing \/ PollReads \/ PollTimesOut
  BY <1>11 DEF ChunkDone, CheckNothing, PollReads, PollTimesOut, Aside, Idle, Place
<1>12. CASE Recv
  <2>1. at = "recv" /\ UNCHANGED txVars /\ flags' = flags
    BY <1>12 DEF Recv
  <2>2. at' \in {"recv", "handle"}
    BY <1>12, <2>1 DEF Recv, Idles, Checked
  <2>3. QED BY <2>1, <2>2 DEF Aside, Idle, Place
<1>13. CASE Reconnect
  BY <1>13 DEF Reconnect, Aside, Idle
<1>14. QED BY <1>1, <1>2, <1>3, <1>4, <1>5, <1>6, <1>7, <1>8, <1>9, <1>10, <1>11, <1>12, <1>13
           DEF Next, Server

LEMMA PlaceStep ==
  ASSUME Place, Aside \/ Begun \/ Puts \/ Reply
  PROVE  Place'
<1>1. Gdb \in Writers
  BY DEF Writers
<1>2. CASE Aside
  BY <1>2 DEF Aside, Place, txVars, Idle
<1>3. CASE Begun
  BY <1>1, <1>3 DEF Begun, Begins, Place
<1>4. CASE Puts
  <2>1. PICK w \in Writers : /\ PutsEnter(w) \/ PutsPrologue(w) \/ PutsText(w) \/ PutsSend(w)
                             /\ UNCHANGED <<at, req, flags>>
    BY <1>4 DEF Puts
  <2>2. PICK next \in {"flag", "text", "send", "out"} : print' = [print EXCEPT ![w] = next]
    BY <2>1 DEF PutsEnter, PutsPrologue, PutsText, PutsSend
  <2>3. print[w] # "reply" /\ (w = Gdb => at = "monitor")
    BY <2>1 DEF PutsEnter, PutsPrologue, PutsText, PutsSend, Place
  <2>4. QED BY <1>1, <2>1, <2>2, <2>3 DEF Place
<1>5. CASE Reply
  <2>1. /\ at = "reply" /\ UNCHANGED flags /\ print' = [print EXCEPT ![Gdb] = "out"]
        /\ (req.cmd = "stop" /\ at' = "update" /\ req' = req) \/ at' = "recv"
    BY <1>5 DEF Reply, AfterReply
  <2>2. QED BY <1>1, <2>1 DEF Place
<1>6. QED BY <1>2, <1>3, <1>4, <1>5

LEMMA BufferStep ==
  ASSUME Place, Buffer, Aside \/ Begun \/ Puts \/ Reply
  PROVE  Buffer'
<1>1. Gdb \in Writers /\ \A w \in Writers : InBuffer(w) <=> print[w] \in {"text", "send", "reply"}
  BY DEF Writers, InBuffer
<1>2. CASE Aside
  <2>1. UNCHANGED <<tx, print, overlap>>
    BY <1>2 DEF Aside, txVars
  <2>2. print[Gdb] = "reply" => req' = req
    BY <1>2 DEF Aside, Place, Idle
  <2>3. \A w \in Writers : (InBuffer(w)' <=> InBuffer(w)) /\ Held(w)' = Held(w)
    BY <2>1, <2>2 DEF InBuffer, Held, Place
  <2>4. QED BY <2>1, <2>3 DEF Buffer
(* A thread w comes in or goes on, and alone unless overlap is set. *)
<1>3. ASSUME NEW w \in Writers, NEW next \in {"text", "send", "reply", "out"},
             print' = [print EXCEPT ![w] = next], Enter(w),
             next # "out" /\ (InBuffer(w) => tx = Held(w)) => tx' = Held(w)'
      PROVE  Buffer'
  <2>1. SUFFICES ASSUME ~overlap', NEW v \in Writers, InBuffer(v)'
                 PROVE  tx' = Held(v)' /\ \A u \in Writers : InBuffer(u)' => u = v
    BY DEF Buffer
  <2>2. /\ \A u \in Writers \ {w} : ~InBuffer(u)
        /\ ~overlap \/ \A u \in Writers : ~InBuffer(u)
    BY <1>3, <2>1 DEF Enter
  <2>3. \A u \in Writers \ {w} : ~InBuffer(u)'
    BY <1>3, <2>2 DEF InBuffer, Place
  <2>4. v = w /\ next # "out"
    BY <1>3, <2>1, <2>3 DEF InBuffer, Place
  <2>5. InBuffer(w) => tx = Held(w)
    BY <2>2 DEF Buffer
  <2>6. QED BY <1>3, <2>3, <2>4, <2>5
<1>4. CASE Begun
  <2>1. PICK cmd : Begins(cmd)
    BY <1>4 DEF Begun
  <2>2. tx' = <<<<Gdb, cmd>>>> /\ req'.cmd = cmd /\ print'[Gdb] = "reply"
    BY <1>1, <2>1 DEF Begins, Place
  <2>3. Held(Gdb)' = <<<<Gdb, cmd>>>>
    BY <2>2 DEF Held
  <2>4. QED BY <1>1, <1>3, <2>1, <2>2, <2>3 DEF Begins
<1>5. CASE Reply
  BY <1>1, <1>3, <1>5 DEF Reply, Epilogue
<1>6. CASE Puts
  <2>1. PICK w \in Writers : /\ PutsEnter(w) \/ PutsPrologue(w) \/ PutsText(w) \/ PutsSend(w)
                             /\ UNCHANGED <<at, req, flags>>
    BY <1>6 DEF Puts
  <2>2. CASE PutsEnter(w)
    <3>1. \A u \in Writers : (InBuffer(u)' <=> InBuffer(u)) /\ (InBuffer(u) => print'[u] = print[u])
      BY <2>2 DEF PutsEnter, InBuffer, Place
    <3>2. \A u \in Writers : InBuffer(u) => Held(u)' = Held(u)
      BY <2>1, <3>1 DEF Held
    <3>3. QED BY <2>2, <3>1, <3>2 DEF PutsEnter, Buffer
  <2>3. CASE PutsPrologue(w)
    <3>1. print'[w] = "text" /\ tx' = <<>>
      BY <2>3 DEF PutsPrologue, Prologue, Place
    <3>2. QED BY <1>3, <2>3, <3>1 DEF PutsPrologue, Prologue, Held
  <2>4. CASE PutsText(w)
    <3>1. print[w] = "text" /\ print'[w] = "send" /\ tx' = Append(tx, <<w, "O">>)
      BY <2>4 DEF PutsText, Put, Place
    <3>2. tx = Held(w) => tx' = Held(w)'
      BY <3>1 DEF Held
    <3>3. InBuffer(w)
      BY <3>1 DEF InBuffer
    <3>4. QED BY <1>3, <2>4, <3>2, <3>3 DEF PutsText, Put
  <2>5. CASE PutsSend(w)
    BY <1>3, <2>5 DEF PutsSend, Epilogue
  <2>6. QED BY <2>1, <2>2, <2>3, <2>4, <2>5
<1>7. QED BY <1>2, <1>4, <1>5, <1>6

(* What a step does to what gdb has to read *)
Ack(b) == [kind |-> AckOf(b), to |-> rx.body, body |-> "", whole |-> TRUE, alone |-> TRUE]
Acks == \E b : toGdb' = Append(toGdb, Ack(b))
Reads1 == toGdb # <<>> /\ toGdb' = Tail(toGdb)
Prints == \E w \in Writers : PutsSend(w)

LEMMA ToGdbKinds ==
  ASSUME [Next]_vars
  PROVE  toGdb' = toGdb \/ toGdb' = <<>> \/ Reads1 \/ Acks \/ Reply \/ Prints
<1>1. CASE UNCHANGED vars \/ CoreRuns \/ Command
  BY <1>1 DEF vars, CoreRuns, Command, links
<1>2. CASE GdbSteps
  BY <1>2 DEF GdbSteps, GdbAsks, GdbInterrupts, GdbGivesUp, GdbQuits, Close, links
<1>3. CASE GdbReads
  BY <1>3, Zenon DEF GdbReads, GdbTakes, GdbRefuses, Close, Reads1
<1>4. CASE \E w \in Writers : ConsolePuts(w)
  BY <1>4 DEF ConsolePuts, PutsEnter, PutsPrologue, PutsText, Prints
<1>5. CASE Handle \/ CheckStop \/ CheckNothing \/ ChunkDone \/ PollTimesOut \/ PollReads \/ Reconnect
  BY <1>5 DEF Handle, CheckStop, CheckNothing, ChunkDone, PollTimesOut, PollReads, Reconnect
<1>6. CASE MonitorEnds \/ UpdateThreads \/ WalkGoesOn \/ ThreadsUpdated
  BY <1>6 DEF MonitorEnds, UpdateThreads, WalkGoesOn, ThreadsUpdated
<1>7. CASE Recv
  <2>1. toGdb' = toGdb \/ \E b : Checked(b)
    BY <1>7, Zenon DEF Recv
  <2>2. ASSUME NEW b, Checked(b) PROVE toGdb' = toGdb \/ toGdb' = Append(toGdb, Ack(b))
    BY <2>2, Zenon DEF Checked, Ack
  <2>3. QED BY <2>1, <2>2 DEF Acks
<1>8. QED BY <1>1, <1>2, <1>3, <1>4, <1>5, <1>6, <1>7 DEF Next, Server

(* If all gdb has to read has a property, what it has to read later has it, if what
   is added has.                                                                  *)
LEMMA AllRead ==
  ASSUME NEW S, NEW s \in Seq(S), s # <<>>
  PROVE  \A i \in 1 .. Len(Tail(s)) : i + 1 \in 1 .. Len(s) /\ Tail(s)[i] = s[i + 1]
OBVIOUS

Whole(p) == p.whole \/ ~p.alone
LEMMA WholeIs ==
  ASSUME NEW s \in Seq(Msgs)
  PROVE  (\A i \in DOMAIN s : s[i].whole \/ ~s[i].alone) <=> \A i \in 1 .. Len(s) : Whole(s[i])
BY DEF Whole

LEMMA WholeStep ==
  ASSUME WireType, WireType', Place, Buffer, PacketsWhole, [Next]_vars
  PROVE  PacketsWhole'
<1>1. toGdb \in Seq(Msgs) /\ toGdb' \in Seq(Msgs)
  BY DEF WireType
<1>2. \A i \in 1 .. Len(toGdb) : Whole(toGdb[i])
  BY <1>1, WholeIs DEF PacketsWhole
<1>3. SUFFICES \A i \in 1 .. Len(toGdb') : Whole(toGdb'[i])
  BY <1>1, WholeIs DEF PacketsWhole
<1>4. ASSUME NEW w \in Writers, NEW to \in Names, NEW body \in Texts, Epilogue(w, to, body),
             InBuffer(w), Held(w) = <<<<w, to>>>>
      PROVE  \A i \in 1 .. Len(toGdb') : Whole(toGdb'[i])
  <2>1. CASE asked = "closing"
    BY <1>2, <1>4, <2>1 DEF Epilogue
  <2>2. CASE asked # "closing"
    <3> DEFINE n == Len(toGdb)
    <3>1. /\ n \in Nat /\ Len(toGdb') = n + 1
          /\ \A i \in 1 .. n : toGdb'[i] = toGdb[i]
          /\ toGdb'[n + 1].whole = (tx = <<<<w, to>>>>)
          /\ toGdb'[n + 1].alone = (~overlap')
      BY <1>1, <1>4, <2>2, PacketSent
    <3>2. ~overlap' => tx = <<<<w, to>>>>
      <4>1. overlap' = ((overlap /\ \E v \in Writers : InBuffer(v))
                          \/ \E v \in Writers \ {w} : InBuffer(v))
        BY <1>4 DEF Epilogue, Enter
      <4>2. ~overlap => tx = Held(w)
        BY <1>4 DEF Buffer
      <4>3. QED BY <1>4, <4>1, <4>2
    <3>3. Whole(toGdb'[n + 1])
      BY <3>1, <3>2, Zenon DEF Whole
    <3>4. \A i \in 1 .. n + 1 : i = n + 1 \/ i \in 1 .. n
      BY <3>1
    <3> HIDE DEF n
    <3>5. QED BY <1>2, <3>1, <3>3, <3>4 DEF n
  <2>3. QED BY <2>1, <2>2
<1>5. CASE toGdb' = toGdb \/ toGdb' = <<>>
  BY <1>2, <1>5
<1>6. CASE Reads1
  BY <1>1, <1>2, <1>6, AllRead DEF Reads1
<1>7. CASE Acks
  <2>1. PICK b : toGdb' = Append(toGdb, Ack(b))
    BY <1>7 DEF Acks
  <2>2. Ack(b) \in Msgs /\ Whole(Ack(b))
    BY DEF Ack, AckOf, Msgs, Whole, Names, Texts, WireType
  <2>3. QED BY <1>1, <1>2, <2>1, <2>2, Added
<1>8. CASE Reply
  <2>1. Epilogue(Gdb, req.cmd, req.body) /\ print[Gdb] = "reply"
    BY <1>8 DEF Reply, Place
  <2>2. Gdb \in Writers /\ req.cmd \in Names /\ req.body \in Texts
    BY DEF Writers, WireType
  <2>3. InBuffer(Gdb) /\ Held(Gdb) = <<<<Gdb, req.cmd>>>>
    BY <2>1 DEF InBuffer, Held
  <2>4. QED BY <1>4, <2>1, <2>2, <2>3
<1>9. CASE Prints
  <2>1. PICK w \in Writers : PutsSend(w)
    BY <1>9 DEF Prints
  <2>2. Epilogue(w, "O", "text") /\ InBuffer(w) /\ Held(w) = <<<<w, "O">>>>
    BY <2>1 DEF PutsSend, InBuffer, Held
  <2>3. "O" \in Names /\ "text" \in Texts
    BY DEF Names, Texts
  <2>4. QED BY <1>4, <2>2, <2>3
<1>10. QED BY <1>5, <1>6, <1>7, <1>8, <1>9, ToGdbKinds

(* One buffer serves the replies and what the debugger prints: gdb_server's own
   printing in a monitor command never breaks a packet, however many threads
   print and however many lines: only a thread that was in the buffer at the same
   time does.                                                                    *)
THEOREM PacketsAreWhole == Spec => []PacketsWhole
<1> DEFINE Inv == WireType /\ Place /\ Buffer /\ PacketsWhole
<1>1. Init => Inv
  <2>1. Init => PacketsWhole
    BY DEF Init, PacketsWhole
  <2>2. QED BY <2>1, InitWire, InitPlace
<1>2. Inv /\ [Next]_vars => Inv'
  <2>1. SUFFICES ASSUME Inv, [Next]_vars PROVE Inv'
    OBVIOUS
  <2>2. WireType'
    BY <2>1, WireStep
  <2>3. Aside \/ Begun \/ Puts \/ Reply
    BY <2>1, Kinds
  <2>4. Place' /\ Buffer'
    BY <2>1, <2>3, PlaceStep, BufferStep
  <2>5. PacketsWhole'
    BY <2>1, <2>2, WholeStep
  <2>6. QED BY <2>2, <2>4, <2>5
<1>3. Inv => PacketsWhole
  OBVIOUS
<1>4. QED BY <1>1, <1>2, <1>3, PTL DEF Spec

-----------------------------------------------------------------------------
(* gdb has been told why the target stopped, or is about to be. *)

ToldIn(s) == \E i \in 1 .. Len(s) : s[i].kind = "packet" /\ s[i].to = "?"
Told == \/ ToldIn(toGdb)
        \/ at = "reply" /\ req.cmd = "?"
        \/ met /\ asked # "?"

(* What is taken from the front, or added and is no answer to ?, tells nothing. *)
LEMMA ToldAdded ==
  ASSUME NEW s \in Seq(Msgs), NEW m \in Msgs, ToldIn(Append(s, m))
  PROVE  ToldIn(s) \/ (m.kind = "packet" /\ m.to = "?")
BY Added DEF ToldIn

LEMMA ToldBefore ==
  ASSUME NEW s \in Seq(Msgs), s # <<>>
  PROVE  /\ ToldIn(Tail(s)) => ToldIn(s)
         /\ Head(s).kind = "packet" /\ Head(s).to = "?" => ToldIn(s)
<1>1. ToldIn(Tail(s)) => ToldIn(s)
  BY AllRead DEF ToldIn
<1>2. 1 \in 1 .. Len(s) /\ Head(s) = s[1]
  OBVIOUS
<1>3. QED BY <1>1, <1>2 DEF ToldIn

LEMMA SentTold ==
  ASSUME toGdb \in Seq(Msgs), NEW w, NEW to \in Names, NEW body \in Texts, Epilogue(w, to, body),
         ToldIn(toGdb')
  PROVE  ToldIn(toGdb) \/ to = "?"
<1>1. CASE asked = "closing"
  BY <1>1 DEF Epilogue
<1>2. CASE asked # "closing"
  <2> DEFINE n == Len(toGdb)
  <2>1. /\ n \in Nat /\ Len(toGdb') = n + 1 /\ toGdb'[n + 1].to = to
        /\ \A i \in 1 .. n : toGdb'[i] = toGdb[i]
    BY <1>2, PacketSent
  <2>2. \A i \in 1 .. n + 1 : i = n + 1 \/ i \in 1 .. n
    BY <2>1
  <2> HIDE DEF n
  <2>3. QED BY <2>1, <2>2 DEF ToldIn, n
<1>3. QED BY <1>1, <1>2

(* The connection ends when gdb has closed it, and the next begins with nothing told. *)
LEMMA Ended ==
  ASSUME WireType, Closing, Reconnect
  PROVE  asked = "closing" /\ ~met /\ ~Told'
<1>1. toServer \in Seq(Bytes) /\ toServer # <<>> /\ Head(toServer) = Eof
  BY DEF Reconnect, WireType, Eof
<1>2. \A s \in Seq(Bytes) : s # <<>> => 1 \in 1 .. Len(s) /\ Head(s) = s[1]
  OBVIOUS
<1>3. 1 \in 1 .. Len(toServer) /\ toServer[1] = Eof
  BY <1>1, <1>2, Zenon
<1>4. ~Open
  BY <1>3 DEF Open
<1>5. asked = "closing" /\ ~met
  BY <1>4 DEF Closing
<1>6. toGdb' = <<>> /\ at' = "check" /\ met' = met
  BY DEF Reconnect
<1>7. ~ToldIn(toGdb')
  BY <1>6 DEF ToldIn
<1>8. QED BY <1>5, <1>6, <1>7 DEF Told

(* Nothing but the reading of the threads leads to an answer to ?. *)
LEMMA ToldStep ==
  ASSUME WireType, Place, Closing, [Next]_vars, Told', ~ThreadsUpdated
  PROVE  Told
<1>1. toGdb \in Seq(Msgs) /\ req.cmd \in Names /\ req.body \in Texts
  BY DEF WireType
<1>2. ToldIn(toGdb') => Told
  <2>1. CASE Acks
    <3>1. PICK b : toGdb' = Append(toGdb, Ack(b))
      BY <2>1 DEF Acks
    <3>2. Ack(b) \in Msgs /\ Ack(b).kind # "packet"
      BY DEF Ack, AckOf, Msgs, Names, Texts, WireType
    <3>3. QED BY <1>1, <3>1, <3>2, ToldAdded DEF Told
  <2>2. CASE Reply
    BY <1>1, <2>2, SentTold DEF Reply, Told
  <2>3. CASE Prints
    <3>1. "O" \in Names /\ "text" \in Texts
      BY DEF Names, Texts
    <3>2. QED BY <1>1, <2>3, <3>1, SentTold DEF Prints, PutsSend, Told
  <2>4. CASE toGdb' = toGdb \/ toGdb' = <<>> \/ Reads1
    <3>1. ToldIn(<<>>) => FALSE
      BY DEF ToldIn
    <3>2. ASSUME toGdb # <<>> PROVE ToldIn(Tail(toGdb)) => ToldIn(toGdb)
      BY <1>1, <3>2, ToldBefore
    <3>3. QED BY <2>4, <3>1, <3>2, Zenon DEF Told, Reads1
  <2>5. QED BY <2>1, <2>2, <2>3, <2>4, ToGdbKinds
<1>3. at' = "reply" /\ req'.cmd = "?" => at = "reply" /\ req.cmd = "?"
  <2>1. CASE Aside
    BY <2>1 DEF Aside, Idle
  <2>2. CASE Begun
    BY <2>2 DEF Begun, Begins
  <2>3. CASE Puts
    BY <2>3 DEF Puts
  <2>4. CASE Reply
    BY <2>4 DEF Reply, AfterReply
  <2>5. QED BY <2>1, <2>2, <2>3, <2>4, Kinds
<1>4. met' /\ asked' # "?" => Told
  <2>1. CASE UNCHANGED <<met, asked>> \/ ~met'
    BY <2>1 DEF Told
  <2>2. CASE GdbAsks
    <3>1. asked = "none" /\ (asked' # "?" /\ met' => met)
      BY <2>2 DEF GdbAsks
    <3>2. QED BY <3>1 DEF Told
  <2>3. CASE GdbTakes
    <3>1. met' = met /\ toGdb # <<>>
      BY <2>3 DEF GdbTakes
    <3>2. asked' = asked \/ (Head(toGdb).kind = "packet" /\ Answers(Head(toGdb)))
      BY <2>3, Zenon DEF GdbTakes
    <3>3. asked = "?" /\ Answers(Head(toGdb)) => Head(toGdb).to = "?"
      BY DEF Answers, Resumes
    <3>4. QED BY <1>1, <3>1, <3>2, <3>3, ToldBefore DEF Told
  <2>4. CASE GdbGivesUp
    BY <2>4 DEF GdbGivesUp, Told
  <2>5. CASE Reconnect
    <3>1. met' = met
      BY <2>5 DEF Reconnect
    <3>2. QED BY <2>5, <3>1, Ended
  <2>6. UNCHANGED <<met, asked>> \/ ~met' \/ GdbAsks \/ GdbTakes \/ GdbGivesUp \/ Reconnect
    <3>1. CASE UNCHANGED vars \/ CoreRuns \/ Command \/ \E w \in Writers : ConsolePuts(w)
      BY <3>1 DEF vars, CoreRuns, Command, ConsolePuts, gdbVars
    <3>2. CASE GdbSteps \/ GdbReads
      BY <3>2 DEF GdbSteps, GdbReads, GdbInterrupts, GdbQuits, GdbRefuses, Close
    <3>3. CASE Handle \/ CheckStop \/ CheckNothing \/ ChunkDone \/ PollTimesOut \/ PollReads \/ Recv
      BY <3>3 DEF Handle, CheckStop, CheckNothing, ChunkDone, PollTimesOut, PollReads, Recv, Rest, gdbVars
    <3>4. CASE MonitorEnds \/ UpdateThreads \/ WalkGoesOn \/ ThreadsUpdated \/ Reply
      BY <3>4 DEF MonitorEnds, UpdateThreads, WalkGoesOn, ThreadsUpdated, Reply, Rest, gdbVars
    <3>5. QED BY <3>1, <3>2, <3>3, <3>4 DEF Next, Server
  <2>7. QED BY <2>1, <2>2, <2>3, <2>4, <2>5, <2>6
<1>5. QED BY <1>2, <1>3, <1>4 DEF Told

-----------------------------------------------------------------------------
(* The selected threads are of the list in memory from then on: the list is read
   anew, and threads selected of it, before another stop is reported.          *)

Live == {gselected, cselected} \subseteq Range(threadlist) \cup {Null}
Selected == Told => Live \/ at \in {"update", "walk"}

LEMMA FirstIsLive ==
  ASSUME threadlist \in Seq(Nodes)
  PROVE  FirstThread \in Range(threadlist) \cup {Null}
<1>1. CASE threadlist = <<>>
  BY <1>1 DEF FirstThread
<1>2. CASE threadlist # <<>>
  <2>1. \A s \in Seq(Nodes) : s # <<>> => 1 \in DOMAIN s
    OBVIOUS
  <2>2. threadlist[1] \in Range(threadlist)
    BY <1>2, <2>1 DEF Range
  <2>3. QED BY <1>2, <2>2 DEF FirstThread
<1>3. QED BY <1>1, <1>2

(* What a step does to the list of threads and to what is selected of it *)
ListKept == UNCHANGED <<threadlist, gselected, cselected>>
LEMMA ListKinds ==
  ASSUME [Next]_vars
  PROVE  \/ ListKept /\ UNCHANGED walk
         \/ UpdateThreads \/ WalkGoesOn \/ ThreadsUpdated \/ Reconnect
         \/ HandleSelect /\ at = "handle" /\ UNCHANGED walk
<1>1. CASE UNCHANGED vars \/ CoreRuns \/ Command \/ GdbSteps \/ GdbReads \/ \E w \in Writers : ConsolePuts(w)
  BY <1>1 DEF vars, CoreRuns, Command, GdbSteps, GdbReads, ConsolePuts, selVars, lkVars, ListKept
<1>2. CASE Handle
  <2>1. CASE HandleSimple \/ HandleRead \/ HandleWrite \/ HandleNoAck
    BY <2>1 DEF HandleSimple, HandleRead, HandleWrite, HandleNoAck, selVars, lkVars, ListKept
  <2>2. CASE HandleResume \/ HandleStop \/ HandleMonitor
    BY <2>2 DEF HandleResume, HandleStop, HandleMonitor, selVars, lkVars, ListKept
  <2>3. CASE HandleSelect
    BY <1>2, <2>3 DEF HandleSelect, Handle, lkVars
  <2>4. QED BY <1>2, <2>1, <2>2, <2>3 DEF Handle
<1>3. CASE MonitorEnds \/ Reply \/ Recv \/ ChunkDone \/ CheckStop \/ CheckNothing \/ PollReads \/ PollTimesOut
  BY <1>3 DEF MonitorEnds, Reply, Recv, ChunkDone, CheckStop, CheckNothing, PollReads, PollTimesOut,
     selVars, lkVars, ListKept
<1>4. QED BY <1>1, <1>2, <1>3 DEF Next, Server

(* The walk begins and ends, and the threads are selected, where it is made. *)
LEMMA AtWalk ==
  ASSUME [Next]_vars, at \in {"update", "walk"}, at' # at
  PROVE  UpdateThreads \/ ThreadsUpdated
<1>1. CASE UNCHANGED vars \/ CoreRuns \/ Command \/ GdbSteps \/ GdbReads \/ \E w \in Writers : ConsolePuts(w)
  BY <1>1 DEF vars, CoreRuns, Command, GdbSteps, GdbReads, ConsolePuts
<1>2. CASE Handle \/ MonitorEnds \/ Reply \/ Recv \/ ChunkDone \/ CheckStop \/ CheckNothing
           \/ PollReads \/ PollTimesOut \/ Reconnect
  BY <1>2 DEF Handle, MonitorEnds, Reply, Recv, ChunkDone, CheckStop, CheckNothing, PollReads,
     PollTimesOut, Reconnect
<1>3. CASE WalkGoesOn
  BY <1>3 DEF WalkGoesOn
<1>4. QED BY <1>1, <1>2, <1>3 DEF Next, Server

LEMMA SelectedStep ==
  ASSUME WireType, Place, Closing, threadlist \in Seq(Nodes), threadlist' \in Seq(Nodes), Selected,
         [Next]_vars
  PROVE  Selected'
<1>1. SUFFICES ASSUME Told', at' \notin {"update", "walk"} PROVE Live'
  BY DEF Selected
<1>2. CASE ThreadsUpdated
  <2>1. gselected' = FirstThread /\ cselected' = FirstThread /\ threadlist' = threadlist
    BY <1>2 DEF ThreadsUpdated, SelectAfter, lkVars
  <2>2. QED BY <2>1, FirstIsLive DEF Live
<1>3. CASE ~ThreadsUpdated
  <2>1. at \notin {"update", "walk"}
    BY <1>1, <1>3, AtWalk DEF UpdateThreads
  <2>2. Live
    BY <1>1, <1>3, <2>1, ToldStep DEF Selected
  <2>3. CASE ListKept
    BY <2>2, <2>3 DEF ListKept, Live
  <2>4. CASE HandleSelect
    <3>1. PICK t \in Nodes : /\ gselected' = gselected \/ gselected' = Find(t)
                             /\ cselected' = cselected \/ cselected' = Find(t)
      BY <2>4 DEF HandleSelect
    <3>2. Find(t) \in Range(threadlist) \cup {Null}
      BY FirstIsLive DEF Find
    <3>3. threadlist' = threadlist
      BY <2>4 DEF HandleSelect, lkVars
    <3>4. {gselected', cselected'} \subseteq Range(threadlist) \cup {Null}
      BY <2>2, <3>1, <3>2 DEF Live
    <3>5. QED BY <3>3, <3>4 DEF Live
  <2>5. CASE Reconnect
    BY <1>1, <2>5, Ended
  <2>6. ~UpdateThreads /\ ~WalkGoesOn
    BY <2>1 DEF UpdateThreads, WalkGoesOn
  <2>7. QED BY <1>3, <2>3, <2>4, <2>5, <2>6, ListKinds
<1>4. QED BY <1>2, <1>3

-----------------------------------------------------------------------------
(* What gdb is shown of the target's threads *)

LkKept == UNCHANGED <<memory, walk, threadlist, ranSince>> /\ lkFaults' \in {lkFaults, lkFaults + 1}

LEMMA LkKinds ==
  ASSUME [Next]_vars
  PROVE  LkKept \/ CoreRuns \/ (Command /\ ranSince') \/ UpdateThreads \/ WalkGoesOn \/ Reconnect
<1>1. ASSUME NEW kind, Mishap(kind) PROVE lkFaults' = lkFaults + 1
  BY <1>1 DEF Mishap, Fails
<1>2. CASE UNCHANGED vars \/ \E w \in Writers : ConsolePuts(w)
  BY <1>2 DEF vars, ConsolePuts, lkVars, coreVars, LkKept
<1>3. CASE GdbSteps \/ GdbReads
  <2>1. UNCHANGED <<memory, walk, threadlist, ranSince>>
    BY <1>3 DEF GdbSteps, GdbReads, coreVars
  <2>2. ASSUME NEW c, SendPacket(c) PROVE lkFaults' \in {lkFaults, lkFaults + 1}
    BY <1>1, <2>2 DEF SendPacket
  <2>3. CASE GdbSteps
    BY <1>1, <2>1, <2>2, <2>3 DEF GdbSteps, GdbAsks, GdbInterrupts, GdbGivesUp, GdbQuits, LkKept
  <2>4. CASE GdbReads
    <3>1. lkFaults' = lkFaults \/ SendPacket(asked)
      BY <2>4, Zenon DEF GdbReads, GdbTakes, GdbRefuses
    <3>2. QED BY <2>1, <2>2, <3>1 DEF LkKept
  <2>5. QED BY <1>3, <2>3, <2>4
<1>4. CASE Handle
  <2>1. CASE HandleSimple \/ HandleSelect \/ HandleNoAck \/ HandleMonitor
    BY <2>1 DEF HandleSimple, HandleSelect, HandleNoAck, HandleMonitor, lkVars, coreVars, LkKept
  <2>2. CASE HandleRead \/ HandleWrite
    <3>1. UNCHANGED <<memory, walk, threadlist, ranSince>>
      BY <2>2 DEF HandleRead, HandleWrite, coreVars
    <3>2. lkFaults' = lkFaults \/ Mishap("access")
      BY <2>2 DEF HandleRead, HandleWrite
    <3>3. QED BY <1>1, <3>1, <3>2 DEF LkKept
  <2>3. CASE HandleResume \/ HandleStop
    BY <1>1, <2>3 DEF HandleResume, HandleStop, Resume, Halt, LkKept
  <2>4. QED BY <1>4, <2>1, <2>2, <2>3 DEF Handle
<1>5. CASE MonitorEnds \/ Reply \/ Recv \/ ChunkDone \/ CheckStop \/ PollReads \/ PollTimesOut
           \/ ThreadsUpdated
  BY <1>5 DEF MonitorEnds, Reply, Recv, ChunkDone, CheckStop, PollReads, PollTimesOut, ThreadsUpdated,
     lkVars, coreVars, LkKept
<1>6. CASE CheckNothing
  BY <1>1, <1>6 DEF CheckNothing, coreVars, LkKept
<1>7. CASE Command
  BY <1>1, <1>7 DEF Command, MovesCore, StopsCore, LkKept
<1>8. QED BY <1>2, <1>3, <1>4, <1>5, <1>6, <1>7 DEF Next, Server

LEMMA InitLk == Init => WalkType
<1> SUFFICES ASSUME Init PROVE WalkType
  OBVIOUS
<1>1. memory \in Shape /\ walk = NoWalk /\ threadlist = <<>> /\ lkFaults = 0
  BY LkAssumption DEF Init, LkInit
<1>2. ListHead \in Nodes /\ <<>> \in Seq(Threads) /\ <<>> \in Seq(Nodes)
  BY DEF Nodes
<1>3. QED BY <1>1, <1>2 DEF WalkType, NoWalk

LEMMA WalkTypeAlways ==
  ASSUME WalkType, [Next]_vars
  PROVE  WalkType'
<1>1. CASE LkKept
  BY <1>1 DEF LkKept, WalkType, NoWalk
<1>2. CASE CoreRuns \/ Command
  <2>1. memory' \in Shape /\ UNCHANGED <<walk, threadlist>> /\ lkFaults' \in {lkFaults, lkFaults + 1}
    BY <1>2, LkAssumption DEF CoreRuns, Command, Mishap, Fails, WalkType
  <2>2. QED BY <2>1 DEF WalkType, NoWalk
<1>3. CASE UpdateThreads
  <2>1. /\ walk' = [NoWalk EXCEPT !.at = "info"] /\ threadlist' = <<>> /\ UNCHANGED lkFaults
        /\ memory' \in Shape
    BY <1>3, LkAssumption DEF UpdateThreads, WalkStart, WalkType
  <2>2. <<>> \in Seq(Threads) /\ <<>> \in Seq(Nodes) /\ ListHead \in Nodes
    BY DEF Nodes
  <2>3. QED BY <2>1, <2>2 DEF WalkType, NoWalk
<1>4. CASE WalkGoesOn
  BY <1>4, WalkTypeStep DEF WalkGoesOn
<1>5. CASE Reconnect
  <2>1. threadlist' = <<>> /\ UNCHANGED <<memory, walk, lkFaults>>
    BY <1>5 DEF Reconnect
  <2>2. <<>> \in Seq(Nodes)
    OBVIOUS
  <2>3. QED BY <2>1, <2>2 DEF WalkType, NoWalk
<1>6. QED BY <1>1, <1>2, <1>3, <1>4, <1>5, LkKinds

(* Once gdb has been told of a stop, the threads it selected by Hg and Hc, or had
   selected for it, are threads of the list that is in memory: the list it frees
   is never one that a selected thread is looked for in.                        *)
THEOREM SelectionIsLive == Spec => []SelectionLive
<1> DEFINE Inv == WireType /\ Closing /\ Place /\ WalkType /\ Selected
<1>1. Init => Inv
  <2>1. Init => Selected
    BY DEF Init, Selected, Told, ToldIn
  <2>2. QED BY <2>1, InitWire, InitClosing, InitPlace, InitLk
<1>2. Inv /\ [Next]_vars => Inv'
  <2>1. SUFFICES ASSUME Inv, [Next]_vars PROVE Inv'
    OBVIOUS
  <2>2. WireType' /\ Closing' /\ WalkType'
    BY <2>1, WireStep, ClosingStep, WalkTypeAlways
  <2>3. Place'
    BY <2>1, Kinds, PlaceStep
  <2>4. Selected'
    BY <2>1, <2>2, SelectedStep DEF WalkType
  <2>5. QED BY <2>2, <2>3, <2>4
<1>3. Inv => SelectionLive
  BY DEF Selected, Live, Told, SelectionLive
<1>4. QED BY <1>1, <1>2, <1>3, PTL DEF Spec

(* The list was read to its end since gdb was told of the stop, or is being read. *)
Walked == (Told /\ at # "walk") \/ (at = "walk" /\ walk = NoWalk)
Found == Walked /\ ~ranSince /\ Sound(memory) /\ lkFaults = 0 => threadlist # <<>>

LEMMA WalkedStep ==
  ASSUME WireType, Place, Closing, [Next]_vars, LkKept, Walked'
  PROVE  Walked
<1>1. walk' = walk
  BY DEF LkKept
<1>2. CASE at' = "walk" /\ at # "walk"
  <2>1. UpdateThreads
    <3>1. Aside \/ Begun \/ Puts \/ Reply
      BY Kinds
    <3>2. QED BY <1>2, <3>1 DEF Aside, Begun, Begins, Puts, Reply, AfterReply, Idle
  <2>2. walk'.at = "info" /\ NoWalk.at = "none"
    BY <2>1 DEF UpdateThreads, WalkStart, NoWalk
  <2>3. QED BY <1>2, <2>2 DEF Walked
<1>3. CASE at' = "walk" /\ at = "walk"
  BY <1>1, <1>3 DEF Walked
<1>4. CASE at' # "walk"
  <2>1. CASE ThreadsUpdated
    BY <2>1 DEF ThreadsUpdated, Walked
  <2>2. CASE ~ThreadsUpdated
    <3>1. Told' /\ Told
      BY <1>4, <2>2, ToldStep DEF Walked
    <3>2. at # "walk"
      BY <1>4, <2>2, AtWalk DEF UpdateThreads
    <3>3. QED BY <3>1, <3>2 DEF Walked
  <2>3. QED BY <2>1, <2>2
<1>5. QED BY <1>2, <1>3, <1>4

LEMMA ListStep ==
  ASSUME WireType, Place, Closing, WalkType, Found, ~ranSince => Walking /\ ListIsTarget, [Next]_vars
  PROVE  Found' /\ (~ranSince' => Walking' /\ ListIsTarget')
<1>1. CASE LkKept
  <2>1. Sound(memory)' = Sound(memory) /\ Walking' = Walking /\ ListIsTarget' = ListIsTarget
    BY <1>1 DEF LkKept, Sound, OnList, Within, Closed, Walking, OnPath, ListIsTarget
  <2>2. lkFaults' = 0 => lkFaults = 0
    BY <1>1 DEF LkKept, WalkType
  <2>3. QED BY <1>1, <2>1, <2>2, WalkedStep DEF LkKept, Found
<1>2. CASE CoreRuns \/ (Command /\ ranSince')
  BY <1>2 DEF CoreRuns, Found
<1>3. CASE UpdateThreads
  <2>1. walk'.at = "info" /\ NoWalk.at = "none" /\ threadlist' = <<>> /\ at' = "walk"
    BY <1>3 DEF UpdateThreads, WalkStart, NoWalk
  <2>2. QED BY <2>1 DEF Found, Walked, Walking, ListIsTarget
<1>4. CASE WalkGoesOn
  <2>1. Walk /\ at = "walk" /\ UNCHANGED <<at, ranSince>>
    BY <1>4 DEF WalkGoesOn, coreVars
  <2>2. CASE ranSince
    BY <2>1, <2>2 DEF Found
  <2>3. CASE ~ranSince
    <3>1. /\ Walking' /\ ListIsTarget'
          /\ walk' = NoWalk /\ Sound(memory) /\ lkFaults' = 0 => threadlist' # <<>>
      BY <2>1, <2>3, WalkStep
    <3>2. memory' = memory
      BY <2>1 DEF Walk, WalkInfo, WalkNext
    <3>3. Sound(memory)' = Sound(memory)
      BY <3>2 DEF Sound, OnList, Within, Closed
    <3>4. QED BY <2>1, <3>1, <3>3 DEF Found, Walked
  <2>4. QED BY <2>2, <2>3
<1>5. CASE Reconnect
  <2>1. /\ threadlist' = <<>> /\ at' = "check" /\ ~Told'
        /\ UNCHANGED <<memory, walk, ranSince>>
    BY <1>5, Ended DEF Reconnect, coreVars
  <2>2. Walking' = Walking
    BY <2>1 DEF Walking, OnPath, Within, Closed
  <2>3. QED BY <2>1, <2>2 DEF Found, Walked, ListIsTarget
<1>6. QED BY <1>1, <1>2, <1>3, <1>4, <1>5, LkKinds

(* The threads gdb is shown of a core that has not run since they were read are those
   on the target's list, the running one first and each once, however long the list
   and whatever the memory holds: a list that runs into itself, or has a thread
   without its mark, is shown as none.  And a sound list is shown, if no access
   failed.                                                                        *)
THEOREM ThreadsAreTheTargets == Spec => []ThreadsAsInTarget
<1> DEFINE Inv == /\ WireType /\ Closing /\ Place /\ WalkType /\ Found
                  /\ ~ranSince => Walking /\ ListIsTarget
<1>1. Init => Inv
  <2>1. Init => ranSince
    BY DEF Init
  <2>2. QED BY <2>1, InitWire, InitClosing, InitPlace, InitLk DEF Found
<1>2. Inv /\ [Next]_vars => Inv'
  <2>1. SUFFICES ASSUME Inv, [Next]_vars PROVE Inv'
    OBVIOUS
  <2>2. WireType' /\ Closing' /\ WalkType'
    BY <2>1, WireStep, ClosingStep, WalkTypeAlways
  <2>3. Place'
    BY <2>1, Kinds, PlaceStep
  <2>4. Found' /\ (~ranSince' => Walking' /\ ListIsTarget')
    BY <2>1, ListStep
  <2>5. QED BY <2>2, <2>3, <2>4
<1>3. Inv => ThreadsAsInTarget
  <2>1. SUFFICES ASSUME Inv, ~ranSince, walk = NoWalk PROVE ThreadsAsInTarget
    BY DEF ThreadsAsInTarget
  <2>2. met /\ asked # "?" => Walked
    BY <2>1 DEF Walked, Told
  <2>3. QED BY <2>1, <2>2 DEF ThreadsAsInTarget, ListIsTarget, Found
<1>4. QED BY <1>1, <1>2, <1>3, PTL DEF Spec

-----------------------------------------------------------------------------
(* What gdb sent and gdb_server has not yet understood: the bytes of a packet that
   has come in part, and those still to be received.                            *)

Dollar == <<"$", "">>
Hash == <<"#", "">>
BodyOf(b) == <<"body", b>>
Wire == chunk \o toServer
Got ==
  IF rx.state = "idle" THEN <<>>
  ELSE IF rx.state = "recv" /\ rx.body = "none" THEN <<Dollar>>
  ELSE IF rx.state = "recv" THEN <<Dollar, BodyOf(rx.body)>>
  ELSE IF rx.state = "chk1" THEN <<Dollar, BodyOf(rx.body), Hash>>
  ELSE <<Dollar, BodyOf(rx.body), Hash, Wire[1]>>
Stream == Got \o Wire

(* Every packet in it is complete, and has its request's sum. *)
FrameAt(s, i) ==
  /\ i + 4 <= Len(s) /\ s[i] = Dollar /\ s[i + 2] = Hash /\ s[i + 4] = s[i + 3]
  /\ \E c \in Requests : s[i + 3] = <<"sum", c>> /\ s[i + 1] \in {BodyOf(c), BodyOf("other")}
Framed(s) == \A i \in 1 .. Len(s) : s[i][1] = "$" => FrameAt(s, i)

(* A packet that will be answered or refused, and not discarded as too long; there is
   at most one, and it is request c's.                                            *)
LiveAt(s, i) == i \in 1 .. Len(s) /\ s[i][1] = "$" /\ s[i + 1] # BodyOf("huge")
HasLive(s) == \E i \in 1 .. Len(s) : LiveAt(s, i)
Carries(s, c) ==
  \A i \in 1 .. Len(s) : LiveAt(s, i) =>
     s[i + 3] = <<"sum", c>> /\ \A j \in 1 .. Len(s) : LiveAt(s, j) => i = j

LEMMA FramedDrop ==
  ASSUME NEW s \in Seq(Bytes), Framed(s), NEW n \in 1 .. Len(s), NEW c, Carries(s, c),
         NEW t, t = SubSeq(s, n + 1, Len(s))
  PROVE  /\ t \in Seq(Bytes) /\ Framed(t) /\ Carries(t, c)
         /\ HasLive(t) => HasLive(s) /\ ~LiveAt(s, 1)
<1> DEFINE m == Len(s)
<1>1. /\ m \in Nat /\ n \in 1 .. m /\ t \in Seq(Bytes) /\ Len(t) = m - n
      /\ \A i \in 1 .. m - n : n + i \in 1 .. m /\ t[i] = s[n + i]
  BY Dropped
<1> HIDE DEF m
<1>2. ASSUME NEW i \in 1 .. m - n, t[i][1] = "$"
      PROVE  /\ FrameAt(s, n + i) /\ i + 4 <= m - n
             /\ t[i + 1] = s[n + i + 1] /\ t[i + 2] = s[n + i + 2]
             /\ t[i + 3] = s[n + i + 3] /\ t[i + 4] = s[n + i + 4]
  <2>1. s[n + i][1] = "$" /\ n + i \in 1 .. m
    BY <1>1, <1>2
  <2>2. FrameAt(s, n + i)
    BY <2>1 DEF Framed, m
  <2>3. (n + i) + 4 <= m
    BY <2>2 DEF FrameAt, m
  <2>4. i + 4 <= m - n
    BY <1>1, <2>3
  <2>5. ASSUME NEW k \in 1 .. 4 PROVE t[i + k] = s[n + i + k]
    <3>1. i + k \in 1 .. m - n
      BY <1>1, <2>4
    <3>2. t[i + k] = s[n + (i + k)]
      BY <1>1, <3>1
    <3>3. n + (i + k) = n + i + k
      BY <1>1
    <3>4. QED BY <3>2, <3>3
  <2>6. 1 \in 1 .. 4 /\ 2 \in 1 .. 4 /\ 3 \in 1 .. 4 /\ 4 \in 1 .. 4
    OBVIOUS
  <2>7. /\ t[i + 1] = s[n + i + 1] /\ t[i + 2] = s[n + i + 2]
        /\ t[i + 3] = s[n + i + 3] /\ t[i + 4] = s[n + i + 4]
    BY <2>5, <2>6, Zenon
  <2>8. QED BY <2>2, <2>4, <2>7
<1>3. Framed(t)
  <2>1. SUFFICES ASSUME NEW i \in 1 .. m - n, t[i][1] = "$" PROVE FrameAt(t, i)
    BY <1>1 DEF Framed
  <2>2. /\ FrameAt(s, n + i) /\ i + 4 <= m - n /\ t[i] = s[n + i]
        /\ t[i + 1] = s[n + i + 1] /\ t[i + 2] = s[n + i + 2]
        /\ t[i + 3] = s[n + i + 3] /\ t[i + 4] = s[n + i + 4]
    BY <1>1, <1>2, <2>1
  <2>3. QED BY <1>1, <2>2 DEF FrameAt
<1>4. ASSUME NEW i \in 1 .. m - n, LiveAt(t, i)
      PROVE  n + i \in 1 .. m /\ LiveAt(s, n + i) /\ t[i + 3] = s[n + i + 3] /\ n + i # 1
  <2>1. t[i][1] = "$" /\ t[i + 1] # BodyOf("huge")
    BY <1>4 DEF LiveAt
  <2>2. n + i \in 1 .. m /\ s[n + i][1] = "$" /\ t[i + 1] = s[n + i + 1] /\ t[i + 3] = s[n + i + 3]
    BY <1>1, <1>2, <2>1
  <2>3. n + i # 1
    BY <1>1
  <2>4. QED BY <2>1, <2>2, <2>3 DEF LiveAt, m
<1>5. Carries(t, c)
  <2>1. SUFFICES ASSUME NEW i \in 1 .. m - n, LiveAt(t, i)
                 PROVE  /\ t[i + 3] = <<"sum", c>>
                        /\ \A j \in 1 .. m - n : LiveAt(t, j) => i = j
    BY <1>1 DEF Carries
  <2>2. s[n + i + 3] = <<"sum", c>>
    BY <1>4, <2>1 DEF Carries, m
  <2>3. ASSUME NEW j \in 1 .. m - n, LiveAt(t, j) PROVE i = j
    <3>1. n + i = n + j
      BY <1>4, <2>1, <2>3 DEF Carries, m
    <3>2. QED BY <1>1, <3>1
  <2>4. QED BY <1>4, <2>1, <2>2, <2>3
<1>6. ASSUME HasLive(t) PROVE HasLive(s) /\ ~LiveAt(s, 1)
  <2>1. PICK i \in 1 .. m - n : LiveAt(t, i)
    BY <1>1, <1>6 DEF HasLive
  <2>2. n + i \in 1 .. m /\ LiveAt(s, n + i) /\ n + i # 1
    BY <1>4, <2>1
  <2>3. LiveAt(s, 1) => n + i = 1
    <3>1. 1 \in 1 .. m
      BY <1>1
    <3>2. QED BY <2>2, <3>1 DEF Carries, m
  <2>4. QED BY <2>2, <2>3 DEF HasLive, m
<1>7. QED BY <1>1, <1>3, <1>5, <1>6

(* Bytes at the end leave what was there as it was. *)
More(s, u, t) ==
  /\ t \in Seq(Bytes) /\ Len(s) \in Nat /\ Len(u) \in Nat /\ Len(t) = Len(s) + Len(u)
  /\ \A i \in 1 .. Len(s) : /\ i \in 1 .. Len(t) /\ t[i] = s[i]
                            /\ s[i][1] = "$" => FrameAt(t, i) /\ t[i + 3] = s[i + 3]
                            /\ LiveAt(t, i) <=> LiveAt(s, i)
  /\ \A j \in 1 .. Len(u) : t[Len(s) + j] = u[j]
  /\ \A i \in 1 .. Len(t) : i \in 1 .. Len(s) \/ (i - Len(s) \in 1 .. Len(u) /\ i > Len(s))

LEMMA FramedMore ==
  ASSUME NEW s \in Seq(Bytes), Framed(s), NEW u \in Seq(Bytes)
  PROVE  More(s, u, s \o u)
<1> DEFINE m == Len(s)
           k == Len(u)
           t == s \o u
<1>1. /\ t \in Seq(Bytes) /\ m \in Nat /\ k \in Nat /\ Len(t) = m + k
      /\ \A i \in 1 .. m : t[i] = s[i]
      /\ \A i \in m + 1 .. m + k : t[i] = u[i - m]
  OBVIOUS
<1> HIDE DEF m, k, t
<1>2. \A j \in 1 .. k : m + j \in 1 .. m + k /\ t[m + j] = u[j]
  <2>1. SUFFICES ASSUME NEW j \in 1 .. k PROVE m + j \in 1 .. m + k /\ t[m + j] = u[j]
    OBVIOUS
  <2>2. m + j \in m + 1 .. m + k /\ (m + j) - m = j
    BY <1>1
  <2>3. QED BY <1>1, <2>2
<1>3. \A i \in 1 .. m + k : i \in 1 .. m \/ (i - m \in 1 .. k /\ i > m)
  BY <1>1
<1>4. ASSUME NEW i \in 1 .. m, s[i][1] = "$"
      PROVE  FrameAt(t, i) /\ t[i + 1] = s[i + 1] /\ t[i + 3] = s[i + 3]
  <2>1. FrameAt(s, i)
    BY <1>4 DEF Framed, m
  <2>2. i + 4 <= m
    BY <2>1 DEF FrameAt, m
  <2>3. \A j \in {i, i + 1, i + 2, i + 3, i + 4} : t[j] = s[j]
    BY <1>1, <2>2
  <2>4. i + 4 <= Len(t)
    BY <1>1, <2>2
  <2>5. QED BY <2>1, <2>3, <2>4 DEF FrameAt
<1>5. ASSUME NEW i \in 1 .. m PROVE i \in 1 .. Len(t) /\ (LiveAt(t, i) <=> LiveAt(s, i))
  <2>1. i \in 1 .. Len(t) /\ t[i] = s[i]
    BY <1>1
  <2>2. QED BY <1>4, <1>5, <2>1 DEF LiveAt, m
<1>6. QED BY <1>1, <1>2, <1>3, <1>4, <1>5 DEF m, k, t, More

LEMMA FramedByte ==
  ASSUME NEW s \in Seq(Bytes), Framed(s), NEW c, Carries(s, c), NEW e \in Bytes, e[1] # "$",
         NEW t, t = s \o <<e>>
  PROVE  t \in Seq(Bytes) /\ Framed(t) /\ Carries(t, c) /\ (HasLive(t) => HasLive(s))
<1> DEFINE m == Len(s)
           u == <<e>>
<1>1. u \in Seq(Bytes) /\ Len(u) = 1 /\ u[1] = e
  OBVIOUS
<1> HIDE DEF u
<1>2. More(s, u, t)
  BY <1>1, FramedMore DEF u
<1> HIDE DEF m
<1>3. /\ t \in Seq(Bytes) /\ m \in Nat /\ Len(t) = m + 1
      /\ \A i \in 1 .. m : /\ i \in 1 .. Len(t) /\ t[i] = s[i]
                           /\ s[i][1] = "$" => FrameAt(t, i) /\ t[i + 3] = s[i + 3]
                           /\ LiveAt(t, i) <=> LiveAt(s, i)
      /\ t[m + 1] = e
  <2>1. 1 \in 1 .. Len(u)
    BY <1>1
  <2>2. t[m + 1] = u[1]
    BY <1>2, <2>1 DEF More, m
  <2>3. t \in Seq(Bytes) /\ m \in Nat /\ Len(t) = m + Len(u)
    BY <1>2 DEF More, m
  <2>4. \A i \in 1 .. m : /\ i \in 1 .. Len(t) /\ t[i] = s[i]
                          /\ s[i][1] = "$" => FrameAt(t, i) /\ t[i + 3] = s[i + 3]
                          /\ LiveAt(t, i) <=> LiveAt(s, i)
    BY <1>2 DEF More, m
  <2>5. QED BY <1>1, <2>2, <2>3, <2>4
<1>4. \A i \in 1 .. Len(t) : i \in 1 .. m \/ i = m + 1
  <2>1. m \in Nat /\ Len(t) = m + 1
    BY <1>3
  <2>2. QED BY <2>1
<1>5. Framed(t)
  BY <1>3, <1>4 DEF Framed, m
<1>6. ASSUME NEW i \in 1 .. Len(t), LiveAt(t, i)
      PROVE  i \in 1 .. m /\ LiveAt(s, i) /\ t[i + 3] = s[i + 3]
  BY <1>3, <1>4, <1>6 DEF LiveAt
<1>7. Carries(t, c)
  BY <1>6 DEF Carries, m
<1>8. HasLive(t) => HasLive(s)
  BY <1>6 DEF HasLive, m
<1>9. QED BY <1>3, <1>5, <1>7, <1>8

(* A packet sent after all that was live has been taken *)
LEMMA FramedPacket ==
  ASSUME NEW s \in Seq(Bytes), Framed(s), ~HasLive(s), NEW c \in Requests, NEW b \in {c, "other"},
         c = "huge" => b = "huge", NEW t, t = s \o Packet(b, c)
  PROVE  t \in Seq(Bytes) /\ Framed(t) /\ Carries(t, c) /\ (HasLive(t) => c # "huge")
<1> DEFINE m == Len(s)
           u == Packet(b, c)
<1>1. /\ u \in Seq(Bytes) /\ Len(u) = 5
      /\ u[1] = Dollar /\ u[2] = BodyOf(b) /\ u[3] = Hash /\ u[4] = <<"sum", c>> /\ u[5] = <<"sum", c>>
  <2>1. b \in Names /\ c \in Names
    BY DEF Names
  <2>2. u \in Seq(Bytes)
    BY <2>1, PacketBytes
  <2>3. QED BY <2>2 DEF Packet, Dollar, Hash, BodyOf
<1> HIDE DEF u
<1>2. More(s, u, t)
  BY <1>1, FramedMore DEF u
<1> HIDE DEF m
<1>3. /\ t \in Seq(Bytes) /\ m \in Nat /\ Len(t) = m + 5
      /\ \A i \in 1 .. m : /\ i \in 1 .. Len(t) /\ t[i] = s[i]
                           /\ s[i][1] = "$" => FrameAt(t, i) /\ t[i + 3] = s[i + 3]
                           /\ LiveAt(t, i) <=> LiveAt(s, i)
      /\ t[m + 1] = Dollar /\ t[m + 2] = BodyOf(b) /\ t[m + 3] = Hash
      /\ t[m + 4] = <<"sum", c>> /\ t[m + 5] = <<"sum", c>>
  <2>1. 1 \in 1 .. 5 /\ 2 \in 1 .. 5 /\ 3 \in 1 .. 5 /\ 4 \in 1 .. 5 /\ 5 \in 1 .. 5
    OBVIOUS
  <2>2. \A j \in 1 .. 5 : t[m + j] = u[j]
    BY <1>1, <1>2 DEF More, m
  <2>3. /\ t[m + 1] = u[1] /\ t[m + 2] = u[2] /\ t[m + 3] = u[3] /\ t[m + 4] = u[4]
        /\ t[m + 5] = u[5]
    BY <2>1, <2>2, Zenon
  <2>4. t \in Seq(Bytes) /\ m \in Nat /\ Len(t) = m + Len(u)
    BY <1>2 DEF More, m
  <2>5. \A i \in 1 .. m : /\ i \in 1 .. Len(t) /\ t[i] = s[i]
                          /\ s[i][1] = "$" => FrameAt(t, i) /\ t[i + 3] = s[i + 3]
                          /\ LiveAt(t, i) <=> LiveAt(s, i)
    BY <1>2 DEF More, m
  <2>6. QED BY <1>1, <2>3, <2>4, <2>5
<1>4. \A k \in 1 .. 5 : k = 1 \/ t[m + k][1] # "$"
  <2>1. \A k \in 1 .. 5 : k = 1 \/ k = 2 \/ k = 3 \/ k = 4 \/ k = 5
    OBVIOUS
  <2>2. t[m + 2][1] = "body" /\ t[m + 3][1] = "#" /\ t[m + 4][1] = "sum" /\ t[m + 5][1] = "sum"
    <3>1. BodyOf(b)[1] = "body" /\ Hash[1] = "#" /\ <<"sum", c>>[1] = "sum"
      BY DEF BodyOf, Hash
    <3>2. /\ t[m + 2] = BodyOf(b) /\ t[m + 3] = Hash
          /\ t[m + 4] = <<"sum", c>> /\ t[m + 5] = <<"sum", c>>
      BY <1>3
    <3>3. QED BY <3>1, <3>2, Zenon
  <2>3. QED BY <2>1, <2>2
<1>5. ASSUME NEW i \in 1 .. Len(t), t[i][1] = "$" PROVE i \in 1 .. m \/ i = m + 1
  <2>1. CASE i \in 1 .. m
    BY <2>1
  <2>2. CASE i \notin 1 .. m
    <3>1. i - m \in 1 .. 5 /\ m + (i - m) = i
      <4>1. m \in Nat /\ i \in 1 .. m + 5
        BY <1>3
      <4>2. QED BY <2>2, <4>1
    <3>2. i - m = 1
      BY <1>4, <1>5, <3>1
    <3>3. QED BY <3>1, <3>2
  <2>3. QED BY <2>1, <2>2
<1>6. FrameAt(t, m + 1)
  <2>1. /\ (m + 1) + 4 <= Len(t) /\ (m + 1) + 1 = m + 2 /\ (m + 1) + 2 = m + 3
        /\ (m + 1) + 3 = m + 4 /\ (m + 1) + 4 = m + 5
    <3>1. m \in Nat /\ Len(t) = m + 5
      BY <1>3
    <3>2. QED BY <3>1
  <2>2. QED BY <1>3, <2>1 DEF FrameAt
<1>7. Framed(t)
  BY <1>3, <1>5, <1>6 DEF Framed, m
<1>8. ASSUME NEW i \in 1 .. Len(t), LiveAt(t, i)
      PROVE  i = m + 1 /\ t[i + 3] = <<"sum", c>> /\ c # "huge"
  <2>1. i \in 1 .. m \/ i = m + 1
    BY <1>5, <1>8 DEF LiveAt
  <2>2. i = m + 1
    BY <1>3, <1>8, <2>1 DEF HasLive, m
  <2>3. t[i + 1] = BodyOf(b) /\ t[i + 3] = <<"sum", c>>
    <3>1. i + 1 = m + 2 /\ i + 3 = m + 4
      BY <1>3, <2>2
    <3>2. QED BY <1>3, <3>1
  <2>4. b # "huge"
    BY <1>8, <2>3 DEF LiveAt
  <2>5. QED BY <2>2, <2>3, <2>4
<1>9. Carries(t, c)
  BY <1>8 DEF Carries
<1>10. HasLive(t) => c # "huge"
  BY <1>8 DEF HasLive
<1>11. QED BY <1>3, <1>7, <1>9, <1>10

BytesOk ==
  /\ rx.state = "chk2" => Wire # <<>>
  /\ rx.body # "huge"
  /\ Framed(Stream) /\ Carries(Stream, asked)
Coming == HasLive(Stream)

LEMMA StreamType ==
  ASSUME WireType, rx.state = "chk2" => Wire # <<>>
  PROVE  Wire \in Seq(Bytes) /\ Got \in Seq(Bytes) /\ Stream \in Seq(Bytes)
<1>1. Wire \in Seq(Bytes)
  BY DEF WireType, Wire
<1>2. Dollar \in Bytes /\ Hash \in Bytes /\ BodyOf(rx.body) \in Bytes
  <2>1. rx.body \in Names /\ "" \in Names
    BY DEF WireType, Names
  <2>2. QED BY <2>1 DEF Dollar, Hash, BodyOf, Bytes
<1>3. Wire # <<>> => Wire[1] \in Bytes
  BY <1>1
<1>4. \A a, b, h, s \in Bytes :
         <<>> \in Seq(Bytes) /\ <<a>> \in Seq(Bytes) /\ <<a, b>> \in Seq(Bytes)
         /\ <<a, b, h>> \in Seq(Bytes) /\ <<a, b, h, s>> \in Seq(Bytes)
  OBVIOUS
<1>5. rx.state \in {"idle", "recv", "chk1", "chk2"}
  BY DEF WireType
<1>6. Got \in Seq(Bytes)
  BY <1>2, <1>3, <1>4, <1>5 DEF Got
<1>7. QED BY <1>1, <1>6 DEF Stream

(* Nothing on its way carries any request. *)
LEMMA NoneCarried ==
  ASSUME NEW s, NEW c, ~HasLive(s)
  PROVE  Carries(s, c)
BY DEF Carries, HasLive

LEMMA Regrouped ==
  ASSUME NEW a \in Seq(Bytes), NEW b \in Seq(Bytes), NEW c \in Seq(Bytes)
  PROVE  a \o (b \o c) = (a \o b) \o c
BY ConcatAssociative, SMTT(30)

(* What gdb sends comes after what it sent. *)
LEMMA GrownStream ==
  ASSUME WireType, rx.state = "chk2" => Wire # <<>>, NEW u \in Seq(Bytes),
         toServer' = toServer \o u, UNCHANGED <<rx, chunk>>
  PROVE  Stream' = Stream \o u /\ (rx'.state = "chk2" => Wire' # <<>>)
<1>1. Wire \in Seq(Bytes) /\ Got \in Seq(Bytes) /\ chunk \in Seq(Bytes) /\ toServer \in Seq(Bytes)
  BY StreamType DEF WireType
<1>2. Wire' = Wire \o u
  <2>1. Wire' = chunk \o (toServer \o u)
    BY DEF Wire
  <2>2. QED BY <1>1, <2>1, Regrouped, ZenonT(30) DEF Wire
<1>3. Wire # <<>> => Wire' # <<>> /\ Wire'[1] = Wire[1]
  <2> DEFINE w == Wire
  <2>1. \A s \in Seq(Bytes) : s # <<>> => s \o u # <<>> /\ (s \o u)[1] = s[1]
    OBVIOUS
  <2>2. QED BY <1>1, <1>2, <2>1
<1>4. Got' = Got
  BY <1>3 DEF Got, WireType
<1>5. Stream' = Got \o (Wire \o u)
  BY <1>2, <1>4 DEF Stream
<1>6. Got \o (Wire \o u) = (Got \o Wire) \o u
  BY <1>1, Regrouped, ZenonT(30)
<1>7. QED BY <1>3, <1>5, <1>6 DEF Stream

LEMMA SameBytes ==
  ASSUME BytesOk, UNCHANGED <<rx, chunk, toServer>>, asked' = asked \/ ~Coming
  PROVE  BytesOk' /\ Coming' = Coming
<1>1. Wire' = Wire /\ Got' = Got /\ Stream' = Stream
  BY DEF Wire, Got, Stream
<1>2. Coming' = Coming
  BY <1>1 DEF Coming, HasLive, LiveAt
<1>3. Framed(Stream)' /\ (Carries(Stream, asked') => Carries(Stream, asked)')
  BY <1>1 DEF BytesOk, Framed, FrameAt, Carries, LiveAt
<1>4. Carries(Stream, asked')
  BY NoneCarried DEF BytesOk, Coming
<1>5. QED BY <1>1, <1>2, <1>3, <1>4 DEF BytesOk

LEMMA OneByte ==
  ASSUME NEW e \in Bytes
  PROVE  <<e>> \in Seq(Bytes)
OBVIOUS

LEMMA ByteMore ==
  ASSUME NEW s \in Seq(Bytes), NEW e \in Bytes
  PROVE  Append(s, e) = s \o <<e>>
BY AppendIsConcat

LEMMA ByteSent ==
  ASSUME WireType, BytesOk, UNCHANGED <<rx, chunk>>, asked' = asked \/ ~Coming,
         NEW k \in {"+", "^C"}, toServer' = Append(toServer, <<k, "">>)
  PROVE  BytesOk' /\ (Coming' => Coming)
<1> DEFINE e == <<k, "">>
<1>1. e \in Bytes /\ e[1] # "$"
  BY DEF Bytes, Names
<1> HIDE DEF e
<1>2. toServer' = toServer \o <<e>> /\ <<e>> \in Seq(Bytes)
  <2>1. Append(toServer, e) = toServer \o <<e>>
    <3>1. toServer \in Seq(Bytes)
      BY DEF WireType
    <3>2. QED BY <1>1, <3>1, ByteMore
  <2>2. toServer' = Append(toServer, e)
    BY DEF e
  <2>3. <<e>> \in Seq(Bytes)
    BY <1>1, OneByte
  <2>4. QED BY <2>1, <2>2, <2>3
<1>3. Stream' = Stream \o <<e>> /\ (rx'.state = "chk2" => Wire' # <<>>)
  BY <1>2, GrownStream DEF BytesOk
<1>4. Stream \in Seq(Bytes) /\ Carries(Stream, asked') /\ Framed(Stream)
  BY StreamType, NoneCarried DEF BytesOk, Coming
<1> DEFINE t == Stream \o <<e>>
<1>5. Framed(t) /\ Carries(t, asked') /\ (HasLive(t) => HasLive(Stream))
  BY <1>1, <1>4, FramedByte
<1> HIDE DEF t
<1>6. Stream' = t
  BY <1>3 DEF t
<1>7. QED BY <1>3, <1>5, <1>6 DEF BytesOk, Coming, Framed, FrameAt, Carries, HasLive, LiveAt

LEMMA PacketSentOut ==
  ASSUME WireType, BytesOk, UNCHANGED <<rx, chunk>>, ~Coming, NEW c \in Requests, SendPacket(c),
         asked' = c
  PROVE  BytesOk' /\ (Coming' => c # "huge")
<1>1. PICK b \in {c, "other"} : toServer' = toServer \o Packet(b, c) /\ (c = "huge" => b = "huge")
  BY DEF SendPacket
<1> DEFINE u == Packet(b, c)
<1>2. u \in Seq(Bytes)
  BY PacketBytes DEF Names
<1>3. Stream' = Stream \o u /\ (rx'.state = "chk2" => Wire' # <<>>)
  <2> HIDE DEF u
  <2>1. toServer' = toServer \o u
    BY <1>1 DEF u
  <2>2. QED BY <1>2, <2>1, GrownStream DEF BytesOk
<1>4. Stream \in Seq(Bytes) /\ Framed(Stream)
  BY StreamType DEF BytesOk
<1> DEFINE t == Stream \o u
<1>5. Framed(t) /\ Carries(t, c) /\ (HasLive(t) => c # "huge")
  BY <1>1, <1>4, FramedPacket DEF Coming
<1> HIDE DEF t, u
<1>6. Stream' = t
  BY <1>3 DEF t
<1>7. QED BY <1>3, <1>5, <1>6 DEF BytesOk, Coming, Framed, FrameAt, Carries, HasLive, LiveAt

-----------------------------------------------------------------------------
(* What gdb has to read: an answer or a refusal of its request, at most one, among
   acknowledgements and what was printed.                                       *)

Due(m) == m.kind = "-" \/ (m.kind = "packet" /\ m.to # "O")
Meets(m, c) == m.kind = "-" \/ IF c \in Resumes THEN m.to \in {"stop", "^C"} ELSE m.to = c
HasDue(q) == \E i \in 1 .. Len(q) : Due(q[i])
Replied(q, c) ==
  \A i \in 1 .. Len(q) : Due(q[i]) =>
     Meets(q[i], c) /\ \A j \in 1 .. Len(q) : Due(q[j]) => i = j

LEMMA NoneDue ==
  ASSUME NEW q, NEW c, ~HasDue(q)
  PROVE  Replied(q, c)
BY DEF Replied, HasDue

LEMMA RepliedTail ==
  ASSUME NEW q \in Seq(Msgs), q # <<>>, NEW c, Replied(q, c), NEW t, t = Tail(q)
  PROVE  /\ Replied(t, c) /\ (HasDue(t) => HasDue(q) /\ ~Due(Head(q)))
         /\ Due(Head(q)) => HasDue(q) /\ Meets(Head(q), c)
<1>1. /\ Len(q) \in Nat /\ 1 \in 1 .. Len(q) /\ Head(q) = q[1]
      /\ \A i \in 1 .. Len(t) : i \in Int /\ i + 1 \in 1 .. Len(q) /\ t[i] = q[i + 1] /\ i + 1 # 1
  OBVIOUS
<1>2. Replied(t, c)
  <2>1. SUFFICES ASSUME NEW i \in 1 .. Len(t), Due(t[i])
                 PROVE  Meets(t[i], c) /\ \A j \in 1 .. Len(t) : Due(t[j]) => i = j
    BY DEF Replied
  <2>2. i + 1 \in 1 .. Len(q) /\ Due(q[i + 1]) /\ t[i] = q[i + 1]
    BY <1>1, <2>1
  <2>3. Meets(q[i + 1], c) /\ \A j \in 1 .. Len(q) : Due(q[j]) => i + 1 = j
    BY <2>2 DEF Replied
  <2>4. ASSUME NEW j \in 1 .. Len(t), Due(t[j]) PROVE i = j
    <3>1. j + 1 \in 1 .. Len(q) /\ Due(q[j + 1])
      BY <1>1, <2>4
    <3>2. i + 1 = j + 1
      BY <2>3, <3>1
    <3>3. QED BY <1>1, <3>2
  <2>5. QED BY <2>2, <2>3, <2>4
<1>3. ASSUME HasDue(t) PROVE HasDue(q) /\ ~Due(Head(q))
  <2>1. PICK i \in 1 .. Len(t) : Due(t[i])
    BY <1>3 DEF HasDue
  <2>2. i + 1 \in 1 .. Len(q) /\ Due(q[i + 1]) /\ i + 1 # 1
    BY <1>1, <2>1
  <2>3. HasDue(q)
    BY <2>2 DEF HasDue
  <2>4. ~Due(q[1])
    BY <1>1, <2>2 DEF Replied
  <2>5. QED BY <1>1, <2>3, <2>4
<1>4. ASSUME Due(Head(q)) PROVE HasDue(q) /\ Meets(Head(q), c)
  BY <1>1, <1>4 DEF HasDue, Replied
<1>5. QED BY <1>2, <1>3, <1>4

LEMMA RepliedMore ==
  ASSUME NEW q \in Seq(Msgs), NEW c, Replied(q, c), NEW m \in Msgs,
         Due(m) => ~HasDue(q) /\ Meets(m, c), NEW t, t = Append(q, m)
  PROVE  Replied(t, c) /\ (HasDue(t) => HasDue(q) \/ Due(m))
<1> DEFINE n == Len(q)
<1>1. /\ n \in Nat /\ Len(t) = n + 1 /\ t[n + 1] = m
      /\ \A i \in 1 .. n : t[i] = q[i]
      /\ \A i \in 1 .. n + 1 : i = n + 1 \/ i \in 1 .. n
  BY Added
<1> HIDE DEF n
<1>2. ASSUME NEW i \in 1 .. n, Due(t[i])
      PROVE  Due(q[i]) /\ HasDue(q) /\ ~Due(m)
  BY <1>1, <1>2 DEF HasDue, n
<1>3. Replied(t, c)
  <2>1. SUFFICES ASSUME NEW i \in 1 .. n + 1, Due(t[i])
                 PROVE  Meets(t[i], c) /\ \A j \in 1 .. n + 1 : Due(t[j]) => i = j
    BY <1>1 DEF Replied
  <2>2. CASE i \in 1 .. n
    BY <1>1, <1>2, <2>1, <2>2 DEF Replied, n
  <2>3. CASE i = n + 1
    BY <1>1, <1>2, <2>1, <2>3
  <2>4. QED BY <1>1, <2>2, <2>3
<1>4. HasDue(t) => HasDue(q) \/ Due(m)
  BY <1>1, <1>2 DEF HasDue
<1>5. QED BY <1>3, <1>4

(* The byte after those a packet has come in so far *)
LEMMA AtFront ==
  ASSUME NEW g \in Seq(Bytes), NEW w \in Seq(Bytes), w # <<>>, NEW v, v = g \o w
  PROVE  /\ v \in Seq(Bytes) /\ Len(g) \in Nat /\ Len(g) + 1 \in 1 .. Len(v)
         /\ v[Len(g) + 1] = w[1] /\ \A i \in 1 .. Len(g) : v[i] = g[i]
         /\ SubSeq(v, (Len(g) + 1) + 1, Len(v)) = Tail(w)
         /\ Append(g, w[1]) \o Tail(w) = v
         /\ Len(g) + 2 <= Len(v) => Tail(w) # <<>> /\ Tail(w)[1] = v[Len(g) + 2]
<1> DEFINE n == Len(g)
           m == Len(w)
           r == Tail(w)
<1>1. /\ n \in Nat /\ m \in Nat /\ m >= 1 /\ Len(v) = n + m /\ v \in Seq(Bytes)
      /\ \A i \in 1 .. n : v[i] = g[i]
      /\ \A i \in 1 .. n + m : v[i] = IF i <= n THEN g[i] ELSE w[i - n]
  BY ConcatProperties
<1>2. r \in Seq(Bytes) /\ Len(r) = m - 1 /\ \A i \in 1 .. m - 1 : r[i] = w[i + 1]
  OBVIOUS
<1>3. g \in Seq(Bytes) /\ w[1] \in Bytes /\ <<w[1]>> \in Seq(Bytes)
  <2>1. w[1] \in Bytes
    OBVIOUS
  <2>2. QED BY <2>1, OneByte
<1>4. w = <<w[1]>> \o r
  BY HeadTailProperties
<1> HIDE DEF n, m, r
<1>5. n + 1 \in 1 .. n + m /\ v[n + 1] = w[1]
  BY <1>1
<1>6. SubSeq(v, (n + 1) + 1, Len(v)) = r
  <2>1. n + 1 \in 1 .. Len(v)
    BY <1>1
  <2> DEFINE t == SubSeq(v, (n + 1) + 1, Len(v))
  <2>2. t \in Seq(Bytes) /\ Len(t) = Len(v) - (n + 1)
        /\ \A i \in 1 .. Len(v) - (n + 1) : n + 1 + i \in 1 .. Len(v) /\ t[i] = v[n + 1 + i]
    BY <1>1, <2>1, Dropped
  <2> HIDE DEF t
  <2>3. Len(t) = m - 1
    BY <1>1, <2>2
  <2>4. ASSUME NEW i \in 1 .. m - 1 PROVE t[i] = r[i]
    <3>1. i \in 1 .. Len(v) - (n + 1) /\ n + 1 + i \in 1 .. n + m /\ ~(n + 1 + i <= n) /\ n + 1 + i - n = i + 1
      <4>1. n \in Nat /\ m \in Nat /\ Len(v) = n + m
        BY <1>1
      <4>2. QED BY <4>1
    <3>2. t[i] = v[n + 1 + i] /\ v[n + 1 + i] = w[i + 1]
      <4>1. t[i] = v[n + 1 + i]
        BY <2>2, <3>1
      <4>2. v[n + 1 + i] = IF n + 1 + i <= n THEN g[n + 1 + i] ELSE w[n + 1 + i - n]
        BY <1>1, <3>1
      <4>3. QED BY <3>1, <4>1, <4>2
    <3>3. QED BY <1>2, <3>2
  <2>5. t = r
    BY <1>2, <2>2, <2>3, <2>4, SeqEqual
  <2>6. QED BY <2>5 DEF t
<1>7. Append(g, w[1]) \o r = v
  <2>1. Append(g, w[1]) = g \o <<w[1]>>
    BY <1>3, AppendIsConcat
  <2>2. (g \o <<w[1]>>) \o r = g \o (<<w[1]>> \o r)
    BY <1>2, <1>3, ConcatAssociative
  <2>3. QED BY <1>4, <2>1, <2>2
<1>8. n + 2 <= Len(v) => r # <<>> /\ r[1] = v[n + 2]
  <2>1. SUFFICES ASSUME n + 2 <= n + m PROVE r # <<>> /\ r[1] = v[n + 2]
    BY <1>1
  <2>2. 1 \in 1 .. m - 1 /\ n + 2 \in 1 .. n + m /\ ~(n + 2 <= n) /\ n + 2 - n = 1 + 1
    BY <1>1, <2>1
  <2>3. r[1] = w[1 + 1] /\ v[n + 2] = w[1 + 1]
    BY <1>1, <1>2, <2>2
  <2>4. r # <<>>
    <3>1. Len(r) # 0
      BY <1>1, <1>2, <2>1
    <3>2. QED BY <1>2, <3>1, SeqFacts
  <2>5. QED BY <2>3, <2>4
<1>9. QED BY <1>1, <1>5, <1>6, <1>7, <1>8 DEF n, r

(* A byte is received. *)
LEMMA TakeByte ==
  ASSUME WireType, chunk # <<>>, chunk' = Tail(chunk), toServer' = toServer
  PROVE  Wire \in Seq(Bytes) /\ Wire # <<>> /\ Wire[1] = Head(chunk) /\ Wire' = Tail(Wire)
<1>1. ASSUME NEW c \in Seq(Bytes), NEW s \in Seq(Bytes), c # <<>>
      PROVE  c \o s # <<>> /\ (c \o s)[1] = Head(c) /\ Tail(c \o s) = Tail(c) \o s /\ c \o s \in Seq(Bytes)
  <2> DEFINE e == Head(c)
             r == Tail(c)
  <2>1. e \in Bytes /\ r \in Seq(Bytes) /\ c = <<e>> \o r
    BY <1>1, HeadTailProperties
  <2>2. <<e>> \in Seq(Bytes)
    BY <2>1, OneByte
  <2> HIDE DEF e, r
  <2>3. c \o s = <<e>> \o (r \o s)
    BY <2>1, <2>2, <1>1, ConcatAssociative
  <2>4. r \o s \in Seq(Bytes)
    BY <2>1, <1>1, ConcatProperties
  <2>5. ASSUME NEW q \in Seq(Bytes)
        PROVE  <<e>> \o q # <<>> /\ (<<e>> \o q)[1] = e /\ Tail(<<e>> \o q) = q /\ <<e>> \o q \in Seq(Bytes)
    BY <2>1
  <2>6. QED BY <2>3, <2>4, <2>5 DEF e, r
<1>2. chunk \in Seq(Bytes) /\ toServer \in Seq(Bytes)
  BY DEF WireType
<1>3. QED BY <1>1, <1>2 DEF Wire

(* How a packet that has come in part goes on *)
LEMMA InPart ==
  ASSUME WireType, BytesOk, Wire # <<>>, rx.state # "idle"
  PROVE  \/ /\ rx.state = "recv" /\ rx.body = "none" /\ Got = <<Dollar>>
            /\ \E c \in Requests \cup {"other"} : Wire[1] = BodyOf(c)
         \/ /\ rx.state = "recv" /\ rx.body # "none" /\ Got = <<Dollar, BodyOf(rx.body)>>
            /\ Wire[1] = Hash
         \/ /\ rx.state = "chk1" /\ Got = <<Dollar, BodyOf(rx.body), Hash>>
            /\ Tail(Wire) # <<>> /\ Tail(Wire)[1] = Wire[1] /\ Wire[1][1] = "sum"
         \/ /\ rx.state = "chk2" /\ Got = <<Dollar, BodyOf(rx.body), Hash, Wire[1]>>
            /\ Wire[1] = <<"sum", asked>> /\ rx.body \in {asked, "other"} /\ asked \in Requests
            /\ LiveAt(Stream, 1)
<1>1. Wire \in Seq(Bytes) /\ Got \in Seq(Bytes) /\ Stream \in Seq(Bytes)
  BY StreamType DEF BytesOk
<1> DEFINE n == Len(Got)
<1>2. /\ n \in Nat /\ n + 1 \in 1 .. Len(Stream) /\ Stream[n + 1] = Wire[1]
      /\ \A i \in 1 .. n : Stream[i] = Got[i]
      /\ n + 2 <= Len(Stream) => Tail(Wire) # <<>> /\ Tail(Wire)[1] = Stream[n + 2]
  <2>1. \A i \in 1 .. Len(Got) : Stream[i] = Got[i]
    <3>1. \A i \in 1 .. Len(Got) : (Got \o Wire)[i] = Got[i]
      BY <1>1, AtFront
    <3>2. QED BY <3>1 DEF Stream
  <2>2. Len(Got) \in Nat /\ Len(Got) + 1 \in 1 .. Len(Stream) /\ Stream[Len(Got) + 1] = Wire[1]
    BY <1>1, AtFront DEF Stream
  <2>3. Len(Got) + 2 <= Len(Stream) => Tail(Wire) # <<>> /\ Tail(Wire)[1] = Stream[Len(Got) + 2]
    BY <1>1, AtFront DEF Stream
  <2>4. QED BY <2>1, <2>2, <2>3
<1>3. 1 \in 1 .. n /\ Got[1] = Dollar
  BY DEF Got
<1> HIDE DEF n
<1>4. Stream[1] = Dollar /\ 1 \in 1 .. Len(Stream)
  BY <1>2, <1>3
<1>5. Dollar[1] = "$"
  BY DEF Dollar
<1>6. FrameAt(Stream, 1)
  BY <1>4, <1>5 DEF BytesOk, Framed
<1>7. PICK c \in Requests : /\ Stream[4] = <<"sum", c>> /\ Stream[2] \in {BodyOf(c), BodyOf("other")}
                            /\ Stream[3] = Hash /\ Stream[5] = Stream[4] /\ 5 <= Len(Stream)
  BY <1>6 DEF FrameAt
<1>8. CASE rx.state = "recv" /\ rx.body = "none"
  <2>1. Got = <<Dollar>> /\ n = 1
    BY <1>8 DEF Got, n
  <2>2. QED BY <1>2, <1>7, <1>8, <2>1
<1>9. CASE rx.state = "recv" /\ rx.body # "none"
  <2>1. Got = <<Dollar, BodyOf(rx.body)>> /\ n = 2
    BY <1>9 DEF Got, n
  <2>2. QED BY <1>2, <1>7, <1>9, <2>1
<1>10. CASE rx.state = "chk1"
  <2>1. Got = <<Dollar, BodyOf(rx.body), Hash>> /\ n = 3
    BY <1>10 DEF Got, n
  <2>2. Wire[1] = Stream[4] /\ Tail(Wire) # <<>> /\ Tail(Wire)[1] = Stream[5]
    BY <1>2, <1>7, <2>1
  <2>3. Wire[1][1] = "sum"
    BY <1>7, <2>2
  <2>4. QED BY <1>7, <1>10, <2>1, <2>2, <2>3
<1>11. CASE rx.state = "chk2"
  <2>1. Got = <<Dollar, BodyOf(rx.body), Hash, Wire[1]>> /\ n = 4
    BY <1>11 DEF Got, n
  <2>2. Wire[1] = Stream[5] /\ Stream[2] = BodyOf(rx.body)
    BY <1>2, <2>1
  <2>3. rx.body \in {c, "other"} /\ BodyOf(rx.body) # BodyOf("huge")
    BY <1>7, <2>2 DEF BodyOf, BytesOk
  <2>4. LiveAt(Stream, 1)
    <3>1. Stream[1][1] = "$" /\ Stream[1 + 1] # BodyOf("huge")
      BY <1>4, <1>5, <2>2, <2>3
    <3>2. QED BY <1>4, <3>1 DEF LiveAt
  <2>5. Stream[4] = <<"sum", asked>>
    BY <1>4, <2>4 DEF BytesOk, Carries
  <2>6. c = asked
    BY <1>7, <2>5
  <2>7. QED BY <1>7, <1>11, <2>1, <2>2, <2>3, <2>4, <2>5, <2>6
<1>12. rx.state \in {"idle", "recv", "chk1", "chk2"}
  BY DEF WireType
<1>13. QED BY <1>8, <1>9, <1>10, <1>11, <1>12

(* Taking a byte of a packet in leaves all there is as it was. *)
LEMMA TakenIn ==
  ASSUME WireType, BytesOk, Recv, Got' = Append(Got, Wire[1]), rx'.body # "huge",
         rx'.state = "chk2" => Wire' # <<>>
  PROVE  BytesOk' /\ Coming' = Coming
<1>1. Wire \in Seq(Bytes) /\ Got \in Seq(Bytes)
  BY StreamType DEF BytesOk
<1>2. Wire # <<>> /\ Wire' = Tail(Wire) /\ asked' = asked
  <2>1. chunk # <<>> /\ chunk' = Tail(chunk) /\ toServer' = toServer /\ asked' = asked
    BY DEF Recv, Take, Idles, Checked, Rest, gdbVars
  <2>2. QED BY <2>1, TakeByte
<1>3. Stream' = Stream
  <2>1. Append(Got, Wire[1]) \o Tail(Wire) = Got \o Wire
    BY <1>1, <1>2, AtFront
  <2>2. QED BY <1>2, <2>1 DEF Stream
<1>4. QED BY <1>2, <1>3 DEF BytesOk, Coming, Framed, FrameAt, Carries, HasLive, LiveAt

(* Going back to idle drops what came of the packet, and the byte. *)
LEMMA LeftOut ==
  ASSUME WireType, BytesOk, Recv, rx' = [state |-> "idle", body |-> "none", bad |-> FALSE]
  PROVE  BytesOk' /\ (Coming' => Coming /\ ~LiveAt(Stream, 1))
<1>1. Wire \in Seq(Bytes) /\ Got \in Seq(Bytes) /\ Stream \in Seq(Bytes)
  BY StreamType DEF BytesOk
<1>2. Wire # <<>> /\ Wire' = Tail(Wire) /\ asked' = asked
  <2>1. chunk # <<>> /\ chunk' = Tail(chunk) /\ toServer' = toServer /\ asked' = asked
    BY DEF Recv, Take, Idles, Checked, Rest, gdbVars
  <2>2. QED BY <2>1, TakeByte
<1> DEFINE n == Len(Got) + 1
           t == SubSeq(Stream, n + 1, Len(Stream))
<1>3. n \in 1 .. Len(Stream) /\ t = Tail(Wire)
  BY <1>1, <1>2, AtFront DEF Stream
<1>4. Got' = <<>> /\ Stream' = <<>> \o Wire'
  BY DEF Got, Stream
<1> HIDE DEF n
<1>5. Framed(t) /\ Carries(t, asked) /\ (HasLive(t) => HasLive(Stream) /\ ~LiveAt(Stream, 1))
  BY <1>1, <1>3, FramedDrop DEF BytesOk
<1>6. Stream' = t
  <2>1. Tail(Wire) \in Seq(Bytes)
    BY <1>1, <1>2, SeqFacts
  <2>2. <<>> \o Tail(Wire) = Tail(Wire)
    BY <2>1, ConcatEmptySeq
  <2>3. QED BY <1>2, <1>3, <1>4, <2>2
<1> HIDE DEF t
<1>7. QED BY <1>2, <1>5, <1>6 DEF BytesOk, Coming, Framed, FrameAt, Carries, HasLive, LiveAt

LEMMA OneMoreByte ==
  ASSUME NEW S, NEW s \in Seq(S), NEW e \in S, NEW t \in Seq(S), Len(t) = Len(s) + 1,
         t[Len(s) + 1] = e, \A i \in 1 .. Len(s) : t[i] = s[i]
  PROVE  Append(s, e) = t
BY Added, SeqEqual

LEMMA SecondByte ==
  ASSUME NEW a, NEW b
  PROVE  Append(<<>>, a) = <<a>> /\ Append(<<a>>, b) = <<a, b>>
<1> DEFINE S == {a, b}
           s == <<a>>
           t == <<a, b>>
<1>1. a \in S /\ b \in S
  OBVIOUS
<1> HIDE DEF S
<1>2. <<>> \in Seq(S) /\ s \in Seq(S) /\ t \in Seq(S)
  BY <1>1
<1>3. Append(<<>>, a) = <<a>>
  BY <1>1, <1>2, OneMoreByte
<1>4. Len(s) = 1 /\ Len(t) = 2 /\ t[2] = b /\ t[1] = s[1]
  OBVIOUS
<1> HIDE DEF s, t
<1>5. Len(t) = Len(s) + 1 /\ t[Len(s) + 1] = b /\ \A i \in 1 .. Len(s) : t[i] = s[i]
  BY <1>4
<1>6. Append(s, b) = t
  BY <1>1, <1>2, <1>5, OneMoreByte
<1>7. QED BY <1>3, <1>6 DEF s, t

LEMMA ThirdByte ==
  ASSUME NEW a, NEW b, NEW c
  PROVE  Append(<<a, b>>, c) = <<a, b, c>>
<1> DEFINE S == {a, b, c}
           s == <<a, b>>
           t == <<a, b, c>>
<1>1. a \in S /\ b \in S /\ c \in S
  OBVIOUS
<1> HIDE DEF S
<1>2. s \in Seq(S) /\ t \in Seq(S)
  BY <1>1
<1>3. Len(s) = 2 /\ Len(t) = 3 /\ t[3] = c /\ t[1] = s[1] /\ t[2] = s[2]
  OBVIOUS
<1> HIDE DEF s, t
<1>4. \A i \in 1 .. 2 : i = 1 \/ i = 2
  OBVIOUS
<1>5. Len(t) = Len(s) + 1 /\ t[Len(s) + 1] = c /\ \A i \in 1 .. Len(s) : t[i] = s[i]
  BY <1>3, <1>4
<1>6. Append(s, c) = t
  BY <1>1, <1>2, <1>5, OneMoreByte
<1>7. QED BY <1>6 DEF s, t

LEMMA FourthByte ==
  ASSUME NEW a, NEW b, NEW c, NEW d
  PROVE  Append(<<a, b, c>>, d) = <<a, b, c, d>>
<1> DEFINE S == {a, b, c, d}
           s == <<a, b, c>>
           t == <<a, b, c, d>>
<1>1. a \in S /\ b \in S /\ c \in S /\ d \in S
  OBVIOUS
<1> HIDE DEF S
<1>2. s \in Seq(S) /\ t \in Seq(S)
  BY <1>1
<1>3. Len(s) = 3 /\ Len(t) = 4 /\ t[4] = d /\ t[1] = s[1] /\ t[2] = s[2] /\ t[3] = s[3]
  OBVIOUS
<1> HIDE DEF s, t
<1>4. \A i \in 1 .. 3 : i = 1 \/ i = 2 \/ i = 3
  OBVIOUS
<1>5. Len(t) = Len(s) + 1 /\ t[Len(s) + 1] = d /\ \A i \in 1 .. Len(s) : t[i] = s[i]
  BY <1>3, <1>4
<1>6. Append(s, d) = t
  BY <1>1, <1>2, <1>5, OneMoreByte
<1>7. QED BY <1>6 DEF s, t

(* A byte is skipped or taken in, a ^C taken up, a packet discarded as too long; or
   the packet that carries gdb's request has come.                               *)
LEMMA RecvKinds ==
  ASSUME WireType, BytesOk, Recv
  PROVE  /\ BytesOk' /\ (Coming' => Coming)
         /\ \/ UNCHANGED <<toGdb, req>> /\ at' = "recv"
            \/ toGdb' = toGdb /\ at' = "handle" /\ req'.cmd = "^C"
            \/ Coming /\ ~Coming' /\ rx.body \in {asked, "other"} /\ asked \in Requests /\ Checked(asked)
<1> DEFINE c == Head(chunk)
           idle == [state |-> "idle", body |-> "none", bad |-> FALSE]
<1>1. at = "recv" /\ chunk # <<>> /\ chunk' = Tail(chunk) /\ toServer' = toServer
  BY DEF Recv, Take, Idles, Checked, Rest
<1>2. Wire \in Seq(Bytes) /\ Wire # <<>> /\ Wire[1] = c /\ Wire' = Tail(Wire)
  BY <1>1, TakeByte
<1>3. ASSUME rx' = idle PROVE BytesOk' /\ (Coming' => Coming /\ ~LiveAt(Stream, 1))
  BY <1>3, LeftOut
<1>4. ASSUME Got' = Append(Got, Wire[1]), rx'.body # "huge", rx'.state = "chk2" => Wire' # <<>>
      PROVE  BytesOk' /\ Coming' = Coming
  BY <1>4, TakenIn
<1> HIDE DEF idle
<1>5. CASE rx.state = "idle"
  <2>1. CASE c[1] = "^C"
    <3>1. rx' = idle /\ at' = "handle" /\ req'.cmd = "^C" /\ toGdb' = toGdb
      <4>1. Idles("handle") /\ req' = [cmd |-> "^C", body |-> ""] /\ UNCHANGED toGdb
        BY <1>5, <2>1 DEF Recv
      <4>2. QED BY <4>1 DEF Idles, Take, idle
    <3>2. QED BY <1>3, <3>1
  <2>2. CASE c[1] = "$"
    <3>1. rx' = [state |-> "recv", body |-> "none", bad |-> FALSE] /\ UNCHANGED <<toGdb, req, at>>
      BY <1>5, <2>2 DEF Recv, Take
    <3>2. Got = <<>> /\ Got' = <<Dollar>>
      BY <1>5, <3>1 DEF Got
    <3>3. c = Dollar
      <4>1. Stream = Wire
        BY <1>2, <3>2, ConcatEmptySeq DEF Stream
      <4>2. 1 \in 1 .. Len(Stream)
        BY <1>2, <4>1
      <4>3. FrameAt(Stream, 1)
        BY <1>2, <2>2, <4>1, <4>2 DEF BytesOk, Framed
      <4>4. QED BY <1>2, <4>1, <4>3 DEF FrameAt
    <3>4. Append(<<>>, Dollar) = <<Dollar>>
      BY SecondByte
    <3>5. BytesOk' /\ Coming' = Coming
      BY <1>2, <1>4, <3>1, <3>2, <3>3, <3>4
    <3>6. QED BY <1>1, <3>1, <3>5
  <2>3. CASE c[1] \notin {"^C", "$"}
    <3>1. rx' = idle /\ at' = "recv" /\ UNCHANGED <<toGdb, req>>
      BY <1>5, <2>3 DEF Recv, Idles, Take, idle
    <3>2. QED BY <1>3, <3>1
  <2>4. QED BY <2>1, <2>2, <2>3
<1>6. CASE rx.state = "recv" /\ rx.body = "none"
  <2>1. Got = <<Dollar>>
    BY <1>6 DEF Got
  <2>2. PICK b \in Requests \cup {"other"} : Wire[1] = BodyOf(b)
    BY <1>2, <1>6, InPart
  <2>3. c[1] # "#" /\ c[2] = b
    BY <1>2, <2>2 DEF BodyOf
  <2>4. b # "none"
    BY <2>2, NamesAssumption
  <2>5. CASE b = "huge"
    <3>1. rx' = idle /\ at' = "recv" /\ UNCHANGED <<toGdb, req>>
      BY <1>6, <2>3, <2>5 DEF Recv, Idles, Take, idle
    <3>2. QED BY <1>3, <3>1
  <2>6. CASE b # "huge"
    <3>1. rx' = [state |-> "recv", body |-> b, bad |-> FALSE] /\ UNCHANGED <<toGdb, req, at>>
      BY <1>6, <2>3, <2>6 DEF Recv, Take
    <3>2. Got' = <<Dollar, BodyOf(b)>>
      BY <2>4, <3>1 DEF Got
    <3>3. Append(<<Dollar>>, BodyOf(b)) = <<Dollar, BodyOf(b)>>
      BY SecondByte
    <3>4. BytesOk' /\ Coming' = Coming
      BY <1>4, <2>1, <2>2, <2>6, <3>1, <3>2, <3>3
    <3>5. QED BY <1>1, <3>1, <3>4
  <2>7. QED BY <2>5, <2>6
<1>7. CASE rx.state = "recv" /\ rx.body # "none"
  <2>1. Got = <<Dollar, BodyOf(rx.body)>> /\ Wire[1] = Hash
    BY <1>2, <1>7, InPart
  <2>2. c[1] = "#"
    <3>1. Hash[1] = "#"
      BY DEF Hash
    <3>2. QED BY <1>2, <2>1, <3>1
  <2>3. rx' = [state |-> "chk1", body |-> rx.body, bad |-> FALSE] /\ UNCHANGED <<toGdb, req, at>>
    BY <1>7, <2>2 DEF Recv, Take
  <2>4. Got' = <<Dollar, BodyOf(rx.body), Hash>>
    BY <2>3 DEF Got
  <2>5. Append(<<Dollar, BodyOf(rx.body)>>, Hash) = <<Dollar, BodyOf(rx.body), Hash>>
    BY ThirdByte
  <2>6. rx'.body # "huge"
    BY <2>3 DEF BytesOk
  <2>7. BytesOk' /\ Coming' = Coming
    BY <1>4, <2>1, <2>3, <2>4, <2>5, <2>6
  <2>8. QED BY <1>1, <2>3, <2>7
<1>8. CASE rx.state = "chk1"
  <2>1. /\ Got = <<Dollar, BodyOf(rx.body), Hash>>
        /\ Tail(Wire) # <<>> /\ Tail(Wire)[1] = Wire[1]
    BY <1>2, <1>8, InPart
  <2>2. rx' = [state |-> "chk2", body |-> rx.body, bad |-> FALSE] /\ UNCHANGED <<toGdb, req, at>>
    BY <1>8 DEF Recv, Take
  <2>3. Got' = <<Dollar, BodyOf(rx.body), Hash, Wire[1]>>
    BY <1>2, <2>1, <2>2 DEF Got
  <2>4. Append(<<Dollar, BodyOf(rx.body), Hash>>, Wire[1]) = <<Dollar, BodyOf(rx.body), Hash, Wire[1]>>
    BY FourthByte
  <2>5. rx'.body # "huge" /\ Wire' # <<>>
    BY <1>2, <2>1, <2>2 DEF BytesOk
  <2>6. BytesOk' /\ Coming' = Coming
    BY <1>4, <2>1, <2>3, <2>4, <2>5
  <2>7. QED BY <1>1, <2>2, <2>6
<1>9. CASE rx.state = "chk2"
  <2>1. /\ Wire[1] = <<"sum", asked>> /\ rx.body \in {asked, "other"} /\ asked \in Requests
        /\ LiveAt(Stream, 1)
    BY <1>2, <1>9, InPart
  <2>2. Checked(asked)
    <3>1. Checked(c[2])
      BY <1>9 DEF Recv
    <3>2. c[2] = asked
      BY <1>2, <2>1
    <3>3. QED BY <3>1, <3>2
  <2>3. rx' = idle
    BY <2>2 DEF Checked, Idles, Take, idle
  <2>4. Coming
    BY <2>1 DEF Coming, HasLive, LiveAt
  <2>5. QED BY <1>3, <2>1, <2>2, <2>3, <2>4
<1>10. QED BY <1>5, <1>6, <1>7, <1>8, <1>9 DEF WireType

-----------------------------------------------------------------------------
(* gdb's request is in at most one place, and none when gdb has none: on its way,
   in hand, running on the core, or coming back as an answer or a refusal.       *)

Returning == HasDue(toGdb)
InHand ==
  \/ at = "handle" /\ req.cmd # "^C"
  \/ at \in {"monitor", "reply"}
  \/ at \in {"update", "walk"} /\ req.cmd # "stop"
Running == "running" \in flags
Matches ==
  IF at # "handle" /\ asked \in Resumes THEN req.cmd \in {"stop", "^C"} ELSE req.cmd = asked

(* A stop is looked for, and reported, when all that was read is received. *)
AtRest == at \in {"check", "poll"} \/ (at \in {"update", "walk", "reply"} /\ req.cmd = "stop")
Control ==
  /\ asked \in Requests \cup {"none"}
  /\ AtRest => chunk = <<>>
  /\ InHand => Matches
  /\ Running => asked \in Resumes
  /\ Coming \/ Returning \/ InHand \/ Running => asked \notin {"none", "huge"}
  /\ Coming => ~(Returning \/ InHand \/ Running)
  /\ Returning => ~(InHand \/ Running)
  /\ InHand => ~Running
Exchange == BytesOk /\ Replied(toGdb, asked) /\ Control
InOrder == late \/ asked = "closing" \/ Exchange

(* Steps of gdb_server that neither send nor receive *)
LEMMA Kept ==
  ASSUME Exchange, UNCHANGED <<asked, rx, toServer, toGdb, chunk>>,
         InHand' => (InHand \/ Running) /\ Matches',
         Running' => (InHand \/ Running) /\ asked \in Resumes,
         ~(InHand' /\ Running'), AtRest' => chunk = <<>>
  PROVE  Exchange'
<1>1. BytesOk' /\ Coming' = Coming
  BY SameBytes DEF Exchange
<1>2. Returning' = Returning /\ Replied(toGdb, asked)'
  BY DEF Returning, HasDue, Exchange, Replied
<1>3. Control'
  <2> HIDE DEF InHand, Running, Coming, Returning, AtRest, Matches
  <2>1. QED BY <1>1, <1>2 DEF Exchange, Control
<1>4. QED BY <1>1, <1>2, <1>3 DEF Exchange

LEMMA HandleKept ==
  ASSUME WireType, Exchange, Handle, ~late'
  PROVE  Exchange'
<1>1. at = "handle" /\ UNCHANGED <<asked, rx, toServer, toGdb, chunk>>
  BY DEF Handle, Rest, gdbVars, rxVars
<1>2. asked \in Requests \cup {"none"} /\ (InHand => Matches /\ ~Running) /\ (Running => asked \in Resumes)
  BY DEF Exchange, Control
<1>3. asked \notin {"stop", "^C"}
  BY <1>2, NamesAssumption
<1>4. CASE req.cmd = "^C"
  <2>1. HandleStop
    BY <1>4 DEF Handle, HandleSimple, Simple, HandleSelect, HandleRead, HandleWrite, HandleNoAck,
                HandleResume, HandleMonitor, Resumes
  <2>2. "running" \in flags
    <3>1. late' = (late \/ (req.cmd = "^C" /\ "running" \notin flags))
      BY <2>1 DEF HandleStop
    <3>2. QED BY <1>4, <3>1
  <2>3. at' = "update" /\ req'.cmd = "^C" /\ flags' = flags \ {"running"}
    BY <1>4, <2>1 DEF HandleStop, Compose
  <2>4. Running /\ asked \in Resumes /\ ~Running' /\ InHand' /\ Matches' /\ ~AtRest'
    BY <1>1, <1>2, <2>2, <2>3 DEF Running, InHand, Matches, AtRest
  <2>5. QED BY <1>1, <2>4, Kept
<1>5. CASE req.cmd # "^C"
  <2>1. InHand /\ req.cmd = asked /\ ~Running
    BY <1>1, <1>2, <1>5 DEF InHand, Matches
  <2>2. CASE HandleResume
    <3>1. at' = "recv" /\ asked \in Resumes
      BY <2>1, <2>2 DEF HandleResume
    <3>2. ~InHand' /\ ~AtRest'
      BY <3>1 DEF InHand, AtRest
    <3>3. QED BY <1>1, <2>1, <3>1, <3>2, Kept
  <2>3. CASE HandleMonitor
    <3>1. at' = "monitor" /\ req' = req /\ flags' = flags \cup {"console"} /\ asked \notin Resumes
      BY <2>1, <2>3 DEF HandleMonitor, Resumes
    <3>2. InHand' /\ Matches' /\ ~AtRest' /\ ~Running'
      BY <1>1, <2>1, <3>1 DEF InHand, Matches, AtRest, Running
    <3>3. QED BY <1>1, <2>1, <3>2, Kept
  <2>4. CASE ~HandleResume /\ ~HandleMonitor
    <3>1. \/ HandleSimple \/ HandleSelect \/ HandleRead
          \/ HandleWrite \/ HandleNoAck \/ HandleStop
      BY <2>4 DEF Handle
    <3>2. req'.cmd = req.cmd /\ at' \in {"reply", "update"} /\ flags' \subseteq flags
      <4>1. ASSUME NEW body, Compose(req.cmd, body) PROVE req'.cmd = req.cmd
        BY <4>1 DEF Compose
      <4>2. /\ \E body : Compose(req.cmd, body)
            /\ at' \in {"reply", "update"} /\ (flags' = flags \/ \E f : flags' = flags \ {f})
        BY <3>1, ZenonT(30) DEF HandleSimple, HandleSelect, HandleRead, HandleWrite, HandleNoAck, HandleStop
      <4>3. QED BY <4>1, <4>2
    <3>3. asked \notin Resumes
      BY <2>1, <3>1 DEF HandleSimple, Simple, HandleSelect, HandleRead, HandleWrite, HandleNoAck,
                        HandleStop, Resumes
    <3>4. Matches' /\ ~AtRest' /\ ~Running'
      BY <1>1, <1>3, <2>1, <3>2, <3>3 DEF Matches, AtRest, Running
    <3>5. QED BY <1>1, <2>1, <3>4, Kept
  <2>5. QED BY <2>2, <2>3, <2>4
<1>6. QED BY <1>4, <1>5

LEMMA LoopKept ==
  ASSUME Place, Exchange, CheckStop \/ CheckNothing \/ ChunkDone \/ PollTimesOut
                            \/ MonitorEnds \/ UpdateThreads \/ WalkGoesOn \/ ThreadsUpdated
  PROVE  Exchange'
<1>1. UNCHANGED <<asked, rx, toServer, toGdb, chunk>>
  BY DEF CheckStop, CheckNothing, ChunkDone, PollTimesOut, MonitorEnds, UpdateThreads, WalkGoesOn,
         ThreadsUpdated, Rest, gdbVars, rxVars
<1>2. /\ InHand => Matches /\ ~Running
      /\ Running => asked \in Resumes
      /\ AtRest => chunk = <<>>
  BY DEF Exchange, Control
<1>3. CASE CheckStop
  <2>1. at = "check" /\ "running" \in flags /\ at' = "reply" /\ req'.cmd = "stop" /\ flags' = flags \ {"running"}
    BY <1>3 DEF CheckStop, Compose
  <2>2. Running /\ asked \in Resumes /\ Matches' /\ ~Running' /\ chunk = <<>>
    BY <1>1, <1>2, <2>1 DEF Running, Matches, AtRest
  <2>3. QED BY <1>1, <2>2, Kept
<1>4. CASE MonitorEnds
  <2>1. at = "monitor" /\ at' = "reply" /\ req'.cmd = req.cmd /\ flags' = flags \ {"console"} /\ req.cmd = "Rcmd"
    BY <1>4 DEF MonitorEnds, Place
  <2>2. InHand /\ Matches' /\ ~Running' /\ ~AtRest'
    BY <1>1, <1>2, <2>1 DEF Running, Matches, AtRest, InHand
  <2>3. QED BY <1>1, <2>2, Kept
<1>5. CASE UpdateThreads \/ WalkGoesOn
  <2>1. at \in {"update", "walk"} /\ at' = "walk" /\ req' = req /\ flags' = flags
    BY <1>5 DEF UpdateThreads, WalkGoesOn
  <2>2. /\ InHand' = InHand /\ Running' = Running /\ AtRest' = AtRest
        /\ Matches => Matches'
    BY <1>1, <2>1 DEF Running, Matches, AtRest, InHand
  <2>3. QED BY <1>1, <1>2, <2>2, Kept
<1>6. CASE ThreadsUpdated
  <2>1. /\ at = "walk" /\ flags' = flags
        /\ (req.cmd = "stop" /\ at' = "poll") \/ (req.cmd # "stop" /\ req' = req /\ at' = "reply")
    BY <1>6 DEF ThreadsUpdated
  <2>2. /\ InHand' => InHand /\ Matches'
        /\ Running' = Running /\ (AtRest' => AtRest)
    BY <1>1, <1>2, <2>1 DEF Running, Matches, AtRest, InHand
  <2>3. QED BY <1>1, <1>2, <2>2, Kept
<1>7. CASE CheckNothing \/ ChunkDone \/ PollTimesOut
  <2>1. at' \in {"check", "poll"} /\ flags' = flags /\ (at \in {"check", "poll"} \/ chunk = <<>>)
    BY <1>7 DEF CheckNothing, ChunkDone, PollTimesOut
  <2>2. ~InHand' /\ Running' = Running /\ chunk = <<>>
    BY <1>2, <2>1 DEF InHand, Running, AtRest
  <2>3. QED BY <1>1, <1>2, <2>2, Kept
<1>8. QED BY <1>3, <1>4, <1>5, <1>6, <1>7

(* A packet is sent to gdb, a reply or a line printed. *)
LEMMA SentKept ==
  ASSUME WireType, Place, Exchange, Reply \/ \E w \in Writers : ConsolePuts(w) /\ PutsSend(w)
  PROVE  Exchange'
<1>1. asked # "closing" /\ UNCHANGED <<asked, rx, toServer, chunk>>
  <2>1. asked # "closing"
    BY NamesAssumption DEF Exchange, Control
  <2>2. QED BY <2>1 DEF Reply, ConsolePuts, Rest, gdbVars, rxVars
<1>2. BytesOk' /\ Coming' = Coming
  BY <1>1, SameBytes DEF Exchange
<1>3. ASSUME NEW w, NEW to \in Names, NEW body \in Texts, Epilogue(w, to, body),
             to # "O" => ~Returning /\ (IF asked \in Resumes THEN to \in {"stop", "^C"} ELSE to = asked)
      PROVE  Replied(toGdb, asked)' /\ (Returning' => Returning \/ to # "O")
  <2> DEFINE m == [kind |-> "packet", to |-> to, body |-> body,
                   whole |-> tx = <<<<w, to>>>>, alone |-> ~overlap']
  <2>1. toGdb' = Append(toGdb, m)
    BY <1>1, <1>3 DEF Epilogue
  <2>2. m \in Msgs /\ m.kind = "packet" /\ m.to = to
    BY Zenon, <1>3 DEF Msgs
  <2> HIDE DEF m
  <2>3. toGdb \in Seq(Msgs) /\ Replied(toGdb, asked)
    BY DEF WireType, Exchange
  <2>4. Due(m) <=> to # "O"
    BY <2>2 DEF Due
  <2>5. Due(m) => ~HasDue(toGdb) /\ Meets(m, asked)
    BY <1>3, <2>2, <2>4 DEF Meets, Returning
  <2>6. Replied(toGdb', asked) /\ (HasDue(toGdb') => HasDue(toGdb) \/ Due(m))
    BY <2>1, <2>2, <2>3, <2>5, RepliedMore
  <2>7. QED BY <1>1, <2>4, <2>6 DEF Returning
<1>4. CASE Reply
  <2>1. at = "reply" /\ Epilogue(Gdb, req.cmd, req.body) /\ req.cmd \in Names /\ req.body \in Texts
        /\ flags' = flags
    BY <1>4 DEF Reply, WireType
  <2>2. /\ InHand /\ Matches /\ ~Returning /\ ~Coming /\ ~Running /\ asked \notin {"none", "huge"}
        /\ AtRest => chunk = <<>>
    BY <2>1 DEF Exchange, Control, InHand
  <2>3. IF asked \in Resumes THEN req.cmd \in {"stop", "^C"} ELSE req.cmd = asked
    BY <2>1, <2>2 DEF Matches
  <2>4. Replied(toGdb, asked)'
    BY <1>3, <2>1, <2>2, <2>3
  <2>5. at' = "recv" \/ (at' = "update" /\ req' = req /\ req.cmd = "stop")
    BY <1>4 DEF Reply, AfterReply
  <2>6. ~InHand' /\ ~Running' /\ (AtRest' => chunk' = <<>>)
    BY <1>1, <2>1, <2>2, <2>5 DEF InHand, Running, AtRest
  <2>7. Control'
    BY <1>1, <1>2, <2>2, <2>6 DEF Control, Exchange
  <2>8. QED BY <1>2, <2>4, <2>7 DEF Exchange
<1>5. CASE \E w \in Writers : ConsolePuts(w) /\ PutsSend(w)
  <2>1. PICK w \in Writers : Epilogue(w, "O", "text") /\ UNCHANGED <<at, req, flags>>
    BY <1>5 DEF ConsolePuts, PutsSend
  <2>2. "O" \in Names /\ "text" \in Texts
    BY DEF Names, Texts
  <2>3. Replied(toGdb, asked)' /\ (Returning' => Returning)
    BY <1>3, <2>1, <2>2
  <2>4. InHand' = InHand /\ Running' = Running /\ AtRest' = AtRest /\ Matches' = Matches
    BY <1>1, <2>1 DEF InHand, Running, AtRest, Matches
  <2>5. Control'
    BY <1>1, <1>2, <2>3, <2>4 DEF Control, Exchange
  <2>6. QED BY <1>2, <2>3, <2>5 DEF Exchange
<1>6. QED BY <1>4, <1>5

(* A request is in hand when its packet has come whole, or is refused. *)
LEMMA RecvExchange ==
  ASSUME WireType, Exchange, Recv
  PROVE  Exchange'
<1>1. at = "recv" /\ asked' = asked /\ flags' = flags
  BY DEF Recv, Rest, gdbVars
<1>2. /\ BytesOk' /\ (Coming' => Coming)
      /\ \/ UNCHANGED <<toGdb, req>> /\ at' = "recv"
         \/ toGdb' = toGdb /\ at' = "handle" /\ req'.cmd = "^C"
         \/ Coming /\ ~Coming' /\ rx.body \in {asked, "other"} /\ asked \in Requests /\ Checked(asked)
  BY RecvKinds DEF Exchange
<1>3. Control /\ Replied(toGdb, asked) /\ toGdb \in Seq(Msgs)
  BY DEF Exchange, WireType
<1>4. Running' = Running
  BY <1>1 DEF Running
<1>5. CASE \/ UNCHANGED <<toGdb, req>> /\ at' = "recv"
           \/ toGdb' = toGdb /\ at' = "handle" /\ req'.cmd = "^C"
  <2>1. Returning' = Returning /\ Replied(toGdb, asked)'
    BY <1>1, <1>3, <1>5 DEF Returning
  <2>2. ~InHand' /\ ~AtRest'
    BY <1>5 DEF InHand, AtRest
  <2>3. Control'
    BY <1>1, <1>2, <1>3, <1>4, <2>1, <2>2 DEF Control
  <2>4. QED BY <1>2, <2>1, <2>3 DEF Exchange
<1>6. CASE Coming /\ ~Coming' /\ rx.body \in {asked, "other"} /\ asked \in Requests /\ Checked(asked)
  <2>1. ~Returning /\ ~InHand /\ ~Running /\ asked \notin {"none", "huge", "^C"}
    BY <1>3, <1>6, NamesAssumption DEF Control
  <2>2. at' \in {"handle", "recv"} /\ (at' = "handle" => SumRight(asked) /\ req'.cmd = asked)
    <3>1. Idles(IF SumRight(asked) THEN "handle" ELSE "recv")
          /\ (SumRight(asked) => req' = [cmd |-> rx.body, body |-> ""])
      BY <1>6 DEF Checked
    <3>2. at' = IF SumRight(asked) THEN "handle" ELSE "recv"
      BY <3>1 DEF Idles
    <3>3. SumRight(asked) => rx.body = asked
      BY DEF SumRight
    <3>4. CASE SumRight(asked)
      <4>1. req' = [cmd |-> rx.body, body |-> ""] /\ rx.body = asked /\ at' = "handle"
        BY <3>1, <3>2, <3>3, <3>4
      <4>2. QED BY <3>4, <4>1
    <3>5. CASE ~SumRight(asked)
      <4>1. at' = "recv"
        BY <3>2, <3>5
      <4>2. QED BY <4>1
    <3>6. QED BY <3>4, <3>5
  <2>3. Ack(asked) \in Msgs /\ (Due(Ack(asked)) <=> ~SumRight(asked)) /\ (Due(Ack(asked)) => Meets(Ack(asked), asked))
    <3>1. AckOf(asked) \in {"+", "-"} /\ (AckOf(asked) = "-" <=> ~SumRight(asked))
      BY DEF AckOf
    <3>2. rx.body \in Names /\ "" \in Texts
      BY DEF WireType, Texts
    <3>3. Ack(asked).kind = AckOf(asked) /\ Ack(asked) \in Msgs
      BY <3>1, <3>2 DEF Ack, Msgs
    <3>4. QED BY <3>1, <3>3 DEF Due, Meets
  <2>4. Replied(toGdb, asked)' /\ (Returning' => ~SumRight(asked))
    <3>1. CASE toGdb' = toGdb
      BY <1>1, <1>3, <2>1, <3>1 DEF Returning
    <3>2. CASE toGdb' = Append(toGdb, Ack(asked))
      <4>1. /\ Replied(toGdb', asked)
            /\ HasDue(toGdb') => HasDue(toGdb) \/ Due(Ack(asked))
        BY <1>3, <2>1, <2>3, <3>2, RepliedMore DEF Returning
      <4>2. QED BY <1>1, <2>1, <2>3, <4>1 DEF Returning
    <3>3. toGdb' = toGdb \/ toGdb' = Append(toGdb, Ack(asked))
      BY <1>6, Zenon DEF Checked, Ack
    <3>4. QED BY <3>1, <3>2, <3>3
  <2>5. ~AtRest' /\ (InHand' => SumRight(asked) /\ Matches')
    BY <1>1, <2>2 DEF AtRest, InHand, Matches
  <2>6. Control'
    BY <1>1, <1>3, <1>4, <1>6, <2>1, <2>4, <2>5 DEF Control
  <2>7. QED BY <1>2, <2>4, <2>6 DEF Exchange
<1>7. QED BY <1>2, <1>5, <1>6

(* Reading, in one part or in several, leaves what is not yet understood as it was. *)
LEMMA PollExchange ==
  ASSUME WireType, Exchange, PollReads
  PROVE  Exchange'
<1>1. at = "poll" /\ at' = "recv" /\ UNCHANGED <<asked, toGdb, rx, flags, req>>
  BY DEF PollReads, gdbVars
<1>2. chunk = <<>>
  BY <1>1 DEF Exchange, Control, AtRest
<1>3. Wire' = Wire
  <2>1. PICK n \in {1, Len(toServer)} :
          /\ chunk' = SubSeq(toServer, 1, n) /\ toServer' = SubSeq(toServer, n + 1, Len(toServer))
    BY DEF PollReads
  <2>2. toServer \in Seq(Bytes) /\ toServer # <<>>
    BY DEF PollReads, WireType
  <2>3. Len(toServer) \in Nat /\ Len(toServer) >= 1 /\ n \in 1 .. Len(toServer)
    <3>1. Len(toServer) \in Nat /\ Len(toServer) # 0
      BY <2>2, SeqFacts
    <3>2. QED BY <2>1, <3>1
  <2>4. SubSeq(toServer, 1, n) \o SubSeq(toServer, n + 1, Len(toServer)) = SubSeq(toServer, 1, Len(toServer))
    <3>1. 1 \in 1 .. Len(toServer) + 1 /\ n \in 1 - 1 .. Len(toServer) /\ Len(toServer) \in n .. Len(toServer)
      BY <2>3
    <3>2. QED BY <2>2, <3>1, ConcatAdjacentSubSeq
  <2>5. SubSeq(toServer, 1, Len(toServer)) = toServer
    BY <2>2, SubSeqFull
  <2>6. <<>> \o toServer = toServer
    BY <2>2, ConcatEmptySeq
  <2>7. QED BY <1>2, <2>1, <2>4, <2>5, <2>6 DEF Wire
<1>4. Stream' = Stream /\ UNCHANGED <<rx, asked>>
  BY <1>1, <1>3 DEF Stream, Got
<1>5. BytesOk' /\ Coming' = Coming
  BY <1>3, <1>4 DEF Exchange, BytesOk, Coming, Framed, FrameAt, Carries, HasLive, LiveAt
<1>6. Replied(toGdb, asked)' /\ Returning' = Returning /\ Running' = Running /\ ~InHand' /\ ~AtRest'
  BY <1>1 DEF Exchange, Replied, Returning, HasDue, Running, InHand, AtRest
<1>7. Control'
  BY <1>1, <1>5, <1>6 DEF Exchange, Control
<1>8. QED BY <1>5, <1>6, <1>7 DEF Exchange

(* gdb has a new request, interrupts the target, or gives a request up. *)
LEMMA AskExchange ==
  ASSUME WireType, Exchange, GdbSteps, asked' # "closing"
  PROVE  Exchange'
<1>1. UNCHANGED <<rx, chunk, flags, at, req>>
  BY DEF GdbSteps, rxVars
<1>2. Control /\ Replied(toGdb, asked) /\ BytesOk
  BY DEF Exchange
<1>3. UNCHANGED <<InHand, Running, AtRest>>
  BY <1>1 DEF InHand, Running, AtRest
<1>4. CASE GdbAsks
  <2>1. PICK c \in Requests : asked' = c /\ SendPacket(c)
    BY <1>4 DEF GdbAsks
  <2>2. asked = "none" /\ toGdb' = toGdb
    BY <1>4 DEF GdbAsks
  <2>3. ~Coming /\ ~Returning /\ ~InHand /\ ~Running
    BY <1>2, <2>2 DEF Control
  <2>4. BytesOk' /\ (Coming' => c # "huge")
    BY <1>1, <1>2, <2>1, <2>3, PacketSentOut
  <2>5. ~Returning' /\ Replied(toGdb, asked)'
    BY <2>2, <2>3, NoneDue DEF Returning
  <2>6. c # "none"
    BY NamesAssumption
  <2>7. Control'
    BY <1>1, <1>2, <1>3, <2>1, <2>3, <2>4, <2>5, <2>6 DEF Control
  <2>8. QED BY <2>4, <2>5, <2>7 DEF Exchange
<1>5. CASE GdbInterrupts
  <2>1. UNCHANGED <<asked, toGdb>> /\ toServer' = Append(toServer, <<"^C", "">>)
    BY <1>5 DEF GdbInterrupts
  <2>2. BytesOk' /\ (Coming' => Coming)
    BY <1>1, <1>2, <2>1, ByteSent
  <2>3. Replied(toGdb, asked)' /\ Returning' = Returning /\ (Matches => Matches')
    BY <1>1, <1>2, <2>1 DEF Returning, Matches
  <2>4. Control'
    BY <1>1, <1>2, <1>3, <2>1, <2>2, <2>3 DEF Control
  <2>5. QED BY <2>2, <2>3, <2>4 DEF Exchange
<1>6. CASE GdbGivesUp
  <2>1. asked = "huge" /\ asked' = "none" /\ UNCHANGED <<toGdb, toServer>>
    BY <1>6 DEF GdbGivesUp, links
  <2>2. ~Coming /\ ~Returning /\ ~InHand /\ ~Running
    BY <1>2, <2>1 DEF Control
  <2>3. BytesOk' /\ Coming' = Coming
    BY <1>1, <1>2, <2>1, <2>2, SameBytes
  <2>4. ~Returning' /\ Replied(toGdb, asked)'
    BY <2>1, <2>2, NoneDue DEF Returning
  <2>5. Control'
    BY <1>1, <1>2, <1>3, <2>1, <2>2, <2>3, <2>4 DEF Control
  <2>6. QED BY <2>3, <2>4, <2>5 DEF Exchange
<1>7. ~GdbQuits
  BY DEF GdbQuits, Close
<1>8. QED BY <1>4, <1>5, <1>6, <1>7 DEF GdbSteps

(* gdb takes an acknowledgement, sends its request again, or has its answer. *)
LEMMA TakeExchange ==
  ASSUME WireType, Exchange, GdbReads, asked' # "closing"
  PROVE  Exchange'
<1>1. UNCHANGED <<rx, chunk, flags, at, req>>
  BY DEF GdbReads, rxVars
<1>2. Control /\ Replied(toGdb, asked) /\ BytesOk /\ toGdb \in Seq(Msgs)
  BY DEF Exchange, WireType
<1>3. UNCHANGED <<InHand, Running, AtRest>>
  BY <1>1 DEF InHand, Running, AtRest
<1>4. GdbTakes
  BY DEF GdbReads, GdbRefuses, Close
<1> DEFINE p == Head(toGdb)
<1>5. toGdb # <<>> /\ toGdb' = Tail(toGdb)
  BY <1>4 DEF GdbTakes
<1>6. /\ Replied(toGdb', asked) /\ (Returning' => Returning /\ ~Due(p))
      /\ Due(p) => Returning
  BY <1>2, <1>5, RepliedTail DEF Returning
(* The bytes gdb sends, if any, are no packet, and its request stands. *)
<1>7. ASSUME asked' = asked, BytesOk', Coming' => Coming PROVE Exchange'
  <2>1. Matches => Matches'
    BY <1>1, <1>7 DEF Matches
  <2>2. Control'
    BY <1>1, <1>2, <1>3, <1>6, <1>7, <2>1 DEF Control
  <2>3. Replied(toGdb, asked)'
    BY <1>6, <1>7
  <2>4. QED BY <1>7, <2>2, <2>3 DEF Exchange
<1>8. ASSUME asked' = asked \/ ~Coming,
             toServer' = IF noAck THEN toServer ELSE Append(toServer, <<"+", "">>)
      PROVE  BytesOk' /\ (Coming' => Coming)
  <2>1. CASE noAck
    BY <1>1, <1>2, <1>8, <2>1, SameBytes
  <2>2. CASE ~noAck
    BY <1>1, <1>2, <1>8, <2>2, ByteSent
  <2>3. QED BY <2>1, <2>2
<1> HIDE DEF p
<1>9. CASE p.kind = "+" \/ (p.kind = "-" /\ asked = "none")
  <2>1. UNCHANGED <<asked, toServer>>
    BY <1>4, <1>9 DEF GdbTakes, p
  <2>2. BytesOk' /\ Coming' = Coming
    BY <1>1, <1>2, <2>1, SameBytes
  <2>3. QED BY <1>7, <2>1, <2>2
<1>10. CASE p.kind = "-" /\ asked # "none"
  <2>1. asked' = asked /\ SendPacket(asked)
    BY <1>4, <1>10 DEF GdbTakes, p
  <2>2. Returning /\ ~Returning' /\ ~Coming /\ ~InHand /\ ~Running /\ asked \in Requests
        /\ asked \notin {"none", "huge"}
    BY <1>2, <1>6, <1>10 DEF Due, Control
  <2>3. BytesOk'
    BY <1>1, <1>2, <2>1, <2>2, PacketSentOut
  <2>4. Control'
    BY <1>1, <1>2, <1>3, <2>1, <2>2 DEF Control
  <2>5. Replied(toGdb, asked)'
    BY <1>6, <2>1
  <2>6. QED BY <2>3, <2>4, <2>5 DEF Exchange
<1>11. CASE p.kind = "packet"
  <2>1. /\ toServer' = IF noAck THEN toServer ELSE Append(toServer, <<"+", "">>)
        /\ IF p.to = "O" THEN asked' = asked ELSE asked' = "none"
    BY <1>4, <1>11 DEF GdbTakes, p
  <2>2. CASE p.to = "O"
    BY <1>7, <1>8, <2>1, <2>2
  <2>3. CASE p.to # "O"
    <3>1. Due(p)
      BY <1>11, <2>3 DEF Due
    <3>2. ~Returning' /\ ~Coming /\ ~InHand /\ ~Running /\ asked' = "none"
      BY <1>2, <1>6, <2>1, <2>3, <3>1 DEF Control
    <3>3. BytesOk' /\ ~Coming'
      BY <1>8, <2>1, <3>2
    <3>4. Control'
      BY <1>1, <1>2, <1>3, <3>2, <3>3 DEF Control
    <3>5. Replied(toGdb, asked)'
      BY <3>2, NoneDue DEF Returning
    <3>6. QED BY <3>3, <3>4, <3>5 DEF Exchange
  <2>4. QED BY <2>2, <2>3
<1>12. p.kind \in {"packet", "+", "-"}
  <2>1. p \in Msgs
    BY <1>2, <1>5, SeqFacts DEF p
  <2>2. QED BY <2>1 DEF Msgs
<1>13. QED BY <1>9, <1>10, <1>11, <1>12

(* A connection begins with nothing on its way. *)
NewConnection ==
  /\ chunk = <<>> /\ toServer = <<>> /\ toGdb = <<>> /\ rx.state = "idle" /\ rx.body = "none"
  /\ asked = "none" /\ flags = {"ack"} /\ at = "check"
LEMMA NewExchange == NewConnection => Exchange
<1> SUFFICES ASSUME NewConnection PROVE Exchange
  OBVIOUS
<1> USE DEF NewConnection
<1>1. Wire = <<>> /\ Got = <<>>
  <2>1. <<>> \o <<>> = <<>>
    OBVIOUS
  <2>2. QED BY <2>1 DEF Wire, Got
<1>2. Stream = <<>>
  <2>1. <<>> \o <<>> = <<>>
    OBVIOUS
  <2>2. QED BY <1>1, <2>1 DEF Stream
<1>3. Len(Stream) = 0 /\ Len(toGdb) = 0
  BY <1>2
<1>4. BytesOk /\ ~Coming
  BY <1>3 DEF BytesOk, Framed, Carries, Coming, HasLive
<1>5. Replied(toGdb, asked) /\ ~Returning
  BY <1>3 DEF Replied, Returning, HasDue
<1>6. Control
  BY <1>4, <1>5 DEF Control, InHand, Running, AtRest
<1>7. QED BY <1>4, <1>5, <1>6 DEF Exchange

LEMMA NextExchange == NewConnection' => Exchange'
BY NewExchange, PTL

LEMMA InOrderStep ==
  ASSUME WireType, Place, Closing, InOrder, [Next]_vars
  PROVE  InOrder'
<1>1. SUFFICES ASSUME ~late', asked' # "closing" PROVE Exchange'
  BY DEF InOrder
<1>2. CASE Reconnect
  <2>1. NewConnection'
    BY <1>2 DEF Reconnect, NewConnection
  <2>2. QED BY <2>1, NextExchange
<1>3. CASE ~Reconnect
  <2>1. ~late
    <3>1. late' = late \/ \E b : late' = (late \/ b)
      <4>1. CASE UNCHANGED vars \/ CoreRuns \/ Command \/ GdbSteps \/ GdbReads \/ \E w \in Writers : ConsolePuts(w)
        BY <4>1 DEF vars, CoreRuns, Command, GdbSteps, GdbReads, ConsolePuts
      <4>2. CASE Handle
        BY <4>2, Zenon DEF Handle, HandleSimple, HandleSelect, HandleRead, HandleWrite, HandleNoAck,
                           HandleResume, HandleStop, HandleMonitor
      <4>3. CASE MonitorEnds \/ Reply \/ UpdateThreads \/ WalkGoesOn \/ ThreadsUpdated
        BY <4>3 DEF MonitorEnds, Reply, UpdateThreads, WalkGoesOn, ThreadsUpdated
      <4>4. CASE Recv \/ ChunkDone \/ CheckStop \/ CheckNothing \/ PollReads \/ PollTimesOut
        BY <4>4 DEF Recv, ChunkDone, CheckStop, CheckNothing, PollReads, PollTimesOut
      <4>5. QED BY <1>3, <4>1, <4>2, <4>3, <4>4 DEF Next, Server
    <3>2. QED BY <1>1, <3>1
  <2>2. asked # "closing"
    <3>1. SUFFICES ASSUME asked = "closing" PROVE asked' = asked
      BY <1>1
    <3>2. toGdb = <<>>
      BY <3>1 DEF Closing
    <3>3. CASE UNCHANGED vars \/ CoreRuns \/ Command \/ \E w \in Writers : ConsolePuts(w)
      BY <3>3 DEF vars, CoreRuns, Command, ConsolePuts, gdbVars
    <3>4. CASE GdbSteps \/ GdbReads
      BY <3>1, <3>2, <3>4 DEF GdbSteps, GdbReads, GdbAsks, GdbInterrupts, GdbGivesUp, GdbQuits, GdbTakes,
                              GdbRefuses, Resumes
    <3>5. CASE Handle \/ CheckStop \/ CheckNothing \/ ChunkDone \/ PollTimesOut \/ PollReads \/ Recv
      BY <3>5 DEF Handle, CheckStop, CheckNothing, ChunkDone, PollTimesOut, PollReads, Recv, Rest, gdbVars
    <3>6. CASE MonitorEnds \/ UpdateThreads \/ WalkGoesOn \/ ThreadsUpdated \/ Reply
      BY <3>6 DEF MonitorEnds, UpdateThreads, WalkGoesOn, ThreadsUpdated, Reply, Rest, gdbVars
    <3>7. QED BY <1>3, <3>3, <3>4, <3>5, <3>6 DEF Next, Server
  <2>3. Exchange
    BY <2>1, <2>2 DEF InOrder
  <2>4. CASE UNCHANGED vars \/ CoreRuns \/ Command \/ \E w \in Writers : ConsolePuts(w) /\ ~PutsSend(w)
    <3>1. UNCHANGED <<asked, rx, toServer, toGdb, chunk, at, req, flags>>
      BY <2>4 DEF vars, CoreRuns, Command, ConsolePuts, PutsEnter, PutsPrologue, PutsText, gdbVars, links, rxVars
    <3>2. UNCHANGED <<InHand, Running, AtRest, Matches>>
      BY <3>1 DEF InHand, Running, AtRest, Matches
    <3>3. /\ InHand => Matches /\ ~Running
          /\ Running => asked \in Resumes
          /\ AtRest => chunk = <<>>
      BY <2>3 DEF Exchange, Control
    <3>4. QED BY <2>3, <3>1, <3>2, <3>3, Kept
  <2>5. CASE Handle
    BY <1>1, <2>3, <2>5, HandleKept
  <2>6. CASE CheckStop \/ CheckNothing \/ ChunkDone \/ PollTimesOut
             \/ MonitorEnds \/ UpdateThreads \/ WalkGoesOn \/ ThreadsUpdated
    BY <2>3, <2>6, LoopKept
  <2>7. CASE Reply \/ \E w \in Writers : ConsolePuts(w) /\ PutsSend(w)
    BY <2>3, <2>7, SentKept
  <2>8. CASE Recv
    BY <2>3, <2>8, RecvExchange
  <2>9. CASE PollReads
    BY <2>3, <2>9, PollExchange
  <2>10. CASE GdbSteps
    BY <1>1, <2>3, <2>10, AskExchange
  <2>11. CASE GdbReads
    BY <1>1, <2>3, <2>11, TakeExchange
  <2>12. QED BY <1>3, <2>4, <2>5, <2>6, <2>7, <2>8, <2>9, <2>10, <2>11 DEF Next, Server
<1>4. QED BY <1>2, <1>3

LEMMA InOrderFits ==
  ASSUME WireType, Closing, InOrder
  PROVE  InStep
<1>1. CASE late
  BY <1>1 DEF InStep
<1>2. CASE asked = "closing"
  BY <1>2 DEF Closing, InStep
<1>3. CASE Exchange
  <2>1. ASSUME toGdb # <<>>, Head(toGdb).kind = "packet", Head(toGdb).to # "O"
        PROVE  Answers(Head(toGdb))
    <3>1. toGdb \in Seq(Msgs) /\ Replied(toGdb, asked)
      BY <1>3 DEF WireType, Exchange
    <3>2. Meets(Head(toGdb), asked)
      BY <2>1, <3>1, RepliedTail DEF Due
    <3>3. QED BY <2>1, <3>2 DEF Meets, Answers
  <2>2. asked = "none" => "running" \notin flags
    BY <1>3 DEF Exchange, Control, Running, Resumes
  <2>3. QED BY <2>1, <2>2 DEF InStep
<1>4. QED BY <1>1, <1>2, <1>3 DEF InOrder

LEMMA InOrderAlways == Spec => [](WireType /\ Place /\ Closing /\ InOrder)
<1>1. Init => WireType /\ Place /\ Closing /\ InOrder
  <2>1. Init => NewConnection
    BY DEF Init, NewConnection
  <2>2. QED BY <2>1, NewExchange, InitWire, InitPlace, InitClosing DEF InOrder
<1>2. WireType /\ Place /\ Closing /\ InOrder /\ [Next]_vars => (WireType /\ Place /\ Closing /\ InOrder)'
  BY WireStep, ClosingStep, Kinds, PlaceStep, InOrderStep
<1>3. QED BY <1>1, <1>2, PTL DEF Spec

(* A packet gdb has read to the end answers the request it waits for, and while it
   waits for none gdb_server takes the target for stopped: of each request there is
   one packet, one answer or one refusal under way, over damaged packets sent again,
   stops reported late, ^C, and connections that end in the middle.                *)
THEOREM GdbStaysInStep == Spec => []InStep
<1>1. WireType /\ Place /\ Closing /\ InOrder => InStep
  BY InOrderFits
<1>2. QED BY <1>1, InOrderAlways, PTL

-----------------------------------------------------------------------------
(* gdb is told of a stop when the core is stopped, and asks again when the threads
   have been read since it ran.                                                    *)

Halting == at \in {"update", "walk"} /\ req.cmd = "?"
Pending == at = "update" \/ (at = "reply" /\ req.cmd = "stop")
Stops ==
  (Told \/ Halting) /\ ~astray => (live => Running) /\ (ranSince => Running \/ Pending)

LEMMA StopsKept ==
  ASSUME WireType, Place, Closing, [Next]_vars, ~ThreadsUpdated, Stops,
         UNCHANGED coreVars, Running => Running', Pending => Pending', Halting' => Halting
  PROVE  Stops'
<1>1. Told' => Told
  BY ToldStep
<1>2. UNCHANGED <<live, ranSince, astray>>
  BY DEF coreVars
<1> HIDE DEF Told, Halting, Running, Pending
<1>3. QED BY <1>1, <1>2 DEF Stops

LEMMA HandleStops ==
  ASSUME WireType, Place, Closing, [Next]_vars, Stops, Handle
  PROVE  Stops'
<1>1. at = "handle" /\ ~Pending /\ ~ThreadsUpdated
  BY DEF Handle, Pending, ThreadsUpdated
<1>2. CASE HandleStop
  <2>1. at' = "update" /\ (astray' \/ ~live')
    BY <1>2 DEF HandleStop, Halt
  <2>2. QED BY <2>1 DEF Stops, Pending
<1>3. CASE HandleResume
  <2>1. flags' = flags \cup {"running"}
    BY <1>3 DEF HandleResume
  <2>2. QED BY <2>1 DEF Stops, Running
<1>4. CASE ~HandleStop /\ ~HandleResume
  <2>1. UNCHANGED coreVars /\ at' \in {"reply", "monitor"}
        /\ (flags' = flags \/ flags' = flags \ {"ack"} \/ flags' = flags \cup {"console"})
    <3>1. CASE HandleSimple \/ HandleSelect \/ HandleRead
      BY <3>1 DEF HandleSimple, HandleSelect, HandleRead
    <3>2. CASE HandleWrite \/ HandleNoAck \/ HandleMonitor
      BY <3>2 DEF HandleWrite, HandleNoAck, HandleMonitor
    <3>3. QED BY <1>4, <3>1, <3>2 DEF Handle
  <2>2. (Running => Running') /\ ~Halting'
    BY <2>1 DEF Running, Halting
  <2>3. QED BY <1>1, <2>1, <2>2, StopsKept
<1>5. QED BY <1>2, <1>3, <1>4

LEMMA StopsStep ==
  ASSUME WireType, Place, Closing, [Next]_vars, Stops
  PROVE  Stops'
<1>1. CASE UNCHANGED vars \/ GdbSteps \/ GdbReads \/ \E w \in Writers : ConsolePuts(w)
  <2>1. UNCHANGED <<at, req, flags>> /\ UNCHANGED coreVars
    BY <1>1 DEF vars, GdbSteps, GdbReads, ConsolePuts
  <2>2. ~ThreadsUpdated
    BY <2>1 DEF ThreadsUpdated
  <2>3. QED BY <2>1, <2>2, StopsKept DEF Running, Pending, Halting
<1>2. CASE CoreRuns
  <2>1. UNCHANGED <<at, req, flags, astray>> /\ live
    BY <1>2 DEF CoreRuns
  <2>2. ~ThreadsUpdated
    BY <2>1 DEF ThreadsUpdated
  <2>3. (Told' => Told) /\ Halting' = Halting /\ Running' = Running
    BY <2>1, <2>2, ToldStep DEF Halting, Running
  <2>4. QED BY <2>1, <2>3 DEF Stops
<1>3. CASE Handle
  BY <1>3, HandleStops
<1>4. CASE MonitorEnds
  <2>1. at = "monitor" /\ at' = "reply" /\ flags' = flags \ {"console"} /\ UNCHANGED coreVars
    BY <1>4 DEF MonitorEnds
  <2>2. ~ThreadsUpdated
    BY <2>1 DEF ThreadsUpdated
  <2>3. QED BY <2>1, <2>2, StopsKept DEF Running, Pending, Halting
<1>5. CASE Reply
  <2>1. /\ at = "reply" /\ UNCHANGED flags /\ UNCHANGED coreVars
        /\ IF req.cmd = "stop" THEN at' = "update" /\ req' = req ELSE at' = "recv"
    BY <1>5 DEF Reply, AfterReply
  <2>2. ~ThreadsUpdated
    BY <2>1 DEF ThreadsUpdated
  <2>3. QED BY <2>1, <2>2, StopsKept DEF Running, Pending, Halting
<1>6. CASE UpdateThreads
  <2>1. /\ at = "update" /\ at' = "walk" /\ UNCHANGED <<req, flags, live, astray>> /\ ~ranSince'
    BY <1>6 DEF UpdateThreads
  <2>2. ~ThreadsUpdated
    BY <2>1 DEF ThreadsUpdated
  <2>3. (Told' => Told) /\ Halting' = Halting /\ Running' = Running
    BY <2>1, <2>2, ToldStep DEF Halting, Running
  <2>4. QED BY <2>1, <2>3 DEF Stops
<1>7. CASE WalkGoesOn
  <2>1. UNCHANGED <<at, req, flags>> /\ UNCHANGED coreVars
    BY <1>7 DEF WalkGoesOn
  <2>2. ~ThreadsUpdated
    BY <2>1 DEF ThreadsUpdated
  <2>3. QED BY <2>1, <2>2, StopsKept DEF Running, Pending, Halting
<1>8. CASE ThreadsUpdated
  <2>1. /\ at = "walk" /\ UNCHANGED <<flags, live, ranSince, astray, toGdb, met, asked>>
        /\ IF req.cmd = "stop" THEN at' = "poll" ELSE at' = "reply" /\ req' = req
    BY <1>8 DEF ThreadsUpdated, coreVars, Rest, gdbVars
  <2>2. Told' \/ Halting' => Told \/ Halting
    BY <2>1 DEF Told, Halting
  <2>3. ~Pending /\ Running' = Running
    BY <2>1 DEF Pending, Running
  <2>4. QED BY <2>1, <2>2, <2>3 DEF Stops
<1>9. CASE CheckStop
  <2>1. /\ at = "check" /\ at' = "reply" /\ req'.cmd = "stop"
        /\ ~live /\ UNCHANGED <<live, astray>>
    BY <1>9 DEF CheckStop, Compose, coreVars
  <2>2. QED BY <2>1 DEF Stops, Pending
<1>10. CASE Recv \/ ChunkDone \/ CheckNothing \/ PollReads \/ PollTimesOut
  <2>1. at \in {"recv", "check", "poll"} /\ UNCHANGED flags /\ UNCHANGED coreVars
    BY <1>10 DEF Recv, ChunkDone, CheckNothing, PollReads, PollTimesOut
  <2>2. at' \in {"recv", "handle", "check", "poll"}
    BY <1>10, <2>1 DEF Recv, Idles, Checked, ChunkDone, CheckNothing, PollReads, PollTimesOut
  <2>3. ~ThreadsUpdated
    BY <2>1 DEF ThreadsUpdated
  <2>4. QED BY <2>1, <2>2, <2>3, StopsKept DEF Running, Pending, Halting
<1>11. CASE Reconnect
  <2>1. ~Told' /\ at' = "check"
    BY <1>11, Ended DEF Reconnect
  <2>2. QED BY <2>1 DEF Stops, Halting
<1>12. CASE Command
  <2>1. UNCHANGED <<at, req, flags>>
    BY <1>12 DEF Command
  <2>2. ~ThreadsUpdated
    BY <2>1 DEF ThreadsUpdated
  <2>3. (Told' => Told) /\ Halting' = Halting /\ Running' = Running /\ (Pending => Pending')
    BY <2>1, <2>2, ToldStep DEF Halting, Running, Pending
  <2>4. CASE MovesCore
    BY <2>3, <2>4 DEF MovesCore, Running, Stops
  <2>5. CASE StopsCore
    BY <2>3, <2>5 DEF StopsCore, Stops
  <2>6. QED BY <1>12, <2>4, <2>5 DEF Command
<1>13. QED BY <1>1, <1>2, <1>3, <1>4, <1>5, <1>6, <1>7, <1>8, <1>9, <1>10, <1>11, <1>12
          DEF Next, Server

(* While gdb waits for nothing it takes the target for stopped, and it is: what it
   asks next is answered for a core that stands still and with the threads it stopped
   with, unless since gdb resumed or halted it a halt failed, or a command of the
   console's or of gdb's monitor has moved it.                                        *)
THEOREM StopsAreFresh == Spec => []FreshAtStop
<1> DEFINE Inv == WireType /\ Place /\ Closing /\ InOrder
<1>1. Init => Stops
  BY DEF Init, Stops, Told, ToldIn, Halting
<1>2. Inv /\ Stops /\ [Next]_vars => Stops'
  BY StopsStep
<1>3. Inv /\ Stops => FreshAtStop
  <2>1. SUFFICES ASSUME Inv, Stops, at = "poll", met, asked = "none", ~astray, ~late
                 PROVE  ~live /\ ~ranSince
    BY DEF FreshAtStop
  <2>2. ~Running
    BY <2>1, InOrderFits DEF InStep, Running
  <2>3. Told /\ ~Pending
    BY <2>1 DEF Told, Pending
  <2>4. QED BY <2>1, <2>2, <2>3 DEF Stops
<1>4. Spec => []Inv
  BY InOrderAlways
<1> HIDE DEF Inv
<1>5. QED BY <1>1, <1>2, <1>3, <1>4, PTL DEF Spec
===============================================================================
