------------------------------ MODULE GdbMemory ------------------------------
(***************************************************************************)
(* What gdb's m and M packets do to the target's memory: handle_command and  *)
(* write_memory of tools/gdb-bridge.c.  Memory is a function from addresses  *)
(* to bytes; only whole words cross the link.                                *)
(***************************************************************************)
EXTENDS Integers, Sequences

CONSTANTS
  MaxRead,    \* bytes an m packet reads at most (1024)
  Junk        \* a byte of an uninitialised variable

ASSUME MemoryAssumption == MaxRead \in Nat /\ MaxRead % 4 = 0

Least(a, b) == IF a < b THEN a ELSE b
Base(a) == a - (a % 4)

(* m x,n when the first got words of swdp_ahb_read32 arrive: the reply's bytes *)
WordsRead_bug(n) == n \div 4
WordsRead(n) == ((n + 3) \div 4)
ReadMemory(mem, x, n, got) ==
  LET count == Least(n, MaxRead)
      buffer == [i \in 0 .. MaxRead + 7 |->
                   IF i < 4 * Least(got, WordsRead(count)) THEN mem[Base(x) + i] ELSE Junk]
  IN  [i \in 1 .. count |-> buffer[(x % 4) + i - 1]]

-----------------------------------------------------------------------------
(* write_memory.  The accesses in failed fail: a word that is not read stays
   uninitialised, one that is not written stays as it was.                   *)
Accesses == {"readHead", "writeHead", "body", "readTail", "writeTail"}

Patched(mem, first, data) ==
  [a \in DOMAIN mem |-> IF a \in first .. first + Len(data) - 1 THEN data[a - first + 1] ELSE mem[a]]

(* A word read, partly replaced by data from offset on, and written back. *)
Unread(mem, word) == [a \in DOMAIN mem |-> IF a \in word .. word + 3 THEN Junk ELSE mem[a]]
PatchWord(mem, word, offset, data, read, write, failed) ==
  IF data = <<>> \/ write \in failed THEN mem
  ELSE Patched(IF read \in failed THEN Unread(mem, word) ELSE mem, word + offset, data)
PatchWords(mem, word, data, failed) == IF "body" \in failed THEN mem ELSE Patched(mem, word, data)

HeadCount_bug(addr, len) == IF addr % 4 = 0 THEN 0 ELSE Least(addr % 4, len)
HeadCount(addr, len) == IF addr % 4 = 0 THEN 0 ELSE Least(4 - (addr % 4), len)

WriteMemory(mem, addr, data, failed) ==
  LET len   == Len(data)
      head  == HeadCount(addr, len)
      body  == 4 * ((len - head) \div 4)
      start == Base(addr + head)
      Headed == PatchWord(mem, Base(addr), addr % 4, SubSeq(data, 1, head), "readHead", "writeHead", failed)
      Bodied == PatchWords(Headed, start, SubSeq(data, head + 1, head + body), failed)
  IN  PatchWord(Bodied, start + body, 0, SubSeq(data, head + body + 1, len), "readTail", "writeTail", failed)
=============================================================================
