------------------------------ MODULE FlashProofs ------------------------------
(***************************************************************************)
(* No command touches a sector that holds none of its cells (OnlyItsSectors). *)
(* First the geometry: which cells a sector and a page have.  Then the agents: *)
(* what the host knows of the command and the core of its function (AgentInv) *)
(* says that the cells still to come are the command's own, for as long as no *)
(* register of a call was lost.  Then the serial tool (SerialInv), and all.   *)
(*                                                                           *)
(* A command that reports success is done (OkMeansFlashed).  What a function  *)
(* has erased and written follows it through its sectors and pages (Erasing,  *)
(* Writing), and the host from call to call (AgentOk); the serial tool's      *)
(* frames and the ROM's answers keep in step (SerialOk), and so do the blocks *)
(* of DFU (DfuOk).                                                            *)
(***************************************************************************)
EXTENDS Flash, TLAPS, WellFoundedInduction, FiniteSetTheorems, SequenceTheorems

-----------------------------------------------------------------------------
(* Geometry *)

(* A set of numbers has a least one. *)
LEMMA LeastOf ==
  ASSUME NEW S \in SUBSET Nat, S # {}
  PROVE  \E x \in S : \A y \in S : x <= y
<1> DEFINE R == OpToRel(<, Nat)
<1>1. IsWellFoundedOn(R, Nat)
  BY NatLessThanWellFounded
<1>2. \A x, y \in Nat : x < y => <<x, y>> \in R
  BY DEF OpToRel
<1> HIDE DEF R
<1>3. PICK x \in S : \A y \in S : ~(<<y, x>> \in R)
  BY <1>1, WFMin
<1>4. \A y \in S : ~(y < x)
  BY <1>2, <1>3
<1>5. \A y \in S : x <= y
  BY <1>4
<1>6. QED BY <1>5

LEMMA Geometry ==
  ASSUME path \in Paths
  PROVE  /\ Words \in Nat /\ Cells \subseteq Nat /\ (\A c \in Cells : c < Words)
         /\ Part.starts \subseteq Cells /\ 0 \in Part.starts
         /\ Part.page \in Nat \ {0} /\ Part.buffer \in Nat
         /\ path # "dfu" => Part.buffer > 0
         /\ path \in Agents => \A s \in Part.starts \cup {Words} : s % Part.page = 0
<1>1. Words \in Nat
  BY PartsAssumption
<1>2. /\ 0 \in Parts[path].starts /\ Parts[path].starts \subseteq Cells
      /\ Parts[path].page \in Nat \ {0} /\ Parts[path].buffer \in Nat
      /\ path # "dfu" => Parts[path].buffer > 0
      /\ path \in Agents => \A s \in Parts[path].starts \cup {Words} : s % Parts[path].page = 0
  BY PartsAssumption
<1>3. QED BY <1>1, <1>2 DEF Part, Cells

LEMMA Sectors ==
  ASSUME path \in Paths, NEW c \in Cells
  PROVE  /\ SectorOf(c) \in Part.starts /\ SectorOf(c) <= c
         /\ \A t \in Part.starts : t <= c => t <= SectorOf(c)
<1> DEFINE Behind == {c - s : s \in {t \in Part.starts : t <= c}}
<1>1. c \in Nat /\ Part.starts \subseteq Nat /\ 0 \in Part.starts
  BY Geometry
<1>2. Behind \in SUBSET Nat /\ Behind # {}
  <2>1. \A s \in Part.starts : s <= c => c - s \in Nat
    BY <1>1
  <2>2. c - 0 \in Behind
    BY <1>1
  <2>3. QED BY <2>1, <2>2
<1>3. PICK x \in Behind : \A y \in Behind : x <= y
  <2> HIDE DEF Behind
  <2>1. QED BY <1>2, LeastOf
<1>4. PICK s \in Part.starts : s <= c /\ x = c - s
  BY <1>3
<1>5. \A t \in Part.starts : t <= c => t <= s
  <2> SUFFICES ASSUME NEW t \in Part.starts, t <= c PROVE t <= s
    OBVIOUS
  <2>1. c - s <= c - t
    BY <1>3, <1>4
  <2>2. QED BY <1>1, <2>1
<1>6. QED BY <1>4, <1>5 DEF SectorOf

LEMMA SectorIs ==
  ASSUME path \in Paths, NEW c \in Cells, NEW s \in Part.starts, s <= c,
         \A t \in Part.starts : t <= c => t <= s
  PROVE  SectorOf(c) = s
<1>1. c \in Nat /\ s \in Nat /\ SectorOf(c) \in Nat
  BY Geometry, Sectors
<1>2. SectorOf(c) <= s /\ s <= SectorOf(c)
  BY Sectors
<1>3. QED BY <1>1, <1>2

LEMMA InOwnSector ==
  ASSUME NEW c \in Cells
  PROVE  c \in Sector(SectorOf(c))
BY DEF Sector

LEMMA SectorOfStart ==
  ASSUME path \in Paths, NEW a \in Part.starts
  PROVE  a \in Cells /\ SectorOf(a) = a
<1>1. a \in Cells /\ a \in Nat
  BY Geometry
<1>2. QED BY <1>1, SectorIs

(* Only a start has a sector, whose first cell it is. *)
LEMMA SectorAt ==
  ASSUME path \in Paths, NEW a, Sector(a) # {}
  PROVE  a \in Part.starts /\ a \in Cells /\ SectorOf(a) = a
<1>1. PICK c \in Cells : SectorOf(c) = a
  BY DEF Sector
<1>2. a \in Part.starts
  BY <1>1, Sectors
<1>3. QED BY <1>2, SectorOfStart

(* Of the multiples of a page size up to the end of a page, none is past its start. *)
LEMMA Quotient ==
  ASSUME NEW P \in Nat \ {0}, NEW m \in Nat, m % P = 0
  PROVE  \E i \in Nat : m = i * P
<1>1. m \div P \in Nat
  OBVIOUS
<1>2. m = (m \div P) * P + (m % P)
  OBVIOUS
<1> DEFINE q == m \div P
<1>3. q \in Nat /\ m = q * P + 0
  BY <1>1, <1>2
<1> HIDE DEF q
<1>4. q * P \in Nat
  BY <1>3
<1>5. QED BY <1>3, <1>4

LEMMA Growing ==
  ASSUME NEW P \in Nat, NEW i \in Nat, NEW j \in Nat, i <= j
  PROVE  i * P <= j * P
<1>1. PICK d \in Nat : j = i + d
  <2>1. j - i \in Nat /\ j = i + (j - i)
    OBVIOUS
  <2>2. QED BY <2>1
<1>2. j * P = i * P + d * P
  BY <1>1
<1>3. d * P \in Nat /\ i * P \in Nat
  OBVIOUS
<1>4. QED BY <1>2, <1>3

LEMMA Multiples ==
  ASSUME NEW P \in Nat \ {0}, NEW a \in Nat, NEW t \in Nat, a % P = 0, t % P = 0, t < a + P
  PROVE  t <= a
<1>1. PICK i \in Nat : t = i * P
  BY Quotient
<1>2. PICK j \in Nat : a = j * P
  BY Quotient
<1>3. CASE i <= j
  BY <1>1, <1>2, <1>3, Growing
<1>4. CASE j + 1 <= i
  <2>1. (j + 1) * P <= i * P
    BY <1>4, Growing
  <2>2. (j + 1) * P = j * P + P
    OBVIOUS
  <2>3. j * P \in Nat /\ i * P \in Nat
    OBVIOUS
  <2>4. QED BY <1>1, <1>2, <2>1, <2>2, <2>3
<1>5. QED BY <1>3, <1>4

(* A page that starts at a multiple of the page size lies in one sector. *)
LEMMA PageInSector ==
  ASSUME path \in Agents, NEW a \in Cells, a % Part.page = 0, NEW c \in a .. a + Part.page - 1
  PROVE  c \in Cells /\ SectorOf(c) = SectorOf(a)
<1> DEFINE P == Part.page
<1>1. path \in Paths
  BY DEF Paths
<1>2. P \in Nat \ {0} /\ a \in Nat /\ c \in Nat /\ Words \in Nat /\ a < Words /\ a <= c /\ c < a + P
  BY <1>1, Geometry
<1>3. a % P = 0
  OBVIOUS
<1>4. \A t \in Part.starts \cup {Words} : t \in Nat /\ t % P = 0
  BY <1>1, <1>2, Geometry
<1> HIDE DEF P
<1>5. ASSUME NEW t \in Nat, t % P = 0, t <= c
      PROVE  t <= a
  <2>1. t < a + P
    BY <1>2, <1>5
  <2>2. QED BY <1>2, <1>3, <1>5, <2>1, Multiples
<1>6. c < Words
  <2>1. Words <= c => Words <= a
    BY <1>2, <1>4, <1>5
  <2>2. QED BY <1>2, <2>1
<1>7. c \in Cells
  BY <1>2, <1>6 DEF Cells
<1>8. /\ SectorOf(a) \in Part.starts /\ SectorOf(a) <= a /\ SectorOf(a) \in Nat
      /\ \A t \in Part.starts : t <= a => t <= SectorOf(a)
  BY <1>1, <1>4, Sectors
<1>9. \A t \in Part.starts : t <= c => t <= SectorOf(a)
  BY <1>4, <1>5, <1>8
<1>10. SectorOf(a) <= c
  BY <1>2, <1>8
<1>11. QED BY <1>1, <1>7, <1>8, <1>9, <1>10, SectorIs
-----------------------------------------------------------------------------
(* The agents.  While no command has lost an argument, host and core know this. *)

(* The n cells from a on, and the rest of their sectors, may be touched. *)
Owned(a, n) == \A c \in Cells : a <= c /\ c < a + n => Sector(SectorOf(c)) \subseteq mayTouch

(* The erase of stm32fxxx.c takes at least one sector. *)
Extent(n) == IF path = "stm32" /\ n = 0 THEN 1 ELSE n

Flashing == {"attach", "halt", "reset", "rom", "romWait", "load", "call", "wait", "fill"}
Calling == stage \in {"call", "wait"}
Writes == stage = "fill" \/ (Calling /\ callee = "write")
Ops == {"none", "flash", "erase", "exec", "load"}
HostKnows ==
  /\ job \in [op : Ops, addr : Nat, size : Nat] /\ pos \in Nat
  /\ stage \in Flashing => Owned(job.addr, Extent(job.size))
  /\ stage \in Flashing /\ ~Writes => pos = 0
  /\ Calling => callee \in {"setup", "erase", "write"}
  /\ Calling /\ callee = "erase" => job.addr + job.size <= Words
  /\ Writes => job.addr + job.size <= Words /\ pos < job.size

Begun == core.at \in {"enter", "entry", "running", "paused"}
InLoop == core.at \in {"running", "paused"}
Places == HaltedAt \cup {"enter", "running", "rom", "wild"}
CoreType ==
  [at : Places, fn : {"setup", "erase", "write"}, addr : Nat, len : Nat, off : Nat,
   r0 : Int, args : BOOLEAN, lr : BOOLEAN]
CoreKnows ==
  /\ core \in CoreType
  /\ InLoop => core.fn # "setup"
  /\ Begun /\ core.fn # "setup" =>
       /\ core.addr + core.len <= Words
       /\ Owned(core.addr, IF core.fn = "erase" THEN Extent(core.len) ELSE core.len)
       /\ core.fn = "write" => core.len > 0
  /\ InLoop /\ path = "spifi" => core.len > 0
  /\ InLoop /\ path # "stm32" /\ core.fn = "write" => core.addr % Part.page = 0

Kept == mayTouch \subseteq Cells /\ OnlyItsSectors
AgentInv == path \in Agents => Kept /\ (mayTouch # Cells => HostKnows /\ CoreKnows)

(* What the next operation of a function is about *)
LEMMA UnitInside ==
  ASSUME path \in Agents, CoreKnows, core.at = "running", ~Fn.refused
  PROVE  Fn.unit \cap Cells \subseteq mayTouch
<1>1. path \in Paths
  BY DEF Paths
<1>2. /\ core.fn \in {"erase", "write"} /\ core.addr \in Nat /\ core.len \in Nat
      /\ core.addr + core.len <= Words
      /\ Owned(core.addr, IF core.fn = "erase" THEN Extent(core.len) ELSE core.len)
      /\ core.fn = "write" => core.len > 0
      /\ path = "spifi" => core.len > 0
      /\ path # "stm32" /\ core.fn = "write" => core.addr % Part.page = 0
  BY DEF CoreKnows, Begun, InLoop, CoreType
<1>3. Words \in Nat /\ Cells \subseteq Nat /\ \A c \in Nat : c < Words => c \in Cells
  BY <1>1, Geometry DEF Cells
<1>4. ASSUME core.len > 0 \/ (path = "stm32" /\ core.fn = "erase"), core.addr \in Cells
      PROVE  Sector(SectorOf(core.addr)) \subseteq mayTouch
  BY <1>2, <1>3, <1>4 DEF Owned, Extent
<1>5. ASSUME core.len > 0 \/ (path = "stm32" /\ core.fn = "erase")
      PROVE  Sector(core.addr) \subseteq mayTouch
  <2>1. CASE Sector(core.addr) = {}
    BY <2>1
  <2>2. CASE Sector(core.addr) # {}
    <3>1. core.addr \in Cells /\ SectorOf(core.addr) = core.addr
      BY <1>1, <2>2, SectorAt
    <3>2. QED BY <1>4, <1>5, <3>1
  <2>3. QED BY <2>1, <2>2
<1>6. ASSUME core.fn = "write", path # "stm32"
      PROVE  Pages \subseteq mayTouch
  <2>1. core.len > 0 /\ core.addr \in Cells
    BY <1>2, <1>3, <1>6
  <2>2. SUFFICES ASSUME NEW c \in core.addr .. core.addr + Part.page - 1
                 PROVE  c \in mayTouch
    BY DEF Pages
  <2>3. c \in Cells /\ SectorOf(c) = SectorOf(core.addr)
    BY <1>2, <1>6, <2>1, PageInSector
  <2>4. QED BY <1>4, <2>1, <2>3, InOwnSector
<1>7. CASE path = "lpc" /\ core.fn = "erase"
  <2>1. Fn = lpc_erase
    BY <1>7 DEF Fn
  <2>2. \A x \in Fn.unit : \E c \in core.addr .. core.addr + core.len - 1 : x \in Sector(SectorOf(c))
    BY <1>2, <2>1 DEF lpc_erase, Function
  <2>3. \A c \in core.addr .. core.addr + core.len - 1 : c \in Cells /\ c < core.addr + core.len
    BY <1>2, <1>3
  <2>4. Owned(core.addr, core.len)
    BY <1>2, <1>7 DEF Extent
  <2>5. \A c \in core.addr .. core.addr + core.len - 1 : Sector(SectorOf(c)) \subseteq mayTouch
    BY <1>2, <2>3, <2>4 DEF Owned
  <2>6. QED BY <2>2, <2>5
<1>8. CASE path = "lpc" /\ core.fn = "write"
  BY <1>6, <1>8 DEF Fn, lpc_write, Function
<1>9. CASE path = "stm32" /\ core.fn = "erase"
  BY <1>5, <1>9 DEF Fn, stm32_erase, Function
<1>10. CASE path = "stm32" /\ core.fn = "write"
  <2>1. Fn.unit = {core.addr} /\ core.len > 0
    BY <1>2, <1>10 DEF Fn, stm32_write, Function
  <2>2. core.addr \in Cells
    BY <1>2, <1>3, <2>1
  <2>3. QED BY <1>4, <2>1, <2>2, InOwnSector
<1>11. CASE path = "spifi" /\ core.fn = "erase"
  BY <1>2, <1>5, <1>11 DEF Fn, spifi_erase, Function
<1>12. CASE path = "spifi" /\ core.fn = "write"
  BY <1>6, <1>12 DEF Fn, spifi_write, Function
<1>13. QED BY <1>2, <1>7, <1>8, <1>9, <1>10, <1>11, <1>12 DEF Agents
(* Where the next operation of a loop begins *)
LEMMA NextMultiple ==
  ASSUME NEW P \in Nat \ {0}, NEW a \in Nat, a % P = 0
  PROVE  (a + P) % P = 0
<1> DEFINE r == (a + P) % P
           q == (a + P) \div P
<1>1. r \in 0 .. P - 1
  OBVIOUS
<1>2. q \in Nat
  OBVIOUS
<1>3. a + P = q * P + r
  OBVIOUS
<1> HIDE DEF q, r
<1>4. PICK i \in Nat : a = i * P
  BY Quotient
<1>5. (i + 1) * P = i * P + P /\ q * P \in Nat /\ (i + 1) * P \in Nat
  BY <1>2
<1>6. (i + 1) * P = q * P + r
  BY <1>3, <1>4, <1>5
<1>7. ~(i + 1 <= q) => q + 1 <= i + 1
  BY <1>2
<1>8. CASE i + 1 <= q
  <2>1. (i + 1) * P <= q * P
    BY <1>2, <1>8, Growing
  <2>2. r = 0
    BY <1>1, <1>5, <1>6, <2>1
  <2>3. QED BY <2>2 DEF r
<1>9. CASE q + 1 <= i + 1
  <2>1. (q + 1) * P <= (i + 1) * P
    BY <1>2, <1>9, Growing
  <2>2. (q + 1) * P = q * P + P
    BY <1>2
  <2>3. FALSE
    BY <1>1, <1>5, <1>6, <2>1, <2>2
  <2>4. QED BY <2>3
<1>10. QED BY <1>7, <1>8, <1>9

LEMMA SmallMod ==
  ASSUME NEW W \in Nat, NEW a \in Nat, a < W
  PROVE  a % W = a
OBVIOUS

LEMMA SectorSize ==
  ASSUME path \in Paths, NEW a
  PROVE  Cardinality(Sector(a)) \in Nat
<1>1. IsFiniteSet(Cells)
  <2>1. 0 \in Int /\ Words - 1 \in Int
    BY Geometry
  <2>2. QED BY <2>1, FS_Interval DEF Cells
<1>2. Sector(a) \subseteq Cells
  BY DEF Sector
<1>3. QED BY <1>1, <1>2, FS_Subset, FS_CardinalityType

LEMMA PageSize ==
  ASSUME NEW P \in Nat \ {0}, NEW a \in Nat
  PROVE  Cardinality(a .. a + P - 1) = P
<1>1. a \in Int /\ a + P - 1 \in Int /\ ~(a > a + P - 1) /\ (a + P - 1) - a + 1 = P
  OBVIOUS
<1>2. QED BY <1>1, FS_Interval

Size == Cardinality(Fn.unit)
NextAddr == IF path = "spifi" THEN (core.addr + Size) % Words ELSE core.addr + Size

LEMMA GoesOn ==
  ASSUME path \in Agents, CoreKnows, core.at = "running", Fn.more
  PROVE  /\ Size \in Nat /\ core.len - Size \in Nat /\ core.len - Size > 0
         /\ NextAddr = core.addr + Size
         /\ path # "stm32" /\ core.fn = "write" => NextAddr % Part.page = 0
<1>1. path \in Paths
  BY DEF Paths
<1>2. /\ core.fn \in {"erase", "write"} /\ core.addr \in Nat /\ core.len \in Nat
      /\ core.addr + core.len <= Words /\ Words \in Nat
      /\ path # "stm32" /\ core.fn = "write" => core.addr % Part.page = 0
      /\ Part.page \in Nat \ {0}
  BY <1>1, Geometry DEF CoreKnows, Begun, InLoop, CoreType
<1>3. ASSUME NEW n \in Nat, Size = n, core.len - n > 0
      PROVE  /\ Size \in Nat /\ core.len - Size \in Nat /\ core.len - Size > 0
             /\ NextAddr = core.addr + Size
  <2>1. core.addr + n \in Nat /\ core.addr + n < Words /\ core.len - n \in Nat
    BY <1>2, <1>3
  <2>2. (core.addr + n) % Words = core.addr + n
    BY <1>2, <2>1, SmallMod
  <2>3. QED BY <1>3, <2>1, <2>2 DEF NextAddr
<1>4. CASE path = "lpc"
  <2>1. Fn.more = FALSE
    BY <1>4 DEF Fn, lpc_erase, lpc_write, Function
  <2>2. QED BY <2>1
<1>5. CASE path = "stm32" /\ core.fn = "erase"
  <2>1. Fn.unit = Sector(core.addr) /\ core.len - Cardinality(Sector(core.addr)) > 0
    BY <1>5 DEF Fn, stm32_erase, Function, Left
  <2>2. Size = Cardinality(Sector(core.addr)) /\ Size \in Nat
    BY <1>1, <2>1, SectorSize DEF Size
  <2>3. QED BY <1>3, <1>5, <2>1, <2>2
<1>6. CASE path = "stm32" /\ core.fn = "write"
  <2>1. Fn.unit = {core.addr} /\ core.len > 1
    BY <1>6 DEF Fn, stm32_write, Function
  <2>2. Size = 1
    BY <2>1, FS_Singleton DEF Size
  <2>3. core.len - 1 > 0
    BY <1>2, <2>1
  <2>4. QED BY <1>3, <1>6, <2>2, <2>3
<1>7. CASE path = "spifi" /\ core.fn = "erase"
  <2>1. Fn.unit = Sector(core.addr) /\ core.len - Cardinality(Sector(core.addr)) > 0
    BY <1>7 DEF Fn, spifi_erase, Function, Left
  <2>2. Size = Cardinality(Sector(core.addr)) /\ Size \in Nat
    BY <1>1, <2>1, SectorSize DEF Size
  <2>3. QED BY <1>3, <1>7, <2>1, <2>2
<1>8. CASE path = "spifi" /\ core.fn = "write"
  <2>1. Fn.unit = Pages /\ core.len - Cardinality(Pages) > 0
    BY <1>8 DEF Fn, spifi_write, Function, Left
  <2>2. Cardinality(Pages) = Part.page
    BY <1>2, PageSize DEF Pages
  <2>3. Size = Part.page /\ core.len - Part.page > 0
    BY <2>1, <2>2 DEF Size
  <2>4. (core.addr + Part.page) % Part.page = 0
    BY <1>2, <1>8, NextMultiple
  <2>5. QED BY <1>2, <1>3, <2>3, <2>4
<1>9. QED BY <1>2, <1>4, <1>5, <1>6, <1>7, <1>8 DEF Agents

(* Its operations change what they may, and its functions go on as they began. *)
LEMMA OwnedRest ==
  ASSUME NEW a \in Nat, NEW n \in Nat, NEW b \in Nat, NEW m \in Nat, a <= b, b + m <= a + n, Owned(a, n)
  PROVE  Owned(b, m)
<1>1. SUFFICES ASSUME NEW c \in Cells, b <= c, c < b + m
               PROVE  Sector(SectorOf(c)) \subseteq mayTouch
  BY DEF Owned
<1>2. c \in Int
  BY DEF Cells
<1>3. a <= c /\ c < a + n
  BY <1>1, <1>2
<1>4. QED BY <1>3 DEF Owned
(* What stays as it was while the path is the same *)
LEMMA SectorStays ==
  ASSUME path' = path
  PROVE  Part' = Part /\ (\A c : SectorOf(c)' = SectorOf(c)) /\ (\A s : Sector(s)' = Sector(s))
<1>1. Part' = Part
  BY DEF Part
<1>2. ASSUME NEW c PROVE SectorOf(c)' = SectorOf(c)
  BY <1>1 DEF SectorOf
<1>3. ASSUME NEW s PROVE Sector(s)' = Sector(s)
  BY <1>2 DEF Sector, Cells
<1>4. QED BY <1>1, <1>2, <1>3

LEMMA OwnedStays ==
  ASSUME path' = path, mayTouch \subseteq mayTouch'
  PROVE  \A a, n : Owned(a, n) => Owned(a, n)'
<1>1. SUFFICES ASSUME NEW a, NEW n, Owned(a, n), NEW c \in Cells, a <= c, c < a + n
      PROVE  Sector(SectorOf(c))' \subseteq mayTouch'
  BY DEF Owned, Cells
<1>2. Sector(SectorOf(c)) \subseteq mayTouch
  BY <1>1 DEF Owned
<1>3. Sector(SectorOf(c))' = Sector(SectorOf(c))
  BY SectorStays
<1>4. QED BY <1>2, <1>3

LEMMA HostStays ==
  ASSUME path' = path, mayTouch \subseteq mayTouch', HostKnows, UNCHANGED <<job, pos, stage, callee>>
  PROVE  HostKnows'
BY OwnedStays DEF HostKnows, Calling, Writes, Extent

(* The core goes on with what it was at, is halted in it, or leaves it. *)
LEMMA CoreMoves ==
  ASSUME path' = path, mayTouch \subseteq mayTouch', CoreKnows, core' \in CoreType,
         core'.fn = core.fn, core'.addr = core.addr, core'.len = core.len,
         \/ core'.at = core.at
         \/ core'.at \notin {"enter", "entry", "running", "paused"}
         \/ core.at = "enter" /\ core'.at = "entry"
         \/ core.at = "entry" /\ core'.at = "enter"
         \/ core.at = "running" /\ core'.at = "paused"
         \/ core.at = "paused" /\ core'.at = "running"
  PROVE  CoreKnows'
<1>1. Begun' => Begun
  BY DEF Begun
<1>2. InLoop' => InLoop
  BY DEF InLoop
<1>3. core \in CoreType
  BY DEF CoreKnows, CoreType
<1>4. Begun /\ core.fn # "setup" =>
        /\ (core.addr + core.len <= Words)'
        /\ Owned(core.addr, IF core.fn = "erase" THEN Extent(core.len) ELSE core.len)'
        /\ core.fn = "write" => core.len > 0
  BY OwnedStays DEF CoreKnows, Extent
<1>5. Part' = Part
  BY SectorStays
<1>6. QED BY <1>1, <1>2, <1>4, <1>5 DEF CoreKnows, CoreType

LEMMA CoreStays ==
  ASSUME path' = path, mayTouch \subseteq mayTouch', CoreKnows, core' = core
  PROVE  CoreKnows'
<1>1. core \in CoreType
  BY DEF CoreKnows, CoreType
<1>2. QED BY <1>1, CoreMoves

LEMMA CoreAt ==
  ASSUME path' = path, mayTouch \subseteq mayTouch', CoreKnows, NEW w \in Places, core' = At(w),
         \/ w \notin {"enter", "entry", "running", "paused"}
         \/ core.at = "enter" /\ w = "entry"
         \/ core.at = "entry" /\ w = "enter"
         \/ core.at = "running" /\ w = "paused"
         \/ core.at = "paused" /\ w = "running"
  PROVE  CoreKnows'
<1>1. core \in CoreType
  BY DEF CoreKnows, CoreType
<1>2. /\ core' \in CoreType /\ core'.at = w
      /\ core'.fn = core.fn /\ core'.addr = core.addr /\ core'.len = core.len
  BY <1>1 DEF CoreType, At
<1>3. QED BY <1>2, CoreMoves

LEMMA CoreReturns ==
  ASSUME path' = path, mayTouch \subseteq mayTouch', CoreKnows, NEW code \in Int, Return(code)
  PROVE  CoreKnows'
<1>1. core \in CoreType
  BY DEF CoreKnows, CoreType
<1>2. CASE core.lr
  <2>1. core' = [core EXCEPT !.at = "back", !.r0 = code]
    BY <1>2 DEF Return
  <2>2. /\ core' \in CoreType /\ core'.at = "back"
        /\ core'.fn = core.fn /\ core'.addr = core.addr /\ core'.len = core.len
    BY <1>1, <2>1 DEF CoreType, Places, HaltedAt
  <2>3. QED BY <2>2, CoreMoves
<1>3. CASE ~core.lr
  <2>1. core' = At("wild")
    BY <1>3 DEF Return
  <2>2. QED BY <2>1, CoreAt DEF Places
<1>4. QED BY <1>2, <1>3

-----------------------------------------------------------------------------
(* Steps of the target *)

(* Enters: what is checked before the first operation *)
LEMMA EntersStep ==
  ASSUME path \in Agents, CoreKnows, Enters, path' = path, mayTouch' = mayTouch
  PROVE  CoreKnows'
<1>1. path \in Paths
  BY DEF Paths
<1>2. core.at = "enter" /\ core.fn \in {"erase", "write"} /\ core \in CoreType
  BY DEF Enters, CoreKnows, CoreType
<1>3. CASE Return(ERR_ALIGNMENT) \/ Return(0)
  BY <1>3, CoreReturns DEF ERR_ALIGNMENT
<1>4. CASE Fn.aligned /\ ~Fn.nothing /\ core' = At("running")
  <2>1. /\ core' \in CoreType /\ core'.at = "running"
        /\ core'.fn = core.fn /\ core'.addr = core.addr /\ core'.len = core.len
    BY <1>2, <1>4 DEF CoreType, At, Places, HaltedAt
  <2>2. /\ (core.addr + core.len <= Words)'
        /\ Owned(core.addr, IF core.fn = "erase" THEN Extent(core.len) ELSE core.len)'
        /\ core'.fn = "write" => core'.len > 0
    BY <1>2, <2>1, OwnedStays DEF CoreKnows, Extent, Begun
  <2>3. ASSUME path = "spifi" PROVE core'.len > 0
    <3>1. core.len # 0
      BY <1>2, <1>4, <2>3 DEF Fn, spifi_erase, spifi_write, Function
    <3>2. QED BY <1>2, <2>1, <3>1 DEF CoreType
  <2>4. ASSUME path # "stm32", core.fn = "write" PROVE (core.addr % Part.page = 0)'
    <3>1. core.addr \in Part.starts
      BY <1>2, <1>4, <2>4 DEF Fn, lpc_write, spifi_write, Function, SectorStart, Agents
    <3>2. core.addr % Part.page = 0
      BY <1>1, <3>1, Geometry
    <3>3. QED BY <2>1, <3>2, SectorStays
  <2>5. QED BY <1>2, <2>1, <2>2, <2>3, <2>4 DEF CoreKnows, CoreType, Begun, InLoop
<1>5. QED BY <1>3, <1>4 DEF Enters

(* Operates: it touches its unit only, and goes on with the next. *)
LEMMA OperatesStep ==
  ASSUME path \in Agents, CoreKnows, Operates, path' = path, mayTouch' = mayTouch
  PROVE  CoreKnows' /\ (mayTouch \subseteq Cells /\ OnlyItsSectors => OnlyItsSectors')
<1>1. /\ core.at = "running" /\ core.fn \in {"erase", "write"} /\ core \in CoreType /\ ~Fn.refused
      /\ core.addr + core.len <= Words
      /\ Owned(core.addr, IF core.fn = "erase" THEN Extent(core.len) ELSE core.len)
  BY DEF Operates, CoreKnows, CoreType, InLoop, Begun
<1>2. Fn.unit \cap Cells \subseteq mayTouch
  BY <1>1, UnitInside
<1>3. flash' = [c \in Cells |-> IF c \in Fn.unit THEN Written(c) ELSE flash[c]]
  BY DEF Operates
<1>4. OnlyItsSectors => OnlyItsSectors'
  BY <1>2, <1>3 DEF OnlyItsSectors, Cells
<1>5. CASE Return(ERR_FAIL) \/ Return(0)
  BY <1>4, <1>5, CoreReturns DEF ERR_FAIL
<1>6. CASE Fn.more /\ core' = [core EXCEPT !.addr = NextAddr, !.len = core.len - Size, !.off = core.off + Size]
  <2>1. /\ Size \in Nat /\ core.len - Size \in Nat /\ core.len - Size > 0
        /\ NextAddr = core.addr + Size
        /\ path # "stm32" /\ core.fn = "write" => NextAddr % Part.page = 0
    BY <1>1, <1>6, GoesOn
  <2>2. core.addr \in Nat /\ core.len \in Nat /\ core.off \in Nat
    BY <1>1 DEF CoreType
  <2>3. NextAddr \in Nat /\ core.off + Size \in Nat /\ NextAddr + (core.len - Size) = core.addr + core.len
    BY <2>1, <2>2
  <2>4. /\ core' \in CoreType /\ core'.at = "running" /\ core'.fn = core.fn
        /\ core'.addr = NextAddr /\ core'.len = core.len - Size
    BY <1>1, <1>6, <2>1, <2>3 DEF CoreType, Places, HaltedAt
  <2>5. Owned(core.addr, core.len)
    <3>1. CASE core.len = 0
      BY <2>1, <2>2, <3>1
    <3>2. CASE core.len # 0
      BY <1>1, <3>2 DEF Extent
    <3>3. QED BY <3>1, <3>2
  <2>6. Owned(NextAddr, core.len - Size)
    BY <2>1, <2>2, <2>3, <2>5, OwnedRest
  <2>7. Owned(core.addr, core.len)'
    BY <2>4, <2>6, OwnedStays
  <2>8. Owned(core.addr, IF core.fn = "erase" THEN Extent(core.len) ELSE core.len)'
    BY <2>1, <2>4, <2>7 DEF Extent
  <2>9. (core.addr + core.len <= Words)' /\ core'.len > 0
    BY <1>1, <2>1, <2>3, <2>4
  <2>10. path # "stm32" /\ core'.fn = "write" => (core.addr % Part.page = 0)'
    BY <2>1, <2>4, SectorStays
  <2>11. CoreKnows'
    BY <1>1, <2>4, <2>8, <2>9, <2>10 DEF CoreKnows, CoreType, Begun, InLoop
  <2>12. QED BY <1>4, <2>11
<1>7. QED BY <1>5, <1>6 DEF Operates, NextAddr, Size

LEMMA GarbledStep ==
  ASSUME path \in Agents, CoreKnows, core.at = "running", ~Fn.refused, flash' = Garbled(Fn.unit),
         OnlyItsSectors, mayTouch \subseteq mayTouch'
  PROVE  OnlyItsSectors'
<1>1. Fn.unit \cap Cells \subseteq mayTouch
  BY UnitInside
<1>2. \A c \in Cells : flash'[c] = IF c \in Fn.unit THEN Junk ELSE flash[c]
  BY DEF Garbled
<1>3. QED BY <1>1, <1>2 DEF OnlyItsSectors, Cells

LEMMA TargetStep ==
  ASSUME path \in Agents, AgentInv, TargetSteps
  PROVE  AgentInv'
<1>1. path' = path /\ mayTouch' = mayTouch /\ UNCHANGED <<job, pos, stage, callee>>
  BY DEF TargetSteps, jobVars
<1>2. CASE mayTouch = Cells
  BY <1>1, <1>2 DEF AgentInv, Kept, OnlyItsSectors, Cells
<1>3. CASE mayTouch # Cells
  <2>1. Kept /\ HostKnows /\ CoreKnows
    BY <1>3 DEF AgentInv
  <2>2. HostKnows'
    BY <1>1, <2>1, HostStays
  <2>3. SUFFICES CoreKnows' /\ OnlyItsSectors'
    BY <1>1, <2>1, <2>2 DEF AgentInv, Kept, Cells
  <2>4. flash' = flash => OnlyItsSectors'
    BY <1>1, <2>1 DEF Kept, OnlyItsSectors, Cells
  <2>5. CASE flash_agent_setup
    BY <1>1, <2>1, <2>4, <2>5, CoreReturns DEF flash_agent_setup, ERR_FAIL
  <2>6. CASE Enters
    BY <1>1, <2>1, <2>4, <2>6, EntersStep DEF Enters
  <2>7. CASE Operates
    BY <1>1, <2>1, <2>7, OperatesStep DEF Kept
  <2>8. CASE OperationFails
    <3>1. CoreKnows'
      BY <1>1, <2>1, <2>8, CoreReturns DEF OperationFails, ERR_FAIL
    <3>2. CASE flash' = flash
      BY <2>4, <3>1, <3>2
    <3>3. CASE ~Fn.refused /\ flash' = Garbled(Fn.unit)
      BY <1>1, <2>1, <2>8, <3>1, <3>3, GarbledStep DEF OperationFails, Kept
    <3>4. QED BY <2>8, <3>2, <3>3 DEF OperationFails
  <2>9. CASE RomEnds
    BY <1>1, <2>1, <2>4, <2>9, CoreAt DEF RomEnds, Places, HaltedAt
  <2>10. CASE WildHalts
    BY <1>1, <2>1, <2>4, <2>10, CoreAt DEF WildHalts, Places, HaltedAt
  <2>11. QED BY <2>5, <2>6, <2>7, <2>8, <2>9, <2>10 DEF TargetSteps
<1>4. QED BY <1>2, <1>3
-----------------------------------------------------------------------------
(* Steps of the host *)

LEMMA OwnedAtStart ==
  ASSUME path \in Paths, path' = path, NEW j \in Jobs, Covering(j) \subseteq mayTouch'
  PROVE  Owned(j.addr, Extent(j.size))'
<1>1. j.addr \in Nat /\ j.size \in Nat
  BY JobsAssumption
<1>2. SUFFICES ASSUME NEW c \in Cells, j.addr <= c, c < j.addr + Extent(j.size)
               PROVE  Sector(SectorOf(c)) \subseteq mayTouch'
  BY SectorStays DEF Owned, Cells, Extent
<1> DEFINE k == IF path = "stm32" /\ j.size = 0 THEN [j EXCEPT !.size = 1] ELSE j
<1>3. k.addr = j.addr /\ k.size = Extent(j.size)
  BY JobsAssumption DEF Extent
<1>4. c \in Region(k)
  BY <1>2, <1>3 DEF Region
<1>5. Sector(SectorOf(c)) \subseteq Covering(j)
  BY <1>4 DEF Covering
<1>6. QED BY <1>5

LEMMA OwnedWhole ==
  ASSUME path \in Paths, job \in [op : Ops, addr : Nat, size : Nat], Owned(job.addr, Extent(job.size))
  PROVE  /\ Whole(job) \in [op : Ops, addr : Nat, size : Nat]
         /\ Whole(job).addr = job.addr
         /\ Owned(Whole(job).addr, Extent(Whole(job).size))
<1>1. Words \in Nat \ {0} /\ All = 4 * Words
  BY Geometry DEF All
<1>2. CASE job.size = All
  <2>1. Whole(job) = [job EXCEPT !.size = Words]
    BY <1>2 DEF Whole
  <2>2. Extent(job.size) = 4 * Words /\ Extent(Words) = Words
    BY <1>1, <1>2 DEF Extent
  <2>3. job.addr \in Nat /\ Words \in Nat /\ 4 * Words \in Nat /\ job.addr + Words <= job.addr + 4 * Words
    BY <1>1
  <2>4. Owned(job.addr, Words)
    BY <2>2, <2>3, OwnedRest
  <2>5. QED BY <2>1, <2>2, <2>3, <2>4
<1>3. CASE job.size # All
  BY <1>3 DEF Whole
<1>4. QED BY <1>2, <1>3

LEMMA OnlyStays ==
  ASSUME OnlyItsSectors, flash' = flash, mayTouch \subseteq mayTouch'
  PROVE  OnlyItsSectors'
BY DEF OnlyItsSectors, Cells

LEMMA HostGoes ==
  ASSUME HostKnows, path' = path, mayTouch \subseteq mayTouch', UNCHANGED <<job, pos>>,
         \/ stage' \notin Flashing
         \/ /\ stage \in {"attach", "halt", "reset", "rom", "romWait", "load"}
            /\ stage' \in {"halt", "reset", "rom", "romWait", "load"} \/ (stage' = "call" /\ callee' = "setup")
         \/ stage = "call" /\ stage' = "wait" /\ callee' = callee
         \/ stage = "fill" /\ stage' = "call" /\ callee' = "write"
  PROVE  HostKnows'
<1>1. stage \in Flashing => Owned(job.addr, Extent(job.size))'
  BY OwnedStays DEF HostKnows, Extent
<1>2. QED BY <1>1 DEF HostKnows, Calling, Writes, Flashing

LEMMA StoppedKnows ==
  ASSUME path' = path, mayTouch \subseteq mayTouch', CoreKnows, core' = Stopped
  PROVE  CoreKnows'
<1>1. CASE Halted
  <2>1. Stopped = core
    BY <1>1 DEF Stopped, Halted, HaltedAt
  <2>2. QED BY <2>1, CoreStays
<1>2. CASE ~Halted
  <2>1. \/ core.at = "enter" /\ core' = At("entry")
        \/ core.at = "running" /\ core' = At("paused")
        \/ core' = At("elsewhere")
    BY <1>2 DEF Stopped
  <2>2. QED BY <2>1, CoreAt DEF Places, HaltedAt
<1>3. QED BY <1>1, <1>2

LEMMA ResumedKnows ==
  ASSUME path' = path, mayTouch \subseteq mayTouch', CoreKnows, core' = Resumed
  PROVE  CoreKnows'
<1>1. \/ core.at = "entry" /\ core' = At("enter")
      \/ core.at = "paused" /\ core' = At("running")
      \/ core' = core
      \/ core' = At("wild")
  BY DEF Resumed
<1>2. QED BY <1>1, CoreAt, CoreStays DEF Places, HaltedAt

(* invoke: the core is given what the host knows. *)
LEMMA CalledKnows ==
  ASSUME path \in Agents, path' = path, mayTouch \subseteq mayTouch', HostKnows, stage = "call",
         core' \in {Called, [Called EXCEPT !.at = "entry"]}
  PROVE  CoreKnows'
<1>1. path \in Paths /\ path # "dfu"
  BY DEF Paths, Agents
<1>2. /\ callee \in {"setup", "erase", "write"} /\ job.addr \in Nat /\ job.size \in Nat /\ pos \in Nat
      /\ callee = "erase" => job.addr + job.size <= Words
      /\ callee = "write" => job.addr + job.size <= Words /\ pos < job.size
      /\ Owned(job.addr, Extent(job.size))
  BY DEF HostKnows, Calling, Writes, Flashing
<1>3. Part.buffer \in Nat \ {0} /\ Words \in Nat
  BY <1>1, Geometry
<1>4. ASSUME callee = "write"
      PROVE  /\ Xfer \in Nat \ {0} /\ pos + Xfer <= job.size
             /\ Owned(job.addr + pos, Xfer) /\ job.addr + pos + Xfer <= Words
  <2>1. Xfer \in Nat \ {0} /\ pos + Xfer <= job.size
    BY <1>2, <1>3, <1>4 DEF Xfer
  <2>2. Owned(job.addr, job.size)
    <3>1. job.size # 0
      BY <1>2, <1>4
    <3>2. QED BY <1>2, <3>1 DEF Extent
  <2>3. job.addr + pos \in Nat /\ job.addr <= job.addr + pos
        /\ job.addr + pos + Xfer <= job.addr + job.size
    BY <1>2, <2>1
  <2>4. Owned(job.addr + pos, Xfer)
    BY <1>2, <2>1, <2>2, <2>3, OwnedRest
  <2>5. job.addr + pos + Xfer <= Words
    BY <1>2, <1>3, <1>4, <2>1, <2>3
  <2>6. QED BY <2>1, <2>4, <2>5
<1>5. PICK a \in Nat, n \in Nat :
        /\ Called = [at |-> "enter", fn |-> callee, off |-> 0, r0 |-> a, args |-> TRUE, lr |-> TRUE,
                     addr |-> a, len |-> n]
        /\ callee = "erase" => a = job.addr /\ n = job.size
        /\ callee = "write" => a = job.addr + pos /\ n = Xfer
  <2>1. CASE callee = "setup"
    <3>1. FirstArg = 0
      BY <2>1 DEF FirstArg
    <3>2. Called = [at |-> "enter", fn |-> callee, off |-> 0, r0 |-> 0, args |-> TRUE, lr |-> TRUE,
                    addr |-> 0, len |-> 0]
      BY <2>1, <3>1 DEF Called
    <3>3. QED BY <2>1, <3>2
  <2>2. CASE callee = "erase"
    <3>1. FirstArg = job.addr
      BY <2>2 DEF FirstArg
    <3>2. Called = [at |-> "enter", fn |-> callee, off |-> 0, r0 |-> job.addr, args |-> TRUE, lr |-> TRUE,
                    addr |-> job.addr, len |-> job.size]
      BY <2>2, <3>1 DEF Called
    <3>3. QED BY <1>2, <2>2, <3>2
  <2>3. CASE callee = "write"
    <3>1. FirstArg = job.addr + pos
      BY <2>3 DEF FirstArg
    <3>2. Called = [at |-> "enter", fn |-> callee, off |-> 0, r0 |-> job.addr + pos, args |-> TRUE,
                    lr |-> TRUE, addr |-> job.addr + pos, len |-> Xfer]
      BY <2>3, <3>1 DEF Called
    <3>3. job.addr + pos \in Nat
      BY <1>2
    <3>4. QED BY <1>4, <2>3, <3>2, <3>3
  <2>4. QED BY <1>2, <2>1, <2>2, <2>3
<1>6. /\ core' \in CoreType /\ core'.fn = callee /\ core'.addr = a /\ core'.len = n
      /\ core'.at \in {"enter", "entry"}
  <2>1. PICK w \in {"enter", "entry"} :
          core' = [at |-> w, fn |-> callee, off |-> 0, r0 |-> a, args |-> TRUE, lr |-> TRUE,
                   addr |-> a, len |-> n]
    BY <1>5
  <2>2. w \in Places /\ a \in Int
    BY DEF Places, HaltedAt
  <2>3. QED BY <1>2, <2>1, <2>2 DEF CoreType
<1>7. callee = "erase" =>
        /\ (core.addr + core.len <= Words)' /\ Owned(core.addr, Extent(core.len))'
  BY <1>2, <1>5, <1>6, OwnedStays DEF Extent
<1>8. callee = "write" =>
        /\ (core.addr + core.len <= Words)' /\ Owned(core.addr, core.len)' /\ core'.len > 0
  BY <1>4, <1>5, <1>6, OwnedStays
<1>9. QED BY <1>2, <1>6, <1>7, <1>8 DEF CoreKnows, Begun, InLoop
(* The steps that leave the core alone *)
LEMMA BeginsKnows ==
  ASSUME path \in Agents, Begins
  PROVE  HostKnows'
<1>1. path \in Paths
  BY DEF Paths
<1>2. PICK j \in Jobs :
        /\ job' = j /\ pos' = 0 /\ mayTouch' = mayTouch \cup (IF j.op \in {"flash", "erase"} THEN Covering(j) ELSE {})
        /\ stage' = CASE j.op = "exec" -> "runHalt" [] j.op = "load" -> "download" [] OTHER -> "attach"
  BY DEF Begins, Starts
<1>3. j \in [op : {"flash", "erase", "exec", "load"}, addr : Nat, size : Nat] /\ path' = path
  BY JobsAssumption DEF Begins
<1>4. stage' \in {"runHalt", "download", "attach"} /\ (stage' = "attach" => j.op \in {"flash", "erase"})
  BY <1>2, <1>3
<1>5. stage' = "attach" => Owned(j.addr, Extent(j.size))'
  BY <1>1, <1>2, <1>3, <1>4, OwnedAtStart
<1>6. job' \in [op : Ops, addr : Nat, size : Nat]
  BY <1>2, <1>3 DEF Ops
<1>7. stage' = "attach" => Owned(job.addr, Extent(job.size))'
  BY <1>2, <1>5
<1>8. QED BY <1>2, <1>4, <1>6, <1>7 DEF HostKnows, Calling, Writes, Flashing

LEMMA CallsNextKnows ==
  ASSUME path \in Agents, HostKnows, CallsNext
  PROVE  HostKnows'
<1>1. path \in Paths /\ path # "dfu"
  BY DEF Paths, Agents
<1>2. path' = path /\ mayTouch' = mayTouch /\ stage = "wait"
  BY DEF CallsNext, AfterSetup, AfterErase, AfterWrite, Invoked
<1>3. /\ job \in [op : Ops, addr : Nat, size : Nat] /\ pos \in Nat
      /\ Owned(job.addr, Extent(job.size))
  BY <1>2 DEF HostKnows, Flashing
<1>4. CASE AfterSetup
  <2>1. /\ Whole(job) \in [op : Ops, addr : Nat, size : Nat]
        /\ Owned(Whole(job).addr, Extent(Whole(job).size))
    BY <1>1, <1>3, OwnedWhole
  <2>2. job' = Whole(job) /\ pos' = pos /\ callee = "setup"
    BY <1>4 DEF AfterSetup, Ends, To
  <2>3. Owned(job.addr, Extent(job.size))'
    BY <1>2, <2>1, <2>2, OwnedStays DEF Extent
  <2>4. pos = 0
    BY <1>2, <2>2 DEF HostKnows, Flashing, Calling, Writes
  <2>5. CASE stage' = "idle"
    BY <1>3, <2>1, <2>2, <2>5 DEF HostKnows, Calling, Writes, Flashing
  <2>6. CASE stage' = "call" /\ callee' = "erase" /\ job'.addr + job'.size <= Words
    BY <2>1, <2>2, <2>3, <2>4, <2>6 DEF HostKnows, Calling, Writes, Flashing
  <2>7. Words \in Nat /\ job'.addr \in Nat /\ job'.size \in Nat
    BY <1>1, <2>1, <2>2, Geometry
  <2>8. QED BY <1>4, <2>5, <2>6, <2>7 DEF AfterSetup, Ends, To
<1>5. CASE AfterErase
  <2>1. /\ job' = job /\ pos' = pos /\ callee' = callee /\ callee = "erase"
        /\ stage' = "idle" \/ (stage' = "fill" /\ job.size # 0)
    BY <1>5 DEF AfterErase, Ends
  <2>2. pos = 0 /\ job.addr + job.size <= Words
    BY <1>2, <2>1 DEF HostKnows, Flashing, Calling, Writes
  <2>3. Owned(job.addr, Extent(job.size))'
    BY <1>2, <1>3, <2>1, OwnedStays DEF Extent
  <2>4. job.size # 0 => 0 < job.size
    BY <1>3
  <2>5. QED BY <1>3, <2>1, <2>2, <2>3, <2>4 DEF HostKnows, Calling, Writes, Flashing
<1>6. CASE AfterWrite
  <2>1. /\ job' = job /\ pos' = pos + Xfer /\ callee' = callee /\ callee = "write"
        /\ stage' = "idle" \/ (stage' = "fill" /\ pos + Xfer # job.size)
    BY <1>6 DEF AfterWrite, Ends
  <2>2. pos < job.size /\ job.addr + job.size <= Words
    BY <1>2, <2>1 DEF HostKnows, Flashing, Calling, Writes
  <2>3. Part.buffer \in Nat
    BY <1>1, Geometry
  <2>4. pos + Xfer \in Nat /\ pos + Xfer <= job.size
    BY <1>3, <2>2, <2>3 DEF Xfer
  <2>5. Owned(job.addr, Extent(job.size))'
    BY <1>2, <1>3, <2>1, OwnedStays DEF Extent
  <2>6. pos + Xfer # job.size => pos + Xfer < job.size
    BY <1>3, <2>4
  <2>7. QED BY <1>3, <2>1, <2>2, <2>4, <2>5, <2>6 DEF HostKnows, Calling, Writes, Flashing
<1>7. QED BY <1>4, <1>5, <1>6 DEF CallsNext

LEMMA HostStep ==
  ASSUME path \in Agents, AgentInv, HostSteps
  PROVE  AgentInv'
<1>1. Kept
  BY DEF AgentInv
<1>2. path' = path
  BY DEF HostSteps, Begins, GivesUp, do_download, do_run, do_attach, Halts, do_reset_stop, BootRom,
         BootRomOver, Loads, invoke, WaitFails, CallsNext, Fills, jobVars
<1>3. mayTouch \subseteq mayTouch' /\ mayTouch' \subseteq Cells
  <2>1. CASE Begins
    <3>1. \A j : Covering(j) \subseteq Cells
      BY DEF Covering, Sector
    <3>2. QED BY <1>1, <2>1, <3>1 DEF Begins, Starts, Kept
  <2>2. CASE ~Begins
    BY <1>1, <2>2 DEF Kept, HostSteps, GivesUp, do_download, do_run, do_attach, Halts, do_reset_stop, BootRom,
         BootRomOver, Loads, invoke, WaitFails, CallsNext, Fills, jobVars
  <2>3. QED BY <2>1, <2>2
<1>4. CASE mayTouch' = Cells
  BY <1>4 DEF AgentInv, Kept, OnlyItsSectors, Cells
<1>5. CASE mayTouch' # Cells
  <2>1. HostKnows /\ CoreKnows /\ OnlyItsSectors
    BY <1>1, <1>3, <1>5 DEF AgentInv, Kept
  <2>2. SUFFICES HostKnows' /\ CoreKnows' /\ OnlyItsSectors'
    BY <1>3 DEF AgentInv, Kept, Cells
  <2>3. flash' = flash => OnlyItsSectors'
    BY <1>3, <2>1, OnlyStays
  <2>4. core' = core => CoreKnows'
    BY <1>2, <1>3, <2>1, CoreStays
  <2>5. core' = Stopped => CoreKnows'
    BY <1>2, <1>3, <2>1, StoppedKnows
  <2>6. \A w \in Places : core' = At(w) /\ w \notin {"enter", "entry", "running", "paused"} => CoreKnows'
    BY <1>2, <1>3, <2>1, CoreAt
  <2>7. /\ "wild" \in Places /\ "elsewhere" \in Places /\ "reset" \in Places /\ "rom" \in Places
    BY DEF Places, HaltedAt
  <2>8. CASE Begins
    BY <2>3, <2>4, <2>8, BeginsKnows DEF Begins, targetVars
  <2>9. CASE GivesUp
    BY <1>2, <1>3, <2>1, <2>3, <2>4, <2>9, HostGoes DEF GivesUp, Ends, targetVars, jobVars, Flashing
  <2>10. CASE do_download
    BY <1>2, <1>3, <2>1, <2>3, <2>4, <2>10, HostGoes DEF do_download, Ends, jobVars, Flashing
  <2>11. CASE do_run
    <3>1. HostKnows' /\ flash' = flash
      BY <1>2, <1>3, <2>1, <2>11, HostGoes DEF do_run, Ends, To, jobVars, targetVars, Flashing
    <3>2. core' = Stopped \/ core' = core \/ core' = At("wild") \/ core' = Resumed
      BY <2>11 DEF do_run, targetVars
    <3>3. QED BY <1>2, <1>3, <2>1, <2>3, <2>4, <2>5, <2>6, <2>7, <3>1, <3>2, ResumedKnows
  <2>12. CASE do_attach
    BY <1>2, <1>3, <2>1, <2>3, <2>4, <2>12, HostGoes DEF do_attach, To, targetVars, jobVars
  <2>13. CASE Halts
    BY <1>2, <1>3, <2>1, <2>3, <2>4, <2>5, <2>13, HostGoes DEF Halts, To, jobVars
  <2>14. CASE do_reset_stop
    <3>1. HostKnows'
      BY <1>2, <1>3, <2>1, <2>14, HostGoes DEF do_reset_stop, To, AfterReset
    <3>2. CoreKnows'
      BY <2>5, <2>6, <2>7, <2>14 DEF do_reset_stop
    <3>3. flash' = flash \/ (core.at = "running" /\ ~Fn.refused /\ flash' = Garbled(Fn.unit))
      BY <2>14 DEF do_reset_stop, Torn
    <3>4. OnlyItsSectors'
      BY <1>3, <2>1, <2>3, <3>3, GarbledStep
    <3>5. QED BY <3>1, <3>2, <3>4
  <2>15. CASE BootRom
    <3>1. HostKnows' /\ flash' = flash
      BY <1>2, <1>3, <2>1, <2>15, HostGoes DEF BootRom, To
    <3>2. core' = core \/ core' = At("rom") \/ core' = At("wild")
      BY <2>15 DEF BootRom
    <3>3. QED BY <2>3, <2>4, <2>6, <2>7, <3>1, <3>2
  <2>16. CASE BootRomOver
    BY <1>2, <1>3, <2>1, <2>3, <2>4, <2>16, HostGoes DEF BootRomOver, To, targetVars, jobVars
  <2>17. CASE Loads
    BY <1>2, <1>3, <2>1, <2>3, <2>4, <2>17, HostGoes DEF Loads, To, targetVars, jobVars
  <2>18. CASE invoke
    <3>1. HostKnows' /\ flash' = flash /\ stage = "call"
      BY <1>2, <1>3, <2>1, <2>18, HostGoes DEF invoke, To
    <3>2. core' = core \/ core' \in {Called, [Called EXCEPT !.at = "entry"]}
      BY <1>5, <2>18 DEF invoke
    <3>3. CoreKnows'
      BY <1>2, <1>3, <2>1, <2>4, <3>1, <3>2, CalledKnows
    <3>4. QED BY <2>3, <3>1, <3>3
  <2>19. CASE WaitFails
    BY <1>2, <1>3, <2>1, <2>3, <2>4, <2>19, HostGoes DEF WaitFails, Ends, targetVars, jobVars, Flashing
  <2>20. CASE CallsNext
    BY <2>1, <2>3, <2>4, <2>20, CallsNextKnows DEF CallsNext, targetVars
  <2>21. CASE Fills
    BY <1>2, <1>3, <2>1, <2>3, <2>4, <2>21, HostGoes DEF Fills, To, jobVars
  <2>22. QED BY <2>8, <2>9, <2>10, <2>11, <2>12, <2>13, <2>14, <2>15, <2>16, <2>17, <2>18, <2>19,
                <2>20, <2>21 DEF HostSteps
<1>6. QED BY <1>4, <1>5
-----------------------------------------------------------------------------
(* The serial tool.  Erasing and flashing take the whole flash; what is left to show
   is that the commands that write RAM leave it alone, whatever of them is lost.     *)

SerialKnows ==
  /\ line = [rom |-> line.rom, frame |-> line.frame, addr |-> line.addr, data |-> line.data,
             answers |-> line.answers, syncs |-> line.syncs]
  /\ line.addr \in Nat /\ DOMAIN line.data \subseteq Nat \ {0}
  /\ line.frame \notin {"erase", "pages"} /\ line.rom # "pages"
  /\ stage \notin {"erase", "pages"} /\ (stage = "ack" => callee \in {"write", "go", "address", "data"})
  /\ stage # "idle" =>
       /\ job.op = "exec" /\ job.addr = Words /\ job.size \in Nat
       /\ pos \in Nat /\ pos <= job.size
  /\ line.addr < Words =>
       /\ line.data = <<>> /\ stage # "data"
       /\ stage = "ack" => callee \notin {"address", "data"}

SerialInv == path = "serial" => Kept /\ (mayTouch # Cells => SerialKnows)

LEMMA SerialSame ==
  /\ Serial!Cells = Cells /\ Serial!Part = Part
  /\ \A j : Serial!Covering(j) = Covering(j)
<1>1. Serial!Cells = Cells /\ Serial!Part = Part
  BY DEF Serial!Cells, Cells, Serial!Part, Part
<1>2. \A c : Serial!SectorOf(c) = SectorOf(c)
  BY <1>1 DEF Serial!SectorOf, SectorOf
<1>3. \A s : Serial!Sector(s) = Sector(s)
  BY <1>1, <1>2 DEF Serial!Sector, Sector
<1>4. \A j : Serial!Region(j) = Region(j)
  BY <1>1 DEF Serial!Region, Region
<1>5. \A j : Serial!Covering(j) = Covering(j)
  BY <1>2, <1>3, <1>4 DEF Serial!Covering, Covering
<1>6. QED BY <1>1, <1>5

(* The serial ROM has one sector, for it erases all. *)
LEMMA AllCovered ==
  ASSUME path = "serial", NEW j, j.addr = 0, j.size \in Nat \ {0}
  PROVE  Covering(j) = Cells
<1>1. path \in Paths
  BY DEF Paths
<1>2. Part.starts = {0} /\ 0 \in Cells
  BY <1>1, Geometry, PartsAssumption DEF Part
<1>3. \A c \in Cells : SectorOf(c) = 0
  BY <1>1, <1>2, Sectors
<1>4. Sector(0) = Cells
  BY <1>3 DEF Sector
<1>5. 0 \in Region(j)
  BY <1>2 DEF Region
<1>6. Sector(SectorOf(0)) \subseteq Covering(j)
  BY <1>5 DEF Covering
<1>7. Covering(j) \subseteq Cells
  BY DEF Covering, Sector
<1>8. QED BY <1>2, <1>3, <1>4, <1>6, <1>7

LEMMA RomStep ==
  ASSUME SerialKnows, OnlyItsSectors, Serial!RomSteps
  PROVE  SerialKnows' /\ OnlyItsSectors'
<1>1. UNCHANGED <<path, job, mayTouch, stage, callee, pos>>
  BY DEF Serial!RomSteps, Serial!jobVars
<1>2. line.frame \notin {"erase", "pages"} /\ line.rom # "pages"
  BY DEF SerialKnows
<1>3. ASSUME NEW rom, rom # "pages",
             \/ line' = [line EXCEPT !.frame = "none", !.rom = rom]
             \/ \E a : line' = [line EXCEPT !.frame = "none", !.answers = Append(@, a), !.rom = rom]
      PROVE  SerialKnows'
  <2>1. PICK ans : line' = [rom |-> rom, frame |-> "none", addr |-> line.addr, data |-> line.data,
                            answers |-> ans, syncs |-> line.syncs]
    BY <1>3 DEF SerialKnows
  <2>2. QED BY <1>1, <1>3, <2>1 DEF SerialKnows
<1>4. flash' = flash => OnlyItsSectors'
  BY <1>1 DEF OnlyItsSectors, Cells
<1>5. CASE Serial!RomSyncs
  BY <1>2, <1>3, <1>4, <1>5
  DEF Serial!RomSyncs, Serial!Answer, Serial!Swallows, Serial!Unexpected
<1>6. CASE Serial!RomCommands
  <2>1. line.frame \in {"write", "go"}
    BY <1>2, <1>6 DEF Serial!RomCommands, Serial!Commands, Serial!Frames
  <2>2. Serial!Frames[line.frame] # "pages"
    BY <2>1 DEF Serial!Frames
  <2>3. QED BY <1>2, <1>3, <1>4, <1>6, <2>2
        DEF Serial!RomCommands, Serial!Answer, Serial!Swallows, Serial!Unexpected
<1>7. CASE Serial!RomAddress
  BY <1>3, <1>4, <1>7 DEF Serial!RomAddress, Serial!Answer
<1>8. CASE Serial!RomErases
  BY <1>2, <1>8 DEF Serial!RomErases
<1>9. CASE Serial!RomWrites
  <2>1. SerialKnows'
    BY <1>3, <1>9 DEF Serial!RomWrites, Serial!Answer
  <2>2. \A c \in Cells : flash'[c] = Serial!Programmed(c)
    BY <1>9, SerialSame DEF Serial!RomWrites
  <2>3. ASSUME NEW c \in Cells PROVE flash'[c] = flash[c]
    <3>1. c - line.addr + 1 \notin DOMAIN line.data
      <4>1. CASE line.addr < Words
        BY <4>1 DEF SerialKnows
      <4>2. CASE ~(line.addr < Words)
        <5>1. Words \in Nat /\ c \in Int /\ c < Words /\ line.addr \in Nat
          BY PartsAssumption DEF Cells, SerialKnows
        <5>2. ~(c - line.addr + 1 >= 1)
          BY <4>2, <5>1
        <5>3. QED BY <5>2 DEF SerialKnows
      <4>3. QED BY <4>1, <4>2
    <3>2. QED BY <2>2, <3>1 DEF Serial!Programmed
  <2>4. QED BY <1>1, <2>1, <2>3 DEF OnlyItsSectors, Cells
<1>10. CASE Serial!RomMisses
  BY <1>2, <1>3, <1>4, <1>10 DEF Serial!RomMisses, Serial!Answer, Serial!Swallows
<1>11. CASE Serial!AnswerLost
  <2>1. PICK ans : line' = [rom |-> line.rom, frame |-> line.frame, addr |-> line.addr, data |-> line.data,
                            answers |-> ans, syncs |-> line.syncs]
    BY <1>11 DEF SerialKnows, Serial!AnswerLost
  <2>2. QED BY <1>1, <1>4, <1>11, <2>1 DEF SerialKnows, Serial!AnswerLost
<1>12. QED BY <1>5, <1>6, <1>7, <1>8, <1>9, <1>10, <1>11 DEF Serial!RomSteps
LEMMA OpensStep ==
  ASSUME path = "serial", Kept, mayTouch # Cells => SerialKnows, Serial!Opens
  PROVE  Kept' /\ (mayTouch' # Cells => SerialKnows')
<1>1. path \in Paths /\ Part.buffer \in Nat \ {0} /\ Words \in Nat \ {0}
  <2>1. path \in Paths /\ path # "dfu"
    BY DEF Paths
  <2>2. QED BY <2>1, Geometry
<1>2. PICK j \in Jobs :
        /\ j.op # "load" /\ (j.op = "erase" \/ j.size > 0) /\ job' = Serial!Asked(j) /\ pos' = 0
        /\ stage = "idle" /\ stage' = "sync"
        /\ mayTouch' = mayTouch \cup
             (IF Serial!Asked(j).op \in {"flash", "erase"} THEN Covering(Serial!Asked(j)) ELSE {})
  BY SerialSame DEF Serial!Opens, Serial!Starts
<1>3. j \in [op : {"flash", "erase", "exec", "load"}, addr : Nat, size : Nat]
  BY JobsAssumption
<1>4. flash' = flash
  BY DEF Serial!Opens
<1>5. \A k : Covering(k) \subseteq Cells
  BY DEF Covering, Sector
<1>6. Kept'
  BY <1>2, <1>4, <1>5 DEF Kept, OnlyItsSectors, Cells
<1>7. CASE j.op = "erase"
  <2>1. Serial!Asked(j) = [j EXCEPT !.addr = 0, !.size = Serial!All] /\ Serial!All \in Nat \ {0}
    BY <1>1, <1>7 DEF Serial!Asked, Serial!All
  <2>2. /\ Serial!Asked(j).op = "erase" /\ Serial!Asked(j).addr = 0
        /\ Serial!Asked(j).size \in Nat \ {0}
    BY <1>3, <1>7, <2>1
  <2>3. mayTouch' = Cells
    BY <1>2, <2>2, AllCovered DEF Kept
  <2>4. QED BY <1>6, <2>3 DEF Cells
<1>8. CASE j.op # "erase"
  <2> DEFINE n == IF j.size > Part.buffer THEN Part.buffer ELSE j.size
  <2>1. n \in Nat \ {0}
    BY <1>1, <1>2, <1>3, <1>8
  <2>2. Serial!Asked(j) = [op |-> j.op, addr |-> IF j.op = "exec" THEN Words ELSE 0, size |-> n]
    BY <1>3, <1>8, SerialSame DEF Serial!Asked, Serial!RAM
  <2> HIDE DEF n
  <2>3. CASE j.op = "flash"
    <3>1. /\ Serial!Asked(j).op = "flash" /\ Serial!Asked(j).addr = 0
          /\ Serial!Asked(j).size \in Nat \ {0}
      BY <2>1, <2>2, <2>3
    <3>2. mayTouch' = Cells
      BY <1>2, <3>1, AllCovered DEF Kept
    <3>3. QED BY <1>6, <3>2 DEF Cells
  <2>4. CASE j.op = "exec"
    <3>1. mayTouch' = mayTouch /\ job'.op = "exec" /\ job'.addr = Words /\ job'.size \in Nat
      BY <1>2, <2>1, <2>2, <2>4
    <3>2. ASSUME mayTouch # Cells PROVE SerialKnows'
      <4>1. SerialKnows
        BY <3>2
      <4>2. PICK frame, rom :
              /\ frame \in {line.frame, "none"} /\ rom \in {line.rom, "baud"}
              /\ line' = [rom |-> rom, frame |-> frame, addr |-> line.addr, data |-> line.data,
                          answers |-> <<>>, syncs |-> 0]
        BY <4>1 DEF Serial!Opens, SerialKnows
      <4>3. 0 <= job'.size /\ 0 \in Nat
        BY <3>1
      <4>4. QED BY <1>2, <3>1, <4>1, <4>2, <4>3 DEF SerialKnows
    <3>3. QED BY <1>6, <3>1, <3>2 DEF Cells
  <2>5. QED BY <1>2, <1>3, <1>8, <2>3, <2>4
<1>9. QED BY <1>7, <1>8

LEMMA ToolStep ==
  ASSUME path = "serial", SerialKnows, Serial!Syncs \/ Serial!SendsFrame \/ Serial!readAck
  PROVE  SerialKnows'
<1>1. job' = job
  BY DEF Serial!Syncs, Serial!SendsFrame, Serial!readAck, Serial!jobVars
<1>2. Words \in Nat /\ Part.page \in Nat
  <2>1. path \in Paths
    BY DEF Paths
  <2>2. QED BY <2>1, Geometry
<1>3. CASE Serial!Syncs
  <2>1. stage = "sync" /\ pos' = pos /\ callee' = callee /\ job.op = "exec"
        /\ stage' \in {"write", "sync", "idle"}
    BY <1>3 DEF Serial!Syncs, Serial!Ends, SerialKnows
  <2>2. /\ line' = [rom |-> line'.rom, frame |-> line'.frame, addr |-> line'.addr, data |-> line'.data,
                    answers |-> line'.answers, syncs |-> line'.syncs]
        /\ line'.frame \in {line.frame, "sync"}
        /\ line'.rom = line.rom /\ line'.addr = line.addr /\ line'.data = line.data
    <3>1. line = [rom |-> line.rom, frame |-> line.frame, addr |-> line.addr, data |-> line.data,
                  answers |-> line.answers, syncs |-> line.syncs]
      BY DEF SerialKnows
    <3>2. CASE line' = [line EXCEPT !.answers = Tail(@)]
      <4>1. line' = [rom |-> line.rom, frame |-> line.frame, addr |-> line.addr, data |-> line.data,
                     answers |-> Tail(line.answers), syncs |-> line.syncs]
        BY <3>1, <3>2
      <4>2. QED BY <4>1
    <3>3. CASE line' = [line EXCEPT !.syncs = @ + 1, !.frame = IF @ = "none" THEN "sync" ELSE @]
      <4>1. PICK frame \in {line.frame, "sync"} : line' = [line EXCEPT !.syncs = @ + 1, !.frame = frame]
        BY <3>3
      <4>2. line' = [rom |-> line.rom, frame |-> frame, addr |-> line.addr, data |-> line.data,
                     answers |-> line.answers, syncs |-> line.syncs + 1]
        BY <3>1, <4>1
      <4>3. QED BY <4>2
    <3>4. CASE line' = line
      BY <3>1, <3>4
    <3>5. QED BY <1>3, <3>2, <3>3, <3>4 DEF Serial!Syncs
  <2>3. QED BY <1>1, <2>1, <2>2 DEF SerialKnows
<1>4. CASE Serial!SendsFrame
  <2>1. stage \in {"write", "go", "address", "data"} /\ stage' = "ack" /\ callee' = stage /\ pos' = pos
    BY <1>4 DEF Serial!SendsFrame, Serial!Commands, Serial!Frames, SerialKnows
  <2>2. job.op = "exec" /\ job.addr = Words /\ job.size \in Nat /\ pos \in Nat /\ pos <= job.size
    BY <2>1 DEF SerialKnows
  <2> DEFINE a == IF stage # "address" THEN line.addr ELSE job.addr + (IF Serial!Jumps THEN 0 ELSE pos)
             d == IF stage = "data" THEN [i \in 1 .. Serial!Chunk |-> Serial!Image(pos + i)] ELSE line.data
  <2>3. line' = [rom |-> line.rom, frame |-> stage, addr |-> a, data |-> d,
                 answers |-> line.answers, syncs |-> line.syncs]
    BY <1>4 DEF Serial!SendsFrame, SerialKnows
  <2>4. a \in Nat /\ (stage = "address" => a >= Words) /\ (stage # "address" => a = line.addr)
    BY <1>2, <2>2 DEF SerialKnows
  <2>5. DOMAIN d \subseteq Nat \ {0} /\ (stage # "data" => d = line.data)
    BY DEF SerialKnows
  <2> HIDE DEF a, d
  <2>6. line'.addr = a /\ line'.data = d /\ line'.frame = stage /\ line'.rom = line.rom
        /\ line' = [rom |-> line'.rom, frame |-> line'.frame, addr |-> line'.addr, data |-> line'.data,
                    answers |-> line'.answers, syncs |-> line'.syncs]
    BY <2>3
  <2>7. a < Words => line.addr < Words /\ stage # "address"
    BY <1>2, <2>4
  <2>8. QED BY <1>1, <2>1, <2>2, <2>4, <2>5, <2>6, <2>7 DEF SerialKnows
<1>5. CASE Serial!readAck
  <2>1. stage = "ack" /\ callee' = callee /\ callee \in {"write", "go", "address", "data"}
    BY <1>5 DEF Serial!readAck, SerialKnows
  <2>2. job.op = "exec" /\ job.addr = Words /\ job.size \in Nat /\ pos \in Nat /\ pos <= job.size
    BY <2>1 DEF SerialKnows
  <2>3. PICK ans : line' = [rom |-> line.rom, frame |-> line.frame, addr |-> line.addr,
                            data |-> line.data, answers |-> ans, syncs |-> line.syncs]
    BY <1>5 DEF Serial!readAck, SerialKnows
  <2>4. /\ stage' \in {"idle", "address", "data", "write", "go"}
        /\ pos' \in Nat /\ pos' <= job.size
        /\ stage' = "data" => callee = "address"
    <3>1. CASE Serial!Refused
      BY <2>2, <3>1 DEF Serial!Refused, Serial!Ends
    <3>2. CASE Serial!Accepted
      <4>1. CASE callee \in {"write", "go"}
        BY <2>2, <3>2, <4>1 DEF Serial!Accepted, Serial!Goes
      <4>2. CASE callee = "address"
        BY <2>2, <3>2, <4>2 DEF Serial!Accepted, Serial!Goes, Serial!Ends
      <4>3. CASE callee = "data"
        <5>1. Serial!Chunk \in Nat /\ pos + Serial!Chunk \in Nat /\ pos + Serial!Chunk <= job.size
          BY <1>2, <2>2, SerialSame DEF Serial!Chunk
        <5>2. pos' = pos + Serial!Chunk
          BY <3>2, <4>3 DEF Serial!Accepted
        <5>3. pos' < job.size \/ pos' = job.size
          BY <2>2, <5>1, <5>2
        <5>4. stage' \in {"idle", "write", "go"}
          <6>1. CASE pos' < job.size
            <7>1. pos' # job.size
              BY <2>2, <5>1, <5>2, <6>1
            <7>2. QED BY <1>1, <3>2, <4>3, <6>1, <7>1 DEF Serial!Accepted
          <6>2. CASE pos' = job.size
            <7>1. ~(pos' < job.size)
              BY <2>2, <6>2
            <7>2. QED BY <1>1, <2>2, <3>2, <4>3, <6>2, <7>1 DEF Serial!Accepted, Serial!Ends
          <6>3. QED BY <5>3, <6>1, <6>2
        <5>5. QED BY <5>1, <5>2, <5>4
      <4>4. QED BY <2>1, <4>1, <4>2, <4>3
    <3>3. QED BY <1>5, <3>1, <3>2 DEF Serial!readAck
  <2>5. QED BY <1>1, <2>1, <2>2, <2>3, <2>4 DEF SerialKnows
<1>6. QED BY <1>3, <1>4, <1>5

LEMMA SerialStep ==
  ASSUME SerialInv, Serial!SerialSteps
  PROVE  SerialInv'
<1>1. path = "serial" /\ path' = path
  BY DEF Serial!SerialSteps, Serial!RomSteps, Serial!Opens, Serial!Syncs, Serial!SendsFrame,
         Serial!readAck, Serial!jobVars
<1>2. Kept /\ (mayTouch # Cells => SerialKnows)
  BY <1>1 DEF SerialInv
<1>3. CASE Serial!Opens
  BY <1>1, <1>2, <1>3, OpensStep DEF SerialInv, Cells
<1>4. CASE Serial!Syncs \/ Serial!SendsFrame \/ Serial!readAck
  <2>1. flash' = flash /\ mayTouch' = mayTouch
    BY <1>4 DEF Serial!Syncs, Serial!SendsFrame, Serial!readAck, Serial!jobVars
  <2>2. Kept'
    BY <1>2, <2>1 DEF Kept, OnlyItsSectors, Cells
  <2>3. QED BY <1>1, <1>2, <1>4, <2>1, <2>2, ToolStep DEF SerialInv, Cells
<1>5. CASE Serial!RomSteps
  <2>1. mayTouch' = mayTouch
    BY <1>5 DEF Serial!RomSteps, Serial!jobVars
  <2>2. CASE mayTouch = Cells
    BY <2>1, <2>2 DEF SerialInv, Kept, OnlyItsSectors, Cells
  <2>3. CASE mayTouch # Cells
    BY <1>2, <1>5, <2>1, <2>3, RomStep DEF SerialInv, Kept, Cells
  <2>4. QED BY <2>2, <2>3
<1>6. QED BY <1>3, <1>4, <1>5 DEF Serial!SerialSteps

-----------------------------------------------------------------------------
(* All paths *)

DfuInv == path = "dfu" => Kept
FlashInv == path \in Paths /\ AgentInv /\ SerialInv /\ DfuInv

LEMMA DfuStep ==
  ASSUME DfuInv, Ram!DfuSteps
  PROVE  DfuInv'
<1>1. path = "dfu"
  BY DEF Ram!DfuSteps
<1>2. flash' = flash /\ path' = path
  BY DEF Ram!DfuSteps, Ram!DeviceSteps, Ram!Opens, Ram!dfu_download, Ram!Starts, Ram!jobVars
<1>3. mayTouch' = mayTouch
  BY DEF Ram!DfuSteps, Ram!DeviceSteps, Ram!Opens, Ram!dfu_download, Ram!Starts, Ram!jobVars
<1>4. QED BY <1>1, <1>2, <1>3 DEF DfuInv, Kept, OnlyItsSectors, Cells

LEMMA InitFlash == Init => FlashInv
<1> SUFFICES ASSUME Init PROVE FlashInv
  OBVIOUS
<1>1. path \in Paths /\ Kept
  BY DEF Init, FlashInit, Kept, OnlyItsSectors, Old
<1>2. path \in Agents => HostKnows /\ CoreKnows
  <2>1. ASSUME path \in Agents PROVE core.at = "wild" /\ core \in CoreType
    <3>1. core = [at |-> "wild", fn |-> "setup", addr |-> 0, len |-> 0, off |-> 0, r0 |-> 0,
                  args |-> TRUE, lr |-> TRUE]
      BY <2>1 DEF Init, InitAgent, Serial!InitSerial, Ram!InitDfu, Agents
    <3>2. QED BY <3>1 DEF CoreType, Places
  <2>2. HostKnows
    BY DEF Init, FlashInit, HostKnows, Calling, Writes, Flashing, Ops
  <2>3. QED BY <2>1, <2>2 DEF CoreKnows, Begun, InLoop
<1>3. path = "serial" => SerialKnows
  BY DEF Init, FlashInit, InitAgent, Serial!InitSerial, Ram!InitDfu, Agents, SerialKnows
<1>4. QED BY <1>1, <1>2, <1>3 DEF FlashInv, AgentInv, SerialInv, DfuInv

LEMMA StutterFlash == FlashInv /\ UNCHANGED vars => FlashInv'
<1> SUFFICES ASSUME FlashInv, UNCHANGED vars PROVE FlashInv'
  OBVIOUS
<1>1. UNCHANGED <<path, job, jobs, lost, mayTouch, flash, chip, core, buffer, line, stage, callee, pos>>
  BY DEF vars, jobVars, targetVars
<1>2. Kept => Kept'
  BY <1>1 DEF Kept, OnlyItsSectors, Cells
<1>3. HostKnows => HostKnows'
  BY <1>1, HostStays
<1>4. CoreKnows => CoreKnows'
  BY <1>1, CoreStays
<1>5. SerialKnows => SerialKnows'
  BY <1>1 DEF SerialKnows
<1>6. QED BY <1>1, <1>2, <1>3, <1>4, <1>5 DEF FlashInv, AgentInv, SerialInv, DfuInv, Cells

LEMMA NextFlash == FlashInv /\ [Next]_vars => FlashInv'
<1> SUFFICES ASSUME FlashInv, [Next]_vars PROVE FlashInv'
  OBVIOUS
<1>1. "serial" \notin Agents /\ "dfu" \notin Agents
  BY DEF Agents
<1>2. CASE AgentSteps
  <2>1. path \in Agents /\ path' = path
    BY <1>2 DEF AgentSteps, TargetSteps, HostSteps, Begins, GivesUp, do_download, do_run, do_attach, Halts,
       do_reset_stop, BootRom, BootRomOver, Loads, invoke, WaitFails, CallsNext, Fills, jobVars
  <2>2. AgentInv'
    BY <1>2, <2>1, TargetStep, HostStep DEF AgentSteps, FlashInv
  <2>3. QED BY <1>1, <2>1, <2>2 DEF FlashInv, SerialInv, DfuInv
<1>3. CASE Serial!SerialSteps
  <2>1. path = "serial" /\ path' = path
    BY <1>3 DEF Serial!SerialSteps, Serial!RomSteps, Serial!Opens, Serial!Syncs, Serial!SendsFrame,
         Serial!readAck, Serial!jobVars
  <2>2. SerialInv'
    BY <1>3, SerialStep DEF FlashInv
  <2>3. QED BY <1>1, <2>1, <2>2 DEF FlashInv, AgentInv, DfuInv
<1>4. CASE Ram!DfuSteps
  <2>1. path = "dfu" /\ path' = path
    BY <1>4 DEF Ram!DfuSteps, Ram!DeviceSteps, Ram!Opens, Ram!dfu_download, Ram!Starts, Ram!jobVars
  <2>2. DfuInv'
    BY <1>4, DfuStep DEF FlashInv
  <2>3. QED BY <1>1, <2>1, <2>2 DEF FlashInv, AgentInv, SerialInv
<1>5. CASE UNCHANGED vars
  BY <1>5, StutterFlash
<1>6. QED BY <1>2, <1>3, <1>4, <1>5 DEF Next

(* OnlyItsSectors for every geometry of the flash, every command and every fault:
   the agents' loops, which go on after the host gives up, stay in the sectors the
   command covers, and the serial tool's RAM commands never reach the flash.       *)
THEOREM OtherSectorsKept == Spec => []OnlyItsSectors
<1>1. FlashInv => OnlyItsSectors
  BY DEF FlashInv, AgentInv, SerialInv, DfuInv, Kept, Paths
<1>2. QED BY <1>1, InitFlash, NextFlash, PTL DEF Spec

-----------------------------------------------------------------------------
(* What a command is about *)

LEMMA SectorCells ==
  ASSUME path \in Paths, NEW a \in Part.starts
  PROVE  \E b \in Nat :
           /\ a < b /\ b \in Part.starts \cup {Words}
           /\ Sector(a) = a .. b - 1 /\ Cardinality(Sector(a)) = b - a
<1> DEFINE After == {t \in Part.starts \cup {Words} : a < t}
<1>1. /\ Words \in Nat /\ Part.starts \subseteq Cells /\ Cells \subseteq Nat /\ a \in Nat /\ a < Words
      /\ \A c : c \in Cells <=> c \in Nat /\ c < Words
  BY Geometry DEF Cells
<1>2. After \in SUBSET Nat /\ After # {}
  BY <1>1
<1>3. PICK b \in After : \A t \in After : b <= t
  <2> HIDE DEF After
  <2>1. QED BY <1>2, LeastOf
<1>4. b \in Nat /\ a < b /\ b \in Part.starts \cup {Words} /\ b <= Words
  BY <1>1, <1>2, <1>3
<1>5. \A t \in Part.starts : a < t => b <= t
  BY <1>3
<1>6. ASSUME NEW c \in a .. b - 1 PROVE c \in Cells /\ SectorOf(c) = a
  <2>1. c \in Cells /\ a <= c /\ c < b
    BY <1>1, <1>4, <1>6
  <2>2. \A t \in Part.starts : t <= c => t <= a
    BY <1>1, <1>4, <1>5, <2>1
  <2>3. QED BY <2>1, <2>2, SectorIs
<1>7. ASSUME NEW c \in Cells, SectorOf(c) = a PROVE c \in a .. b - 1
  <2>1. a <= c /\ \A t \in Part.starts : t <= c => t <= a
    BY <1>7, Sectors
  <2>2. c \in Nat /\ c < Words
    BY <1>1
  <2>3. ~(b <= c)
    BY <1>1, <1>4, <2>1, <2>2
  <2>4. QED BY <1>1, <1>4, <2>1, <2>2, <2>3
<1>8. Sector(a) = a .. b - 1
  BY <1>6, <1>7 DEF Sector
<1>9. Cardinality(a .. b - 1) = b - a
  <2>1. a \in Int /\ b - 1 \in Int /\ ~(a > b - 1) /\ (b - 1) - a + 1 = b - a
    BY <1>1, <1>4
  <2>2. QED BY <2>1, FS_Interval
<1>10. QED BY <1>4, <1>8, <1>9

(* A sector that a command covers has a cell it asks for *)
LEMMA CoveredBy ==
  ASSUME path \in Paths, job \in [op : Ops, addr : Nat, size : Nat], NEW c \in Covering(job)
  PROVE  /\ c \in Cells
         /\ \E d \in Cells : /\ job.addr <= d /\ d < job.addr + Extent(job.size)
                             /\ SectorOf(d) = SectorOf(c)
<1> DEFINE k == IF path = "stm32" /\ job.size = 0 THEN [job EXCEPT !.size = 1] ELSE job
<1>1. k.addr = job.addr /\ k.size = Extent(job.size)
  BY DEF Extent
<1>2. PICK d \in Region(k) : c \in Sector(SectorOf(d))
  BY DEF Covering
<1>3. d \in Cells /\ job.addr <= d /\ d < job.addr + Extent(job.size)
  BY <1>1, <1>2 DEF Region
<1>4. c \in Cells /\ SectorOf(c) = SectorOf(d)
  BY <1>2 DEF Sector
<1>5. QED BY <1>3, <1>4

LEMMA InCovering ==
  ASSUME path \in Paths, job \in [op : Ops, addr : Nat, size : Nat], NEW d \in Cells,
         job.addr <= d, d < job.addr + Extent(job.size)
  PROVE  Sector(SectorOf(d)) \subseteq Covering(job)
<1> DEFINE k == IF path = "stm32" /\ job.size = 0 THEN [job EXCEPT !.size = 1] ELSE job
<1>1. k.addr = job.addr /\ k.size = Extent(job.size)
  BY DEF Extent
<1>2. d \in Region(k)
  BY <1>1 DEF Region
<1>3. QED BY <1>2 DEF Covering

(* The sectors a command covers begin with its address, when that is where one begins,
   and end before the first that begins at or after its end.                          *)
LEMMA CoveringFrom ==
  ASSUME path \in Paths, job \in [op : Ops, addr : Nat, size : Nat], job.addr \in Part.starts,
         NEW c \in Covering(job)
  PROVE  c \in Nat /\ job.addr <= c
<1>1. PICK d \in Cells : job.addr <= d /\ SectorOf(d) = SectorOf(c)
  BY CoveredBy
<1>2. c \in Cells /\ c \in Nat /\ SectorOf(c) \in Nat /\ job.addr \in Nat
  BY CoveredBy, Sectors, Geometry
<1>3. job.addr <= SectorOf(c) /\ SectorOf(c) <= c
  BY <1>1, <1>2, Sectors
<1>4. QED BY <1>2, <1>3

LEMMA CoveringTo ==
  ASSUME path \in Paths, job \in [op : Ops, addr : Nat, size : Nat],
         NEW b \in Part.starts \cup {Words}, job.addr + Extent(job.size) <= b \/ b = Words,
         NEW c \in Covering(job)
  PROVE  c < b
<1>1. PICK d \in Cells : d < job.addr + Extent(job.size) /\ SectorOf(d) = SectorOf(c)
  BY CoveredBy
<1>2. /\ c \in Cells /\ c \in Nat /\ d \in Nat /\ c < Words /\ Words \in Nat /\ b \in Nat
      /\ SectorOf(c) \in Nat
  BY CoveredBy, Sectors, Geometry
<1>3. CASE b = Words
  BY <1>2, <1>3
<1>4. CASE b \in Part.starts /\ job.addr + Extent(job.size) <= b
  <2>1. job.addr \in Nat /\ Extent(job.size) \in Nat
    BY DEF Extent
  <2>2. d < b
    BY <1>1, <1>2, <1>4, <2>1
  <2>3. SectorOf(d) <= d
    BY Sectors
  <2>4. b <= c => b <= SectorOf(c)
    BY <1>2, <1>4, Sectors
  <2>5. QED BY <1>1, <1>2, <2>2, <2>3, <2>4
<1>5. QED BY <1>3, <1>4

-----------------------------------------------------------------------------
(* What an agent's function is to do, and how far it has come *)

Fits == job.addr + job.size <= Words
Unlocked == path = "stm32" => chip.unlocked

(* The sectors of the command are erased, but for its first n words, which are there;
   and all that it promises of them.                                                 *)
Filled(n) ==
  \A c \in Covering(job) :
    flash[c] = IF job.addr <= c /\ c < job.addr + n THEN Image(c - job.addr + 1) ELSE Erased
Finished ==
  \A c \in Covering(job) :
    IF job.addr <= c /\ c < job.addr + job.size
    THEN flash[c] = IF job.op = "erase" THEN Erased ELSE Image(c - job.addr + 1)
    ELSE flash[c] \in {Erased, Zero}
Loaded == \A i \in 1 .. Xfer : buffer[i] = Image(pos + i)
Filling == Fits /\ Unlocked /\ job.op # "erase" /\ pos \in Nat /\ pos < job.size /\ Filled(pos)

Erasing ==
  /\ Fits /\ Unlocked
  /\ core.addr \in Nat /\ core.len \in Nat /\ core.addr + core.len = job.addr + job.size
  /\ core.at = "enter" => core.addr = job.addr
  /\ core.at = "running" =>
       /\ core.addr \in Part.starts /\ job.addr \in Part.starts /\ job.addr <= core.addr
       /\ path = "lpc" => core.addr = job.addr
       /\ \A c \in Covering(job) : c < core.addr => flash[c] = Erased
Writing ==
  /\ Fits /\ Unlocked /\ job.op # "erase" /\ pos \in Nat /\ pos < job.size
  /\ core.off \in Nat /\ core.off < Xfer /\ core.args
  /\ core.addr = job.addr + (pos + core.off) /\ core.len = Xfer - core.off
  /\ core.at = "enter" \/ path = "lpc" => core.off = 0
  /\ core.at = "running" /\ path # "stm32" => core.addr % Part.page = 0 /\ core.off % Part.page = 0
  /\ Filled(pos + core.off) /\ Loaded

LEMMA AgentIsPath ==
  ASSUME path \in Agents
  PROVE  path \in Paths /\ path # "dfu" /\ path # "serial"
BY DEF Paths, Agents

(* An erase: the next operation takes all cells up to where the loop goes on, or, when
   it does not, to the end of the sectors the command covers.                         *)
LEMMA EraseUnit ==
  ASSUME path \in Agents, job \in [op : Ops, addr : Nat, size : Nat], Erasing,
         core.at = "running", core.fn = "erase", ~Fn.refused
  PROVE  /\ \A c \in Covering(job) : core.addr <= c /\ (Fn.more => c < core.addr + Size) => c \in Fn.unit
         /\ Fn.more => /\ Size \in Nat /\ core.len - Size \in Nat /\ NextAddr = core.addr + Size
                       /\ NextAddr \in Part.starts /\ path # "lpc"
<1>1. path \in Paths
  BY AgentIsPath
<1>2. /\ core.addr \in Nat /\ core.len \in Nat /\ job.addr \in Nat /\ job.size \in Nat /\ Words \in Nat
      /\ core.addr + core.len = job.addr + job.size /\ job.addr + job.size <= Words
      /\ core.addr \in Part.starts /\ job.addr \in Part.starts /\ job.addr <= core.addr
  BY <1>1, Geometry DEF Erasing, Fits
<1>3. CASE path = "lpc"
  <2>1. Fn = lpc_erase
    BY <1>3 DEF Fn
  <2>2. Fn.unit = UNION {Sector(SectorOf(c)) : c \in core.addr .. (core.addr + core.len) - 1} /\ Fn.more = FALSE
    BY <2>1 DEF lpc_erase, Function
  <2>3. core.addr = job.addr /\ core.len = job.size
    BY <1>2, <1>3 DEF Erasing
  <2>4. ASSUME NEW c \in Covering(job) PROVE c \in Fn.unit
    <3>1. PICK d \in Cells : job.addr <= d /\ d < job.addr + Extent(job.size) /\ SectorOf(d) = SectorOf(c)
      BY <1>1, CoveredBy
    <3>2. d \in Nat /\ Extent(job.size) = job.size
      BY <1>1, <1>3, Geometry DEF Extent
    <3>3. d \in core.addr .. (core.addr + core.len) - 1
      BY <1>2, <2>3, <3>1, <3>2
    <3>4. c \in Sector(SectorOf(d))
      BY <1>1, <3>1, CoveredBy DEF Sector
    <3>5. QED BY <2>2, <3>3, <3>4
  <2>5. QED BY <2>2, <2>4
<1>4. CASE path \in {"stm32", "spifi"}
  <2>1. PICK b \in Part.starts \cup {Words} :
          /\ core.addr < b /\ Sector(core.addr) = core.addr .. b - 1
          /\ Cardinality(Sector(core.addr)) = b - core.addr
    BY <1>1, <1>2, SectorCells
  <2>2. b \in Nat /\ b <= Words /\ (b < Words => b \in Part.starts) /\ (~(b < Words) => b = Words)
    BY <1>1, <1>2, Geometry
  <2>3. /\ Fn.unit = Sector(core.addr)
        /\ Fn.more = IF path = "stm32" THEN core.len - Size > 0 /\ core.addr + Size < Words ELSE core.len - Size > 0
    <3>1. CASE path = "stm32"
      BY <1>4, <3>1 DEF Fn, stm32_erase, Function, Left, Size
    <3>2. CASE path = "spifi"
      BY <1>4, <3>2 DEF Fn, spifi_erase, Function, Left, Size
    <3>3. QED BY <1>4, <3>1, <3>2
  <2>4. Size = b - core.addr /\ Size \in Nat /\ core.addr + Size = b
    BY <1>2, <2>1, <2>2, <2>3 DEF Size
  <2>5. ASSUME NEW c \in Covering(job), core.addr <= c, c < b PROVE c \in Fn.unit
    <3>1. c \in Nat
      BY <1>1, <1>2, CoveringFrom
    <3>2. QED BY <1>2, <2>1, <2>2, <2>3, <2>5, <3>1
  <2>6. ASSUME ~Fn.more, NEW c \in Covering(job) PROVE c < b
    <3>1. ~(core.len - Size > 0) \/ ~(core.addr + Size < Words)
      BY <2>3, <2>6
    <3>2. ~(core.len - Size > 0) => job.addr + job.size <= b
      BY <1>2, <2>2, <2>4
    <3>3. ~(core.addr + Size < Words) => b = Words
      BY <2>2, <2>4
    <3>4. job.addr + 1 <= b
      BY <1>2, <2>1, <2>2
    <3>5. job.addr + Extent(job.size) <= b \/ b = Words
      BY <3>1, <3>2, <3>3, <3>4 DEF Extent
    <3>6. QED BY <1>1, <3>5, CoveringTo
  <2>7. ASSUME Fn.more
        PROVE  /\ core.len - Size \in Nat /\ NextAddr = core.addr + Size
               /\ NextAddr \in Part.starts /\ path # "lpc"
    <3>1. core.len - Size > 0
      BY <2>3, <2>7
    <3>2. b < Words /\ core.len - Size \in Nat
      BY <1>2, <2>2, <2>4, <3>1
    <3>3. b % Words = b
      BY <1>2, <2>2, <3>2, SmallMod
    <3>4. NextAddr = b
      BY <2>4, <3>3 DEF NextAddr
    <3>5. QED BY <1>4, <2>2, <2>4, <3>2, <3>4
  <2>8. QED BY <2>4, <2>5, <2>6, <2>7
<1>5. QED BY <1>3, <1>4 DEF Agents

(* What invoke's write is asked for: the buffer, or what is left of the file *)
LEMMA XferIs ==
  ASSUME path \in Agents, job \in [op : Ops, addr : Nat, size : Nat], pos \in Nat, pos < job.size
  PROVE  /\ Xfer \in Nat \ {0} /\ Xfer <= Part.buffer /\ pos + Xfer <= job.size
         /\ pos + Xfer < job.size => Xfer = Part.buffer
         /\ Part.buffer \in Nat /\ Part.buffer % Part.page = 0
         /\ path = "lpc" => Part.buffer = Part.page
<1>1. path \in Paths /\ path # "dfu" /\ path # "serial"
  BY AgentIsPath
<1>2. Part.buffer \in Nat \ {0}
  BY <1>1, Geometry
<1>3. Part.buffer % Part.page = 0 /\ (path = "lpc" => Part.buffer = Part.page)
  BY <1>1, PartsAssumption DEF Part
<1>4. job.size \in Nat
  OBVIOUS
<1>5. QED BY <1>2, <1>3, <1>4 DEF Xfer

(* Of two multiples of the page size the larger is at least a page further. *)
LEMMA PageFurther ==
  ASSUME NEW P \in Nat \ {0}, NEW a \in Nat, NEW b \in Nat, a % P = 0, b % P = 0, a < b
  PROVE  a + P <= b
<1>1. b < a + P => b <= a
  BY Multiples
<1>2. QED BY <1>1

(* A write: the next operation takes words of the buffer, in the command's sectors;
   when the loop is over, the buffer is, and only the last of a file is padded.      *)
LEMMA WriteUnit ==
  ASSUME path \in Agents, job \in [op : Ops, addr : Nat, size : Nat], Writing,
         core.at = "running", core.fn = "write", ~Fn.refused
  PROVE  \E n \in Nat \ {0} :
           /\ Fn.unit = core.addr .. core.addr + n - 1 /\ Fn.unit \subseteq Covering(job)
           /\ Fn.more => /\ Size = n /\ n < core.len /\ NextAddr = core.addr + n /\ path # "lpc"
                         /\ path # "stm32" => NextAddr % Part.page = 0 /\ (core.off + n) % Part.page = 0
           /\ ~Fn.more => core.len <= n /\ (pos + Xfer < job.size => core.len = n)
<1> DEFINE P == Part.page
<1>1. path \in Paths
  BY AgentIsPath
<1>2. /\ pos \in Nat /\ pos < job.size /\ core.off \in Nat /\ core.off < Xfer
      /\ core.addr = job.addr + (pos + core.off) /\ core.len = Xfer - core.off
      /\ job.addr + job.size <= Words /\ job.addr \in Nat /\ job.size \in Nat
  BY DEF Writing, Fits
<1>3. /\ Xfer \in Nat \ {0} /\ Xfer <= Part.buffer /\ pos + Xfer <= job.size
      /\ pos + Xfer < job.size => Xfer = Part.buffer
      /\ Part.buffer \in Nat /\ Part.buffer % P = 0
      /\ path = "lpc" => Part.buffer = P
  BY <1>2, XferIs
<1>4. P \in Nat \ {0} /\ Words \in Nat /\ \A c \in Nat : c < Words => c \in Cells
  BY <1>1, Geometry DEF Cells
<1>5. path # "stm32" => core.addr % P = 0 /\ core.off % P = 0
  BY DEF Writing
<1> HIDE DEF P
<1>6. /\ core.addr \in Nat /\ core.len \in Nat \ {0}
      /\ core.addr < job.addr + job.size /\ core.addr + core.len <= Words
  BY <1>2, <1>3, <1>4
<1>7. core.addr \in Cells /\ job.addr <= core.addr
  BY <1>2, <1>4, <1>6
<1>8. Sector(SectorOf(core.addr)) \subseteq Covering(job)
  <2>1. core.addr < job.addr + Extent(job.size)
    BY <1>2, <1>6 DEF Extent
  <2>2. QED BY <1>1, <1>7, <2>1, InCovering
<1>9. CASE path = "stm32"
  <2>1. Fn.unit = {core.addr} /\ (Fn.more <=> core.len > 1)
    BY <1>9, Zenon DEF Fn, stm32_write, Function
  <2>2. Size = 1
    BY <2>1, FS_Singleton DEF Size
  <2>3. {core.addr} = core.addr .. core.addr + 1 - 1
    BY <1>6
  <2>4. core.addr \in Covering(job)
    BY <1>7, <1>8, InOwnSector
  <2>5. NextAddr = core.addr + 1
    BY <1>9, <2>2 DEF NextAddr
  <2>6. (Fn.more => 1 < core.len) /\ (~Fn.more => core.len = 1)
    BY <1>6, <2>1
  <2>7. Fn.unit = core.addr .. core.addr + 1 - 1 /\ Fn.unit \subseteq Covering(job)
    BY <2>1, <2>3, <2>4
  <2>8. QED BY <1>9, <2>2, <2>5, <2>6, <2>7
<1>10. CASE path # "stm32"
  <2>1. /\ Fn.unit = core.addr .. core.addr + P - 1
        /\ path = "lpc" => ~Fn.more
        /\ path = "spifi" => (Fn.more <=> core.len - Size > 0)
    <3>1. CASE path = "lpc"
      BY <1>10, <3>1 DEF Fn, lpc_write, Function, Pages, P
    <3>2. CASE path = "spifi"
      BY <1>10, <3>2 DEF Fn, spifi_write, Function, Pages, Left, Size, P
    <3>3. QED BY <1>10, <3>1, <3>2 DEF Agents
  <2>2. Size = P
    BY <1>4, <1>6, <2>1, PageSize DEF Size
  <2>3. Fn.unit \subseteq Covering(job)
    <3>1. SUFFICES ASSUME NEW c \in core.addr .. core.addr + Part.page - 1 PROVE c \in Covering(job)
      BY <2>1 DEF P
    <3>2. c \in Cells /\ SectorOf(c) = SectorOf(core.addr)
      BY <1>5, <1>7, <1>10, PageInSector DEF P
    <3>3. QED BY <1>8, <3>2, InOwnSector
  <2>4. ASSUME Fn.more
        PROVE  P < core.len /\ NextAddr = core.addr + P /\ path # "lpc"
               /\ NextAddr % P = 0 /\ (core.off + P) % P = 0
    <3>1. path = "spifi" /\ core.len - P > 0
      BY <1>10, <2>1, <2>2, <2>4 DEF Agents
    <3>2. P < core.len /\ core.addr + P \in Nat /\ core.addr + P < Words
      BY <1>4, <1>6, <3>1
    <3>3. NextAddr = core.addr + P
      BY <1>4, <2>2, <3>1, <3>2, SmallMod DEF NextAddr
    <3>4. (core.addr + P) % P = 0 /\ (core.off + P) % P = 0
      BY <1>2, <1>4, <1>5, <1>6, <1>10, NextMultiple
    <3>5. QED BY <3>1, <3>2, <3>3, <3>4
  <2>5. ASSUME ~Fn.more
        PROVE  core.len <= P /\ (pos + Xfer < job.size => core.len = P)
    <3>1. core.len <= P
      <4>1. CASE path = "lpc"
        BY <1>2, <1>3, <1>4, <4>1
      <4>2. CASE path = "spifi"
        <5>1. ~(core.len - P > 0)
          BY <2>1, <2>2, <2>5, <4>2
        <5>2. QED BY <1>4, <1>6, <5>1
      <4>3. QED BY <1>10, <4>1, <4>2 DEF Agents
    <3>2. ASSUME pos + Xfer < job.size PROVE core.len = P
      <4>1. Xfer = Part.buffer /\ Xfer % P = 0
        BY <1>3, <3>2
      <4>2. core.off + P <= Xfer
        BY <1>2, <1>3, <1>4, <1>5, <1>10, <4>1, PageFurther
      <4>3. core.off \in Nat /\ Xfer \in Nat /\ P \in Nat /\ core.len = Xfer - core.off
        BY <1>2, <1>3, <1>4
      <4>4. QED BY <3>1, <4>2, <4>3
    <3>3. QED BY <3>1, <3>2
  <2>6. QED BY <1>4, <2>1, <2>2, <2>3, <2>4, <2>5 DEF P
<1>11. QED BY <1>9, <1>10

Wrote == IF pos + Xfer = job.size THEN Finished ELSE Filled(pos + Xfer)

CoreForm ==
  /\ core = [at |-> core.at, fn |-> core.fn, addr |-> core.addr, len |-> core.len, off |-> core.off,
             r0 |-> core.r0, args |-> core.args, lr |-> core.lr]
  /\ core.at \in Places

LEMMA SameCommand ==
  ASSUME UNCHANGED <<path, job, jobs>>
  PROVE  /\ Part' = Part /\ Covering(job)' = Covering(job) /\ Cells' = Cells
         /\ pos' = pos => Xfer' = Xfer
<1>1. Part' = Part /\ (\A c : SectorOf(c)' = SectorOf(c)) /\ (\A s : Sector(s)' = Sector(s))
  BY SectorStays
<1>2. Region(job)' = Region(job) /\ Region([job EXCEPT !.size = 1])' = Region([job EXCEPT !.size = 1])
  BY DEF Region, Cells
<1>3. Covering(job)' = Covering(job)
  BY <1>1, <1>2 DEF Covering
<1>4. QED BY <1>1, <1>3 DEF Xfer, Cells

(* The core moves, returns from its function, or goes on with the next sector or page. *)
LEMMA AtForm ==
  ASSUME CoreForm, NEW w \in Places, core' = At(w)
  PROVE  /\ CoreForm' /\ core'.at = w /\ core'.fn = core.fn /\ (core.lr => core'.lr) /\ (core.args => core'.args)
         /\ core'.addr = core.addr /\ core'.len = core.len /\ core'.off = core.off
<1>1. core' = [at |-> w, fn |-> core.fn, addr |-> core.addr, len |-> core.len, off |-> core.off,
               r0 |-> core.r0, args |-> core.args, lr |-> core.lr]
  BY DEF CoreForm, At
<1>2. QED BY <1>1 DEF CoreForm

LEMMA LoopEnds ==
  ASSUME CoreForm, NEW code, Return(code)
  PROVE  /\ CoreForm' /\ core'.at \in {"back", "wild"}
         /\ core.lr => core'.at = "back" /\ core'.r0 = code
<1>1. CASE core.lr
  <2>1. core' = [core EXCEPT !.at = "back", !.r0 = code]
    BY <1>1 DEF Return
  <2>2. core' = [at |-> "back", fn |-> core.fn, addr |-> core.addr, len |-> core.len, off |-> core.off,
                 r0 |-> code, args |-> core.args, lr |-> core.lr]
    BY <2>1 DEF CoreForm
  <2>3. QED BY <2>2 DEF CoreForm, Places, HaltedAt
<1>2. CASE ~core.lr
  <2>1. core' = At("wild")
    BY <1>2 DEF Return
  <2>2. QED BY <1>2, <2>1, AtForm DEF Places
<1>3. QED BY <1>1, <1>2

LEMMA LoopGoesOn ==
  ASSUME CoreForm, NEW a, NEW n, NEW o, core' = [core EXCEPT !.addr = a, !.len = n, !.off = o]
  PROVE  /\ CoreForm'
         /\ core'.at = core.at /\ core'.fn = core.fn /\ (core.lr => core'.lr) /\ (core.args => core'.args)
         /\ core'.addr = a /\ core'.len = n /\ core'.off = o
<1>1. core' = [at |-> core.at, fn |-> core.fn, addr |-> a, len |-> n, off |-> o,
               r0 |-> core.r0, args |-> core.args, lr |-> core.lr]
  BY DEF CoreForm
<1>2. QED BY <1>1 DEF CoreForm

(* What Operates does to the flash and the core, when nothing keeps it from it *)
LEMMA OperatesTo ==
  ASSUME path \in Agents, Operates, verify_page(Fn.unit)
  PROVE  /\ flash' = [c \in Cells |-> IF c \in Fn.unit THEN Written(c) ELSE flash[c]]
         /\ chip' = chip
         /\ IF Fn.more THEN core' = [core EXCEPT !.addr = NextAddr, !.len = core.len - Size, !.off = core.off + Size]
            ELSE Return(0)
BY DEF Operates, NextAddr, Size

LEMMA ErasesUnit ==
  ASSUME path \in Agents, job \in [op : Ops, addr : Nat, size : Nat], UNCHANGED <<path, job, jobs>>,
         CoreForm, core.lr, core.fn = "erase", Erasing, chip.ready, Operates
  PROVE  \/ core'.at = "back" /\ core'.r0 = 0 /\ Filled(0)'
         \/ core'.at = "running" /\ core'.fn = "erase" /\ core'.lr /\ Erasing'
<1>1. path \in Paths
  BY AgentIsPath
<1>2. core.at = "running" /\ ~Fn.refused
  BY DEF Operates
<1>3. \A c : Written(c) = Erased
  <2>1. \A c : Meant(c) = Erased
    BY DEF Meant
  <2>2. ~(path = "stm32" /\ ~chip.unlocked)
    BY DEF Erasing, Unlocked
  <2>3. QED BY <2>1, <2>2 DEF Written
<1>4. verify_page(Fn.unit)
  BY <1>3 DEF verify_page, Meant
<1>5. /\ flash' = [c \in Cells |-> IF c \in Fn.unit THEN Written(c) ELSE flash[c]]
      /\ chip' = chip
      /\ IF Fn.more THEN core' = [core EXCEPT !.addr = NextAddr, !.len = core.len - Size, !.off = core.off + Size]
         ELSE Return(0)
  BY <1>4, OperatesTo
<1>6. \A c \in Covering(job) : core.addr <= c /\ (Fn.more => c < core.addr + Size) => c \in Fn.unit
  BY <1>2, EraseUnit
<1>7. /\ core.addr \in Nat /\ core.len \in Nat /\ core.addr + core.len = job.addr + job.size
      /\ core.addr \in Part.starts /\ job.addr \in Part.starts /\ job.addr <= core.addr
      /\ \A c \in Covering(job) : c < core.addr => flash[c] = Erased
  BY <1>2 DEF Erasing
<1>8. \A c \in Covering(job) : c \in Nat /\ c \in Cells
  BY <1>1, <1>7, CoveredBy, Geometry
<1>9. ASSUME NEW c \in Covering(job), Fn.more => c < core.addr + Size PROVE flash'[c] = Erased
  <2>1. CASE c < core.addr
    BY <1>3, <1>5, <1>7, <1>8, <2>1
  <2>2. CASE core.addr <= c
    BY <1>3, <1>5, <1>6, <1>8, <1>9, <2>2
  <2>3. QED BY <1>7, <1>8, <2>1, <2>2
<1>10. CASE ~Fn.more
  <2>1. core'.at = "back" /\ core'.r0 = 0
    BY <1>5, <1>10, LoopEnds
  <2>2. \A c \in Covering(job) : flash'[c] = Erased
    BY <1>9, <1>10
  <2>3. Filled(0)'
    <3>1. SUFFICES ASSUME NEW c \in Covering(job)', (job.addr <= c /\ c < job.addr + 0)'
                   PROVE  FALSE
      BY <2>2, SameCommand DEF Filled, Erased
    <3>2. c \in Nat /\ job.addr \in Nat /\ job' = job
      BY <1>8, <3>1, SameCommand
    <3>3. QED BY <3>1, <3>2
  <2>4. QED BY <2>1, <2>3
<1>11. CASE Fn.more
  <2>1. /\ Size \in Nat /\ core.len - Size \in Nat /\ NextAddr = core.addr + Size
        /\ NextAddr \in Part.starts /\ path # "lpc"
    BY <1>2, <1>11, EraseUnit
  <2>2. /\ core'.at = "running" /\ core'.fn = "erase" /\ core'.lr
        /\ core'.addr = NextAddr /\ core'.len = core.len - Size
    <3>1. core' = [core EXCEPT !.addr = NextAddr, !.len = core.len - Size, !.off = core.off + Size]
      BY <1>5, <1>11
    <3>2. QED BY <1>2, <3>1, LoopGoesOn, Zenon
  <2>3. \A c \in Covering(job) : c < NextAddr => flash'[c] = Erased
    BY <1>9, <1>11, <2>1
  <2>4. /\ NextAddr \in Nat /\ job.addr <= NextAddr
        /\ NextAddr + (core.len - Size) = job.addr + job.size
    BY <1>7, <2>1
  <2>5. Fits' /\ Unlocked'
    BY <1>5 DEF Erasing, Fits, Unlocked
  <2>6. Erasing'
    BY <1>7, <2>1, <2>2, <2>3, <2>4, <2>5, SameCommand DEF Erasing, Erased
  <2>7. QED BY <2>2, <2>6
<1>12. QED BY <1>10, <1>11

LEMMA WritesUnit ==
  ASSUME path \in Agents, job \in [op : Ops, addr : Nat, size : Nat],
         UNCHANGED <<path, job, jobs, pos, buffer>>,
         CoreForm, core.lr, core.fn = "write", Writing, chip.ready, Operates
  PROVE  \/ core'.at = "back" /\ core'.r0 = 0 /\ Wrote'
         \/ core'.at = "running" /\ core'.fn = "write" /\ core'.lr /\ Writing'
<1>1. path \in Paths
  BY AgentIsPath
<1>2. core.at = "running" /\ ~Fn.refused
  BY DEF Operates
<1>3. /\ pos \in Nat /\ pos < job.size /\ core.off \in Nat /\ core.off < Xfer
      /\ core.addr = job.addr + (pos + core.off) /\ core.len = Xfer - core.off
      /\ job.addr \in Nat /\ job.size \in Nat
      /\ Filled(pos + core.off) /\ Loaded
  BY DEF Writing
<1>4. Xfer \in Nat \ {0} /\ Xfer <= Part.buffer /\ pos + Xfer <= job.size /\ Part.buffer \in Nat
  BY <1>3, XferIs
<1>5. core.addr \in Nat /\ core.len \in Nat
  BY <1>3, <1>4
<1>6. PICK n \in Nat \ {0} :
        /\ Fn.unit = core.addr .. core.addr + n - 1 /\ Fn.unit \subseteq Covering(job)
        /\ Fn.more => /\ Size = n /\ n < core.len /\ NextAddr = core.addr + n /\ path # "lpc"
                      /\ path # "stm32" => NextAddr % Part.page = 0 /\ (core.off + n) % Part.page = 0
        /\ ~Fn.more => core.len <= n /\ (pos + Xfer < job.size => core.len = n)
  BY <1>2, WriteUnit
<1>7. \A c \in Covering(job) : c \in Nat /\ c \in Cells
  BY <1>1, CoveredBy, Geometry
<1> DEFINE Word(c) == IF c - core.addr >= core.len THEN Zero ELSE Image(c - job.addr + 1)
<1>8. ASSUME NEW c \in Fn.unit PROVE Written(c) = Word(c) /\ Meant(c) = Word(c)
  <2>1. c \in Covering(job) /\ c \in Nat /\ core.addr <= c
    BY <1>5, <1>6, <1>7
  <2>2. flash[c] = Erased
    <3>1. ~(c < job.addr + (pos + core.off))
      BY <1>3, <2>1
    <3>2. QED BY <1>3, <2>1, <3>1 DEF Filled
  <2>3. Meant(c) = Word(c)
    <3>1. CASE c - core.addr >= core.len
      BY <3>1 DEF Meant
    <3>2. CASE ~(c - core.addr >= core.len)
      <4>1. /\ core.off + (c - core.addr) + 1 \in 1 .. Xfer /\ core.off + (c - core.addr) < Part.buffer
            /\ pos + (core.off + (c - core.addr) + 1) = c - job.addr + 1
        BY <1>3, <1>4, <1>5, <2>1, <3>2
      <4>2. buffer[core.off + (c - core.addr) + 1] = Image(c - job.addr + 1)
        BY <1>3, <4>1 DEF Loaded
      <4>3. core.args
        BY DEF Writing
      <4>4. QED BY <3>2, <4>1, <4>2, <4>3 DEF Meant
    <3>3. QED BY <3>1, <3>2
  <2>4. ~(path = "stm32" /\ ~chip.unlocked)
    BY DEF Writing, Unlocked
  <2>5. Written(c) = Meant(c)
    BY <2>2, <2>4 DEF Written
  <2>6. QED BY <2>3, <2>5
<1>9. /\ flash' = [c \in Cells |-> IF c \in Fn.unit THEN Written(c) ELSE flash[c]]
      /\ chip' = chip
      /\ IF Fn.more THEN core' = [core EXCEPT !.addr = NextAddr, !.len = core.len - Size, !.off = core.off + Size]
         ELSE Return(0)
  <2>1. verify_page(Fn.unit)
    BY <1>8 DEF verify_page
  <2>2. QED BY <2>1, OperatesTo
<1> HIDE DEF Word
<1>10. \A c \in Covering(job) :
         flash'[c] = IF c < core.addr THEN (IF job.addr <= c THEN Image(c - job.addr + 1) ELSE Erased)
                     ELSE IF c < core.addr + n THEN Word(c) ELSE Erased
  <2>1. SUFFICES ASSUME NEW c \in Covering(job)
        PROVE  flash'[c] = IF c < core.addr THEN (IF job.addr <= c THEN Image(c - job.addr + 1) ELSE Erased)
                           ELSE IF c < core.addr + n THEN Word(c) ELSE Erased
    OBVIOUS
  <2>2. c \in Nat /\ c \in Cells /\ (c \in Fn.unit <=> core.addr <= c /\ c < core.addr + n)
    BY <1>5, <1>6, <1>7
  <2>3. flash[c] = IF job.addr <= c /\ c < core.addr THEN Image(c - job.addr + 1) ELSE Erased
    BY <1>3 DEF Filled
  <2>4. CASE c \in Fn.unit
    BY <1>5, <1>8, <1>9, <2>2, <2>4
  <2>5. CASE c \notin Fn.unit
    <3>1. flash'[c] = flash[c]
      BY <1>9, <2>2, <2>5
    <3>2. job.addr <= core.addr
      BY <1>3
    <3>3. QED BY <1>3, <1>5, <2>2, <2>3, <2>5, <3>1, <3>2
  <2>6. QED BY <2>4, <2>5
<1>11. /\ Covering(job)' = Covering(job) /\ Xfer' = Xfer /\ Part' = Part
       /\ \A i : Image(i)' = Image(i)
  BY SameCommand DEF Image
<1>12. CASE ~Fn.more
  <2>1. core'.at = "back" /\ core'.r0 = 0
    BY <1>9, <1>12, LoopEnds
  <2>2. core.len <= n /\ (pos + Xfer < job.size => core.len = n)
    BY <1>6, <1>12
  <2>3. core.addr + core.len = job.addr + (pos + Xfer)
    BY <1>3, <1>4
  <2>4. \A c \in Covering(job) :
          flash'[c] = IF job.addr <= c /\ c < job.addr + (pos + Xfer) THEN Image(c - job.addr + 1)
                      ELSE IF core.addr + core.len <= c /\ c < core.addr + n THEN Zero ELSE Erased
    <3>1. SUFFICES ASSUME NEW c \in Covering(job)
          PROVE flash'[c] = IF job.addr <= c /\ c < job.addr + (pos + Xfer) THEN Image(c - job.addr + 1)
                      ELSE IF core.addr + core.len <= c /\ c < core.addr + n THEN Zero ELSE Erased
      OBVIOUS
    <3>2. c \in Nat /\ job.addr <= core.addr
      BY <1>3, <1>7
    <3>3. CASE c < core.addr
      BY <1>3, <1>5, <1>10, <2>3, <3>2, <3>3
    <3>4. CASE core.addr <= c
      <4>1. (c - core.addr >= core.len) <=> core.addr + core.len <= c
        BY <1>5, <3>2
      <4>2. flash'[c] = IF c < core.addr + n THEN Word(c) ELSE Erased
        BY <1>5, <1>10, <3>2, <3>4
      <4>3. QED BY <1>4, <1>5, <2>2, <2>3, <3>2, <3>4, <4>1, <4>2 DEF Word
    <3>5. QED BY <1>5, <3>2, <3>3, <3>4
  <2>5. CASE pos + Xfer = job.size
    <3>1. Finished'
      <4>1. SUFFICES ASSUME NEW c \in Covering(job)
                     PROVE  IF job.addr <= c /\ c < job.addr + job.size
                            THEN flash'[c] = Image(c - job.addr + 1)
                            ELSE flash'[c] \in {Erased, Zero}
        <5>1. job.op # "erase" /\ job' = job
          BY DEF Writing
        <5>2. QED BY <1>11, <5>1 DEF Finished, Erased, Zero
      <4>2. QED BY <2>4, <2>5
    <3>2. QED BY <1>11, <2>1, <2>5, <3>1 DEF Wrote
  <2>6. CASE pos + Xfer # job.size
    <3>1. core.len = n
      BY <1>3, <1>4, <2>2, <2>6
    <3>2. \A c \in Covering(job) :
            flash'[c] = IF job.addr <= c /\ c < job.addr + (pos + Xfer) THEN Image(c - job.addr + 1) ELSE Erased
      BY <1>5, <1>7, <2>4, <3>1
    <3>3. Filled(pos + Xfer)'
      BY <1>11, <3>2 DEF Filled, Erased
    <3>4. QED BY <1>11, <2>1, <2>6, <3>3 DEF Wrote
  <2>7. QED BY <2>5, <2>6
<1>13. CASE Fn.more
  <2>1. /\ Size = n /\ n < core.len /\ NextAddr = core.addr + n /\ path # "lpc"
        /\ path # "stm32" => NextAddr % Part.page = 0 /\ (core.off + n) % Part.page = 0
    BY <1>6, <1>13
  <2>2. core' = [core EXCEPT !.addr = NextAddr, !.len = core.len - Size, !.off = core.off + Size]
    BY <1>9, <1>13
  <2>3. core.args
    BY DEF Writing
  <2>4. /\ core'.at = "running" /\ core'.fn = "write" /\ core'.lr /\ core'.args
        /\ core'.addr = core.addr + n /\ core'.len = core.len - n /\ core'.off = core.off + n
    BY <1>2, <2>1, <2>2, <2>3, LoopGoesOn, ZenonT(30)
  <2>5. /\ core.off + n \in Nat /\ core.off + n < Xfer
        /\ core.addr + n = job.addr + (pos + (core.off + n)) /\ core.len - n = Xfer - (core.off + n)
    BY <1>3, <1>4, <2>1
  <2>6. \A c \in Covering(job) :
          flash'[c] = IF job.addr <= c /\ c < job.addr + (pos + (core.off + n))
                      THEN Image(c - job.addr + 1) ELSE Erased
    <3>1. SUFFICES ASSUME NEW c \in Covering(job)
          PROVE flash'[c] = IF job.addr <= c /\ c < job.addr + (pos + (core.off + n))
                            THEN Image(c - job.addr + 1) ELSE Erased
      OBVIOUS
    <3>2. c \in Nat /\ job.addr <= core.addr
      BY <1>3, <1>7
    <3>3. CASE c < core.addr
      BY <1>3, <1>5, <1>10, <2>5, <3>2, <3>3
    <3>4. CASE core.addr <= c
      <4>1. c < core.addr + n => ~(c - core.addr >= core.len)
        BY <1>5, <2>1, <3>2
      <4>2. flash'[c] = IF c < core.addr + n THEN Word(c) ELSE Erased
        BY <1>5, <1>10, <3>2, <3>4
      <4>3. QED BY <1>3, <1>5, <2>5, <3>2, <3>4, <4>1, <4>2 DEF Word
    <3>5. QED BY <1>5, <3>2, <3>3, <3>4
  <2>7. Filled(pos + core.off)'
    BY <1>11, <2>4, <2>6 DEF Filled, Erased
  <2>8. Fits' /\ Unlocked' /\ Loaded'
    BY <1>3, <1>9, <1>11 DEF Writing, Fits, Unlocked, Loaded
  <2>9. job.op # "erase"
    BY DEF Writing
  <2>10. Writing'
    BY <1>3, <1>11, <2>1, <2>4, <2>5, <2>7, <2>8, <2>9 DEF Writing
  <2>11. QED BY <2>4, <2>10
<1>14. QED BY <1>12, <1>13

(* A function's checks, before its first operation *)
LEMMA EntersCall ==
  ASSUME path \in Agents, job \in [op : Ops, addr : Nat, size : Nat],
         UNCHANGED <<path, job, jobs, pos, buffer>>,
         CoreForm, core.lr, Enters,
         \/ core.fn = "erase" /\ Erasing
         \/ core.fn = "write" /\ Writing
  PROVE  \/ core'.at = "back" /\ core'.r0 # 0
         \/ core'.at = "back" /\ core'.r0 = 0 /\ core.fn = "erase" /\ Filled(0)'
         \/ /\ core'.at = "running" /\ core'.fn = core.fn /\ core'.lr
            /\ \/ core.fn = "erase" /\ Erasing'
               \/ core.fn = "write" /\ Writing'
<1>1. path \in Paths
  BY AgentIsPath
<1>2. core.at = "enter" /\ UNCHANGED <<flash, chip>>
  BY DEF Enters
<1>3. Covering(job)' = Covering(job) /\ Xfer' = Xfer /\ Part' = Part /\ \A i : Image(i)' = Image(i)
  BY SameCommand DEF Image
<1>4. Fits' = Fits /\ (Unlocked => Unlocked')
  BY <1>2 DEF Fits, Unlocked
<1>5. CASE Return(ERR_ALIGNMENT)
  BY <1>5, LoopEnds DEF ERR_ALIGNMENT
<1>6. CASE Fn.nothing /\ Return(0)
  <2>1. core'.at = "back" /\ core'.r0 = 0
    BY <1>6, LoopEnds
  <2>2. CASE core.fn = "erase" /\ Erasing
    <3>1. path = "spifi" /\ core.len = 0
      <4>1. CASE path = "lpc"
        BY <1>6, <2>2, <4>1 DEF Fn, lpc_erase, Function
      <4>2. CASE path = "stm32"
        BY <1>6, <2>2, <4>2 DEF Fn, stm32_erase, Function
      <4>3. CASE path = "spifi"
        BY <1>6, <2>2, <4>3 DEF Fn, spifi_erase, Function
      <4>4. QED BY <4>1, <4>2, <4>3 DEF Agents
    <3>2. Extent(job.size) = 0
      BY <1>2, <2>2, <3>1 DEF Erasing, Extent
    <3>3. ASSUME NEW c \in Covering(job) PROVE FALSE
      <4>1. PICK d \in Cells : job.addr <= d /\ d < job.addr + Extent(job.size)
        BY <1>1, CoveredBy
      <4>2. d \in Nat /\ job.addr \in Nat
        BY <1>1, Geometry
      <4>3. QED BY <3>2, <4>1, <4>2
    <3>4. Filled(0)'
      BY <1>3, <3>3 DEF Filled
    <3>5. QED BY <2>1, <2>2, <3>4
  <2>3. CASE core.fn = "write" /\ Writing
    <3>1. core.len # 0
      <4>1. pos \in Nat /\ pos < job.size /\ core.off \in Nat /\ core.off < Xfer /\ core.len = Xfer - core.off
        BY <2>3 DEF Writing
      <4>2. Xfer \in Nat
        BY <4>1, XferIs
      <4>3. QED BY <4>1, <4>2
    <3>2. ~Fn.nothing
      <4>1. CASE path = "lpc"
        BY <2>3, <4>1 DEF Fn, lpc_write, Function
      <4>2. CASE path = "stm32"
        BY <2>3, <3>1, <4>2 DEF Fn, stm32_write, Function
      <4>3. CASE path = "spifi"
        BY <2>3, <3>1, <4>3 DEF Fn, spifi_write, Function
      <4>4. QED BY <4>1, <4>2, <4>3 DEF Agents
    <3>3. QED BY <1>6, <3>2
  <2>4. QED BY <2>2, <2>3
<1>7. CASE Fn.aligned /\ core' = At("running")
  <2>1. /\ core'.at = "running" /\ core'.fn = core.fn /\ core'.lr /\ (core.args => core'.args)
        /\ core'.addr = core.addr /\ core'.len = core.len /\ core'.off = core.off
    BY <1>7, AtForm, Zenon DEF Places
  <2>2. (path = "stm32" /\ core.fn = "write") \/ core.addr \in Part.starts
    <3>1. CASE path = "lpc"
      BY <1>7, <3>1 DEF Fn, lpc_erase, lpc_write, Function, SectorStart
    <3>2. CASE path = "stm32"
      BY <1>7, <3>2 DEF Fn, stm32_erase, stm32_write, Function, SectorStart
    <3>3. CASE path = "spifi"
      BY <1>7, <3>3 DEF Fn, spifi_erase, spifi_write, Function, SectorStart
    <3>4. QED BY <3>1, <3>2, <3>3 DEF Agents
  <2>3. CASE core.fn = "erase" /\ Erasing
    <3>1. core.addr = job.addr /\ core.addr \in Part.starts
      BY <1>2, <2>2, <2>3 DEF Erasing
    <3>2. \A c \in Covering(job) : ~(c < core.addr)
      <4>1. SUFFICES ASSUME NEW c \in Covering(job) PROVE ~(c < core.addr)
        OBVIOUS
      <4>2. c \in Nat /\ job.addr <= c
        BY <1>1, <3>1, CoveringFrom
      <4>3. QED BY <3>1, <4>2
    <3>3. core.addr \in Nat /\ core.len \in Nat /\ core.addr + core.len = job.addr + job.size /\ Fits /\ Unlocked
      BY <2>3 DEF Erasing
    <3>4. Erasing'
      BY <1>3, <1>4, <2>1, <3>1, <3>2, <3>3 DEF Erasing
    <3>5. QED BY <2>1, <2>3, <3>4
  <2>4. CASE core.fn = "write" /\ Writing
    <3>1. core.off = 0
      BY <1>2, <2>4 DEF Writing
    <3>2. path # "stm32" => core.addr % Part.page = 0 /\ core.off % Part.page = 0
      <4>1. Part.page \in Nat \ {0} /\ (\A a \in Part.starts : a % Part.page = 0)
        BY <1>1, Geometry
      <4>2. 0 % Part.page = 0
        BY <4>1
      <4>3. QED BY <2>2, <3>1, <4>1, <4>2
    <3>3. /\ Fits /\ Unlocked /\ job.op # "erase" /\ pos \in Nat /\ pos < job.size
          /\ core.off \in Nat /\ core.off < Xfer /\ core.args
          /\ core.addr = job.addr + (pos + core.off) /\ core.len = Xfer - core.off
          /\ Filled(pos + core.off) /\ Loaded
      BY <2>4 DEF Writing
    <3>4. Filled(pos + core.off)' /\ Loaded'
      BY <1>2, <1>3, <2>1, <3>3 DEF Filled, Loaded
    <3>5. Writing'
      BY <1>3, <1>4, <2>1, <3>1, <3>2, <3>3, <3>4 DEF Writing
    <3>6. QED BY <2>1, <2>4, <3>5
  <2>5. QED BY <2>3, <2>4
<1>8. QED BY <1>5, <1>6, <1>7 DEF Enters

-----------------------------------------------------------------------------
(* What holds between the command, the core and the flash.  Until do_reset_stop nothing
   is known of the core, and no function runs between two calls.                         *)

Before == {"attach", "halt", "reset", "rom", "romWait", "load"}
Prepared == {"rom", "romWait", "load", "call", "fill"}
AgentForm ==
  /\ CoreForm /\ chip \in [unlocked : BOOLEAN, ready : BOOLEAN]
  /\ job \in [op : Ops, addr : Nat, size : Nat]
  /\ stage \in Before \/ (stage \in {"call", "wait"} /\ callee = "setup") => pos = 0
  /\ stage \in {"call", "wait"} => callee \in {"setup", "erase", "write"}
  /\ stage = "download" => job.op = "load"
  /\ stage \in {"runHalt", "runLoad", "runGo"} => job.op = "exec"
  /\ result = "ok" => stage = "idle"
  /\ stage \in Prepared => core.at \notin {"enter", "running"}

(* The boot ROM of an LPC is yet to set the flash's timing up. *)
Ready ==
  \/ chip.ready
  \/ stage = "rom" /\ core.at = "reset"
  \/ stage \in {"romWait", "load", "call", "wait"} /\ core.at = "rom"
Calls ==
  /\ stage = "call" /\ callee = "erase" => Fits /\ Unlocked /\ pos = 0
  /\ stage = "call" /\ callee = "write" => Filling /\ Loaded
  /\ stage = "fill" => Filling
Does ==
  /\ core.fn = callee /\ core.lr
  /\ callee = "setup" => core.at = "enter"
  /\ callee = "erase" => Erasing /\ pos = 0
  /\ callee = "write" => Writing
Did ==
  /\ Unlocked
  /\ callee = "erase" => Fits /\ pos = 0 /\ Filled(0)
  /\ callee = "write" => Fits /\ job.op # "erase" /\ pos \in Nat /\ pos < job.size /\ Wrote
InCall ==
  /\ core.at \in {"enter", "running"} => Does
  /\ core.at = "back" /\ core.r0 = 0 => Did
AgentOver == result = "ok" /\ job.op \in {"flash", "erase"} => Fits /\ core.at = "back" /\ Finished
AgentTrue ==
  /\ stage \in Prepared \cup {"wait"} => Ready
  /\ Calls /\ (stage = "wait" => InCall) /\ AgentOver
AgentOk == AgentForm /\ (~lost => AgentTrue)

LEMMA CommandStays ==
  ASSUME UNCHANGED <<path, job, jobs, flash>>
  PROVE  /\ Fits' = Fits /\ (Finished => Finished') /\ (Filled(0) => Filled(0)')
         /\ UNCHANGED pos => (Filled(pos) => Filled(pos)') /\ (Wrote => Wrote')
         /\ UNCHANGED <<pos, buffer>> => (Loaded => Loaded')
         /\ Unlocked /\ chip'.unlocked = chip.unlocked => Unlocked'
<1>1. Covering(job)' = Covering(job) /\ (pos' = pos => Xfer' = Xfer) /\ \A i : Image(i)' = Image(i)
  BY SameCommand DEF Image
<1>2. Fits' = Fits /\ (Finished => Finished') /\ (Filled(0) => Filled(0)')
  BY <1>1 DEF Fits, Finished, Filled, Erased, Zero
<1>3. ASSUME UNCHANGED pos
      PROVE  (Filled(pos) => Filled(pos)') /\ (Filled(pos + Xfer) => Filled(pos + Xfer)')
  BY <1>1, <1>3 DEF Filled, Erased
<1>4. ASSUME UNCHANGED pos PROVE Wrote => Wrote'
  BY <1>1, <1>2, <1>3, <1>4 DEF Wrote
<1>5. UNCHANGED <<pos, buffer>> => (Loaded => Loaded')
  BY <1>1 DEF Loaded
<1>6. Unlocked /\ chip'.unlocked = chip.unlocked => Unlocked'
  BY DEF Unlocked
<1>7. QED BY <1>2, <1>3, <1>4, <1>5, <1>6

(* Steps of the target: the core goes on only while it is not halted. *)
LEMMA TargetForm ==
  ASSUME path \in Agents, AgentForm, TargetSteps
  PROVE  /\ UNCHANGED <<path, job, jobs, pos, buffer, stage, callee, result, lost>>
         /\ AgentForm' /\ core.at \notin HaltedAt
         /\ core.at \notin {"enter", "running"} =>
              /\ flash' = flash /\ chip'.unlocked = chip.unlocked /\ core'.at \in {"elsewhere", "wild"}
              /\ core.at = "rom" => chip'.ready
              /\ core.at # "rom" => chip' = chip
<1>1. UNCHANGED <<path, job, jobs, pos, buffer, stage, callee, result, lost>>
  BY DEF TargetSteps, jobVars
<1>2. CoreForm /\ chip \in [unlocked : BOOLEAN, ready : BOOLEAN]
  BY DEF AgentForm
<1>3. SUFFICES /\ CoreForm' /\ chip' \in [unlocked : BOOLEAN, ready : BOOLEAN] /\ core.at \notin HaltedAt
               /\ core.at \notin {"enter", "running"} =>
                    /\ flash' = flash /\ chip'.unlocked = chip.unlocked /\ core'.at \in {"elsewhere", "wild"}
                    /\ core.at = "rom" => chip'.ready
                    /\ core.at # "rom" => chip' = chip
  BY <1>1 DEF AgentForm
<1>4. CASE flash_agent_setup
  <2>1. core.at = "enter" /\ (Return(0) \/ Return(ERR_FAIL))
    BY <1>4 DEF flash_agent_setup
  <2>2. CoreForm'
    BY <1>2, <2>1, LoopEnds
  <2>3. chip' \in [unlocked : BOOLEAN, ready : BOOLEAN]
    BY <1>2, <1>4 DEF flash_agent_setup
  <2>4. QED BY <2>1, <2>2, <2>3 DEF HaltedAt
<1>5. CASE Enters
  <2>1. core.at = "enter" /\ (Return(0) \/ Return(ERR_ALIGNMENT) \/ core' = At("running")) /\ chip' = chip
    BY <1>5 DEF Enters
  <2>2. CoreForm'
    BY <1>2, <2>1, LoopEnds, AtForm DEF Places
  <2>3. QED BY <1>2, <2>1, <2>2 DEF HaltedAt
<1>6. CASE Operates
  <2>1. /\ core.at = "running" /\ chip' = chip
        /\ \/ Return(0) \/ Return(ERR_FAIL)
           \/ core' = [core EXCEPT !.addr = NextAddr, !.len = core.len - Size, !.off = core.off + Size]
    BY <1>6 DEF Operates, NextAddr, Size
  <2>2. CoreForm'
    BY <1>2, <2>1, LoopEnds, LoopGoesOn
  <2>3. QED BY <1>2, <2>1, <2>2 DEF HaltedAt
<1>7. CASE OperationFails
  <2>1. core.at = "running" /\ Return(ERR_FAIL) /\ chip' = chip
    BY <1>7 DEF OperationFails
  <2>2. QED BY <1>2, <2>1, LoopEnds DEF HaltedAt
<1>8. CASE RomEnds
  <2>1. /\ core.at = "rom" /\ flash' = flash /\ chip' = [chip EXCEPT !.ready = TRUE]
        /\ core' = At("elsewhere") \/ core' = At("wild")
    BY <1>8 DEF RomEnds
  <2>2. CoreForm' /\ core'.at \in {"elsewhere", "wild"}
    BY <1>2, <2>1, AtForm DEF Places, HaltedAt
  <2>3. QED BY <1>2, <2>1, <2>2 DEF HaltedAt
<1>9. CASE WildHalts
  <2>1. core.at = "wild" /\ flash' = flash /\ chip' = chip /\ core' = At("elsewhere")
    BY <1>9 DEF WildHalts
  <2>2. CoreForm' /\ core'.at = "elsewhere"
    BY <1>2, <2>1, AtForm DEF Places, HaltedAt
  <2>3. QED BY <1>2, <2>1, <2>2 DEF HaltedAt
<1>10. QED BY <1>4, <1>5, <1>6, <1>7, <1>8, <1>9 DEF TargetSteps

(* A function runs while the host waits for it. *)
LEMMA FunctionStep ==
  ASSUME path \in Agents, AgentForm, AgentTrue, stage = "wait", core.at \in {"enter", "running"}, TargetSteps
  PROVE  (Ready /\ InCall)'
<1>1. /\ UNCHANGED <<path, job, jobs, pos, buffer, stage, callee>> /\ CoreForm
      /\ job \in [op : Ops, addr : Nat, size : Nat]
  BY TargetForm DEF AgentForm
<1>2. chip.ready /\ Does
  BY DEF AgentTrue, Ready, InCall
<1>3. chip'.ready => Ready'
  BY DEF Ready
<1>4. core.fn = callee /\ core.lr /\ callee \in {"setup", "erase", "write"}
  BY <1>2 DEF Does, AgentForm
<1>5. core'.at = "back" /\ core'.r0 # 0 => InCall'
  BY DEF InCall
<1>6. CASE flash_agent_setup
  <2>1. callee = "setup"
    BY <1>4, <1>6 DEF flash_agent_setup
  <2>2. CASE Return(0) /\ chip' = [chip EXCEPT !.unlocked = TRUE]
    <3>1. core'.at = "back" /\ chip'.ready /\ chip'.unlocked
      BY <1>1, <1>2, <1>4, <2>2, LoopEnds DEF AgentForm
    <3>2. Did'
      BY <1>1, <2>1, <3>1 DEF Did, Unlocked
    <3>3. QED BY <1>3, <3>1, <3>2 DEF InCall
  <2>3. CASE Return(ERR_FAIL) /\ chip' = [chip EXCEPT !.unlocked = FALSE]
    <3>1. core'.at = "back" /\ core'.r0 # 0
      BY <1>1, <1>4, <2>3, LoopEnds DEF ERR_FAIL
    <3>2. chip'.ready
      BY <1>2, <2>3 DEF AgentForm
    <3>3. QED BY <1>3, <1>5, <3>1, <3>2
  <2>4. QED BY <1>6, <2>2, <2>3 DEF flash_agent_setup
<1>7. CASE Enters
  <2>1. /\ callee \in {"erase", "write"} /\ flash' = flash /\ chip' = chip
    BY <1>4, <1>7 DEF Enters
  <2>2. callee = "erase" => Erasing /\ pos = 0
    BY <1>2 DEF Does
  <2>3. callee = "write" => Writing
    BY <1>2 DEF Does
  <2>4. \/ core'.at = "back" /\ core'.r0 # 0
        \/ core'.at = "back" /\ core'.r0 = 0 /\ core.fn = "erase" /\ Filled(0)'
        \/ /\ core'.at = "running" /\ core'.fn = core.fn /\ core'.lr
           /\ \/ core.fn = "erase" /\ Erasing'
              \/ core.fn = "write" /\ Writing'
    BY <1>1, <1>4, <1>7, <2>1, <2>2, <2>3, EntersCall
  <2>5. ASSUME core'.at = "back", core.fn = "erase", Filled(0)' PROVE Did'
    <3>1. Fits' /\ Unlocked'
      BY <1>1, <1>4, <2>1, <2>2, <2>5, CommandStays DEF Erasing
    <3>2. QED BY <1>1, <1>4, <2>2, <2>5, <3>1 DEF Did
  <2>6. ASSUME core'.at = "running", core'.fn = core.fn, core'.lr,
               (core.fn = "erase" /\ Erasing') \/ (core.fn = "write" /\ Writing')
        PROVE  Does'
    BY <1>1, <1>4, <2>1, <2>2, <2>6 DEF Does
  <2>7. InCall'
    BY <2>4, <2>5, <2>6 DEF InCall
  <2>8. QED BY <1>2, <1>3, <2>1, <2>7
<1>8. CASE Operates
  <2>1. core.at = "running" /\ chip' = chip /\ callee \in {"erase", "write"}
    BY <1>2, <1>4, <1>8 DEF Operates, Does
  <2>2. CASE callee = "erase"
    <3>1. Erasing /\ pos = 0 /\ core.fn = "erase"
      BY <1>2, <2>2 DEF Does
    <3>2. \/ core'.at = "back" /\ core'.r0 = 0 /\ Filled(0)'
          \/ core'.at = "running" /\ core'.fn = "erase" /\ core'.lr /\ Erasing'
      BY <1>1, <1>2, <1>4, <1>8, <3>1, ErasesUnit
    <3>3. Fits' /\ Unlocked'
      BY <1>1, <2>1, <3>1 DEF Erasing, Fits, Unlocked
    <3>4. QED BY <1>1, <1>2, <1>3, <2>1, <2>2, <3>1, <3>2, <3>3 DEF InCall, Does, Did
  <2>3. CASE callee = "write"
    <3>1. Writing /\ core.fn = "write"
      BY <1>2, <2>3 DEF Does
    <3>2. \/ core'.at = "back" /\ core'.r0 = 0 /\ Wrote'
          \/ core'.at = "running" /\ core'.fn = "write" /\ core'.lr /\ Writing'
      BY <1>1, <1>2, <1>4, <1>8, <3>1, WritesUnit
    <3>3. /\ Fits' /\ Unlocked' /\ job'.op # "erase" /\ pos' \in Nat /\ pos' < job'.size
      BY <1>1, <2>1, <3>1 DEF Writing, Fits, Unlocked
    <3>4. QED BY <1>1, <1>2, <1>3, <2>1, <2>3, <3>2, <3>3 DEF InCall, Does, Did
  <2>4. QED BY <2>1, <2>2, <2>3
<1>9. CASE OperationFails
  <2>1. core'.at = "back" /\ core'.r0 # 0 /\ chip' = chip
    BY <1>1, <1>4, <1>9, LoopEnds DEF OperationFails, ERR_FAIL
  <2>2. QED BY <1>2, <1>3, <1>5, <2>1
<1>10. QED BY <1>6, <1>7, <1>8, <1>9 DEF TargetSteps, RomEnds, WildHalts

LEMMA TargetOk ==
  ASSUME path \in Agents, AgentOk, TargetSteps
  PROVE  AgentOk'
<1>1. /\ UNCHANGED <<path, job, jobs, pos, buffer, stage, callee, result, lost>>
      /\ AgentForm /\ AgentForm' /\ core.at \notin HaltedAt
      /\ core.at \notin {"enter", "running"} =>
           /\ flash' = flash /\ chip'.unlocked = chip.unlocked /\ core'.at \in {"elsewhere", "wild"}
           /\ core.at = "rom" => chip'.ready
           /\ core.at # "rom" => chip' = chip
  BY TargetForm DEF AgentOk
<1>2. SUFFICES ASSUME ~lost PROVE AgentTrue'
  BY <1>1 DEF AgentOk
<1>3. AgentTrue /\ (result = "ok" => stage = "idle")
  BY <1>2 DEF AgentOk, AgentForm
<1>4. AgentOver'
  <2>1. ~(result = "ok" /\ job.op \in {"flash", "erase"})
    BY <1>1, <1>3 DEF AgentTrue, AgentOver, HaltedAt
  <2>2. QED BY <1>1, <2>1 DEF AgentOver
<1>5. core.at \notin {"enter", "running"} /\ stage \in Prepared \cup {"wait"} => Ready'
  BY <1>1, <1>3 DEF AgentTrue, Ready, HaltedAt
<1>6. CASE stage = "wait"
  <2>1. Calls'
    BY <1>1, <1>6 DEF Calls
  <2>2. CASE core.at \in {"enter", "running"}
    BY <1>1, <1>3, <1>4, <1>6, <2>1, <2>2, FunctionStep DEF AgentTrue
  <2>3. CASE core.at \notin {"enter", "running"}
    <3>1. InCall'
      BY <1>1, <2>3 DEF InCall
    <3>2. QED BY <1>1, <1>4, <1>5, <1>6, <2>1, <2>3, <3>1 DEF AgentTrue
  <2>4. QED BY <2>2, <2>3
<1>7. CASE stage \in Prepared
  <2>1. core.at \notin {"enter", "running"}
    BY <1>1, <1>7 DEF AgentForm
  <2>2. Calls'
    <3>1. (Fits => Fits') /\ (Unlocked => Unlocked') /\ (Loaded => Loaded') /\ (Filled(pos) => Filled(pos)')
      BY <1>1, <2>1, CommandStays
    <3>2. QED BY <1>1, <1>3, <3>1 DEF AgentTrue, Calls, Filling
  <2>3. QED BY <1>1, <1>4, <1>5, <1>7, <2>1, <2>2 DEF AgentTrue, Prepared
<1>8. CASE stage \notin Prepared \cup {"wait"}
  BY <1>1, <1>4, <1>8 DEF AgentTrue, Calls, Prepared
<1>9. QED BY <1>6, <1>7, <1>8

(* Steps of the host.  Where it goes, nothing may be asked of the target ... *)
LEMMA NothingAsked ==
  ASSUME stage' \notin Prepared \cup {"wait"},
         result' # "ok" \/ job'.op \notin {"flash", "erase"}
  PROVE  AgentTrue'
BY DEF AgentTrue, Calls, AgentOver, Prepared

LEMMA StoppedForm ==
  ASSUME CoreForm, core' = Stopped
  PROVE  CoreForm' /\ core'.at \notin {"enter", "running"}
<1>1. CASE Halted
  <2>1. core' = core /\ core.at \notin {"enter", "running"}
    BY <1>1 DEF Stopped, Halted, HaltedAt
  <2>2. QED BY <2>1 DEF CoreForm
<1>2. CASE ~Halted
  <2>1. core' = At("entry") \/ core' = At("paused") \/ core' = At("elsewhere")
    BY <1>2 DEF Stopped
  <2>2. QED BY <2>1, AtForm DEF Places, HaltedAt
<1>3. QED BY <1>1, <1>2

LEMMA ResumedForm ==
  ASSUME CoreForm, core' = Resumed
  PROVE  CoreForm'
<1>1. core' = At("enter") \/ core' = At("running") \/ core' = core \/ core' = At("wild")
  BY DEF Resumed
<1>2. core' = core => CoreForm'
  BY DEF CoreForm
<1>3. QED BY <1>1, <1>2, AtForm DEF Places, HaltedAt

(* ... as when a command begins or ends without its end, or is one that only loads *)
LEMMA QuietSteps ==
  ASSUME path \in Agents, AgentOk,
         Begins \/ GivesUp \/ WaitFails \/ do_attach \/ do_download \/ do_run \/ Halts
  PROVE  AgentOk'
<1>1. AgentForm /\ CoreForm
  BY DEF AgentOk, AgentForm
<1>2. CASE Begins
  <2>1. PICK j \in Jobs :
          /\ job' = j /\ pos' = 0 /\ result' = "none" /\ UNCHANGED <<core, chip>>
          /\ stage' = CASE j.op = "exec" -> "runHalt" [] j.op = "load" -> "download" [] OTHER -> "attach"
    BY <1>2 DEF Begins, Starts, targetVars
  <2>2. job' \in [op : Ops, addr : Nat, size : Nat] /\ stage' \in {"runHalt", "download", "attach"}
    BY <2>1, JobsAssumption DEF Ops
  <2>3. (stage' = "runHalt" => job'.op = "exec") /\ (stage' = "download" => job'.op = "load")
    BY <2>1
  <2>4. AgentForm'
    BY <1>1, <2>1, <2>2, <2>3 DEF AgentForm, CoreForm, Prepared, Before
  <2>5. AgentTrue'
    BY <2>1, <2>2, NothingAsked DEF Prepared
  <2>6. QED BY <2>4, <2>5 DEF AgentOk
<1>3. CASE GivesUp \/ WaitFails
  <2>1. stage' = "idle" /\ result' = "fail" /\ UNCHANGED <<core, chip, job, pos>>
    BY <1>3 DEF GivesUp, WaitFails, Ends, jobVars, targetVars
  <2>2. AgentForm'
    BY <1>1, <2>1 DEF AgentForm, CoreForm, Prepared, Before
  <2>3. AgentTrue'
    BY <2>1, NothingAsked DEF Prepared
  <2>4. QED BY <2>2, <2>3 DEF AgentOk
<1>4. CASE do_attach
  <2>1. stage = "attach" /\ stage' = "halt" /\ UNCHANGED <<core, chip, job, pos, result>>
    BY <1>4 DEF do_attach, To, jobVars, targetVars
  <2>2. AgentForm'
    BY <1>1, <2>1 DEF AgentForm, CoreForm, Prepared, Before
  <2>3. AgentTrue'
    BY <1>1, <2>1, <2>2, NothingAsked DEF Prepared, AgentForm
  <2>4. QED BY <2>2, <2>3 DEF AgentOk
<1>5. CASE do_download
  <2>1. stage = "download" /\ stage' = "idle" /\ result' = "ok" /\ UNCHANGED <<core, chip, job, pos>>
    BY <1>5 DEF do_download, Ends, jobVars
  <2>2. AgentForm'
    BY <1>1, <2>1 DEF AgentForm, CoreForm, Prepared, Before
  <2>3. AgentTrue'
    BY <1>1, <2>1, NothingAsked DEF Prepared, AgentForm
  <2>4. QED BY <2>2, <2>3 DEF AgentOk
<1>6. CASE do_run
  <2>1. /\ stage \in {"runHalt", "runLoad", "runGo"} /\ stage' \in {"runLoad", "runGo", "idle"}
        /\ UNCHANGED <<chip, job, pos>> /\ (stage' = "idle" \/ result' = result)
        /\ core' \in {core, Stopped, At("wild"), Resumed}
    BY <1>6 DEF do_run, Ends, To, jobVars, targetVars
  <2>2. CoreForm'
    <3>1. core' = core => CoreForm'
      BY <1>1 DEF CoreForm
    <3>2. QED BY <1>1, <2>1, <3>1, StoppedForm, ResumedForm, AtForm DEF Places
  <2>3. AgentForm'
    BY <1>1, <2>1, <2>2 DEF AgentForm, Prepared, Before
  <2>4. AgentTrue'
    BY <1>1, <2>1, NothingAsked DEF Prepared, AgentForm
  <2>5. QED BY <2>3, <2>4 DEF AgentOk
<1>7. CASE Halts
  <2>1. /\ stage = "halt" /\ stage' = "reset" /\ UNCHANGED <<chip, job, pos, result>>
        /\ core' \in {core, Stopped}
    BY <1>7 DEF Halts, To, jobVars
  <2>2. CoreForm'
    <3>1. core' = core => CoreForm'
      BY <1>1 DEF CoreForm
    <3>2. QED BY <1>1, <2>1, <3>1, StoppedForm
  <2>3. AgentForm'
    BY <1>1, <2>1, <2>2 DEF AgentForm, Prepared, Before
  <2>4. AgentTrue'
    BY <1>1, <2>1, <2>3, NothingAsked DEF Prepared, AgentForm
  <2>5. QED BY <2>3, <2>4 DEF AgentOk
<1>8. QED BY <1>2, <1>3, <1>4, <1>5, <1>6, <1>7

(* The reset, and an LPC's boot ROM *)
LEMMA ResetSteps ==
  ASSUME path \in Agents, AgentOk, do_reset_stop \/ BootRom \/ BootRomOver \/ Loads
  PROVE  AgentOk'
<1>1. AgentForm /\ CoreForm
  BY DEF AgentOk, AgentForm
<1>2. CASE do_reset_stop
  <2>1. /\ stage = "reset" /\ stage' = AfterReset /\ UNCHANGED <<path, job, pos, result>>
        /\ AfterReset \in {"rom", "load"} /\ (AfterReset = "load" <=> path # "lpc")
    BY <1>2 DEF do_reset_stop, To, AfterReset
  <2>2. \/ core' = At("reset") /\ chip' = [unlocked |-> FALSE, ready |-> path # "lpc"]
        \/ core' = At("elsewhere") /\ chip' = [unlocked |-> FALSE, ready |-> TRUE]
        \/ core' = Stopped /\ chip' = chip /\ lost' = ~chip.ready
    BY <1>2 DEF do_reset_stop
  <2>3. /\ CoreForm' /\ chip' \in [unlocked : BOOLEAN, ready : BOOLEAN] /\ core'.at \notin {"enter", "running"}
        /\ ~lost' => chip'.ready \/ (stage' = "rom" /\ core'.at = "reset")
    <3>1. CASE core' = At("reset") /\ chip' = [unlocked |-> FALSE, ready |-> path # "lpc"]
      <4>1. CoreForm' /\ core'.at = "reset"
        BY <1>1, <3>1, AtForm DEF Places, HaltedAt
      <4>2. chip' \in [unlocked : BOOLEAN, ready : BOOLEAN] /\ (path # "lpc" => chip'.ready)
        BY <3>1
      <4>3. path = "lpc" => stage' = "rom"
        BY <2>1
      <4>4. QED BY <4>1, <4>2, <4>3
    <3>2. CASE core' = At("elsewhere") /\ chip' = [unlocked |-> FALSE, ready |-> TRUE]
      BY <1>1, <3>2, AtForm DEF Places, HaltedAt
    <3>3. CASE core' = Stopped /\ chip' = chip /\ lost' = ~chip.ready
      BY <1>1, <3>3, StoppedForm DEF AgentForm
    <3>4. QED BY <2>2, <3>1, <3>2, <3>3
  <2>4. AgentForm'
    BY <1>1, <2>1, <2>3 DEF AgentForm, Prepared, Before
  <2>5. ASSUME ~lost' PROVE AgentTrue'
    <3>1. Ready'
      BY <2>3, <2>5 DEF Ready
    <3>2. QED BY <1>1, <2>1, <3>1 DEF AgentTrue, AgentForm, Calls, AgentOver
  <2>6. QED BY <2>4, <2>5 DEF AgentOk
<1>3. CASE BootRom
  <2>1. /\ stage = "rom" /\ stage' = "romWait" /\ UNCHANGED <<chip, job, pos, result>>
        /\ \/ core' = IF core.at = "reset" THEN At("rom") ELSE IF Halted THEN At("wild") ELSE core
           \/ lost' /\ core' = core
        /\ lost' = lost \/ lost'
    BY <1>3 DEF BootRom, To
  <2>2. core.at \notin {"enter", "running"}
    BY <1>1, <2>1 DEF AgentForm, Prepared
  <2>3. CoreForm' /\ core'.at \notin {"enter", "running"} /\ (core.at = "reset" => core'.at = "rom" \/ lost')
    <3>1. core' = core => CoreForm'
      BY <1>1 DEF CoreForm
    <3>2. (core' = At("rom") => CoreForm' /\ core'.at = "rom") /\ (core' = At("wild") => CoreForm' /\ core'.at = "wild")
      BY <1>1, AtForm DEF Places
    <3>3. QED BY <2>1, <2>2, <3>1, <3>2
  <2>4. AgentForm'
    BY <1>1, <2>1, <2>3 DEF AgentForm, Prepared, Before
  <2>5. ASSUME ~lost' PROVE AgentTrue'
    <3>1. AgentTrue
      BY <2>1, <2>5 DEF AgentOk
    <3>2. Ready'
      BY <2>1, <2>3, <2>5, <3>1 DEF Ready, AgentTrue, Prepared
    <3>3. QED BY <1>1, <2>1, <3>2 DEF AgentTrue, AgentForm, Calls, AgentOver
  <2>6. QED BY <2>4, <2>5 DEF AgentOk
<1>4. CASE BootRomOver \/ Loads
  <2>1. /\ \/ stage = "romWait" /\ stage' = "load"
           \/ stage = "load" /\ stage' = "call" /\ callee' = "setup"
        /\ UNCHANGED <<core, chip, job, pos, result, lost>>
    BY <1>4 DEF BootRomOver, Loads, To, jobVars, targetVars
  <2>2. AgentForm'
    BY <1>1, <2>1 DEF AgentForm, CoreForm, Prepared, Before
  <2>3. ASSUME ~lost' PROVE AgentTrue'
    <3>1. AgentTrue
      BY <2>1, <2>3 DEF AgentOk
    <3>2. Ready'
      BY <2>1, <3>1 DEF Ready, AgentTrue, Prepared
    <3>3. QED BY <1>1, <2>1, <3>2 DEF AgentTrue, AgentForm, Calls, AgentOver
  <2>4. QED BY <2>2, <2>3 DEF AgentOk
<1>5. QED BY <1>2, <1>3, <1>4

(* invoke: a core that takes its registers is at the function the host wants. *)
LEMMA CalledDoes ==
  ASSUME path \in Agents, AgentForm, AgentTrue, stage = "call", core' = Called,
         UNCHANGED <<path, job, jobs, pos, flash, chip, buffer, callee>>
  PROVE  core'.at = "enter" /\ Does'
<1>1. callee \in {"setup", "erase", "write"} /\ job \in [op : Ops, addr : Nat, size : Nat]
  BY DEF AgentForm
<1>2. /\ core'.at = "enter" /\ core'.fn = callee /\ core'.off = 0 /\ core'.lr /\ core'.args
      /\ core'.addr = FirstArg
      /\ core'.len = CASE callee = "setup" -> 0 [] callee = "erase" -> job.size [] callee = "write" -> Xfer
  BY DEF Called
<1>3. Covering(job)' = Covering(job) /\ Xfer' = Xfer /\ Part' = Part /\ \A i : Image(i)' = Image(i)
  BY SameCommand DEF Image
<1>4. Fits' = Fits /\ (Unlocked => Unlocked')
  BY DEF Fits, Unlocked
<1>5. CASE callee = "setup"
  BY <1>2, <1>5 DEF Does
<1>6. CASE callee = "erase"
  <2>1. Fits /\ Unlocked /\ pos = 0
    BY <1>6 DEF AgentTrue, Calls
  <2>2. core'.addr = job.addr /\ core'.len = job.size
    BY <1>2, <1>6 DEF FirstArg
  <2>3. Erasing'
    BY <1>1, <1>2, <1>4, <2>1, <2>2 DEF Erasing
  <2>4. QED BY <1>2, <1>6, <2>1, <2>3 DEF Does
<1>7. CASE callee = "write"
  <2>1. Fits /\ Unlocked /\ job.op # "erase" /\ pos \in Nat /\ pos < job.size /\ Filled(pos) /\ Loaded
    BY <1>7 DEF AgentTrue, Calls, Filling
  <2>2. core'.addr = job.addr + pos /\ core'.len = Xfer /\ Xfer \in Nat \ {0}
    BY <1>1, <1>2, <1>7, <2>1, XferIs DEF FirstArg
  <2>3. Filled(pos + core.off)' /\ Loaded'
    <3>1. job'.addr + (pos' + core'.off) = job.addr + pos
      BY <1>1, <1>2, <2>1
    <3>2. QED BY <1>3, <2>1, <3>1 DEF Filled, Loaded, Erased
  <2>4. Writing'
    BY <1>1, <1>2, <1>3, <1>4, <2>1, <2>2, <2>3 DEF Writing
  <2>5. QED BY <1>2, <1>7, <2>4 DEF Does
<1>8. QED BY <1>1, <1>5, <1>6, <1>7

LEMMA InvokeStep ==
  ASSUME path \in Agents, AgentOk, invoke
  PROVE  AgentOk'
<1>1. AgentForm /\ CoreForm
  BY DEF AgentOk, AgentForm
<1>2. /\ stage = "call" /\ stage' = "wait"
      /\ UNCHANGED <<path, job, jobs, pos, result, flash, chip, buffer, callee>>
  BY DEF invoke, To
<1>3. \/ core' = (IF Halted THEN Called ELSE core) /\ lost' = lost
      \/ core' \in Missed /\ lost'
      \/ Halted /\ core' = [Called EXCEPT !.at = "entry"] /\ lost' = lost
  BY DEF invoke
<1> DEFINE Shape(c) == c = [at |-> c.at, fn |-> c.fn, addr |-> c.addr, len |-> c.len, off |-> c.off,
                            r0 |-> c.r0, args |-> c.args, lr |-> c.lr]
<1>4. ASSUME NEW c, c = Called PROVE Shape(c) /\ c.at = "enter"
  BY <1>4 DEF Called
<1>5. ASSUME NEW w \in Places, NEW c, c = [Called EXCEPT !.at = w] PROVE Shape(c) /\ c.at = w
  BY <1>5 DEF Called
<1>6. ASSUME NEW c \in Missed PROVE Shape(c) /\ c.at \in {"enter", "back", "wild"}
  <2>1. CASE c = [Called EXCEPT !.addr = core.r0, !.r0 = core.r0]
    BY <2>1 DEF Called
  <2>2. CASE c = [Called EXCEPT !.args = FALSE] \/ c = [Called EXCEPT !.lr = FALSE]
    BY <2>2 DEF Called
  <2>3. CASE \E n \in 0 .. Words : c = [Called EXCEPT !.len = n]
    BY <2>3 DEF Called
  <2>4. CASE c = [Called EXCEPT !.at = "back"] \/ c = [Called EXCEPT !.at = "wild"]
    BY <2>4, <1>5 DEF Places, HaltedAt
  <2>5. QED BY <2>1, <2>2, <2>3, <2>4 DEF Missed
<1>7. CoreForm'
  <2>1. Shape(core')
    BY <1>1, <1>3, <1>4, <1>5, <1>6 DEF CoreForm, Places, HaltedAt
  <2>2. core'.at \in Places
    BY <1>1, <1>3, <1>4, <1>5, <1>6 DEF CoreForm, Places, HaltedAt
  <2>3. QED BY <2>1, <2>2 DEF CoreForm
<1>8. AgentForm'
  BY <1>1, <1>2, <1>7 DEF AgentForm, Prepared, Before
<1>9. ASSUME ~lost' PROVE AgentTrue'
  <2>1. CASE ~Halted /\ core' = core /\ lost' = lost
    <3>1. AgentTrue
      BY <1>9, <2>1 DEF AgentOk
    <3>2. Ready'
      BY <1>2, <2>1, <3>1 DEF AgentTrue, Ready, Prepared
    <3>3. core.at \notin {"enter", "running", "back"}
      BY <1>1, <1>2, <2>1 DEF AgentForm, Prepared, Halted, HaltedAt
    <3>4. QED BY <1>1, <1>2, <2>1, <3>2, <3>3 DEF AgentTrue, AgentForm, Calls, InCall, AgentOver
  <2>2. CASE Halted /\ core' = Called /\ lost' = lost
    <3>1. AgentTrue
      BY <1>9, <2>2 DEF AgentOk
    <3>2. core'.at = "enter" /\ Does'
      BY <1>1, <1>2, <2>2, <3>1, CalledDoes
    <3>3. Ready'
      BY <1>2, <2>2, <3>1 DEF AgentTrue, Ready, Prepared, Halted, HaltedAt
    <3>4. QED BY <1>1, <1>2, <3>2, <3>3 DEF AgentTrue, AgentForm, Calls, InCall, AgentOver
  <2>3. CASE Halted /\ core' = [Called EXCEPT !.at = "entry"] /\ lost' = lost
    <3>1. AgentTrue
      BY <1>9, <2>3 DEF AgentOk
    <3>2. core'.at = "entry"
      BY <1>5, <2>3 DEF Places, HaltedAt
    <3>3. Ready'
      BY <1>2, <2>3, <3>1 DEF AgentTrue, Ready, Prepared, Halted, HaltedAt
    <3>4. QED BY <1>1, <1>2, <3>2, <3>3 DEF AgentTrue, AgentForm, Calls, InCall, AgentOver
  <2>4. QED BY <1>3, <1>9, <2>1, <2>2, <2>3
<1>10. QED BY <1>8, <1>9 DEF AgentOk

(* The function came back with 0: what it was called for is done. *)
LEMMA CallsNextStep ==
  ASSUME path \in Agents, AgentOk, CallsNext
  PROVE  AgentOk'
<1>1. AgentForm /\ CoreForm
  BY DEF AgentOk, AgentForm
<1>2. /\ stage = "wait" /\ core.at = "back" /\ core.r0 = 0
      /\ UNCHANGED <<path, jobs, lost, flash, chip, core, buffer>>
  BY DEF CallsNext, AfterSetup, AfterErase, AfterWrite, Invoked, targetVars
<1>3. path \in Paths /\ Words \in Nat
  BY AgentIsPath, Geometry
<1>4. ASSUME ~lost PROVE chip.ready /\ Did
  BY <1>2, <1>4 DEF AgentOk, AgentTrue, Ready, InCall
<1>5. CoreForm' /\ chip' \in [unlocked : BOOLEAN, ready : BOOLEAN] /\ core'.at = "back"
      /\ (chip.ready => Ready') /\ (Unlocked => Unlocked')
  BY <1>1, <1>2 DEF AgentForm, CoreForm, Ready, Unlocked
<1>6. CASE AfterSetup
  <2>1. callee = "setup" /\ job' = Whole(job) /\ pos' = pos /\ pos = 0
    BY <1>1, <1>2, <1>6 DEF AfterSetup, Ends, To, AgentForm
  <2>2. job' \in [op : Ops, addr : Nat, size : Nat]
    BY <1>1, <1>3, <2>1 DEF Whole, AgentForm
  <2>3. CASE stage' = "idle" /\ result' = "fail"
    <3>1. AgentForm'
      BY <1>5, <2>2, <2>3 DEF AgentForm, Prepared, Before
    <3>2. QED BY <2>3, <3>1, NothingAsked DEF AgentOk, Prepared
  <2>4. CASE stage' = "call" /\ callee' = "erase" /\ result' = result /\ Fits'
    <3>1. AgentForm'
      BY <1>1, <1>2, <1>5, <2>1, <2>2, <2>4 DEF AgentForm, Prepared, Before
    <3>2. ASSUME ~lost' PROVE AgentTrue'
      BY <1>1, <1>2, <1>4, <1>5, <2>1, <2>4, <3>2 DEF AgentTrue, AgentForm, Calls, AgentOver, Did
    <3>3. QED BY <3>1, <3>2 DEF AgentOk
  <2>5. Fits' \/ job'.addr + job'.size > Words
    BY <1>3, <2>2 DEF Fits
  <2>6. QED BY <1>6, <2>3, <2>4, <2>5 DEF AfterSetup, Ends, To, Fits
<1>7. CASE AfterErase \/ AfterWrite
  <2>1. job' = job /\ callee' = callee /\ callee \in {"erase", "write"}
    BY <1>7 DEF AfterErase, AfterWrite
  <2>2. stage' = "idle" \/ (stage' = "fill" /\ result' = result)
    BY <1>7 DEF AfterErase, AfterWrite, Ends
  <2>3. AgentForm'
    BY <1>1, <1>2, <1>5, <2>1, <2>2 DEF AgentForm, Prepared, Before
  <2>4. Covering(job)' = Covering(job) /\ Fits' = Fits /\ (Finished => Finished')
    BY <1>2, <2>1, SameCommand, CommandStays
  <2>5. job \in [op : Ops, addr : Nat, size : Nat] /\ job.addr \in Nat /\ job.size \in Nat
    BY <1>1 DEF AgentForm
  <2>6. ASSUME ~lost, AfterErase PROVE AgentTrue'
    <3>1. Fits /\ Unlocked /\ pos = 0 /\ Filled(0) /\ chip.ready /\ pos' = 0
      BY <1>4, <2>6 DEF AfterErase, Did
    <3>2. ASSUME job.op = "erase" \/ job.size = 0 PROVE Finished
      <4>1. ASSUME NEW c \in Covering(job)
            PROVE  flash[c] = Erased /\ (job.op = "erase" \/ ~(job.addr <= c /\ c < job.addr + job.size))
        <5>1. c \in Nat
          BY <1>3, <2>5, CoveredBy, Geometry
        <5>2. flash[c] = Erased
          BY <2>5, <3>1, <5>1 DEF Filled
        <5>3. QED BY <2>5, <3>2, <5>1, <5>2
      <4>2. QED BY <4>1 DEF Finished
    <3>3. CASE job.op = "erase" \/ job.size = 0
      <4>1. stage' = "idle"
        BY <2>6, <3>3 DEF AfterErase, Ends
      <4>2. QED BY <1>5, <2>4, <3>1, <3>2, <3>3, <4>1 DEF AgentTrue, AgentOver, Calls, Prepared
    <3>4. CASE ~(job.op = "erase" \/ job.size = 0)
      <4>1. stage' = "fill" /\ result' = result
        BY <2>6, <3>4 DEF AfterErase
      <4>2. Filled(pos)'
        BY <1>2, <2>1, <3>1, CommandStays
      <4>3. pos' < job'.size /\ job'.op # "erase" /\ pos' \in Nat
        BY <2>1, <2>5, <3>1, <3>4
      <4>4. QED BY <1>1, <1>2, <1>5, <2>4, <3>1, <4>1, <4>2, <4>3
            DEF AgentTrue, AgentForm, AgentOver, Calls, Filling
    <3>5. QED BY <3>3, <3>4
  <2>7. ASSUME ~lost, AfterWrite PROVE AgentTrue'
    <3>1. /\ Fits /\ Unlocked /\ job.op # "erase" /\ pos \in Nat /\ pos < job.size /\ Wrote /\ chip.ready
          /\ pos' = pos + Xfer
      BY <1>4, <2>7 DEF AfterWrite, Did
    <3>2. Xfer \in Nat \ {0} /\ pos + Xfer <= job.size
      BY <2>5, <3>1, XferIs
    <3>3. CASE pos + Xfer = job.size
      <4>1. stage' = "idle" /\ Finished
        BY <2>1, <2>7, <3>1, <3>3 DEF AfterWrite, Ends, Wrote
      <4>2. QED BY <1>5, <2>4, <3>1, <4>1 DEF AgentTrue, AgentOver, Calls, Prepared
    <3>4. CASE pos + Xfer # job.size
      <4>1. stage' = "fill" /\ result' = result /\ Filled(pos + Xfer)
        BY <2>1, <2>7, <3>1, <3>4 DEF AfterWrite, Wrote
      <4>2. Filled(pos)'
        BY <1>2, <2>1, <2>4, <3>1, <4>1 DEF Filled, Image, Erased
      <4>3. pos' < job'.size /\ job'.op # "erase" /\ pos' \in Nat
        BY <2>1, <2>5, <3>1, <3>2, <3>4
      <4>4. QED BY <1>1, <1>2, <1>5, <2>4, <3>1, <4>1, <4>2, <4>3
            DEF AgentTrue, AgentForm, AgentOver, Calls, Filling
    <3>5. QED BY <3>3, <3>4
  <2>8. QED BY <1>2, <1>7, <2>3, <2>6, <2>7 DEF AgentOk
<1>8. QED BY <1>6, <1>7 DEF CallsNext

LEMMA FillsStep ==
  ASSUME path \in Agents, AgentOk, Fills
  PROVE  AgentOk'
<1>1. AgentForm /\ CoreForm
  BY DEF AgentOk, AgentForm
<1>2. /\ stage = "fill" /\ stage' = "call" /\ callee' = "write"
      /\ UNCHANGED <<path, job, jobs, lost, pos, result, flash, chip, core>>
      /\ buffer' = [i \in 1 .. Part.buffer |-> IF i <= Xfer THEN Image(pos + i) ELSE buffer[i]]
  BY DEF Fills, To, jobVars
<1>3. AgentForm'
  BY <1>1, <1>2 DEF AgentForm, CoreForm, Prepared, Before
<1>4. ASSUME ~lost PROVE AgentTrue'
  <2>1. Ready /\ Filling
    BY <1>2, <1>4 DEF AgentOk, AgentTrue, Calls, Prepared
  <2>2. Ready'
    BY <1>2, <2>1 DEF Ready
  <2>3. Filling'
    <3>1. Fits' = Fits /\ (Unlocked => Unlocked') /\ (Filled(pos) => Filled(pos)')
      BY <1>2, CommandStays
    <3>2. QED BY <1>2, <2>1, <3>1 DEF Filling
  <2>4. Loaded'
    <3>1. Xfer' = Xfer /\ \A i : Image(i)' = Image(i)
      BY <1>2, SameCommand DEF Image
    <3>2. Xfer \in Nat /\ Part.buffer \in Nat /\ Xfer <= Part.buffer
      BY <1>1, <2>1, XferIs DEF Filling, AgentForm
    <3>3. ASSUME NEW i \in 1 .. Xfer PROVE buffer'[i] = Image(pos + i)
      <4>1. i \in 1 .. Part.buffer /\ i <= Xfer
        BY <3>2
      <4>2. QED BY <1>2, <4>1
    <3>4. QED BY <1>2, <3>1, <3>3 DEF Loaded, Image
  <2>5. QED BY <1>1, <1>2, <2>2, <2>3, <2>4 DEF AgentTrue, AgentForm, Calls, AgentOver
<1>5. QED BY <1>2, <1>3, <1>4 DEF AgentOk

LEMMA AgentStep ==
  ASSUME path \in Agents, AgentOk, AgentSteps
  PROVE  AgentOk'
BY TargetOk, QuietSteps, ResetSteps, InvokeStep, CallsNextStep, FillsStep DEF AgentSteps, HostSteps

-----------------------------------------------------------------------------
(* The serial tool.  An ACK it reads is the answer to the frame it sent last: whatever
   the ROM still had to say when it sent that were NAKs.                              *)

Answers == Seq({"ack", "nak"})
NoAck(s) == \A i \in 1 .. Len(s) : s[i] # "ack"
AckLast(s) == \A i \in 1 .. Len(s) : i < Len(s) => s[i] # "ack"
AckFirst(s) == \A i \in 1 .. Len(s) : 1 < i => s[i] # "ack"

LEMMA AckAdded ==
  ASSUME NEW s \in Answers
  PROVE  /\ \A a \in {"ack", "nak"} : Append(s, a) \in Answers
         /\ NoAck(s) => NoAck(Append(s, "nak")) /\ AckLast(s) /\ AckLast(Append(s, "ack"))
         /\ AckFirst(s) => AckFirst(Append(s, "nak"))
         /\ s = <<>> => AckFirst(Append(s, "ack")) /\ AckFirst(s) /\ NoAck(s)
<1>1. ASSUME NEW a \in {"ack", "nak"}
      PROVE  /\ Append(s, a) \in Answers /\ Len(Append(s, a)) = Len(s) + 1 /\ Len(s) \in Nat
             /\ \A i \in 1 .. Len(s) : Append(s, a)[i] = s[i]
             /\ Append(s, a)[Len(s) + 1] = a
  BY DEF Answers
<1>2. QED BY <1>1 DEF NoAck, AckLast, AckFirst

LEMMA NoneLeft ==
  ASSUME NEW s \in Answers, Len(s) = 0
  PROVE  s = <<>>
BY DEF Answers

LEMMA AckRead ==
  ASSUME NEW s \in Answers, s # <<>>
  PROVE  /\ Tail(s) \in Answers
         /\ NoAck(s) => NoAck(Tail(s)) /\ Head(s) # "ack"
         /\ AckFirst(s) => AckFirst(Tail(s)) /\ NoAck(Tail(s))
         /\ AckLast(s) => AckLast(Tail(s))
         /\ AckLast(s) /\ Head(s) = "ack" => Tail(s) = <<>>
<1>1. /\ Tail(s) \in Answers /\ Len(s) \in Nat \ {0} /\ Len(Tail(s)) = Len(s) - 1
      /\ \A i \in 1 .. Len(s) - 1 : Tail(s)[i] = s[i + 1]
      /\ Head(s) = s[1]
  BY DEF Answers
<1>2. NoAck(s) => NoAck(Tail(s)) /\ Head(s) # "ack"
  BY <1>1 DEF NoAck
<1>3. AckFirst(s) => AckFirst(Tail(s)) /\ NoAck(Tail(s))
  BY <1>1 DEF NoAck, AckFirst
<1>4. AckLast(s) => AckLast(Tail(s))
  BY <1>1 DEF AckLast
<1>5. ASSUME AckLast(s), Head(s) = "ack" PROVE Tail(s) = <<>>
  <2>1. Len(s) = 1
    BY <1>1, <1>5 DEF AckLast
  <2>2. Len(Tail(s)) = 0
    BY <1>1, <2>1
  <2>3. QED BY <1>1, <2>2, NoneLeft
<1>6. QED BY <1>1, <1>2, <1>3, <1>4, <1>5

(* The flash holds the first n words of the file, and is erased from there on. *)
FilledTo(n) == \A c \in Cells : flash[c] = IF c < n THEN Image(c + 1) ELSE Erased

SerialForm ==
  /\ line = [rom |-> line.rom, frame |-> line.frame, addr |-> line.addr, data |-> line.data,
             answers |-> line.answers, syncs |-> line.syncs]
  /\ line.answers \in Answers
  /\ line.rom = "baud" =>
       stage \in {"sync", "idle"} /\ line.frame \in {"none", "sync"} /\ line.answers = <<>>

ToolFrames == {"pages", "write", "address", "data"}
InData == job.op = "flash" /\ pos < job.size
(* What the ROM waits for when a frame comes, and then, when it has taken it *)
Due(f) == CASE f = "pages" -> "pages" [] f = "address" -> "addr" [] f = "data" -> "data" [] OTHER -> "cmd"
Then(f) == CASE f = "erase" -> "pages" [] f = "write" -> "addr" [] f = "address" -> "data" [] OTHER -> "cmd"
InStep(f) ==
  /\ line.rom = Due(f)
  /\ f \in {"write", "address", "data"} => InData /\ FilledTo(pos)
  /\ f = "data" => line.addr = pos
Effect(f) ==
  /\ line.rom = Then(f)
  /\ f = "pages" => FilledTo(0)
  /\ f \in {"write", "address"} => FilledTo(pos)
  /\ f = "address" => line.addr = pos
  /\ f = "data" => FilledTo(pos + Serial!Chunk)

SerialJob ==
  /\ stage \in {"idle", "sync", "erase", "ack"} \cup ToolFrames
  /\ job.addr = 0 /\ job.size \in Nat \ {0} /\ pos \in Nat
  /\ job.op = "flash" => job.size <= Words
  /\ result = "ok" => stage = "idle"
  /\ stage \in {"sync", "erase", "pages"} \/ (stage = "ack" /\ callee \in {"erase", "pages"}) => pos = 0
Syncing == AckFirst(line.answers) /\ (line.answers # <<>> => line.frame \in {"none", "sync"})
Sending ==
  /\ stage = "erase" => line.frame \in {"none", "sync"} /\ NoAck(line.answers)
  /\ stage \in ToolFrames => line.frame = "none" /\ NoAck(line.answers) /\ InStep(stage)
Waiting ==
  /\ line.frame = callee /\ NoAck(line.answers)
  /\ callee # "erase" => InStep(callee)
  /\ callee = "address" => line.addr = pos
  /\ callee = "data" => line.data = [i \in 1 .. Serial!Chunk |-> Image(pos + i)]
Answered == line.frame = "none" /\ AckLast(line.answers) /\ (NoAck(line.answers) \/ Effect(callee))
Acking ==
  /\ callee \in ToolFrames \cup {"erase"} /\ (callee \in {"write", "address", "data"} => InData)
  /\ Waiting \/ Answered
SerialOver == line.frame = "none" /\ FilledTo(IF job.op = "erase" THEN 0 ELSE job.size)
SerialTrue ==
  /\ SerialJob /\ Sending
  /\ stage = "sync" => Syncing
  /\ stage = "ack" => Acking
  /\ result = "ok" => SerialOver
SerialOk == SerialForm /\ (job.op \in {"flash", "erase"} => SerialTrue)

(* What the ROM does with a frame: nothing, a NAK, or what it is for and an ACK *)
Takes(f) ==
  \/ f = "sync" /\ line.rom = "baud" /\ flash' = flash
  \/ f \in {"erase", "write", "go"} /\ line.rom = "cmd" /\ line'.rom = Serial!Frames[f] /\ flash' = flash
  \/ f = "address" /\ line.rom \in {"addr", "start"} /\ (line.rom = "addr" => line'.rom = "data") /\ flash' = flash
  \/ f = "pages" /\ line.rom = "pages" /\ line'.rom = "cmd" /\ flash' = [c \in Cells |-> Erased]
  \/ f = "data" /\ line.rom = "data" /\ line'.rom = "cmd" /\ flash' = [c \in Cells |-> Serial!Programmed(c)]
RomTakes ==
  /\ line.frame # "none" /\ line'.frame = "none" /\ line'.addr = line.addr /\ line'.data = line.data
  /\ \/ line'.answers \in {line.answers, Append(line.answers, "nak")} /\ flash' = flash
     \/ line'.answers = Append(line.answers, "ack") /\ Takes(line.frame)
Lost ==
  /\ line.answers # <<>> /\ line'.answers = Tail(line.answers) /\ flash' = flash
  /\ line'.frame = line.frame /\ line'.addr = line.addr /\ line'.data = line.data /\ line'.rom = line.rom

LEMMA RomForm ==
  ASSUME SerialForm, Serial!RomSteps
  PROVE  /\ UNCHANGED <<path, job, jobs, lost, stage, callee, pos, result>>
         /\ SerialForm' /\ (RomTakes \/ Lost)
<1>1. UNCHANGED <<path, job, jobs, lost, stage, callee, pos, result>>
  BY DEF Serial!RomSteps, Serial!jobVars
<1>2. /\ line = [rom |-> line.rom, frame |-> line.frame, addr |-> line.addr, data |-> line.data,
                 answers |-> line.answers, syncs |-> line.syncs]
      /\ line.answers \in Answers
  BY DEF SerialForm
<1>3. ASSUME NEW a \in {"ack", "nak"}, NEW r, Serial!Answer(a, r)
      PROVE  /\ line' = [rom |-> r, frame |-> "none", addr |-> line.addr, data |-> line.data,
                         answers |-> Append(line.answers, a), syncs |-> line.syncs]
             /\ r # "baud" => SerialForm'
  <2>1. line' = [rom |-> r, frame |-> "none", addr |-> line.addr, data |-> line.data,
                 answers |-> Append(line.answers, a), syncs |-> line.syncs]
    BY <1>2, <1>3 DEF Serial!Answer
  <2>2. Append(line.answers, a) \in Answers
    BY <1>2, <1>3, AckAdded
  <2>3. QED BY <1>1, <2>1, <2>2 DEF SerialForm
<1>4. ASSUME NEW r, Serial!Swallows(r)
      PROVE  /\ line' = [rom |-> r, frame |-> "none", addr |-> line.addr, data |-> line.data,
                         answers |-> line.answers, syncs |-> line.syncs]
             /\ r # "baud" \/ r = line.rom => SerialForm'
  <2>1. line' = [rom |-> r, frame |-> "none", addr |-> line.addr, data |-> line.data,
                 answers |-> line.answers, syncs |-> line.syncs]
    BY <1>2, <1>4 DEF Serial!Swallows
  <2>2. QED BY <1>1, <2>1 DEF SerialForm
<1>5. ASSUME line.frame # "none", flash' = flash,
             \/ \E r : r # "baud" /\ Serial!Answer("nak", r)
             \/ \E r : (r # "baud" \/ r = line.rom) /\ Serial!Swallows(r)
      PROVE  SerialForm' /\ RomTakes
  BY <1>3, <1>4, <1>5 DEF RomTakes
<1>6. ASSUME line.frame # "none", flash' = flash, Serial!Unexpected
      PROVE  SerialForm' /\ RomTakes
  BY <1>5, <1>6 DEF Serial!Unexpected
<1>7. CASE Serial!RomSyncs
  <2>1. line.frame = "sync" /\ flash' = flash
    BY <1>7 DEF Serial!RomSyncs
  <2>2. CASE line.rom = "baud"
    <3>1. Serial!Answer("ack", "cmd")
      BY <1>7, <2>2 DEF Serial!RomSyncs
    <3>2. QED BY <1>1, <1>3, <2>1, <2>2, <3>1 DEF RomTakes, Takes
  <2>3. CASE line.rom = "cmd"
    <3>1. Serial!Swallows("half")
      BY <1>7, <2>3 DEF Serial!RomSyncs
    <3>2. QED BY <1>1, <1>5, <2>1, <3>1
  <2>4. CASE line.rom \notin {"baud", "cmd"}
    <3>1. Serial!Unexpected
      BY <1>7, <2>4 DEF Serial!RomSyncs
    <3>2. QED BY <1>1, <1>6, <2>1, <3>1
  <2>5. QED BY <1>1, <2>2, <2>3, <2>4
<1>8. CASE Serial!RomCommands
  <2>1. line.frame \in {"erase", "write", "go"} /\ flash' = flash
    BY <1>8 DEF Serial!RomCommands, Serial!Commands, Serial!Frames
  <2>2. CASE line.rom = "cmd"
    <3>1. Serial!Answer("ack", Serial!Frames[line.frame])
      BY <1>8, <2>2 DEF Serial!RomCommands
    <3>2. Serial!Frames[line.frame] # "baud"
      BY <2>1 DEF Serial!Frames
    <3>3. QED BY <1>1, <1>3, <2>1, <2>2, <3>1, <3>2 DEF RomTakes, Takes
  <2>3. CASE line.rom = "half"
    <3>1. Serial!Answer("nak", "half")
      BY <1>8, <2>3 DEF Serial!RomCommands
    <3>2. QED BY <1>1, <1>5, <2>1, <3>1
  <2>4. CASE line.rom \notin {"half", "cmd"}
    <3>1. Serial!Unexpected
      BY <1>8, <2>4 DEF Serial!RomCommands
    <3>2. QED BY <1>1, <1>6, <2>1, <3>1
  <2>5. QED BY <2>2, <2>3, <2>4
<1>9. CASE Serial!RomAddress
  <2>1. /\ line.frame = "address" /\ line.rom \in {"addr", "start"} /\ flash' = flash
        /\ Serial!Answer("ack", IF line.rom = "addr" THEN "data" ELSE "gone")
    BY <1>9 DEF Serial!RomAddress
  <2>2. QED BY <1>1, <1>3, <2>1 DEF RomTakes, Takes
<1>10. CASE Serial!RomErases
  <2>1. /\ line.frame = "pages" /\ line.rom = "pages" /\ flash' = [c \in Cells |-> Erased]
        /\ Serial!Answer("ack", "cmd")
    BY <1>10, SerialSame DEF Serial!RomErases, Serial!Erased, Erased
  <2>2. QED BY <1>1, <1>3, <2>1 DEF RomTakes, Takes
<1>11. CASE Serial!RomWrites
  <2>1. /\ line.frame = "data" /\ line.rom = "data" /\ flash' = [c \in Cells |-> Serial!Programmed(c)]
        /\ Serial!Answer("ack", "cmd")
    BY <1>11, SerialSame DEF Serial!RomWrites
  <2>2. QED BY <1>1, <1>3, <2>1 DEF RomTakes, Takes
<1>12. CASE Serial!RomMisses
  <2>1. line.frame # "none" /\ flash' = flash /\ (Serial!Answer("nak", "cmd") \/ Serial!Swallows(line.rom))
    BY <1>12 DEF Serial!RomMisses
  <2>2. QED BY <1>1, <1>5, <2>1
<1>13. CASE Serial!AnswerLost
  <2>1. line.answers # <<>> /\ flash' = flash
        /\ line' = [rom |-> line.rom, frame |-> line.frame, addr |-> line.addr, data |-> line.data,
                    answers |-> Tail(line.answers), syncs |-> line.syncs]
    BY <1>2, <1>13 DEF Serial!AnswerLost
  <2>2. Tail(line.answers) \in Answers
    BY <1>2, <2>1, AckRead
  <2>3. SerialForm'
    BY <1>1, <2>1, <2>2 DEF SerialForm
  <2>4. QED BY <1>1, <2>1, <2>3 DEF Lost
<1>14. QED BY <1>1, <1>7, <1>8, <1>9, <1>10, <1>11, <1>12, <1>13 DEF Serial!RomSteps

LEMMA SerialStays ==
  ASSUME UNCHANGED <<path, job, jobs, pos, flash>>
  PROVE  /\ Part' = Part /\ Serial!Chunk' = Serial!Chunk /\ (\A i : Image(i)' = Image(i))
         /\ \A n : FilledTo(n) => FilledTo(n)'
         /\ (FilledTo(pos) => FilledTo(pos)')
         /\ (FilledTo(pos + Serial!Chunk) => FilledTo(pos + Serial!Chunk)')
<1>1. Part' = Part /\ \A i : Image(i)' = Image(i)
  BY DEF Part, Image
<1>2. Serial!Chunk' = Serial!Chunk
  BY DEF Serial!Chunk, Serial!Part
<1>3. QED BY <1>1, <1>2 DEF FilledTo, Cells, Erased

LEMMA StepStays ==
  ASSUME UNCHANGED <<path, job, jobs, pos, flash>>, line'.rom = line.rom, line'.addr = line.addr, NEW f
  PROVE  (InStep(f) => InStep(f)') /\ (Effect(f) => Effect(f)')
<1>1. Due(f)' = Due(f) /\ Then(f)' = Then(f) /\ (InData => InData')
  BY DEF Due, Then, InData
<1>2. FilledTo(0) => FilledTo(0)'
  BY SerialStays
<1>3. InStep(f) => InStep(f)'
  BY <1>1, SerialStays DEF InStep
<1>4. Effect(f) => Effect(f)'
  BY <1>1, <1>2, SerialStays DEF Effect
<1>5. QED BY <1>3, <1>4

(* A chunk is some of the words that are left. *)
LEMMA ChunkIs ==
  ASSUME path = "serial", job.size \in Nat, pos \in Nat, pos < job.size
  PROVE  Serial!Chunk \in Nat \ {0} /\ pos + Serial!Chunk \in Nat /\ pos + Serial!Chunk <= job.size
<1>1. path \in Paths /\ path # "dfu"
  BY DEF Paths
<1>2. Part.page \in Nat \ {0} /\ Serial!Part = Part
  BY <1>1, Geometry, SerialSame
<1>3. QED BY <1>2 DEF Serial!Chunk

(* What a frame is for has been done when the ROM takes it. *)
LEMMA FrameDone ==
  ASSUME path = "serial", SerialJob, Waiting, callee \in ToolFrames \cup {"erase"}, Takes(callee),
         callee \in {"write", "address", "data"} => InData,
         UNCHANGED <<path, job, jobs, pos, callee>>, line'.addr = line.addr
  PROVE  Effect(callee)'
<1>1. (\A n : flash' = flash /\ FilledTo(n) => FilledTo(n)') /\ Cells \subseteq Nat /\ pos \in Nat
  BY Geometry DEF SerialJob, FilledTo, Cells, Erased, Image
<1>2. flash' = flash /\ FilledTo(pos) => FilledTo(pos)'
  BY DEF FilledTo, Cells, Erased, Image
<1>3. CASE callee = "erase"
  <2>1. line'.rom = "pages"
    BY <1>3 DEF Takes, Serial!Frames
  <2>2. QED BY <1>3, <2>1 DEF Effect, Then
<1>4. CASE callee = "pages"
  <2>1. line'.rom = "cmd" /\ flash' = [c \in Cells |-> Erased]
    BY <1>4 DEF Takes
  <2>2. FilledTo(0)'
    BY <1>1, <2>1 DEF FilledTo, Cells, Erased
  <2>3. QED BY <1>4, <2>1, <2>2 DEF Effect, Then
<1>5. CASE callee = "write"
  <2>1. line'.rom = "addr" /\ flash' = flash
    BY <1>5 DEF Takes, Serial!Frames
  <2>2. FilledTo(pos)'
    BY <1>2, <1>5, <2>1 DEF Waiting, InStep
  <2>3. QED BY <1>5, <2>1, <2>2 DEF Effect, Then
<1>6. CASE callee = "address"
  <2>1. line.rom = "addr" /\ FilledTo(pos) /\ line.addr = pos
    BY <1>6 DEF Waiting, InStep, Due
  <2>2. line'.rom = "data" /\ flash' = flash
    BY <1>6, <2>1 DEF Takes
  <2>3. FilledTo(pos)'
    BY <1>2, <2>1, <2>2
  <2>4. QED BY <1>6, <2>1, <2>2, <2>3 DEF Effect, Then
<1>7. CASE callee = "data"
  <2> DEFINE n == Serial!Chunk
  <2>1. /\ line'.rom = "cmd" /\ flash' = [c \in Cells |-> Serial!Programmed(c)]
        /\ FilledTo(pos) /\ line.addr = pos /\ line.data = [i \in 1 .. n |-> Image(pos + i)]
    BY <1>7 DEF Takes, Waiting, InStep
  <2>2. n \in Nat \ {0} /\ pos + n \in Nat
    BY <1>7, ChunkIs DEF InData, SerialJob
  <2>3. n' = n
    BY SerialStays DEF Serial!Chunk, Serial!Part
  <2> HIDE DEF n
  <2>4. ASSUME NEW c \in Cells
        PROVE  flash'[c] = IF c < pos + n THEN Image(c + 1) ELSE Erased
    <3>1. c \in Nat /\ flash[c] = IF c < pos THEN Image(c + 1) ELSE Erased
      BY <1>1, <2>1 DEF FilledTo
    <3>2. flash'[c] = Serial!Programmed(c) /\ DOMAIN line.data = 1 .. n
      BY <2>1
    <3>3. CASE c < pos \/ pos + n <= c
      <4>1. c - line.addr + 1 \notin 1 .. n
        BY <1>1, <2>1, <2>2, <3>1, <3>3
      <4>2. flash'[c] = flash[c]
        BY <3>2, <4>1 DEF Serial!Programmed
      <4>3. c < pos => c < pos + n
        BY <1>1, <2>2, <3>1
      <4>4. pos + n <= c => ~(c < pos) /\ ~(c < pos + n)
        BY <1>1, <2>2, <3>1
      <4>5. QED BY <3>1, <3>3, <4>2, <4>3, <4>4
    <3>4. CASE pos <= c /\ c < pos + n
      <4>1. c - line.addr + 1 \in 1 .. n /\ pos + (c - line.addr + 1) = c + 1 /\ ~(c < pos)
        BY <1>1, <2>1, <2>2, <3>1, <3>4
      <4>2. flash[c] = Serial!Erased
        BY <3>1, <4>1 DEF Erased, Serial!Erased
      <4>3. flash'[c] = line.data[c - line.addr + 1]
        BY <3>2, <4>1, <4>2 DEF Serial!Programmed
      <4>4. line.data[c - line.addr + 1] = Image(pos + (c - line.addr + 1))
        BY <2>1, <4>1
      <4>5. QED BY <3>4, <4>1, <4>3, <4>4
    <3>5. QED BY <1>1, <2>2, <3>1, <3>3, <3>4
  <2>5. FilledTo(pos + n)'
    BY <2>3, <2>4 DEF FilledTo, Cells, Erased, Image
  <2>6. QED BY <1>7, <2>1, <2>5 DEF Effect, Then, n
<1>8. QED BY <1>3, <1>4, <1>5, <1>6, <1>7 DEF ToolFrames

LEMMA RomOk ==
  ASSUME path = "serial", SerialOk, Serial!RomSteps
  PROVE  SerialOk'
<1>1. UNCHANGED <<path, job, jobs, lost, stage, callee, pos, result>> /\ SerialForm /\ SerialForm'
  BY RomForm DEF SerialOk
<1>2. RomTakes \/ Lost
  BY <1>1, RomForm
<1>3. ASSUME job.op \in {"flash", "erase"} PROVE SerialTrue'
  <2>1. SerialJob /\ Sending /\ (stage = "sync" => Syncing) /\ (stage = "ack" => Acking)
        /\ (result = "ok" => SerialOver)
    BY <1>3 DEF SerialOk, SerialTrue
  <2>2. SerialJob'
    BY <1>1, <2>1 DEF SerialJob
  <2>3. line.answers \in Answers
    BY <1>1 DEF SerialForm
  <2>4. line.frame = "none" => Lost
    BY <1>2 DEF RomTakes
  <2>5. CASE stage = "idle"
    <3>1. ASSUME result = "ok" PROVE SerialOver'
      <4>1. SerialOver /\ Lost
        BY <2>1, <2>4, <3>1 DEF SerialOver
      <4>2. line'.frame = "none" /\ \A n : FilledTo(n) => FilledTo(n)'
        BY <1>1, <4>1, SerialStays DEF Lost, SerialOver
      <4>3. QED BY <1>1, <4>1, <4>2 DEF SerialOver
    <3>2. QED BY <1>1, <2>2, <2>5, <3>1 DEF SerialTrue, Sending, ToolFrames
  <2>6. CASE stage = "sync"
    <3>1. Syncing /\ result # "ok"
      BY <2>1, <2>6 DEF SerialJob
    <3>2. Syncing'
      <4>1. CASE Lost
        BY <2>3, <3>1, <4>1, AckRead DEF Lost, Syncing
      <4>2. CASE RomTakes /\ line'.answers \in {line.answers, Append(line.answers, "nak")}
        BY <2>3, <3>1, <4>2, AckAdded DEF RomTakes, Syncing
      <4>3. CASE RomTakes /\ line'.answers = Append(line.answers, "ack") /\ Takes(line.frame)
        <5>1. line.answers = <<>>
          BY <1>1, <3>1, <4>3 DEF Syncing, RomTakes, Takes, SerialForm
        <5>2. QED BY <2>3, <4>3, <5>1, AckAdded DEF RomTakes, Syncing
      <4>4. QED BY <1>2, <4>1, <4>2, <4>3 DEF RomTakes
    <3>3. QED BY <1>1, <2>2, <2>6, <3>1, <3>2 DEF SerialTrue, Sending, ToolFrames
  <2>7. CASE stage = "erase"
    <3>1. line.frame \in {"none", "sync"} /\ NoAck(line.answers) /\ line.rom # "baud" /\ result # "ok"
      BY <1>1, <2>1, <2>7 DEF SerialForm, SerialJob, Sending
    <3>2. line'.frame \in {"none", "sync"} /\ NoAck(line'.answers)
      <4>1. CASE Lost
        BY <2>3, <3>1, <4>1, AckRead DEF Lost
      <4>2. CASE RomTakes
        <5>1. ~Takes(line.frame)
          BY <3>1 DEF Takes
        <5>2. QED BY <2>3, <3>1, <4>2, <5>1, AckAdded DEF RomTakes
      <4>3. QED BY <1>2, <4>1, <4>2
    <3>3. Sending'
      BY <1>1, <2>7, <3>2 DEF Sending, ToolFrames, NoAck
    <3>4. QED BY <1>1, <2>2, <2>7, <3>1, <3>3 DEF SerialTrue
  <2>8. CASE stage \in ToolFrames
    <3>1. line.frame = "none" /\ NoAck(line.answers) /\ InStep(stage) /\ result # "ok" /\ Lost
      BY <2>1, <2>4, <2>8 DEF SerialJob, Sending, ToolFrames
    <3>2. line'.frame = "none" /\ NoAck(line'.answers) /\ line'.rom = line.rom /\ line'.addr = line.addr
          /\ flash' = flash
      BY <2>3, <3>1, AckRead DEF Lost
    <3>3. InStep(stage)'
      BY <1>1, <3>1, <3>2, StepStays DEF InStep, Due, InData
    <3>4. Sending'
      BY <1>1, <2>8, <3>2, <3>3 DEF Sending, ToolFrames, NoAck
    <3>5. QED BY <1>1, <2>2, <2>8, <3>1, <3>4 DEF SerialTrue, ToolFrames
  <2>9. CASE stage = "ack"
    <3>1. /\ callee \in ToolFrames \cup {"erase"} /\ (callee \in {"write", "address", "data"} => InData)
          /\ Waiting \/ Answered
      BY <2>1, <2>9 DEF Acking
    <3>2. Waiting' \/ Answered'
      <4>1. CASE Lost
        <5>1. UNCHANGED <<path, job, jobs, pos, flash>> /\ line'.frame = line.frame /\ line'.rom = line.rom
              /\ line'.addr = line.addr /\ line'.data = line.data /\ line'.answers = Tail(line.answers)
              /\ line.answers # <<>>
          BY <1>1, <4>1 DEF Lost
        <5>2. (InStep(callee) => InStep(callee)') /\ (Effect(callee) => Effect(callee)')
          <6>1. callee' = callee
            BY <1>1
          <6>2. QED BY <5>1, <6>1, StepStays DEF InStep, Effect, Due, Then, InData
        <5>3. Serial!Chunk' = Serial!Chunk /\ \A i : Image(i)' = Image(i)
          BY <5>1, SerialStays
        <5>4. CASE Waiting
          <6>1. NoAck(line'.answers)
            BY <2>3, <5>1, <5>4, AckRead DEF Waiting
          <6>2. QED BY <1>1, <5>1, <5>2, <5>3, <5>4, <6>1 DEF Waiting, NoAck
        <5>5. CASE Answered
          <6>1. AckLast(line'.answers) /\ (NoAck(line.answers) => NoAck(line'.answers))
            BY <2>3, <5>1, <5>5, AckRead DEF Answered
          <6>2. QED BY <1>1, <5>1, <5>2, <5>5, <6>1 DEF Answered, NoAck, AckLast
        <5>6. QED BY <3>1, <5>4, <5>5
      <4>2. CASE RomTakes
        <5>1. Waiting /\ NoAck(line.answers) /\ line'.frame = "none" /\ line.frame = callee
          BY <3>1, <4>2 DEF RomTakes, Answered, Waiting
        <5>2. CASE line'.answers \in {line.answers, Append(line.answers, "nak")}
          <6>1. NoAck(line'.answers)
            BY <2>3, <5>1, <5>2, AckAdded
          <6>2. AckLast(line'.answers)
            BY <6>1 DEF NoAck, AckLast
          <6>3. QED BY <5>1, <6>1, <6>2 DEF Answered, NoAck, AckLast
        <5>3. CASE line'.answers = Append(line.answers, "ack") /\ Takes(line.frame)
          <6>1. AckLast(line'.answers)
            BY <2>3, <5>1, <5>3, AckAdded
          <6>2. Effect(callee)'
            BY <1>1, <2>1, <3>1, <4>2, <5>1, <5>3, FrameDone DEF RomTakes
          <6>3. QED BY <5>1, <6>1, <6>2 DEF Answered, AckLast
        <5>4. QED BY <4>2, <5>2, <5>3 DEF RomTakes
      <4>3. QED BY <1>2, <4>1, <4>2
    <3>3. Acking' /\ result # "ok"
      BY <1>1, <2>1, <2>9, <3>1, <3>2 DEF Acking, InData, SerialJob
    <3>4. QED BY <1>1, <2>2, <2>9, <3>3 DEF SerialTrue, Sending, ToolFrames
  <2>10. QED BY <2>1, <2>5, <2>6, <2>7, <2>8, <2>9 DEF SerialJob
<1>4. QED BY <1>1, <1>3 DEF SerialOk

LEMMA OpensOk ==
  ASSUME path = "serial", SerialOk, Serial!Opens
  PROVE  SerialOk'
<1>1. path \in Paths /\ Part.buffer \in Nat \ {0} /\ Part.buffer <= Words /\ Words \in Nat \ {0}
  <2>1. path \in Paths /\ path # "dfu"
    BY DEF Paths
  <2>2. QED BY <2>1, Geometry, PartsAssumption DEF Part
<1>2. PICK j \in Jobs :
        /\ j.op # "load" /\ (j.op = "erase" \/ j.size > 0) /\ job' = Serial!Asked(j) /\ pos' = 0
        /\ stage = "idle" /\ stage' = "sync" /\ result' = "none"
  BY DEF Serial!Opens, Serial!Starts
<1>3. j \in [op : {"flash", "erase", "exec", "load"}, addr : Nat, size : Nat]
  BY JobsAssumption
<1>4. PICK frame, rom :
        /\ (frame = line.frame /\ rom = line.rom) \/ (frame = "none" /\ rom = "baud")
        /\ line' = [rom |-> rom, frame |-> frame, addr |-> line.addr, data |-> line.data,
                    answers |-> <<>>, syncs |-> 0]
  BY DEF Serial!Opens, SerialOk, SerialForm
<1>5. SerialForm'
  <2>1. <<>> \in Answers
    BY DEF Answers
  <2>2. rom = "baud" => frame \in {"none", "sync"}
    BY <1>4 DEF SerialOk, SerialForm
  <2>3. QED BY <1>2, <1>4, <2>1, <2>2 DEF SerialForm
<1>6. ASSUME job'.op \in {"flash", "erase"}
      PROVE  job'.addr = 0 /\ job'.size \in Nat \ {0} /\ (job'.op = "flash" => job'.size <= Words)
  <2>1. CASE j.op = "erase"
    <3>1. Serial!Asked(j) = [j EXCEPT !.addr = 0, !.size = Serial!All] /\ Serial!All \in Nat \ {0}
      BY <1>1, <2>1 DEF Serial!Asked, Serial!All
    <3>2. QED BY <1>2, <1>3, <2>1, <3>1
  <2>2. CASE j.op # "erase"
    <3> DEFINE n == IF j.size > Part.buffer THEN Part.buffer ELSE j.size
    <3>1. n \in Nat \ {0} /\ n <= Words
      BY <1>1, <1>2, <1>3, <2>2
    <3>2. Serial!Asked(j) = [op |-> j.op, addr |-> IF j.op = "exec" THEN Words ELSE 0, size |-> n]
      BY <1>3, <2>2, SerialSame DEF Serial!Asked, Serial!RAM
    <3> HIDE DEF n
    <3>3. job'.op = j.op /\ job'.size = n
      BY <1>2, <3>2
    <3>4. job'.addr = 0
      BY <1>2, <1>6, <3>2, <3>3
    <3>5. QED BY <3>1, <3>3, <3>4
  <2>3. QED BY <2>1, <2>2
<1>7. ASSUME job'.op \in {"flash", "erase"} PROVE SerialTrue'
  <2>1. SerialJob'
    BY <1>2, <1>6, <1>7 DEF SerialJob
  <2>2. line'.answers = <<>> /\ <<>> \in Answers
    BY <1>4 DEF Answers
  <2>3. Syncing'
    BY <2>2, AckAdded DEF Syncing, AckFirst
  <2>4. QED BY <1>2, <2>1, <2>3 DEF SerialTrue, Sending, ToolFrames
<1>8. QED BY <1>5, <1>7 DEF SerialOk

LEMMA SyncsOk ==
  ASSUME path = "serial", SerialOk, Serial!Syncs
  PROVE  SerialOk'
<1>1. /\ line = [rom |-> line.rom, frame |-> line.frame, addr |-> line.addr, data |-> line.data,
                 answers |-> line.answers, syncs |-> line.syncs]
      /\ line.answers \in Answers
      /\ line.rom = "baud" => line.frame \in {"none", "sync"} /\ line.answers = <<>>
  BY DEF SerialOk, SerialForm
<1>2. stage = "sync" /\ UNCHANGED <<path, job, jobs, flash, callee, pos>>
  BY DEF Serial!Syncs, Serial!jobVars
<1>3. ASSUME job.op \in {"flash", "erase"}
      PROVE  SerialJob /\ Syncing /\ result # "ok"
  BY <1>2, <1>3 DEF SerialOk, SerialTrue, SerialJob
<1>4. CASE /\ line.answers # <<>> /\ line' = [line EXCEPT !.answers = Tail(@)] /\ result' = result
           /\ stage' = (IF job.op = "exec" THEN "write" ELSE "erase")
  <2>1. line' = [rom |-> line.rom, frame |-> line.frame, addr |-> line.addr, data |-> line.data,
                 answers |-> Tail(line.answers), syncs |-> line.syncs]
    BY <1>1, <1>4
  <2>2. Tail(line.answers) \in Answers
    BY <1>1, <1>4, AckRead
  <2>3. SerialForm'
    BY <1>1, <1>4, <2>1, <2>2 DEF SerialForm
  <2>4. ASSUME job.op \in {"flash", "erase"} PROVE SerialTrue'
    <3>1. stage' = "erase" /\ SerialJob /\ Syncing /\ result # "ok" /\ result' = result
      BY <1>3, <1>4, <2>4
    <3>2. SerialJob'
      BY <1>2, <3>1 DEF SerialJob
    <3>3. line'.frame \in {"none", "sync"} /\ NoAck(line'.answers)
      BY <1>1, <1>4, <2>1, <3>1, AckRead DEF Syncing
    <3>4. QED BY <3>1, <3>2, <3>3 DEF SerialTrue, Sending, ToolFrames, NoAck
  <2>5. QED BY <1>2, <2>3, <2>4 DEF SerialOk
<1>5. CASE /\ stage' = "sync" /\ result' = result
           /\ line' = [line EXCEPT !.syncs = @ + 1, !.frame = IF @ = "none" THEN "sync" ELSE @]
  <2>1. PICK frame :
          /\ frame = (IF line.frame = "none" THEN "sync" ELSE line.frame)
          /\ line' = [rom |-> line.rom, frame |-> frame, addr |-> line.addr, data |-> line.data,
                      answers |-> line.answers, syncs |-> line.syncs + 1]
    BY <1>1, <1>5
  <2>2. SerialForm'
    BY <1>1, <1>5, <2>1 DEF SerialForm
  <2>3. ASSUME job.op \in {"flash", "erase"} PROVE SerialTrue'
    <3>1. SerialJob'
      BY <1>2, <1>3, <1>5, <2>3 DEF SerialJob
    <3>2. Syncing'
      BY <1>3, <2>1, <2>3 DEF Syncing, AckFirst
    <3>3. QED BY <1>3, <1>5, <2>3, <3>1, <3>2 DEF SerialTrue, Sending, ToolFrames
  <2>4. QED BY <1>2, <2>2, <2>3 DEF SerialOk
<1>6. CASE stage' = "idle" /\ result' = "fail" /\ line' = line
  <2>1. SerialForm'
    BY <1>6 DEF SerialOk, SerialForm
  <2>2. ASSUME job.op \in {"flash", "erase"} PROVE SerialTrue'
    BY <1>2, <1>3, <1>6, <2>2 DEF SerialTrue, SerialJob, Sending, ToolFrames
  <2>3. QED BY <1>2, <2>1, <2>2 DEF SerialOk
<1>7. QED BY <1>2, <1>4, <1>5, <1>6 DEF Serial!Syncs, Serial!Ends

LEMMA SendsOk ==
  ASSUME path = "serial", SerialOk, Serial!SendsFrame
  PROVE  SerialOk'
<1>1. /\ stage \in {"erase", "write", "go", "pages", "address", "data"} /\ line.frame = "none"
      /\ stage' = "ack" /\ callee' = stage /\ UNCHANGED <<path, job, jobs, flash, pos, result>>
  BY DEF Serial!SendsFrame, Serial!Commands, Serial!Frames, Serial!jobVars
<1> DEFINE a == IF stage # "address" THEN line.addr ELSE job.addr + (IF Serial!Jumps THEN 0 ELSE pos)
           d == IF stage = "data" THEN [i \in 1 .. Serial!Chunk |-> Serial!Image(pos + i)] ELSE line.data
<1>2. line' = [rom |-> line.rom, frame |-> stage, addr |-> a, data |-> d,
               answers |-> line.answers, syncs |-> line.syncs]
  BY DEF Serial!SendsFrame, SerialOk, SerialForm
<1>3. SerialForm'
  BY <1>1, <1>2 DEF SerialOk, SerialForm
<1>4. ASSUME job.op \in {"flash", "erase"} PROVE SerialTrue'
  <2>1. SerialJob /\ Sending
    BY <1>4 DEF SerialOk, SerialTrue
  <2>2. ~Serial!Jumps /\ \A i : Serial!Image(i) = Image(i)
    BY <1>4 DEF Serial!Jumps, Serial!Image, Image
  <2>3. stage # "go" /\ NoAck(line.answers) /\ (stage # "erase" => InStep(stage))
    BY <1>1, <2>1 DEF SerialJob, Sending, ToolFrames
  <2>4. (stage # "address" => a = line.addr) /\ (stage = "address" => a = pos)
    BY <2>1, <2>2 DEF SerialJob
  <2>5. stage = "data" => d = [i \in 1 .. Serial!Chunk |-> Image(pos + i)]
    BY <2>2
  <2> HIDE DEF a, d
  <2>6. /\ line'.rom = line.rom /\ line'.frame = stage /\ line'.addr = a /\ line'.data = d
        /\ line'.answers = line.answers
    BY <1>2
  <2>7. SerialJob'
    BY <1>1, <2>1, <2>3 DEF SerialJob, ToolFrames
  <2>8. stage \in {"write", "address", "data"} => InData /\ FilledTo(pos)
    BY <2>3 DEF InStep
  <2>9. ASSUME stage # "erase" PROVE InStep(callee)'
    <3>1. line.rom = Due(stage) /\ (stage = "data" => line.addr = pos)
      BY <2>3, <2>9 DEF InStep
    <3>2. line'.rom = Due(stage) /\ (stage = "data" => line'.addr = pos)
      BY <2>4, <2>6, <3>1
    <3>3. FilledTo(pos) => FilledTo(pos)'
      BY <1>1, SerialStays
    <3>4. QED BY <1>1, <2>8, <3>2, <3>3 DEF InStep, InData, Due
  <2>10. Waiting'
    <3>1. line'.frame = callee' /\ NoAck(line'.answers)
      BY <1>1, <2>3, <2>6
    <3>2. callee' = "address" => line'.addr = pos'
      BY <1>1, <2>4, <2>6
    <3>3. Serial!Chunk' = Serial!Chunk /\ \A i : Image(i)' = Image(i)
      BY <1>1, SerialStays
    <3>4. callee' = "data" => line'.data = [i \in 1 .. Serial!Chunk' |-> Image(pos + i)']
      BY <1>1, <2>5, <2>6, <3>3
    <3>5. QED BY <1>1, <2>9, <3>1, <3>2, <3>4 DEF Waiting, NoAck, Image
  <2>11. Acking'
    <3>1. stage \in ToolFrames \cup {"erase"}
      BY <1>1, <2>3 DEF ToolFrames
    <3>2. stage \in {"write", "address", "data"} => InData'
      BY <1>1, <2>8 DEF InData
    <3>3. QED BY <1>1, <2>10, <3>1, <3>2 DEF Acking, ToolFrames
  <2>12. result # "ok"
    BY <1>1, <2>1 DEF SerialJob
  <2>13. QED BY <1>1, <2>7, <2>11, <2>12 DEF SerialTrue, Sending, ToolFrames
<1>5. QED BY <1>1, <1>3, <1>4 DEF SerialOk

LEMMA ReadsOk ==
  ASSUME path = "serial", SerialOk, Serial!readAck
  PROVE  SerialOk'
<1>1. /\ line = [rom |-> line.rom, frame |-> line.frame, addr |-> line.addr, data |-> line.data,
                 answers |-> line.answers, syncs |-> line.syncs]
      /\ line.answers \in Answers
      /\ line.rom # "baud"
  BY DEF SerialOk, SerialForm, Serial!readAck
<1>2. stage = "ack" /\ UNCHANGED <<path, job, jobs, flash, callee>>
  BY DEF Serial!readAck, Serial!jobVars
<1>3. PICK answers \in Answers :
        /\ line' = [rom |-> line.rom, frame |-> line.frame, addr |-> line.addr, data |-> line.data,
                    answers |-> answers, syncs |-> line.syncs]
        /\ \/ Serial!Refused
           \/ line.answers # <<>> /\ answers = Tail(line.answers) /\ Head(line.answers) = "ack" /\ Serial!Accepted
  <2>1. CASE line.answers # <<>> /\ line' = [line EXCEPT !.answers = Tail(@)]
    <3>1. line' = [rom |-> line.rom, frame |-> line.frame, addr |-> line.addr, data |-> line.data,
                   answers |-> Tail(line.answers), syncs |-> line.syncs]
      BY <1>1, <2>1
    <3>2. Tail(line.answers) \in Answers
      BY <1>1, <2>1, AckRead
    <3>3. Serial!Refused \/ (Head(line.answers) = "ack" /\ Serial!Accepted)
      BY DEF Serial!readAck
    <3>4. QED BY <2>1, <3>1, <3>2, <3>3
  <2>2. CASE Serial!Refused /\ line' = line
    BY <1>1, <2>2
  <2>3. QED BY <2>1, <2>2 DEF Serial!readAck
<1>4. SerialForm'
  BY <1>1, <1>3 DEF SerialForm
<1>5. ASSUME job.op \in {"flash", "erase"} PROVE SerialTrue'
  <2>1. SerialJob /\ Acking /\ result # "ok"
    BY <1>2, <1>5 DEF SerialOk, SerialTrue, SerialJob
  <2>2. ~Serial!Jumps /\ job.addr = 0 /\ job.size \in Nat \ {0} /\ pos \in Nat
        /\ (job.op = "flash" => job.size <= Words)
    BY <1>5, <2>1 DEF SerialJob, Serial!Jumps
  <2>3. CASE Serial!Refused
    <3>1. stage' = "idle" /\ result' = "fail" /\ pos' = pos
      BY <2>2, <2>3 DEF Serial!Refused, Serial!Ends
    <3>2. QED BY <1>2, <2>2, <3>1 DEF SerialTrue, SerialJob, Sending, ToolFrames
  <2>4. CASE line.answers # <<>> /\ answers = Tail(line.answers) /\ Head(line.answers) = "ack" /\ Serial!Accepted
    <3>1. ~NoAck(line.answers)
      BY <1>1, <2>4, AckRead
    <3>2. /\ callee \in ToolFrames \cup {"erase"} /\ (callee \in {"write", "address", "data"} => InData)
          /\ Effect(callee) /\ line.frame = "none" /\ AckLast(line.answers)
      BY <2>1, <3>1 DEF Acking, Waiting, Answered
    <3>3. answers = <<>> /\ NoAck(answers)
      BY <1>1, <2>4, <3>2, AckRead DEF NoAck
    <3>4. line'.rom = line.rom /\ line'.addr = line.addr /\ line'.frame = "none" /\ line'.answers = answers
      BY <1>3, <3>2
    <3>5. /\ pos' = pos /\ FilledTo(pos) => FilledTo(pos)'
          /\ \A n : FilledTo(n) => FilledTo(n)'
      BY <1>2 DEF FilledTo, Cells, Erased, Image
    <3>6. ASSUME stage' \in ToolFrames, InStep(stage)', result' = result,
                 pos' \in Nat, stage' = "pages" => pos' = 0
          PROVE  SerialTrue'
      <4>1. SerialJob'
        BY <1>2, <2>1, <2>2, <3>6 DEF SerialJob, ToolFrames
      <4>2. Sending'
        BY <3>3, <3>4, <3>6 DEF Sending, ToolFrames, NoAck
      <4>3. QED BY <2>1, <3>6, <4>1, <4>2 DEF SerialTrue, ToolFrames
    <3>7. ASSUME stage' = "idle", pos' \in Nat, SerialOver'
          PROVE  SerialTrue'
      BY <1>2, <2>2, <3>7 DEF SerialTrue, SerialJob, Sending, ToolFrames
    <3>8. CASE callee = "erase"
      <4>1. stage' = "pages" /\ pos' = pos /\ result' = result
        BY <2>4, <3>8 DEF Serial!Accepted, Serial!Goes
      <4>2. InStep("pages")'
        BY <3>2, <3>4, <3>8 DEF InStep, Effect, Due, Then
      <4>3. pos = 0
        BY <1>2, <2>1, <3>8 DEF SerialJob
      <4>4. InStep(stage)'
        BY <4>1, <4>2 DEF InStep, Due, InData
      <4>5. QED BY <3>6, <4>1, <4>3, <4>4 DEF ToolFrames
    <3>9. CASE callee = "pages"
      <4>1. line.rom = "cmd" /\ FilledTo(0) /\ pos = 0 /\ FilledTo(0)'
        BY <1>2, <2>1, <3>2, <3>5, <3>9 DEF Effect, Then, SerialJob
      <4>2. CASE job.op = "erase"
        <5>1. stage' = "idle" /\ pos' = pos
          BY <2>4, <3>9, <4>2 DEF Serial!Accepted, Serial!Ends
        <5>2. SerialOver'
          BY <1>2, <3>4, <4>1, <4>2 DEF SerialOver
        <5>3. QED BY <2>2, <3>7, <5>1, <5>2
      <4>3. CASE job.op = "flash"
        <5>1. stage' = "write" /\ pos' = pos /\ result' = result
          BY <2>4, <3>9, <4>3 DEF Serial!Accepted, Serial!Goes
        <5>2. InData' /\ FilledTo(pos)'
          BY <1>2, <2>2, <3>5, <4>1, <4>3, <5>1 DEF InData
        <5>3. InStep(stage)'
          BY <3>4, <4>1, <5>1, <5>2 DEF InStep, Due
        <5>4. QED BY <2>2, <3>6, <5>1, <5>3 DEF ToolFrames
      <4>4. QED BY <1>5, <4>2, <4>3
    <3>10. CASE callee = "write"
      <4>1. stage' = "address" /\ pos' = pos /\ result' = result
        BY <2>4, <3>10 DEF Serial!Accepted, Serial!Goes
      <4>2. InData' /\ FilledTo(pos)' /\ line'.rom = "addr"
        BY <1>2, <3>2, <3>4, <3>5, <3>10, <4>1 DEF InData, Effect, Then
      <4>3. InStep(stage)'
        BY <4>1, <4>2 DEF InStep, Due
      <4>4. QED BY <2>2, <3>6, <4>1, <4>3 DEF ToolFrames
    <3>11. CASE callee = "address"
      <4>1. stage' = "data" /\ pos' = pos /\ result' = result
        BY <2>2, <2>4, <3>11 DEF Serial!Accepted, Serial!Goes
      <4>2. InData' /\ FilledTo(pos)' /\ line'.rom = "data" /\ line'.addr = pos'
        BY <1>2, <3>2, <3>4, <3>5, <3>11, <4>1 DEF InData, Effect, Then
      <4>3. InStep(stage)'
        BY <4>1, <4>2 DEF InStep, Due
      <4>4. QED BY <2>2, <3>6, <4>1, <4>3 DEF ToolFrames
    <3>12. CASE callee = "data"
      <4>1. /\ job.op = "flash" /\ pos < job.size /\ line.rom = "cmd"
            /\ FilledTo(pos + Serial!Chunk)
        BY <3>2, <3>12 DEF InData, Effect, Then
      <4>2. Serial!Chunk \in Nat /\ pos + Serial!Chunk \in Nat /\ pos + Serial!Chunk <= job.size
        BY <2>2, <4>1, ChunkIs
      <4>3. pos' = pos + Serial!Chunk
        BY <2>4, <3>12 DEF Serial!Accepted
      <4>4. FilledTo(pos)'
        BY <3>5, <4>1, <4>3 DEF FilledTo
      <4>5. CASE pos' < job.size
        <5>1. stage' = "write" /\ result' = result
          <6>1. pos' # job.size
            BY <2>2, <4>2, <4>3, <4>5
          <6>2. QED BY <1>2, <2>4, <3>12, <4>5, <6>1 DEF Serial!Accepted
        <5>2. InStep(stage)'
          BY <1>2, <3>4, <4>1, <4>4, <4>5, <5>1 DEF InStep, InData, Due
        <5>3. QED BY <3>6, <4>2, <4>3, <5>1, <5>2 DEF ToolFrames
      <4>6. CASE pos' = job.size
        <5>1. stage' = "idle"
          <6>1. ~(pos' < job.size)
            BY <2>2, <4>6
          <6>2. QED BY <1>2, <2>4, <3>12, <4>1, <4>6, <6>1 DEF Serial!Accepted, Serial!Ends
        <5>2. SerialOver'
          BY <1>2, <3>4, <4>1, <4>4, <4>6 DEF SerialOver
        <5>3. QED BY <3>7, <4>2, <4>3, <5>1, <5>2
      <4>7. QED BY <2>2, <4>2, <4>3, <4>5, <4>6
    <3>13. QED BY <3>2, <3>8, <3>9, <3>10, <3>11, <3>12 DEF ToolFrames
  <2>5. QED BY <1>3, <2>3, <2>4
<1>6. QED BY <1>2, <1>4, <1>5 DEF SerialOk

LEMMA SerialStepOk ==
  ASSUME path = "serial", SerialOk, Serial!SerialSteps
  PROVE  SerialOk'
BY RomOk, OpensOk, SyncsOk, SendsOk, ReadsOk DEF Serial!SerialSteps

LEMMA SerialDone ==
  ASSUME path = "serial", SerialOk
  PROVE  OkMeansFlashed
<1> SUFFICES ASSUME result = "ok", job.op \in {"flash", "erase"}
             PROVE  /\ job.op = "flash" => \A i \in 1 .. job.size : flash[job.addr + i - 1] = Image(i)
                    /\ \A c \in Covering(job) :
                         job.op = "erase" \/ (job.op = "flash" /\ c \notin Region(job)) => flash[c] \in {Erased, Zero}
  BY DEF OkMeansFlashed
<1>1. SerialJob /\ FilledTo(IF job.op = "erase" THEN 0 ELSE job.size)
  BY DEF SerialOk, SerialTrue, SerialOver
<1>2. path \in Paths /\ Words \in Nat /\ \A c : c \in Cells <=> c \in Nat /\ c < Words
  <2>1. path \in Paths
    BY DEF Paths
  <2>2. Words \in Nat
    BY <2>1, Geometry
  <2>3. QED BY <2>1, <2>2 DEF Cells
<1>3. ASSUME job.op = "flash", NEW i \in 1 .. job.size PROVE flash[job.addr + i - 1] = Image(i)
  <2>1. job.addr = 0 /\ job.size \in Nat /\ job.size <= Words
    BY <1>1, <1>3 DEF SerialJob
  <2>2. job.addr + i - 1 = i - 1 /\ i - 1 \in Cells /\ i - 1 < job.size /\ (i - 1) + 1 = i
    BY <1>2, <2>1
  <2>3. QED BY <1>1, <1>3, <2>2 DEF FilledTo
<1>4. ASSUME NEW c \in Covering(job), job.op = "erase" \/ (job.op = "flash" /\ c \notin Region(job))
      PROVE  flash[c] = Erased
  <2>1. c \in Cells /\ c \in Nat
    BY <1>2 DEF Covering, Sector
  <2>2. CASE job.op = "erase"
    BY <1>1, <2>1, <2>2 DEF FilledTo
  <2>3. CASE job.op = "flash" /\ c \notin Region(job)
    <3>1. job.addr = 0 /\ job.size \in Nat
      BY <1>1 DEF SerialJob
    <3>2. ~(c < job.size)
      BY <2>1, <2>3, <3>1 DEF Region
    <3>3. QED BY <1>1, <2>1, <2>3, <3>2 DEF FilledTo
  <2>4. QED BY <1>4, <2>2, <2>3
<1>5. QED BY <1>3, <1>4

-----------------------------------------------------------------------------
(* DFU: what the ROM has taken is what the tool has sent, for as long as the tool's
   handle is that of the device.                                                    *)

SentSoFar ==
  /\ pos <= Len(Stream) /\ (pos > 0 => line.image = SubSeq(Stream, 1, pos))
  /\ stage = "send" =>
       pos < Len(Stream) /\ line.state = IF pos = 0 THEN "IDLE" ELSE "DOWNLOAD_IDLE"
  /\ stage = "end" => pos = Len(Stream) /\ line.state = "DOWNLOAD_IDLE"
  /\ stage = "status" =>
       /\ callee \in {"open", "send", "end"}
       /\ callee = "open" => pos = 0
       /\ callee = "send" => pos > 0
       /\ callee = "end" => pos = Len(Stream)
DfuOk ==
  /\ line = [state |-> line.state, image |-> line.image, open |-> line.open]
  /\ line.open \in BOOLEAN
  /\ job.op \in {"none", "exec", "load"} /\ job.size \in Nat /\ pos \in Nat
  /\ stage \in {"idle", "open", "status", "send", "end"}
  /\ stage = "open" => pos = 0
  /\ line.open /\ stage \in {"status", "send", "end"} => SentSoFar
  /\ result = "ok" => stage = "idle" /\ line.image = Stream

LEMMA StreamIs ==
  ASSUME job.size \in Nat
  PROVE  /\ Len(Stream) = job.size + 1 /\ Len(Stream) \in Nat \ {0} /\ Ram!Stream = Stream
         /\ SubSeq(Stream, 1, Len(Stream)) = Stream
         /\ \A a \in Nat : \A n \in Nat \ {0} : a + n <= Len(Stream) =>
              /\ SubSeq(Stream, a + 1, a + n) # <<>>
              /\ SubSeq(Stream, 1, a) \o SubSeq(Stream, a + 1, a + n) = SubSeq(Stream, 1, a + n)
<1> DEFINE S == {Stream[i] : i \in 1 .. job.size + 1}
<1>1. Stream = [i \in 1 .. job.size + 1 |-> Stream[i]] /\ DOMAIN Stream = 1 .. job.size + 1
  BY DEF Stream
<1>2. \A i \in 1 .. job.size + 1 : Stream[i] \in S
  OBVIOUS
<1>3. Ram!Stream = Stream
  BY DEF Ram!Stream, Stream, Ram!Image, Image, Ram!Header, Header
<1> HIDE DEF S
<1>4. Stream \in Seq(S) /\ Len(Stream) = job.size + 1
  <2>1. job.size + 1 \in Nat
    OBVIOUS
  <2>2. Stream \in [1 .. job.size + 1 -> S]
    BY <1>1, <1>2
  <2>3. QED BY <2>1, <2>2
<1>5. SubSeq(Stream, 1, Len(Stream)) = Stream
  BY <1>4, SubSeqFull
<1>6. ASSUME NEW a \in Nat, NEW n \in Nat \ {0}, a + n <= Len(Stream)
      PROVE  /\ SubSeq(Stream, a + 1, a + n) # <<>>
             /\ SubSeq(Stream, 1, a) \o SubSeq(Stream, a + 1, a + n) = SubSeq(Stream, 1, a + n)
  <2>1. /\ 1 \in 1 .. Len(Stream) + 1 /\ a \in 1 - 1 .. Len(Stream) /\ a + n \in a .. Len(Stream)
        /\ a + 1 \in Int /\ a + n \in Int /\ a + 1 <= a + n /\ a + n - (a + 1) + 1 = n
    BY <1>4, <1>6
  <2>2. SubSeq(Stream, 1, a) \o SubSeq(Stream, a + 1, a + n) = SubSeq(Stream, 1, a + n)
    BY <1>4, <2>1, ConcatAdjacentSubSeq
  <2>3. \A i \in a + 1 .. a + n : Stream[i] \in S
    BY <1>2, <1>4, <1>6
  <2>4. Len(SubSeq(Stream, a + 1, a + n)) = n
    BY <2>1, <2>3, SubSeqProperties
  <2>5. QED BY <2>2, <2>4
<1>7. Len(Stream) = job.size + 1 /\ Len(Stream) \in Nat \ {0}
  BY <1>4
<1>8. QED BY <1>3, <1>5, <1>6, <1>7, Zenon

(* The command goes on; the program is the same. *)
LEMMA SameStream ==
  ASSUME job' = job, jobs' = jobs
  PROVE  Stream' = Stream
BY DEF Stream, Image, Header

LEMMA DeviceOk ==
  ASSUME DfuOk, Ram!DeviceSteps
  PROVE  DfuOk'
<1>1. UNCHANGED <<job, jobs, stage, callee, pos, result>> /\ Stream' = Stream
  BY SameStream DEF Ram!DeviceSteps, Ram!jobVars
<1>2. line = [state |-> line.state, image |-> line.image, open |-> line.open] /\ line.open \in BOOLEAN
  BY DEF DfuOk
<1>3. /\ line' = [state |-> line'.state, image |-> line.image, open |-> line'.open]
      /\ line'.open \in BOOLEAN /\ (line'.open => line.open /\ line.state \in {"BUSY", "MANIFEST"})
  <2>1. CASE Ram!RomFinishes
    <3>1. PICK state : line' = [line EXCEPT !.state = state]
      BY <2>1 DEF Ram!RomFinishes
    <3>2. line' = [state |-> state, image |-> line.image, open |-> line.open]
      BY <1>2, <3>1
    <3>3. line.state \in {"BUSY", "MANIFEST"}
      BY <2>1 DEF Ram!RomFinishes
    <3>4. QED BY <1>2, <3>2, <3>3
  <2>2. CASE Ram!RomRefuses
    <3>1. line' = [state |-> "ERROR", image |-> line.image, open |-> line.open]
      BY <1>2, <2>2 DEF Ram!RomRefuses
    <3>2. line.state \in {"BUSY", "MANIFEST"}
      BY <2>2 DEF Ram!RomRefuses
    <3>3. QED BY <1>2, <3>1, <3>2
  <2>3. CASE Ram!DeviceResets
    <3>1. line' = [state |-> "IDLE", image |-> line.image, open |-> FALSE]
      BY <1>2, <2>3 DEF Ram!DeviceResets
    <3>2. QED BY <3>1
  <2>4. QED BY <2>1, <2>2, <2>3 DEF Ram!DeviceSteps
<1>4. ASSUME line'.open, stage' \in {"status", "send", "end"} PROVE SentSoFar'
  <2>1. SentSoFar /\ line.state \in {"BUSY", "MANIFEST"} /\ stage = "status"
    <3>1. SentSoFar /\ line.state \in {"BUSY", "MANIFEST"}
      BY <1>1, <1>3, <1>4 DEF DfuOk
    <3>2. QED BY <1>1, <1>4, <3>1 DEF SentSoFar
  <2>2. QED BY <1>1, <1>3, <2>1 DEF SentSoFar
<1>5. QED BY <1>1, <1>3, <1>4 DEF DfuOk

LEMMA DfuOpensOk ==
  ASSUME DfuOk, Ram!Opens
  PROVE  DfuOk'
<1>1. line = [state |-> line.state, image |-> line.image, open |-> line.open] /\ line.open \in BOOLEAN
  BY DEF DfuOk
<1>2. CASE line' = line /\ \E j \in Jobs : j.op \in {"exec", "load"} /\ Ram!Starts(j, "open")
  <2>1. PICK j \in Jobs : j.op \in {"exec", "load"} /\ Ram!Starts(j, "open")
    BY <1>2
  <2>2. job' = j /\ pos' = 0 /\ stage' = "open" /\ result' = "none" /\ j.size \in Nat
    BY <2>1, JobsAssumption DEF Ram!Starts
  <2>3. QED BY <1>1, <1>2, <2>1, <2>2 DEF DfuOk
<1>3. CASE /\ stage = "open" /\ stage' = "status" /\ line' = [line EXCEPT !.open = TRUE]
           /\ UNCHANGED <<job, jobs, pos, result>> /\ callee' = "open"
  <2>1. line' = [state |-> line.state, image |-> line.image, open |-> TRUE]
    BY <1>1, <1>3
  <2>2. pos' = 0 /\ result' # "ok" /\ job'.size \in Nat
    BY <1>3 DEF DfuOk
  <2>3. SentSoFar'
    <3>1. Len(Stream') \in Nat
      BY <1>3, SameStream, StreamIs DEF DfuOk
    <3>2. QED BY <1>3, <2>2, <3>1 DEF SentSoFar
  <2>4. QED BY <1>3, <2>1, <2>2, <2>3 DEF DfuOk
<1>4. QED BY <1>2, <1>3 DEF Ram!Opens, Ram!jobVars

(* A transfer that fails ends the command, whatever the ROM made of it. *)
LEMMA DfuFails ==
  ASSUME DfuOk, UNCHANGED <<job, jobs, pos>>, stage' = "idle", result' = "fail", NEW state, NEW image,
         NEW open \in BOOLEAN, line' = [state |-> state, image |-> image, open |-> open]
  PROVE  DfuOk'
BY DEF DfuOk

LEMMA DownloadOk ==
  ASSUME path = "dfu", DfuOk, Ram!dfu_download
  PROVE  DfuOk'
<1>1. UNCHANGED <<job, jobs>> /\ Stream' = Stream
  BY SameStream DEF Ram!dfu_download, Ram!jobVars
<1>2. /\ line = [state |-> line.state, image |-> line.image, open |-> line.open] /\ line.open \in BOOLEAN
      /\ job.size \in Nat /\ pos \in Nat /\ (stage # "idle" => result # "ok")
  BY DEF DfuOk
<1>3. /\ Ram!Stream = Stream /\ Len(Stream) \in Nat \ {0} /\ SubSeq(Stream, 1, Len(Stream)) = Stream
      /\ Ram!Left = Len(Stream) - pos
  BY <1>2, StreamIs DEF Ram!Left
<1>4. ASSUME NEW block, NEW device, device = Ram!Taken(block)
      PROVE  \E state, image : device = [state |-> state, image |-> image, open |-> line.open]
  <2>1. PICK c \in {1, 2, 3, 4} :
          device = CASE c = 1 -> [line EXCEPT !.state = "BUSY", !.image = block]
                     [] c = 2 -> [line EXCEPT !.state = "BUSY", !.image = @ \o block]
                     [] c = 3 -> [line EXCEPT !.state = "MANIFEST"]
                     [] OTHER -> [line EXCEPT !.state = "ERROR"]
    BY <1>4 DEF Ram!Taken
  <2>2. QED BY <1>2, <2>1
<1>5. CASE Ram!Sends /\ callee' = "send"
  <2> DEFINE n == Ram!Xfer
             block == SubSeq(Stream, pos + 1, pos + n)
  <2>1. stage = "send"
    BY <1>5 DEF Ram!Sends
  <2>2. CASE stage' = "idle" /\ result' = "fail" /\ pos' = pos /\ line' \in {line, Ram!Taken(block)}
    <3>1. PICK state, image : line' = [state |-> state, image |-> image, open |-> line.open]
      BY <1>2, <1>4, <2>2
    <3>2. QED BY <1>1, <1>2, <2>2, <3>1, DfuFails
  <2>3. CASE /\ line.open /\ line' = Ram!Taken(block) /\ pos' = pos + n
             /\ stage' = "status" /\ result' = result
    <3>1. SentSoFar
      BY <2>1, <2>3 DEF DfuOk
    <3>2. pos < Len(Stream) /\ line.state = (IF pos = 0 THEN "IDLE" ELSE "DOWNLOAD_IDLE")
      BY <2>1, <3>1 DEF SentSoFar
    <3>3. n \in Nat \ {0} /\ pos + n \in Nat \ {0} /\ pos + n <= Len(Stream)
      <4>1. Ram!Part.page \in Nat \ {0}
        BY Geometry DEF Ram!Part, Part, Paths
      <4>2. QED BY <1>2, <1>3, <3>2, <4>1 DEF Ram!Xfer
    <3> HIDE DEF n
    <3>4. block # <<>> /\ SubSeq(Stream, 1, pos) \o block = SubSeq(Stream, 1, pos + n)
      BY <1>2, <3>3, StreamIs
    <3>5. pos = 0 => block = SubSeq(Stream, 1, pos + n)
      BY <3>3
    <3> HIDE DEF block
    <3>6. line' = [state |-> "BUSY", image |-> SubSeq(Stream, 1, pos + n), open |-> line.open]
      <4>1. CASE pos = 0
        <5>1. line' = [line EXCEPT !.state = "BUSY", !.image = block]
          BY <2>3, <3>2, <3>4, <4>1 DEF Ram!Taken
        <5>2. QED BY <1>2, <3>5, <4>1, <5>1
      <4>2. CASE pos # 0
        <5>1. line.image = SubSeq(Stream, 1, pos)
          BY <1>2, <3>1, <4>2 DEF SentSoFar
        <5>2. line' = [line EXCEPT !.state = "BUSY", !.image = line.image \o block]
          BY <1>2, <2>3, <3>2, <3>4, <4>2 DEF Ram!Taken
        <5>3. QED BY <1>2, <3>4, <5>1, <5>2
      <4>3. QED BY <4>1, <4>2
    <3>7. SentSoFar'
      BY <1>1, <1>5, <2>3, <3>3, <3>6 DEF SentSoFar
    <3>8. QED BY <1>1, <1>2, <2>1, <2>3, <3>3, <3>6, <3>7 DEF DfuOk
  <2>4. QED BY <1>3, <1>5, <2>2, <2>3 DEF Ram!Sends, Ram!usb_ctrl, Ram!Ends
<1>6. CASE Ram!dfu_status /\ callee' = callee
  <2>1. stage = "status" /\ result # "ok" /\ line' = line
    BY <1>2, <1>6 DEF Ram!dfu_status, Ram!usb_ctrl
  <2>2. CASE stage' = "idle" /\ result' = "fail" /\ pos' = pos
    BY <1>1, <1>2, <2>1, <2>2, DfuFails
  <2>3. CASE /\ line.open /\ pos' = pos /\ line.state = Ram!Wanted /\ callee = "end"
             /\ stage' = "idle" /\ result' = "ok"
    <3>1. pos = Len(Stream) /\ (pos > 0 => line.image = SubSeq(Stream, 1, pos))
      BY <2>1, <2>3 DEF DfuOk, SentSoFar
    <3>2. line.image = Stream
      BY <1>3, <3>1
    <3>3. QED BY <1>1, <1>2, <2>1, <2>3, <3>2 DEF DfuOk
  <2>4. CASE /\ line.open /\ pos' = pos /\ line.state = Ram!Wanted /\ callee # "end"
             /\ stage' = (IF Ram!Left > 0 THEN "send" ELSE "end") /\ result' = result
    <3>1. SentSoFar /\ line.state = (IF pos = 0 THEN "IDLE" ELSE "DOWNLOAD_IDLE")
      BY <2>1, <2>4 DEF DfuOk, Ram!Wanted
    <3>2. pos <= Len(Stream) /\ (pos > 0 => line.image = SubSeq(Stream, 1, pos))
      BY <3>1 DEF SentSoFar
    <3>3. stage' = "send" => pos < Len(Stream)
      BY <1>2, <1>3, <2>4
    <3>4. stage' = "end" => pos = Len(Stream) /\ pos # 0
      BY <1>2, <1>3, <2>4, <3>2
    <3>5. SentSoFar'
      BY <1>1, <2>1, <2>4, <3>1, <3>2, <3>3, <3>4 DEF SentSoFar
    <3>6. QED BY <1>1, <1>2, <2>1, <2>4, <3>5 DEF DfuOk
  <2>5. QED BY <1>6, <2>2, <2>3, <2>4 DEF Ram!dfu_status, Ram!usb_ctrl, Ram!Ends
<1>7. CASE Ram!Finishes /\ callee' = "end"
  <2>1. stage = "end"
    BY <1>7 DEF Ram!Finishes
  <2>2. CASE stage' = "idle" /\ result' = "fail" /\ pos' = pos /\ line' \in {line, Ram!Taken(<<>>)}
    <3>1. PICK state, image : line' = [state |-> state, image |-> image, open |-> line.open]
      BY <1>2, <1>4, <2>2
    <3>2. QED BY <1>1, <1>2, <2>2, <3>1, DfuFails
  <2>3. CASE line.open /\ line' = Ram!Taken(<<>>) /\ pos' = pos /\ stage' = "status" /\ result' = result
    <3>1. SentSoFar
      BY <2>1, <2>3 DEF DfuOk
    <3>2. pos = Len(Stream) /\ line.state = "DOWNLOAD_IDLE" /\ line.image = SubSeq(Stream, 1, pos)
      BY <1>2, <1>3, <2>1, <3>1 DEF SentSoFar
    <3>3. line' = [line EXCEPT !.state = "MANIFEST"]
      BY <2>3, <3>2 DEF Ram!Taken
    <3>4. line' = [state |-> "MANIFEST", image |-> line.image, open |-> line.open]
      BY <1>2, <3>3
    <3>5. SentSoFar'
      BY <1>1, <1>3, <1>7, <2>3, <3>2, <3>4 DEF SentSoFar
    <3>6. pos' = pos /\ stage' = "status" /\ result' # "ok"
      BY <1>2, <2>1, <2>3
    <3>7. QED BY <1>1, <1>2, <3>4, <3>5, <3>6 DEF DfuOk
  <2>4. QED BY <1>7, <2>2, <2>3 DEF Ram!Finishes, Ram!usb_ctrl, Ram!Ends
<1>8. CASE Ram!Killed
  <2>1. line' = [state |-> line.state, image |-> line.image, open |-> FALSE]
    BY <1>2, <1>8 DEF Ram!Killed
  <2>2. QED BY <1>1, <1>8, <2>1, DfuFails DEF Ram!Killed, Ram!Ends
<1>9. QED BY <1>5, <1>6, <1>7, <1>8 DEF Ram!dfu_download

(* An agent's command that reports success has all of its cells in the flash, and so in
   the sectors it covers.                                                              *)
LEMMA AgentDone ==
  ASSUME path \in Agents, AgentOk
  PROVE  OkMeansFlashed
<1> SUFFICES ASSUME result = "ok", ~lost, job.op \in {"flash", "erase"}
             PROVE  /\ job.op = "flash" => \A i \in 1 .. job.size : flash[job.addr + i - 1] = Image(i)
                    /\ \A c \in Covering(job) :
                         job.op = "erase" \/ (job.op = "flash" /\ c \notin Region(job)) => flash[c] \in {Erased, Zero}
  BY AgentIsPath DEF OkMeansFlashed
<1>1. Fits /\ Finished /\ job \in [op : Ops, addr : Nat, size : Nat]
  BY DEF AgentOk, AgentTrue, AgentOver, AgentForm
<1>2. /\ path \in Paths /\ Words \in Nat /\ job.addr \in Nat /\ job.size \in Nat
      /\ job.addr + job.size <= Words /\ \A c : c \in Cells <=> c \in Nat /\ c < Words
  <2>1. path \in Paths
    BY AgentIsPath
  <2>2. Words \in Nat
    BY <2>1, Geometry
  <2>3. QED BY <1>1, <2>1, <2>2 DEF Fits, Cells
<1>3. ASSUME job.op = "flash", NEW i \in 1 .. job.size PROVE flash[job.addr + i - 1] = Image(i)
  <2> DEFINE c == job.addr + i - 1
  <2>1. c \in Cells /\ job.addr <= c /\ c < job.addr + job.size /\ c - job.addr + 1 = i /\ job.size # 0
    BY <1>2
  <2> HIDE DEF c
  <2>2. Extent(job.size) = job.size
    BY <2>1 DEF Extent
  <2>3. c \in Covering(job)
    BY <1>1, <1>2, <2>1, <2>2, InCovering, InOwnSector
  <2>4. flash[c] = Image(i)
    BY <1>1, <1>3, <2>1, <2>3 DEF Finished
  <2>5. QED BY <2>4 DEF c
<1>4. ASSUME NEW c \in Covering(job), job.op = "erase" \/ (job.op = "flash" /\ c \notin Region(job))
      PROVE  flash[c] \in {Erased, Zero}
  <2>1. c \in Cells
    BY DEF Covering, Sector
  <2>2. CASE job.op = "erase"
    BY <1>1, <2>2 DEF Finished
  <2>3. CASE job.op = "flash" /\ c \notin Region(job)
    <3>1. ~(job.addr <= c /\ c < job.addr + job.size)
      BY <2>1, <2>3 DEF Region
    <3>2. QED BY <1>1, <3>1 DEF Finished
  <2>4. QED BY <1>4, <2>2, <2>3
<1>5. QED BY <1>3, <1>4

LEMMA DfuDone ==
  ASSUME path = "dfu", DfuOk
  PROVE  OkMeansFlashed
BY DEF DfuOk, OkMeansFlashed

OkInv ==
  /\ path \in Paths
  /\ path \in Agents => AgentOk
  /\ path = "serial" => SerialOk
  /\ path = "dfu" => DfuOk

LEMMA InitOk == Init => OkInv
<1> SUFFICES ASSUME Init PROVE OkInv
  OBVIOUS
<1>1. /\ path \in Paths /\ stage = "idle" /\ pos = 0 /\ result = "none" /\ lost = FALSE
      /\ job = [op |-> "none", addr |-> 0, size |-> 0]
  BY DEF Init, FlashInit
<1>2. ASSUME path \in Agents PROVE AgentOk
  <2>1. InitAgent
    BY <1>2 DEF Init, Serial!InitSerial, Ram!InitDfu, Agents
  <2>2. CoreForm /\ chip \in [unlocked : BOOLEAN, ready : BOOLEAN] /\ chip.ready /\ core.at = "wild"
    BY <2>1 DEF InitAgent, CoreForm, Places
  <2>3. AgentForm
    BY <1>1, <2>2 DEF AgentForm, Before, Prepared, Ops
  <2>4. AgentTrue
    BY <1>1, <2>2 DEF AgentTrue, Ready, Calls, AgentOver
  <2>5. QED BY <2>3, <2>4 DEF AgentOk
<1>3. ASSUME path = "serial" PROVE SerialOk
  <2>1. line = [rom |-> "cmd", frame |-> "none", addr |-> 0, data |-> <<>>, answers |-> <<>>, syncs |-> 0]
    BY <1>3 DEF Init, InitAgent, Serial!InitSerial, Ram!InitDfu, Agents
  <2>2. line.answers \in Answers
    BY <2>1 DEF Answers
  <2>3. QED BY <1>1, <2>1, <2>2 DEF SerialOk, SerialForm
<1>4. ASSUME path = "dfu" PROVE DfuOk
  <2>1. line = [state |-> "IDLE", image |-> <<>>, open |-> FALSE]
    BY <1>4 DEF Init, InitAgent, Serial!InitSerial, Ram!InitDfu, Agents
  <2>2. QED BY <1>1, <2>1 DEF DfuOk
<1>5. QED BY <1>1, <1>2, <1>3, <1>4 DEF OkInv

LEMMA AgentRests ==
  ASSUME path \in Agents, AgentOk,
         UNCHANGED <<path, job, jobs, lost, flash, chip, core, buffer, stage, callee, pos, result>>
  PROVE  AgentOk'
<1>1. Covering(job)' = Covering(job) /\ Part' = Part /\ Xfer' = Xfer /\ (\A i : Image(i)' = Image(i))
  BY SameCommand DEF Image
<1>2. /\ Fits' = Fits /\ Unlocked' = Unlocked /\ (Finished => Finished') /\ (Filled(0) => Filled(0)')
      /\ (Filled(pos) => Filled(pos)') /\ (Wrote => Wrote') /\ (Loaded => Loaded')
  BY CommandStays DEF Unlocked
<1>3. Filled(pos + core.off) => Filled(pos + core.off)'
  BY <1>1 DEF Filled, Erased
<1>4. AgentForm'
  BY DEF AgentOk, AgentForm, CoreForm
<1>5. ASSUME ~lost PROVE AgentTrue'
  <2>1. AgentTrue
    BY <1>5 DEF AgentOk
  <2>2. (Ready => Ready') /\ (AgentOver => AgentOver')
    BY <1>2 DEF Ready, AgentOver
  <2>3. Calls => Calls'
    BY <1>2 DEF Calls, Filling
  <2>4. Erasing => Erasing'
    BY <1>1, <1>2 DEF Erasing, Erased
  <2>5. Writing => Writing'
    BY <1>1, <1>2, <1>3 DEF Writing
  <2>6. InCall => InCall'
    BY <1>2, <2>4, <2>5 DEF InCall, Does, Did
  <2>7. QED BY <2>1, <2>2, <2>3, <2>6 DEF AgentTrue
<1>6. QED BY <1>4, <1>5 DEF AgentOk

LEMMA SerialRests ==
  ASSUME path = "serial", SerialOk, UNCHANGED <<path, job, jobs, flash, line, stage, callee, pos, result>>
  PROVE  SerialOk'
<1>1. (\A n : FilledTo(n) => FilledTo(n)') /\ Serial!Chunk' = Serial!Chunk /\ (\A i : Image(i)' = Image(i))
  BY SerialStays
<1>2. \A f : (InStep(f) => InStep(f)') /\ (Effect(f) => Effect(f)')
  BY StepStays
<1>3. SerialForm'
  BY DEF SerialOk, SerialForm
<1>4. ASSUME job.op \in {"flash", "erase"} PROVE SerialTrue'
  <2>1. SerialTrue
    BY <1>4 DEF SerialOk
  <2>2. (SerialJob => SerialJob') /\ (Syncing => Syncing') /\ (InData => InData')
    BY DEF SerialJob, Syncing, InData, ToolFrames, AckFirst
  <2>3. Sending => Sending'
    BY <1>2 DEF Sending, NoAck, ToolFrames
  <2>4. (Waiting => Waiting') /\ (Answered => Answered')
    BY <1>1, <1>2 DEF Waiting, Answered, NoAck, AckLast
  <2>5. Acking => Acking'
    BY <2>2, <2>4 DEF Acking, ToolFrames
  <2>6. SerialOver => SerialOver'
    BY <1>1 DEF SerialOver
  <2>7. QED BY <2>1, <2>2, <2>3, <2>5, <2>6 DEF SerialTrue
<1>5. QED BY <1>3, <1>4 DEF SerialOk

LEMMA StutterOk == OkInv /\ UNCHANGED vars => OkInv'
<1> SUFFICES ASSUME OkInv, UNCHANGED vars PROVE OkInv'
  OBVIOUS
<1>1. UNCHANGED <<path, job, jobs, lost, flash, chip, core, buffer, line, stage, callee, pos, result>>
  BY DEF vars, jobVars, targetVars
<1>2. Stream' = Stream
  BY <1>1, SameStream
<1>3. ASSUME path \in Agents PROVE AgentOk'
  BY <1>1, <1>3, AgentRests DEF OkInv
<1>4. ASSUME path = "serial" PROVE SerialOk'
  BY <1>1, <1>4, SerialRests DEF OkInv
<1>5. ASSUME path = "dfu" PROVE DfuOk'
  BY <1>1, <1>2, <1>5 DEF OkInv, DfuOk, SentSoFar
<1>6. QED BY <1>1, <1>3, <1>4, <1>5 DEF OkInv

LEMMA NextOk == OkInv /\ [Next]_vars => OkInv'
<1> SUFFICES ASSUME OkInv, [Next]_vars PROVE OkInv'
  OBVIOUS
<1>1. "serial" \notin Agents /\ "dfu" \notin Agents
  BY DEF Agents
<1>2. CASE AgentSteps
  <2>1. path \in Agents /\ path' = path
    BY <1>2 DEF AgentSteps, TargetSteps, HostSteps, Begins, GivesUp, do_download, do_run, do_attach, Halts,
       do_reset_stop, BootRom, BootRomOver, Loads, invoke, WaitFails, CallsNext, Fills, jobVars
  <2>2. AgentOk'
    BY <1>2, <2>1, AgentStep DEF OkInv
  <2>3. QED BY <1>1, <2>1, <2>2 DEF OkInv
<1>3. CASE Serial!SerialSteps
  <2>1. path = "serial" /\ path' = path
    BY <1>3 DEF Serial!SerialSteps, Serial!RomSteps, Serial!Opens, Serial!Syncs, Serial!SendsFrame,
         Serial!readAck, Serial!jobVars
  <2>2. SerialOk'
    BY <1>3, <2>1, SerialStepOk DEF OkInv
  <2>3. QED BY <1>1, <2>1, <2>2 DEF OkInv
<1>4. CASE Ram!DfuSteps
  <2>1. path = "dfu" /\ path' = path
    BY <1>4 DEF Ram!DfuSteps, Ram!DeviceSteps, Ram!Opens, Ram!dfu_download, Ram!Starts, Ram!jobVars
  <2>2. DfuOk'
    BY <1>4, <2>1, DeviceOk, DfuOpensOk, DownloadOk DEF OkInv, Ram!DfuSteps
  <2>3. QED BY <1>1, <2>1, <2>2 DEF OkInv
<1>5. CASE UNCHANGED vars
  BY <1>5, StutterOk
<1>6. QED BY <1>2, <1>3, <1>4, <1>5 DEF Next

LEMMA OkIsFlashed == OkInv => OkMeansFlashed
BY AgentDone, SerialDone, DfuDone DEF OkInv, Paths

(* OkMeansFlashed for every geometry, every sequence of commands and every fault: when
   run_flash_agent, the serial tool's main or dfu_download reports success, the flash
   (the RAM) holds the image, whatever they ignored, gave up, or found still running.   *)
THEOREM FlashedWhenOk == Spec => []OkMeansFlashed
BY OkIsFlashed, InitOk, NextOk, PTL DEF Spec
=============================================================================
