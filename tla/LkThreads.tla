------------------------------ MODULE LkThreads ------------------------------
(***************************************************************************)
(* find_lk_threads of tools/lkdebug.c: the walk of the thread list an LK     *)
(* kernel keeps in the target's memory, one access or a few at a time.  It   *)
(* is made under _dbg_lock, but the list is whatever the target's memory     *)
(* holds, and a core that was not stopped goes on changing it.               *)
(***************************************************************************)
EXTENDS Integers, Sequences, FiniteSets

CONSTANTS
  Threads,    \* places of memory that may hold a thread
  ListHead,   \* thread_list_ptr
  Memories,   \* the shapes of memory in use, see Shape
  MaxFaults   \* how many accesses fail

Nodes == Threads \cup {ListHead}
(* info: load_debuginfo finds what it looks for; magic: the threads with
   LK_THREAD_MAGIC; next: the list's links; current: the running thread.     *)
Shape == [info : BOOLEAN, magic : SUBSET Threads, next : [Nodes -> Nodes], current : Threads]

ASSUME LkAssumption == /\ ListHead \notin Threads /\ IsFiniteSet(Threads) /\ MaxFaults \in Nat
                       /\ Memories \subseteq Shape

VARIABLES
  memory,     \* the target's
  walk,       \* of find_lk_threads: what it does next, where it is, what it found
  threadlist, \* gc->threadlist: the current thread first, or empty
  lkFaults    \* accesses that failed

lkVars == <<memory, walk, threadlist, lkFaults>>

NoWalk == [at |-> "none", node |-> ListHead, list |-> <<>>, current |-> ListHead]

LkInit == memory \in Memories /\ walk = NoWalk /\ threadlist = <<>> /\ lkFaults = 0

Fails == lkFaults < MaxFaults /\ lkFaults' = lkFaults + 1

(* gdb_update_threads frees the list and starts the walk. *)
WalkStart ==
  /\ walk' = [NoWalk EXCEPT !.at = "info"] /\ threadlist' = <<>>
  /\ UNCHANGED lkFaults

WalkEnds(list) == walk' = NoWalk /\ threadlist' = list

(* load_debuginfo, current_thread_ptr and the current thread.  If it is the read of
   VTOR that fails, the vector table is taken to be at 0, where it may well be.     *)
HasMagic_bug(t) == TRUE
HasMagic(t) == t \in memory.magic
WalkInfo ==
  /\ walk.at = "info" /\ UNCHANGED memory
  /\ \/ /\ memory.info /\ HasMagic(memory.current)
        /\ walk' = [walk EXCEPT !.at = "next", !.current = memory.current]
        /\ UNCHANGED threadlist /\ (UNCHANGED lkFaults \/ Fails)
     \/ ~(memory.info /\ HasMagic(memory.current)) /\ WalkEnds(<<>>) /\ UNCHANGED lkFaults
     \/ Fails /\ WalkEnds(<<>>)

(* One turn of the loop.  A list that never comes back to its head is walked
   for ever; of what it finds, as many as there are threads are kept here.    *)
Keep(t) == IF Len(walk.list) < Cardinality(Threads) THEN <<t>> \o walk.list ELSE walk.list
IsCurrent(t) == t = walk.current
Passing_bug(n) == walk.node
Passing(n) == n
WalkNext ==
  /\ walk.at = "next" /\ UNCHANGED memory
  /\ LET n == memory.next[walk.node] IN
     \/ n = ListHead /\ WalkEnds(<<walk.current>> \o walk.list) /\ UNCHANGED lkFaults
     \/ /\ n # ListHead /\ IsCurrent(n)
        /\ walk' = [walk EXCEPT !.node = Passing(n)] /\ UNCHANGED <<threadlist, lkFaults>>
     \/ /\ n # ListHead /\ ~IsCurrent(n) /\ HasMagic(n)
        /\ walk' = [walk EXCEPT !.node = n, !.list = Keep(n)]
        /\ UNCHANGED <<threadlist, lkFaults>>
     \/ /\ n # ListHead /\ ~IsCurrent(n) /\ ~HasMagic(n)
        /\ WalkEnds(<<>>) /\ UNCHANGED lkFaults
     \/ Fails /\ WalkEnds(<<>>)

Walk == WalkInfo \/ WalkNext

-----------------------------------------------------------------------------
(* The nodes reached from the head of memory m's list: the least set closed under
   its links.                                                                   *)
Closed(m, S) == m.next[ListHead] \in S /\ \A n \in S : m.next[n] \in S
Within(m) == {n \in Nodes : \A S \in SUBSET Nodes : Closed(m, S) => n \in S}

(* What a walk should find; a list that does not come back has no head in it. *)
OnList(m) == Within(m) \ {ListHead}
Sound(m) == m.info /\ ListHead \in Within(m) /\ OnList(m) \cup {m.current} \subseteq m.magic
=============================================================================
