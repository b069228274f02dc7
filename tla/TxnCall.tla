------------------------------- MODULE TxnCall -------------------------------
(***************************************************************************)
(* What q_exec promises its callers, without threads, ids, buffers or      *)
(* links: a remote call that the probe runs at most once, and that reports *)
(* the probe's answer only if it did run.                                  *)
(***************************************************************************)
CONSTANT Threads
VARIABLE phase   \* "no" call, "called", "ran", "lost", or returned "ok"/"err"/"fail"

Step(t, from, to) == phase[t] \in from /\ phase' = [phase EXCEPT ![t] = to]

Init == phase = [t \in Threads |-> "no"]

Call(t)    == Step(t, {"no"}, "called")
Refuse(t)  == Step(t, {"no"}, "fail")              \* offline, or not written
Run(t)     == Step(t, {"called"}, "ran")
Lose(t)    == Step(t, {"called", "ran"}, "lost")   \* unplugged, or reply lost
Answer(t)  == Step(t, {"ran"}, "ok") \/ Step(t, {"ran"}, "err")
GiveUp(t)  == Step(t, {"lost"}, "fail")
Retire(t)  == Step(t, {"ok", "err", "fail"}, "no")

Next == \E t \in Threads : Call(t) \/ Refuse(t) \/ Run(t) \/ Lose(t)
                             \/ Answer(t) \/ GiveUp(t) \/ Retire(t)

Spec == Init /\ [][Next]_phase
=============================================================================
