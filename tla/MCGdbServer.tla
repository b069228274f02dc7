----------------------------- MODULE MCGdbServer -----------------------------
(* Small instances of GdbServer for TLC. *)
EXTENDS GdbServer, TLC

CONSTANTS t1, t2, top

Links(a, b, c) == top :> a @@ t1 :> b @@ t2 :> c
Memory(i, m, n, t) == [info |-> i, magic |-> m, next |-> n, current |-> t]
Two  == Memory(TRUE, {t1, t2}, Links(t1, t2, top), t1)
Torn == Memory(TRUE, {t1}, Links(t1, t2, top), t2)
Loop == Memory(TRUE, {t1, t2}, Links(t1, t2, t1), t1)
AllMemories == {Two, Torn, Loop}

AllRequests == {"?", "Hg", "g", "m", "M", "Rcmd", "NoAck", "huge", "c"}
AllMishaps == {"access", "packet", "quit", "command"}
OneMore == {"reader"}
=============================================================================
