------------------------------ MODULE GdbServer ------------------------------
(***************************************************************************)
(* gdb_server of tools/gdb-bridge.c: it takes gdb's packets from the socket  *)
(* byte by byte, answers them, reports stops, and passes on what the         *)
(* debugger prints during a monitor command.  gdb follows its protocol: one  *)
(* request at a time, ^C only while the target runs.                         *)
(*                                                                           *)
(* A packet's bytes are <<"$", "">>, <<"body", c>>, <<"#", "">> and two      *)
(* <<"sum", c>>, whatever is between $ and # being one body; ^C is           *)
(* <<"^C", "">>, an acknowledgement <<"+", "">>, the end of it <<"eof", "">>. *)
(***************************************************************************)
EXTENDS LkThreads, GdbMemory, Functions

CONSTANTS
  Requests,   \* the packets gdb sends
  Printers,   \* threads other than gdb's that print
  MaxPrints,  \* lines each of them prints, and lines of the monitor commands
  Mishaps,    \* what may go wrong or come in between, MaxFaults times in all:
              \* "access", "packet", "quit", "command"
  MaxAddr,    \* addresses of m and M
  MaxLen      \* and their lengths

ASSUME ServerAssumption == {MaxPrints, MaxAddr, MaxLen} \subseteq Nat
(* gdb is in "none" and "closing" between requests; the others are texts, not requests. *)
ASSUME NamesAssumption == /\ Requests \cap {"none", "closing", "stop", "^C", "O", ""} = {}
                          /\ "gdb" \notin Printers

Resumes == {"c", "s"}
Gdb == "gdb"                        \* gdb_server's thread
Writers == Printers \cup {Gdb}

VARIABLES
  asked,      \* the request gdb awaits the answer to, or "none"
  intr,       \* gdb sent ^C since it resumed the target
  met,        \* gdb has asked ? on this connection
  acked,      \* its request was acknowledged, or needs not be
  noAck,      \* gdb neither sends nor expects acknowledgements
  toServer,   \* the socket: bytes
  toGdb,      \* the socket: acknowledgements and packets
  rx,         \* gc->state, and the body received
  flags,      \* gc->flags: "ack", "running", "console"
  gselected, cselected,
  tx,         \* txbuf: what has been put in it since the last prologue
  io,         \* the memory access of the request in hand
  at,         \* where gdb_server is
  req,        \* the request in hand
  chunk,      \* bytes read and not yet received
  print,      \* what each thread is doing in gdb_console_puts
  prints,     \* lines each thread printed
  live,       \* the core executes
  ranSince,   \* history: the core has run since the last walk of its list began
  astray,     \* history: since gdb last resumed or halted the core, a halt failed or a
              \* command has moved it while gdb_server took it for stopped
  overlap,    \* history: two threads have been in the buffer at once, since it was last left
  late        \* history: ^C came when the stop was already reported

gdbVars == <<asked, intr, met, acked, noAck>>
links   == <<toServer, toGdb>>
rxVars  == <<rx, chunk>>
selVars == <<gselected, cselected>>
txVars  == <<tx, print, prints, overlap>>
coreVars == <<live, ranSince, astray>>
vars == <<lkVars, gdbVars, links, rxVars, flags, selVars, txVars, io, at, req, coreVars,
          late>>

Sent  == <<"sent", "">>
Unset == "unset"                    \* a pointer nobody has set
Null  == "null"
NoRequest == [cmd |-> "none", body |-> ""]
NoIo == [kind |-> "none", addr |-> 0, len |-> 0, bytes |-> <<>>, mem |-> <<>>, failed |-> {}]

Init ==
  /\ LkInit
  /\ asked = "none" /\ intr = FALSE /\ met = FALSE /\ acked = FALSE /\ noAck = FALSE
  /\ toServer = <<>> /\ toGdb = <<>>
  /\ rx = [state |-> "idle", body |-> "none", bad |-> FALSE] /\ chunk = <<>>
  /\ flags = {"ack"} /\ gselected = Unset /\ cselected = Unset
  /\ tx = <<Sent>> /\ print = [w \in Writers |-> "out"] /\ prints = [w \in Writers |-> 0]
  /\ io = NoIo /\ at = "check" /\ req = NoRequest
  /\ live = TRUE /\ ranSince = TRUE /\ astray = FALSE
  /\ overlap = FALSE /\ late = FALSE

-----------------------------------------------------------------------------
(* gdb *)

Mishap(kind) == kind \in Mishaps /\ Fails

Packet(c, sum) == <<<<"$", "">>, <<"body", c>>, <<"#", "">>, <<"sum", sum>>, <<"sum", sum>>>>
(* A damaged packet has another body than its sum is of; after NoAck none is. *)
SendPacket(c) ==
  \/ toServer' = toServer \o Packet(c, c) /\ UNCHANGED lkFaults
  \/ ~noAck /\ c # "huge" /\ toServer' = toServer \o Packet("other", c) /\ Mishap("packet")

(* gdb asks why the target stopped before it asks anything about threads.  It has
   read all it was sent; its last acknowledgement may be still to be read.     *)
GdbAsks ==
  /\ asked = "none" /\ ~late /\ toGdb = <<>> /\ toServer \in {<<>>, <<<<"+", "">>>>}
  /\ \E c \in Requests :
       /\ met \/ c \in {"?", "Hg", "NoAck", "other"}
       /\ asked' = c /\ met' = (met \/ c = "?") /\ SendPacket(c)
  /\ intr' = FALSE /\ acked' = noAck
  /\ UNCHANGED <<noAck, toGdb>>

GdbInterrupts ==
  /\ asked \in Resumes /\ acked /\ ~intr /\ intr' = TRUE
  /\ toServer' = Append(toServer, <<"^C", "">>)
  /\ UNCHANGED <<asked, met, acked, noAck, toGdb, lkFaults>>

Close ==
  /\ toServer' = Append(toServer, <<"eof", "">>) /\ toGdb' = <<>>
  /\ asked' = "closing" /\ intr' = FALSE /\ met' = FALSE /\ noAck' = FALSE
  /\ acked' = FALSE
(* After a late ^C gdb and the server disagree; what happens then is not modelled. *)
GdbQuits ==
  /\ asked # "closing" /\ Close /\ (Mishap("quit") \/ (late /\ UNCHANGED lkFaults))

Answers(p) == IF asked \in Resumes THEN p.to \in {"stop", "^C"} ELSE p.to = asked

(* gdb acknowledges a packet, and sends one again that was refused. *)
GdbTakes ==
  /\ toGdb # <<>> /\ toGdb' = Tail(toGdb) /\ UNCHANGED met
  /\ LET p == Head(toGdb) IN
     \/ /\ p.kind = "+" \/ (p.kind = "-" /\ asked = "none")
        /\ acked' = (asked # "none") /\ UNCHANGED <<asked, intr, noAck, toServer, lkFaults>>
     \/ /\ p.kind = "-" /\ asked # "none" /\ SendPacket(asked)
        /\ UNCHANGED <<asked, intr, acked, noAck>>
     \/ /\ p.kind = "packet" /\ p.whole /\ (p.to = "O" \/ Answers(p)) /\ UNCHANGED lkFaults
        /\ toServer' = IF noAck THEN toServer ELSE Append(toServer, <<"+", "">>)
        /\ noAck' = (noAck \/ p.to = "NoAck")
        /\ IF p.to = "O" THEN UNCHANGED <<asked, intr, acked>>
           ELSE asked' = "none" /\ intr' = FALSE /\ acked' = FALSE

(* A packet that fails its check, or answers another request than gdb's, makes
   gdb give the connection up.                                                *)
GdbRefuses ==
  /\ toGdb # <<>> /\ asked # "closing"
  /\ LET p == Head(toGdb) IN p.kind = "packet" /\ ~(p.whole /\ (p.to = "O" \/ Answers(p)))
  /\ Close /\ UNCHANGED lkFaults

(* gdb stops waiting for the answer to a packet that was too long. *)
GdbGivesUp ==
  /\ asked = "huge" /\ toServer = <<>> /\ asked' = "none"
  /\ UNCHANGED <<intr, met, acked, noAck, links, lkFaults>>

GdbSteps ==
  /\ GdbAsks \/ GdbInterrupts \/ GdbGivesUp \/ GdbQuits
  /\ UNCHANGED <<memory, walk, threadlist, rxVars, flags, selVars, txVars, io, at, req, coreVars, late>>

GdbReads ==
  /\ GdbTakes \/ GdbRefuses
  /\ UNCHANGED <<memory, walk, threadlist, rxVars, flags, selVars, txVars, io, at, req, coreVars, late>>

-----------------------------------------------------------------------------
(* The core.  What has become of its list is seen when the list is walked next, or
   at once if it is walked although the core runs.                                *)

CoreRuns ==
  /\ live /\ ranSince' = TRUE
  /\ \/ live' = FALSE /\ UNCHANGED memory
     \/ live' = TRUE /\ walk # NoWalk /\ memory' \in Memories
     \/ live' = TRUE /\ walk = NoWalk /\ UNCHANGED memory
  /\ UNCHANGED <<walk, threadlist, lkFaults, gdbVars, links, rxVars, flags, selVars, txVars, io,
                 at, req, astray, late>>

(* debugger_command, typed at the console or named by a monitor command, takes
   _dbg_lock for itself.  It may start the core, or leave it stopped having run
   (reset-stop) or with its memory written (download), or stop it; gdb_server is
   not told.                                                                      *)
Unlocked == at \in {"check", "poll", "recv", "handle", "monitor"}
MovesCore ==
  /\ ranSince' = TRUE /\ live' \in BOOLEAN /\ astray' = (astray \/ "running" \notin flags)
StopsCore == live /\ live' = FALSE /\ UNCHANGED <<ranSince, astray>>
Command ==
  /\ Unlocked /\ (MovesCore \/ StopsCore) /\ Mishap("command")
  /\ UNCHANGED <<memory, walk, threadlist, gdbVars, links, rxVars, flags, selVars, txVars, io,
                 at, req, late>>

(* swdp_core_halt, which may fail *)
Halt ==
  \/ live' = FALSE /\ astray' = FALSE /\ UNCHANGED lkFaults
  \/ Mishap("access") /\ astray' = TRUE /\ UNCHANGED live
(* swdp_core_resume and swdp_core_step, likewise *)
Resume ==
  /\ astray' = FALSE
  /\ \/ live' = TRUE /\ UNCHANGED lkFaults
     \/ Mishap("access") /\ UNCHANGED live

-----------------------------------------------------------------------------
(* The transmit buffer, shared by replies and console text *)

InBuffer(v) == print[v] \in {"text", "send", "reply"}
Enter(w) ==
  overlap' = ((overlap /\ \E v \in Writers : InBuffer(v)) \/ \E v \in Writers \ {w} : InBuffer(v))
Prologue(w) == tx' = <<>> /\ Enter(w)
Put(w, what) == tx' = Append(tx, what) /\ Enter(w)
(* The packet is what is in the buffer: whole if that is one text, put once.
   What was sent stays there, kept here as a mark.  No text that is put here fills
   txbuf, whose packets are dropped: the longest is the reply to an m of 1024 bytes. *)
Epilogue(w, to, body) ==
  /\ Enter(w) /\ tx' = <<Sent>>
  /\ toGdb' = IF asked = "closing" THEN toGdb
              ELSE Append(toGdb, [kind |-> "packet", to |-> to, body |-> body,
                                  whole |-> tx = <<<<w, to>>>>, alone |-> ~overlap'])

(* gdb_console_puts, called by whatever prints; it does nothing unless a monitor
   command is under way when it looks.                                       *)
PutsEnter(w) ==
  /\ "console" \in flags /\ print[w] = "out" /\ prints[w] < MaxPrints
  /\ prints' = [prints EXCEPT ![w] = @ + 1] /\ print' = [print EXCEPT ![w] = "flag"]
  /\ UNCHANGED <<tx, overlap, toGdb>>
PutsPrologue(w) ==
  /\ print[w] = "flag" /\ print' = [print EXCEPT ![w] = "text"]
  /\ Prologue(w) /\ UNCHANGED <<prints, toGdb>>
PutsText(w) ==
  /\ print[w] = "text" /\ print' = [print EXCEPT ![w] = "send"]
  /\ Put(w, <<w, "O">>) /\ UNCHANGED <<prints, toGdb>>
PutsSend(w) ==
  /\ print[w] = "send" /\ print' = [print EXCEPT ![w] = "out"]
  /\ Epilogue(w, "O", "text") /\ UNCHANGED prints

ConsolePuts(w) ==
  /\ PutsEnter(w) \/ PutsPrologue(w) \/ PutsText(w) \/ PutsSend(w)
  /\ UNCHANGED <<lkVars, gdbVars, toServer, rxVars, flags, selVars, io, at, req, coreVars,
                 late>>

-----------------------------------------------------------------------------
(* Handling a request.  A reply is put in the buffer under way, sent by Reply;
   gdb's thread is in "reply" in between.                                     *)

Rest == <<gdbVars, toServer>>

Compose(cmd, body) ==
  /\ tx' = <<<<Gdb, cmd>>>> /\ Enter(Gdb)
  /\ print' = [print EXCEPT ![Gdb] = "reply"] /\ req' = [cmd |-> cmd, body |-> body]

FirstThread == IF threadlist = <<>> THEN Null ELSE threadlist[1]
(* find_lk_thread, or the current thread; so for -1 and numbers of no thread *)
Find(t) == IF t \in Range(threadlist) THEN t ELSE FirstThread
(* gselected && !gselected->active: its registers are those it saved *)
Inactive == gselected \notin {Null, Unset, FirstThread}

(* Requests answered at once, with no effect on what is modelled; what Z and z do
   is in Breakpoints.  A register that could not be read is answered all the same. *)
Simple == {"g", "p", "G", "P", "T", "Z", "fThreadInfo", "other"}
Bodies(cmd) ==
  IF cmd \in {"g", "p"} THEN IF Inactive THEN {"saved"} ELSE {"core", "junk"}
  ELSE IF cmd \in {"G", "P"} THEN {IF Inactive THEN "" ELSE "OK"}
  ELSE IF cmd = "T" THEN {IF t \in Range(threadlist) THEN "OK" ELSE "E00" : t \in Threads}
  ELSE IF cmd = "Z" THEN {"OK", "E01"}
  ELSE IF cmd = "fThreadInfo" THEN {IF threadlist = <<>> THEN "m1" ELSE "list"}
  ELSE {""}
HandleSimple ==
  /\ req.cmd \in Simple /\ at' = "reply" /\ \E body \in Bodies(req.cmd) : Compose(req.cmd, body)
  /\ UNCHANGED <<lkVars, flags, selVars, io, coreVars, late>>

(* Hg and Hc select a thread. *)
HandleSelect ==
  /\ req.cmd \in {"Hg", "Hc"} /\ at' = "reply" /\ Compose(req.cmd, "OK")
  /\ \E t \in Nodes :
       /\ gselected' = IF req.cmd = "Hg" THEN Find(t) ELSE gselected
       /\ cselected' = IF req.cmd = "Hc" THEN Find(t) ELSE cselected
  /\ UNCHANGED <<lkVars, flags, io, coreVars, late>>

(* The memory before m and M touch it: each byte its own address *)
Fresh == [a \in 0 .. MaxAddr + MaxLen + MaxRead + 8 |-> a]
Data(n) == [i \in 1 .. n |-> 1000 + i]

HandleRead ==
  /\ req.cmd = "m" /\ at' = "reply" /\ Compose("m", "bytes")
  /\ \E x \in 0 .. MaxAddr, n \in 0 .. MaxLen, got \in 0 .. WordsRead(MaxRead) :
       /\ IF got < WordsRead(MaxRead) THEN Mishap("access") ELSE UNCHANGED lkFaults
       /\ io' = [NoIo EXCEPT !.kind = "read", !.addr = x, !.len = n,
                             !.bytes = ReadMemory(Fresh, x, n, got),
                             !.failed = IF got < WordsRead(MaxRead) THEN {"read"} ELSE {}]
  /\ UNCHANGED <<memory, walk, threadlist, flags, selVars, coreVars, late>>

(* M is answered OK whatever becomes of its accesses. *)
HandleWrite ==
  /\ req.cmd = "M" /\ at' = "reply" /\ Compose("M", "OK")
  /\ \E x \in 0 .. MaxAddr, n \in 0 .. MaxLen, failed \in SUBSET Accesses :
       /\ IF failed = {} THEN UNCHANGED lkFaults ELSE Cardinality(failed) = 1 /\ Mishap("access")
       /\ io' = [kind |-> "write", addr |-> x, len |-> n, bytes |-> Data(n),
                 mem |-> WriteMemory(Fresh, x, Data(n), failed), failed |-> failed]
  /\ UNCHANGED <<memory, walk, threadlist, flags, selVars, coreVars, late>>

HandleNoAck ==
  /\ req.cmd = "NoAck" /\ flags' = flags \ {"ack"} /\ Compose("NoAck", "OK") /\ at' = "reply"
  /\ UNCHANGED <<lkVars, selVars, io, coreVars, late>>

(* c and s have no answer until the core stops. *)
HandleResume ==
  /\ req.cmd \in Resumes /\ Resume /\ flags' = flags \cup {"running"}
  /\ req' = NoRequest /\ at' = "recv"
  /\ UNCHANGED <<memory, walk, threadlist, selVars, io, txVars, ranSince, late>>

(* ? and ^C halt the core, read its threads and report the stop. *)
HandleStop ==
  /\ req.cmd \in {"?", "^C"} /\ Compose(req.cmd, "S05") /\ at' = "update"
  /\ flags' = flags \ {"running"} /\ Halt
  /\ late' = (late \/ (req.cmd = "^C" /\ "running" \notin flags))
  /\ UNCHANGED <<memory, walk, threadlist, selVars, io, ranSince>>

(* A monitor command runs without the lock, and what is printed goes to gdb; what
   it does to the core is Command's, while gdb_server is in "monitor".            *)
HandleMonitor ==
  /\ req.cmd = "Rcmd" /\ flags' = flags \cup {"console"} /\ at' = "monitor"
  /\ UNCHANGED <<lkVars, selVars, req, io, txVars, coreVars, late>>

Handle ==
  /\ at = "handle"
  /\ \/ HandleSimple \/ HandleSelect \/ HandleRead \/ HandleWrite
     \/ HandleNoAck \/ HandleResume \/ HandleStop \/ HandleMonitor
  /\ UNCHANGED <<Rest, prints, toGdb, rxVars>>

(* The buffer still holds the last line printed: the prologue is needed again. *)
AfterMonitor_bug(text) == Append(tx, text)
AfterMonitor(text) == <<text>>
MonitorEnds ==
  /\ at = "monitor" /\ print[Gdb] = "out"
  /\ flags' = flags \ {"console"} /\ at' = "reply"
  /\ tx' = AfterMonitor(<<Gdb, "Rcmd">>) /\ Enter(Gdb)
  /\ print' = [print EXCEPT ![Gdb] = "reply"] /\ req' = [req EXCEPT !.body = "OK"]
  /\ prints' = [w \in Writers |-> 0]
  /\ UNCHANGED <<Rest, toGdb, rxVars, lkVars, selVars, io, coreVars, late>>

AfterReply_bug(cmd) == IF cmd = "stop" THEN "poll" ELSE "recv"
AfterReply(cmd) == IF cmd = "stop" THEN "update" ELSE "recv"
Reply ==
  /\ at = "reply" /\ Epilogue(Gdb, req.cmd, req.body)
  /\ print' = [print EXCEPT ![Gdb] = "out"] /\ io' = NoIo
  /\ at' = AfterReply(req.cmd)
  /\ req' = IF req.cmd = "stop" THEN req ELSE NoRequest
  /\ UNCHANGED <<Rest, prints, rxVars, lkVars, flags, selVars, coreVars, late>>

(* gdb_update_threads *)
UpdateThreads ==
  /\ at = "update" /\ WalkStart /\ at' = "walk"
  /\ ranSince' = FALSE /\ memory' \in IF ranSince THEN Memories ELSE {memory}
  /\ UNCHANGED <<Rest, toGdb, rxVars, flags, selVars, txVars, io, req, live, astray,
                 late>>
WalkGoesOn ==
  /\ at = "walk" /\ Walk
  /\ UNCHANGED <<Rest, toGdb, rxVars, flags, selVars, txVars, io, at, req, coreVars,
                 late>>
SelectAfter_bug(old) == old
SelectAfter(old) == FirstThread
ThreadsUpdated ==
  /\ at = "walk" /\ walk = NoWalk
  /\ gselected' = FirstThread /\ cselected' = SelectAfter(cselected)
  /\ at' = IF req.cmd = "stop" THEN "poll" ELSE "reply"
  /\ req' = IF req.cmd = "stop" THEN NoRequest ELSE req
  /\ UNCHANGED <<Rest, toGdb, rxVars, lkVars, flags, txVars, io, coreVars, late>>

-----------------------------------------------------------------------------
(* Receiving *)

Take(state, body, bad) ==
  rx' = [state |-> state, body |-> body, bad |-> bad] /\ chunk' = Tail(chunk)
Idles(b) == Take("idle", "none", FALSE) /\ at' = b

(* A packet has come: it is acknowledged, and handled if its sum is right. *)
SumRight_bug(b) == TRUE
SumRight(b) == b = rx.body
AckOf(b) == IF SumRight(b) THEN "+" ELSE "-"
Checked(b) ==
  /\ toGdb' = IF "ack" \in flags /\ asked # "closing"
                THEN Append(toGdb, [kind |-> AckOf(b), to |-> rx.body,
                                    body |-> "", whole |-> TRUE, alone |-> TRUE])
                ELSE toGdb
  /\ Idles(IF SumRight(b) THEN "handle" ELSE "recv")
  /\ req' = IF SumRight(b) THEN [cmd |-> rx.body, body |-> ""] ELSE req

(* gdb_recv, a byte; what does not belong to a packet is skipped. *)
Recv ==
  /\ at = "recv" /\ chunk # <<>>
  /\ LET c == Head(chunk) IN
     \/ /\ rx.state = "idle" /\ c[1] = "^C" /\ Idles("handle")
        /\ req' = [cmd |-> "^C", body |-> ""] /\ UNCHANGED toGdb
     \/ /\ rx.state = "idle" /\ c[1] = "$" /\ Take("recv", "none", FALSE)
        /\ UNCHANGED <<toGdb, req, at>>
     \/ /\ rx.state = "idle" /\ c[1] \notin {"^C", "$"} /\ Idles("recv")
        /\ UNCHANGED <<toGdb, req>>
     \/ /\ rx.state = "recv" /\ c[1] = "#" /\ Take("chk1", rx.body, FALSE)
        /\ UNCHANGED <<toGdb, req, at>>
     \/ /\ rx.state = "recv" /\ c[1] # "#"   \* rx_full: the packet is discarded
        /\ IF c[2] = "huge" THEN Idles("recv")
           ELSE Take("recv", c[2], FALSE) /\ UNCHANGED at
        /\ UNCHANGED <<toGdb, req>>
     \/ /\ rx.state = "chk1" /\ Take("chk2", rx.body, FALSE)
        /\ UNCHANGED <<toGdb, req, at>>
     \/ rx.state = "chk2" /\ Checked(c[2])
  /\ UNCHANGED <<Rest, lkVars, flags, selVars, txVars, io, coreVars, late>>

(* All that was read is received: back to the top of the loop. *)
ChunkDone ==
  /\ at = "recv" /\ chunk = <<>> /\ at' = "check"
  /\ UNCHANGED <<Rest, toGdb, rxVars, lkVars, flags, selVars, txVars, io, req, coreVars,
                 late>>

-----------------------------------------------------------------------------
(* The loop of gdb_server *)

(* "check ahead of the poll": has the core halted? *)
CheckStop ==
  /\ at = "check" /\ "running" \in flags /\ ~live
  /\ flags' = flags \ {"running"} /\ Compose("stop", "S05") /\ at' = "reply"
  /\ UNCHANGED <<Rest, prints, toGdb, rxVars, lkVars, selVars, io, coreVars, late>>
CheckNothing ==
  /\ at = "check" /\ at' = "poll"
  /\ \/ ("running" \notin flags \/ live) /\ UNCHANGED lkFaults
     \/ "running" \in flags /\ Mishap("access")
  /\ UNCHANGED <<Rest, toGdb, rxVars, memory, walk, threadlist, flags, selVars, txVars,
                 io, req, coreVars, late>>

(* A read returns a byte or all that has come, the end only by itself. *)
PollReads ==
  /\ at = "poll" /\ toServer # <<>> /\ Head(toServer) # <<"eof", "">>
  /\ \E n \in {1, Len(toServer)} :
       /\ \A i \in 1 .. n : toServer[i] # <<"eof", "">>
       /\ chunk' = SubSeq(toServer, 1, n) /\ toServer' = SubSeq(toServer, n + 1, Len(toServer))
  /\ at' = "recv"
  /\ UNCHANGED <<gdbVars, toGdb, rx, lkVars, flags, selVars, txVars, io, req, coreVars,
                 late>>
PollTimesOut ==
  /\ at = "poll" /\ "running" \in flags /\ at' = "check"
  /\ UNCHANGED <<Rest, toGdb, rxVars, lkVars, flags, selVars, txVars, io, req, coreVars,
                 late>>

(* The server returns; gdb connects again, and gdb_init sets the connection up,
   all but the two selected threads.                                          *)
Reconnect ==
  /\ at = "poll" /\ toServer # <<>> /\ Head(toServer) = <<"eof", "">>
  /\ toServer' = <<>> /\ toGdb' = <<>> /\ asked' = "none"
  /\ rx' = [state |-> "idle", body |-> "none", bad |-> FALSE] /\ chunk' = <<>>
  /\ flags' = {"ack"} /\ threadlist' = <<>> /\ gselected' = Unset /\ cselected' = Unset
  /\ at' = "check" /\ late' = FALSE
  /\ UNCHANGED <<intr, met, acked, noAck, memory, walk, lkFaults, txVars, io, req, coreVars>>

Server == \/ Handle \/ MonitorEnds \/ Reply \/ UpdateThreads \/ WalkGoesOn \/ ThreadsUpdated
          \/ Recv \/ ChunkDone \/ CheckStop \/ CheckNothing \/ PollReads \/ PollTimesOut
          \/ Reconnect

Next == GdbSteps \/ GdbReads \/ CoreRuns \/ Command \/ Server \/ \E w \in Writers : ConsolePuts(w)

Spec == Init /\ [][Next]_vars

(* gdb_server and the threads that print go on, a monitor command ends, and gdb
   reads what is sent to it.  Nothing is assumed of the core.                 *)
Fairness ==
  /\ WF_vars(Server) /\ \A w \in Writers : WF_vars(ConsolePuts(w))
  /\ WF_vars(GdbReads)
LiveSpec == Spec /\ Fairness

-----------------------------------------------------------------------------
(* Properties *)

(* gdb and gdb_server stay in step over damaged packets, reads that split or
   join packets, the switch to no acknowledgements and new connections: a packet
   that reaches gdb answers what gdb asked, and gdb takes the target for stopped
   only while gdb_server does.  A ^C that crosses the stop report it was too late
   for is answered by a second one, and nothing is promised after that.        *)
InStep ==
  late \/ /\ (toGdb # <<>> /\ Head(toGdb).kind = "packet" /\ Head(toGdb).whole
                /\ Head(toGdb).to # "O") => Answers(Head(toGdb))
          /\ (met /\ asked = "none") => "running" \notin flags

(* One buffer serves replies and console text: whatever gdb_server's own thread
   prints while it works on a request, every packet is one text, put once, unless
   another thread was in the buffer at the same time.                          *)
PacketsWhole == \A i \in DOMAIN toGdb : toGdb[i].whole \/ ~toGdb[i].alone

(* Once gdb has asked why the target stopped, the threads it selected are threads
   of the list that is in memory now, and not of one that has been freed.      *)
SelectionLive ==
  (met /\ asked # "?" /\ at \notin {"update", "walk"}) =>
     {gselected, cselected} \subseteq Range(threadlist) \cup {Null}

(* The threads gdb is shown of a core that has not run since are those on the
   target's list, each once and the running one first, and none if the list is
   not sound; and a sound list is found if every access was made.              *)
ThreadsAsInTarget ==
  (~ranSince /\ walk = NoWalk) =>
     /\ threadlist # <<>> =>
          /\ Sound(memory) /\ threadlist[1] = memory.current
          /\ Len(threadlist) = Cardinality(Range(threadlist))
          /\ Range(threadlist) = OnList(memory) \cup {memory.current}
     /\ (met /\ asked # "?" /\ Sound(memory) /\ lkFaults = 0) => threadlist # <<>>

(* When gdb takes the target for stopped and gdb_server waits for what it asks next,
   the core is stopped and its threads were read after it last ran, unless since gdb
   resumed or halted it a halt failed, or a command (the console's, or a monitor
   command) has moved the core: nothing tells gdb of that.                          *)
FreshAtStop ==
  (at = "poll" /\ met /\ asked = "none" /\ ~astray /\ ~late) => ~live /\ ~ranSince

(* M with every access made changes the bytes it names and no other. *)
WritesExact ==
  (io.kind = "write" /\ io.failed = {}) =>
     \A a \in DOMAIN Fresh :
        io.mem[a] = IF a - io.addr + 1 \in DOMAIN io.bytes THEN io.bytes[a - io.addr + 1] ELSE a

(* An m packet with every access made is answered with as many bytes as it asks for
   and fit, and they are the bytes it names; but of an address within a word the last
   few may be of a word that was not read.                                          *)
ReadsExact ==
  (io.kind = "read" /\ io.failed = {}) =>
     /\ Len(io.bytes) = Least(io.len, MaxRead)
     /\ \A i \in DOMAIN io.bytes :
          (io.addr % 4) + i <= Len(io.bytes) => io.bytes[i] = io.addr + i - 1

(* Every request of a packet's size is answered, or given up with the connection,
   over damaged packets and whatever is printed meanwhile.  But c and s wait for the
   core; the walk of a list that has no end, or of one that changes because the core
   could not be halted, may go on for ever; and a packet longer than rxbuf is
   discarded without an answer ("huge": PacketSize lets gdb send up to 0x2004 bytes,
   the buffer takes 8191).                                                          *)
Answered ==
  (asked \notin Resumes \cup {"none", "closing", "huge"}) ~>
     (asked \in {"none", "closing"} \/ (live /\ walk # NoWalk) \/ ListHead \notin Within(memory))
=============================================================================
