----------------------------- MODULE BootProofs ------------------------------
(***************************************************************************)
(* Theorems about Boot, for any images, memories and timeout: the requests *)
(* in GPREG and the timer (LoaderInv), lpcboot and the loader in step      *)
(* (BootInv, on types), what flash then holds (FlashWhole), and the memory *)
(* a job may touch (Ranged).                                               *)
(***************************************************************************)
EXTENDS Boot, TLAPS

(* A command is being served. *)
Serving == at \in {"ack", "info", "recv", "erase", "write", "final", "drain"}

(* The timer is stopped from the first command, or the request for the loader,
   on; and the request for the application is pending only where it is written,
   on the way to the reset that takes it.                                      *)
Timer ==
  /\ at = "enum" => ~kept
  /\ at = "loop" /\ kept => timeout = 0
  /\ Serving => timeout = 0
Request ==
  /\ at \in {"ack", "drain"} => (job.letter = "A" <=> gpreg = "app")
  /\ at \notin {"ack", "drain", "reset"} => gpreg # "app"
  /\ at = "reset" /\ kept => gpreg \in {"app", "stay"}
JobIsRecord == job = [letter |-> job.letter, left |-> job.left, page |-> job.page]

(* Wherever the timer still leads to the application, flash was seen to hold one. *)
Seen ==
  (\/ at = "enum"
   \/ at = "loop" /\ timeout # 0
   \/ at = "reset" /\ gpreg = "app" /\ ~kept
   \/ at = "app" /\ ~kept) => flash[1][1] # Blank

LoaderInv == Timer /\ Request /\ JobIsRecord /\ Seen

LEMMA Marks == Junk # Blank
BY DEF Junk, Blank

LEMMA InitLoader == Init => LoaderInv
BY DEF Init, LoaderInv, Timer, Request, JobIsRecord, Seen, Serving, NoJob

(* lpcboot and the bus change nothing of the device's. *)
LEMMA OthersLoader ==
  ASSUME LoaderInv, Open \/ Lpcboot \/ Abandon \/ BusSleeps \/ BusWakes \/ UNCHANGED vars
  PROVE  LoaderInv' /\ UNCHANGED deviceVars
<1>1. UNCHANGED deviceVars
  BY DEF Open, Lpcboot, SendCommand, ReadReply, ReadInfo, SendData, Finish, Abandon, BusSleeps,
         BusWakes, deviceVars, vars
<1>2. LoaderInv'
  BY <1>1 DEF LoaderInv, Timer, Request, JobIsRecord, Seen, Serving, deviceVars
<1>3. QED BY <1>1, <1>2

LEMMA StartAppLoader ==
  ASSUME LoaderInv, StartApp, at = "enum" \/ (at = "loop" /\ timeout = 1)
  PROVE  LoaderInv' /\ ~kept
BY DEF StartApp, LoaderInv, Timer, Request, JobIsRecord, Seen, Serving

LEMMA ReturnLoader ==
  ASSUME LoaderInv, at \in {"ack", "info", "final"}, Return,
         UNCHANGED <<timeout, gpreg, flash, kept>>
  PROVE  LoaderInv'
<1>1. at' \in {"recv", "info", "drain", "loop"} /\ timeout = 0
  BY DEF Return, AfterXmit, LoaderInv, Timer, Serving
<1>2. Timer' /\ Seen'
  BY <1>1 DEF LoaderInv, Timer, Seen, Serving
<1>3. JobIsRecord'
  BY DEF Return, NoJob, LoaderInv, JobIsRecord
<1>4. CASE at = "ack"
  <2>1. at' = "drain" <=> job.letter \notin {"W", "X", "Q"}
    BY <1>4 DEF Return, AfterXmit
  <2>2. at' # "loop" /\ job' = job
    BY <1>4 DEF Return, AfterXmit
  <2>3. Request'
    BY <1>1, <1>4, <2>1, <2>2 DEF LoaderInv, Request
  <2>4. QED BY <1>2, <1>3, <2>3 DEF LoaderInv
<1>5. CASE at # "ack"
  <2>1. at' = "drain" => job.letter = "X" /\ job' = job
    BY <1>5 DEF Return, AfterXmit
  <2>2. Request'
    BY <1>1, <1>5, <2>1 DEF LoaderInv, Request, Return, AfterXmit
  <2>3. QED BY <1>2, <1>3, <2>2 DEF LoaderInv
<1>6. QED BY <1>4, <1>5

LEMMA DrainLoader ==
  ASSUME LoaderInv, at = "drain", AfterDrain, UNCHANGED <<timeout, gpreg, flash>>
  PROVE  LoaderInv'
BY DEF AfterDrain, NoJob, LoaderInv, Timer, Request, JobIsRecord, Seen, Serving

LEMMA DeviceLoader ==
  ASSUME LoaderInv, Device
  PROVE  LoaderInv'
<1> USE DEF LoaderInv, Timer, Request, JobIsRecord, Seen, Serving
<1>1. CASE Reset
  <2>1. CASE gpreg = "app"
    BY <1>1, <2>1 DEF Reset, TakeRequest
  <2>2. CASE gpreg # "app"
    <3>1. PICK b \in BOOLEAN : IF HasImage(b) /\ gpreg # "stay"
                                 THEN timeout' = Wait /\ at' = "enum"
                                 ELSE timeout' = 0 /\ at' = "loop"
      BY <1>1, <2>2 DEF Reset
    <3>2. HasImage(b) => flash[1][1] # Blank
      BY Marks DEF HasImage
    <3>3. gpreg' = "none" /\ UNCHANGED <<job, flash, kept>>
      BY <1>1 DEF Reset, TakeRequest
    <3>4. at = "reset"
      BY <1>1 DEF Reset
    <3>5. QED BY <2>2, <3>1, <3>2, <3>3, <3>4
  <2>3. QED BY <2>1, <2>2
<1>2. CASE EnumTimeout
  BY <1>2, StartAppLoader DEF EnumTimeout
<1>3. CASE LoopTimeout
  <2>1. CASE timeout = 1 /\ StartApp
    BY <1>3, <2>1, StartAppLoader DEF LoopTimeout
  <2>2. CASE timeout # 1
    BY <1>3, <2>2 DEF LoopTimeout
  <2>3. QED BY <1>3, <2>1, <2>2 DEF LoopTimeout
<1>4. CASE RecvCommand
  <2>1. CASE out.kind = "cmd"
    <3>1. at = "loop" /\ timeout' = 0 /\ kept' = TRUE /\ UNCHANGED flash
      BY <1>4, <2>1 DEF RecvCommand, Handle, KeepLoader
    <3>2. job' = [letter |-> out.letter, left |-> out.arg, page |-> 1]
      BY <1>4, <2>1 DEF RecvCommand, Handle
    <3>3. gpreg' = IF out.letter = "A" THEN "app" ELSE gpreg
      BY <1>4, <2>1 DEF RecvCommand, Handle
    <3>4. at' \in {"final", "erase", "ack"}
      BY <1>4, <2>1 DEF RecvCommand, Handle, Refused
    <3>5. out.letter = "A" => at' = "ack"
      BY <1>4, <2>1 DEF RecvCommand, Handle, Refused, TooLong
    <3>6. QED BY <3>1, <3>2, <3>3, <3>4, <3>5
  <2>2. CASE out.kind # "cmd"
    BY <1>4, <2>2 DEF RecvCommand
  <2>3. QED BY <2>1, <2>2
<1>5. CASE Xmit
  BY <1>5, ReturnLoader DEF Xmit
<1>6. CASE Recv
  BY <1>6 DEF Recv, AfterRecv
<1>7. CASE Erase
  BY <1>7 DEF Erase
<1>8. CASE Write
  <2>1. at' \in {"recv", "final"} /\ at = "write" /\ UNCHANGED <<timeout, gpreg, kept>>
    BY <1>8 DEF Write
  <2>2. JobIsRecord'
    BY <1>8 DEF Write
  <2>3. QED BY <2>1, <2>2
<1>9. CASE Drain
  BY <1>9, DrainLoader DEF Drain
<1>10. QED BY <1>1, <1>2, <1>3, <1>4, <1>5, <1>6, <1>7, <1>8, <1>9 DEF Device

LEMMA WorldLoader ==
  ASSUME LoaderInv, Configure \/ AppResets \/ Deconfigure \/ PowerLoss
  PROVE  LoaderInv'
<1>1. CASE Configure
  BY <1>1 DEF Configure, LoaderInv, Timer, Request, JobIsRecord, Seen, Serving
<1>2. CASE AppResets
  BY <1>2 DEF AppResets, LoaderInv, Timer, Request, JobIsRecord, Seen, Serving
<1>3. CASE Deconfigure
  <2>1. UNCHANGED <<timeout, gpreg, flash>>
    BY <1>3 DEF Deconfigure
  <2>2. CASE at \in {"loop", "recv"}
    BY <1>3, <2>1, <2>2 DEF Deconfigure, AfterRecv, LoaderInv, Timer, Request, JobIsRecord, Seen,
                            Serving
  <2>3. CASE at \in {"ack", "info", "final"}
    BY <1>3, <2>1, <2>3, ReturnLoader DEF Deconfigure
  <2>4. CASE at = "drain"
    BY <1>3, <2>1, <2>4, DrainLoader DEF Deconfigure
  <2>5. QED BY <1>3, <2>2, <2>3, <2>4 DEF Deconfigure
<1>4. CASE PowerLoss
  BY <1>4 DEF PowerLoss, NoJob, LoaderInv, Timer, Request, JobIsRecord, Seen, Serving
<1>5. QED BY <1>1, <1>2, <1>3, <1>4

LEMMA NextLoader == LoaderInv /\ [Next]_vars => LoaderInv'
BY OthersLoader, DeviceLoader, WorldLoader DEF Next

LEMMA LoaderAlways == Spec => []LoaderInv
<1>1. QED BY InitLoader, NextLoader, PTL DEF Spec

(* RequestIsSpent for every instance: the words "start the application" in GPREG
   are taken by one reset, so an application that crashes cannot keep the loader
   from being reached.                                                          *)
THEOREM LoaderReachable == Spec => []RequestIsSpent
<1>1. LoaderInv => RequestIsSpent
  BY DEF LoaderInv, Request, RequestIsSpent
<1>2. QED BY <1>1, LoaderAlways, PTL

(* The timer of main starts the application only if the first word of flash was
   seen to be that of an image, and nothing has erased it since.               *)
THEOREM NeverStartsBlank == Spec => []NotBlank
<1>1. LoaderInv => NotBlank
  BY DEF LoaderInv, Seen, NotBlank
<1>2. QED BY <1>1, LoaderAlways, PTL

(* StaysWhenAsked for every instance: "timeout = 0" at the first command, and for
   the request in GPREG, holds until the next reset.                            *)
THEOREM LoaderStays == Spec => StaysWhenAsked
<1> DEFINE Leaves == at \in {"enum", "loop"} /\ at' = "reset" /\ gpreg' = "app"
<1>1. ASSUME LoaderInv, [Next]_vars, Leaves
      PROVE  ~kept
  <2>1. ~(UNCHANGED deviceVars)
    BY <1>1 DEF deviceVars
  <2>2. CASE Device
    <3>1. CASE EnumTimeout
      BY <1>1, <3>1, StartAppLoader DEF EnumTimeout
    <3>2. CASE LoopTimeout
      BY <1>1, <3>2, StartAppLoader DEF LoopTimeout
    <3>3. CASE RecvCommand
      BY <1>1, <3>3 DEF RecvCommand, Handle, Refused
    <3>4. QED BY <1>1, <2>2, <3>1, <3>2, <3>3 DEF Device, Reset, Xmit, Recv, Erase, Write, Drain
  <2>3. CASE Configure \/ AppResets \/ Deconfigure \/ PowerLoss
    BY <1>1, <2>3 DEF Configure, AppResets, Deconfigure, PowerLoss, AfterRecv
  <2>4. QED BY <1>1, <2>1, <2>2, <2>3, OthersLoader DEF Next
<1>2. LoaderInv /\ [Next]_vars => [Leaves => ~kept]_vars
  BY <1>1
<1>3. QED BY <1>2, LoaderAlways, PTL DEF Spec, StaysWhenAsked
-----------------------------------------------------------------------------
(* Types *)

Memory == [1 .. PagePackets -> Contents]
Runs == [at : {"send", "reply", "info", "data", "final", "okay"},
         letter : Letters, img : Images, sent : Nat]
Typed ==
  /\ at \in Places /\ reply \in {"ok", "fail"} /\ in \in {"none", "ok", "fail", "info"}
  /\ gpreg \in {"none", "app", "stay"} /\ got \in Nat /\ timeout \in Nat /\ hazards \in Nat
  /\ job \in [letter : Letters \cup {"none"}, left : Nat, page : Nat \ {0}]
  /\ flash \in [1 .. RomPages -> Memory] /\ ram \in [1 .. RamPackets -> Contents]
  /\ out \in {NoPacket} \cup CmdPackets \cup DataPackets
  /\ host \in {NoRun} \cup Runs

(* What the expressions of the actions are. *)
LEMMA Pieces ==
  /\ Blank \in Contents /\ Junk \in Contents
  /\ Page(Blank) \in Memory /\ Page(Junk) \in Memory /\ Stale \in [1 .. RamPackets -> Contents]
  /\ \A i \in Images, k \in Nat \ {0} : Packet(i, k) \in DataPackets /\ Packet(i, k) \in Contents
<1>1. Blank \in Contents /\ Junk \in Contents
  BY DEF Contents
<1>2. \A i \in Images, k \in Nat \ {0} : Packet(i, k) \in DataPackets /\ Packet(i, k) \in Contents
  BY DEF Packet, DataPackets, Contents
<1>3. QED BY <1>1, <1>2 DEF Page, Memory, Stale

LEMMA Shown ==
  ASSUME Typed
  PROVE  /\ host.at # "idle" => Packet(host.img, host.sent + 1) \in DataPackets
         /\ FileLength \in {0} \cup {Length[i] : i \in Images} /\ FileLength \in Nat
         /\ NoJob \in [letter : Letters \cup {"none"}, left : Nat, page : Nat \ {0}]
         /\ Burnt \in Memory
<1>1. host.at # "idle" => Packet(host.img, host.sent + 1) \in DataPackets
  <2>1. host.at # "idle" => host.img \in Images /\ host.sent + 1 \in Nat \ {0}
    BY DEF Typed, NoRun, Runs
  <2>2. QED BY <2>1, Pieces
<1>2. FileLength \in {0} \cup {Length[i] : i \in Images} /\ FileLength \in Nat
  BY BootAssumption DEF Typed, FileLength, NoRun, Runs, WithFile
<1>3. NoJob \in [letter : Letters \cup {"none"}, left : Nat, page : Nat \ {0}]
  BY DEF NoJob
<1>4. Burnt \in Memory
  <2>1. [k \in 1 .. PagePackets |-> ram[k]] \in Memory
    BY BootAssumption DEF Typed, Memory
  <2>2. QED BY <2>1, Pieces DEF Burnt
<1>5. QED BY <1>1, <1>2, <1>3, <1>4

LEMMA Kinds ==
  ASSUME Typed
  PROVE  /\ out = NoPacket <=> out.kind = "none"
         /\ out.kind = "cmd" => out \in CmdPackets /\ out.letter \in Letters /\ out.arg \in Nat
         /\ out.kind = "data" => out \in DataPackets
         /\ out # NoPacket => Units(out) \in {1, 2}
<1>1. CASE out = NoPacket
  BY <1>1 DEF NoPacket
<1>2. CASE out \in CmdPackets
  BY <1>2, BootAssumption DEF CmdPackets, NoPacket, Units
<1>3. CASE out \in DataPackets
  BY <1>3 DEF DataPackets, NoPacket, Units
<1>4. QED BY <1>1, <1>2, <1>3 DEF Typed

LEMMA InitTyped == Init => Typed
<1> SUFFICES ASSUME Init PROVE Typed
  OBVIOUS
<1>1. \A i \in Images : [p \in 1 .. RomPages |-> ImagePage(i, p)] \in [1 .. RomPages -> Memory]
  <2>1. \A i \in Images, p \in 1 .. RomPages, k \in 1 .. PagePackets :
          (p - 1) * PagePackets + k \in Nat \ {0}
    BY BootAssumption
  <2>2. QED BY <2>1, Pieces DEF ImagePage, Memory
<1>2. flash \in [1 .. RomPages -> Memory]
  BY <1>1, Pieces DEF Init
<1>3. QED BY <1>2, Pieces DEF Init, Typed, Places, NoJob, NoPacket, NoRun

LEMMA LpcbootTyped ==
  ASSUME Typed, Open \/ Lpcboot \/ Abandon \/ BusSleeps \/ BusWakes \/ UNCHANGED vars
  PROVE  Typed'
<1>1. CASE Open
  BY <1>1 DEF Open, Typed, Runs, deviceVars, faultVars
<1>2. CASE SendCommand
  <2>1. out' \in CmdPackets
    BY <1>2, Shown DEF SendCommand, CmdPackets, Typed, Runs, NoRun
  <2>2. QED BY <1>2, <2>1 DEF SendCommand, Typed, Runs, NoRun, deviceVars, faultVars
<1>3. CASE ReadReply
  BY <1>3 DEF ReadReply, AfterReply, Typed, Runs, NoRun, deviceVars, faultVars
<1>4. CASE ReadInfo
  BY <1>4 DEF ReadInfo, Typed, deviceVars, faultVars
<1>5. CASE SendData
  <2>1. out' \in DataPackets
    BY <1>5, Shown DEF SendData
  <2>2. host \in Runs
    BY <1>5 DEF SendData, Typed, NoRun
  <2>3. host' \in Runs
    <3> DEFINE next == IF host.sent + 1 = Packets(FileLength) THEN "final" ELSE "data"
    <3>1. next \in {"final", "data"}
      OBVIOUS
    <3>2. host' = [host EXCEPT !.sent = host.sent + 1, !.at = next]
      BY <1>5 DEF SendData
    <3> HIDE DEF next
    <3>3. host' = [at |-> next, letter |-> host.letter, img |-> host.img, sent |-> host.sent + 1]
      BY <2>2, <3>2 DEF Runs
    <3>4. host.letter \in Letters /\ host.img \in Images /\ host.sent + 1 \in Nat
      BY <2>2 DEF Runs
    <3>5. QED BY <3>1, <3>3, <3>4 DEF Runs
  <2>4. UNCHANGED <<deviceVars, faultVars, in>>
    BY <1>5 DEF SendData
  <2>5. QED BY <2>1, <2>3, <2>4 DEF Typed, deviceVars, faultVars
<1>6. CASE Finish
  BY <1>6 DEF Finish, Typed, deviceVars, faultVars
<1>7. CASE Abandon \/ BusSleeps \/ BusWakes \/ UNCHANGED vars
  BY <1>7 DEF Abandon, BusSleeps, BusWakes, Hazard, vars, Typed, deviceVars, usbVars
<1>8. QED BY <1>1, <1>2, <1>3, <1>4, <1>5, <1>6, <1>7 DEF Lpcboot

LEMMA StartAppTyped ==
  ASSUME Typed, StartApp
  PROVE  Typed'
BY DEF StartApp, Detach, Typed, Places, faultVars

LEMMA DeviceTyped ==
  ASSUME Typed, Device
  PROVE  Typed'
<1>1. CASE Reset
  BY <1>1, BootAssumption DEF Reset, TakeRequest, Typed, Places, usbVars, faultVars
<1>2. CASE EnumTimeout
  BY <1>2, StartAppTyped DEF EnumTimeout
<1>3. CASE LoopTimeout
  <2>1. CASE timeout = 1 /\ StartApp
    BY <2>1, StartAppTyped
  <2>2. CASE timeout # 1
    <3>1. timeout' \in Nat
      BY <1>3, <2>2 DEF LoopTimeout, Typed
    <3>2. UNCHANGED <<at, job, got, reply, gpreg, flash, ram, usbVars, host, faultVars>>
      BY <1>3, <2>2 DEF LoopTimeout
    <3>3. QED BY <3>1, <3>2 DEF Typed, faultVars, usbVars
  <2>3. QED BY <1>3, <2>1, <2>2 DEF LoopTimeout
<1>4. CASE RecvCommand
  <2>1. CASE out.kind = "cmd"
    <3>1. out.letter \in Letters /\ out.arg \in Nat
      BY <2>1, Kinds
    <3>2. Handle
      BY <1>4, <2>1 DEF RecvCommand
    <3>3. reply' \in {"ok", "fail"} /\ at' \in Places /\ gpreg' \in {"none", "app", "stay"}
      BY <3>2 DEF Handle, Refused, Places, Typed
    <3>4. job' \in [letter : Letters \cup {"none"}, left : Nat, page : Nat \ {0}] /\ timeout' \in Nat
      BY <3>1, <3>2 DEF Handle, KeepLoader
    <3>5. QED BY <1>4, <3>3, <3>4 DEF RecvCommand, Typed, faultVars
  <2>2. CASE out.kind # "cmd"
    BY <1>4, <2>2 DEF RecvCommand, Typed, faultVars
  <2>3. QED BY <2>1, <2>2
<1>5. CASE Xmit
  <2>1. at' \in Places /\ job' \in [letter : Letters \cup {"none"}, left : Nat, page : Nat \ {0}]
        /\ reply' \in {"ok", "fail"} /\ got' = 0
    BY <1>5, Shown DEF Xmit, Return, AfterXmit, Typed, Places
  <2>2. in' \in {"none", "ok", "fail", "info"}
    BY <1>5 DEF Xmit, Typed
  <2>3. QED BY <1>5, <2>1, <2>2 DEF Xmit, Typed, faultVars
<1>6. CASE Recv
  <2>1. Due \in Nat /\ Units(out) \in {1, 2}
    BY <1>6, Kinds, BootAssumption DEF Recv, Due, Least, PageUnits, Typed
  <2>2. got' \in Nat
    BY <1>6, <2>1 DEF Recv, Least, Typed
  <2>3. (IF out.kind = "data" THEN out ELSE Junk) \in Contents
    BY Kinds, Pieces DEF Contents
  <2>4. ram' \in [1 .. RamPackets -> Contents]
    BY <1>6, <2>3 DEF Recv, Typed
  <2>5. at' \in Places
    BY <1>6 DEF Recv, AfterRecv, Places
  <2>6. QED BY <1>6, <2>2, <2>4, <2>5 DEF Recv, Typed, faultVars
<1>7. CASE Erase
  BY <1>7, Pieces DEF Erase, Hazard, Typed, Places, usbVars
<1>8. CASE Write
  <2>1. Due \in Nat /\ job.left - Due \in Nat
    BY BootAssumption DEF Due, Least, PageUnits, Typed
  <2>2. job' \in [letter : Letters \cup {"none"}, left : Nat, page : Nat \ {0}]
    BY <1>8, <2>1 DEF Write, NextPage, Typed
  <2>3. flash' \in [1 .. RomPages -> Memory] /\ hazards' \in Nat
    BY <1>8, Shown DEF Write, Hazard, Typed
  <2>4. QED BY <1>8, <2>2, <2>3, Pieces DEF Write, Typed, Places, usbVars
<1>9. CASE Drain
  BY <1>9, Shown DEF Drain, AfterDrain, Detach, Typed, Places, faultVars
<1>10. QED BY <1>1, <1>2, <1>3, <1>4, <1>5, <1>6, <1>7, <1>8, <1>9 DEF Device

LEMMA WorldTyped ==
  ASSUME Typed, Configure \/ AppResets \/ Deconfigure \/ PowerLoss
  PROVE  Typed'
<1>1. CASE Configure
  BY <1>1 DEF Configure, Typed, Places, faultVars
<1>2. CASE AppResets
  BY <1>2, Pieces DEF AppResets, Typed, Places, usbVars, faultVars
<1>3. CASE Deconfigure
  <2>1. hazards' \in Nat /\ out' = NoPacket /\ in' = "none"
        /\ UNCHANGED <<timeout, gpreg, flash, ram, host>>
    BY <1>3 DEF Deconfigure, Hazard, Detach, AfterDrain, Typed
  <2>2. at' \in Places /\ reply' \in {"ok", "fail"} /\ got' \in Nat
        /\ job' \in [letter : Letters \cup {"none"}, left : Nat, page : Nat \ {0}]
    BY <1>3, Shown DEF Deconfigure, Return, AfterXmit, AfterDrain, AfterRecv, Typed, Places
  <2>3. QED BY <2>1, <2>2 DEF Typed
<1>4. CASE PowerLoss
  <2>1. flash' \in [1 .. RomPages -> Memory]
    BY <1>4, Shown, Pieces DEF PowerLoss, Typed
  <2>2. QED BY <1>4, <2>1, Shown, Pieces DEF PowerLoss, Hazard, Detach, Typed, Places
<1>5. QED BY <1>1, <1>2, <1>3, <1>4

LEMMA TypedAlways == Spec => []Typed
<1>1. Typed /\ [Next]_vars => Typed'
  BY LpcbootTyped, DeviceTyped, WorldTyped DEF Next
<1>2. QED BY InitTyped, <1>1, PTL DEF Spec

-----------------------------------------------------------------------------
(* Arithmetic: places in pages, half packets in packets *)

LEMMA Mono ==
  ASSUME NEW a \in Nat, NEW b \in Nat, a <= b
  PROVE  a * PagePackets <= b * PagePackets
<1>1. PagePackets \in Nat
  BY BootAssumption
<1>2. b * PagePackets = a * PagePackets + (b - a) * PagePackets
  BY <1>1
<1>3. (b - a) * PagePackets \in Nat
  BY <1>1
<1>4. QED BY <1>1, <1>2, <1>3

(* The place of packet q * PagePackets + r, as InFlash computes it; and that every
   packet has one.                                                               *)
LEMMA Where ==
  ASSUME NEW q \in Nat, NEW r \in 1 .. PagePackets
  PROVE  /\ ((q * PagePackets + r - 1) \div PagePackets) + 1 = q + 1
         /\ ((q * PagePackets + r - 1) % PagePackets) + 1 = r
BY BootAssumption

LEMMA Divided ==
  ASSUME NEW P \in Nat \ {0}, NEW m \in Nat
  PROVE  m \div P \in Nat /\ m % P \in 0 .. P - 1 /\ m = (m \div P) * P + (m % P)
<1>1. m \div P \in Nat
  OBVIOUS
<1>2. m % P \in 0 .. P - 1
  OBVIOUS
<1>3. m = (m \div P) * P + (m % P)
  OBVIOUS
<1>4. QED BY <1>1, <1>2, <1>3

LEMMA Split ==
  ASSUME NEW k \in Nat \ {0}
  PROVE  \E q \in Nat, r \in 1 .. PagePackets : k = q * PagePackets + r
<1>1. PagePackets \in Nat \ {0} /\ k - 1 \in Nat
  BY BootAssumption
<1> DEFINE q == (k - 1) \div PagePackets
           r == (k - 1) % PagePackets
<1>2. q \in Nat /\ r \in 0 .. PagePackets - 1 /\ k - 1 = q * PagePackets + r
  BY <1>1, Divided
<1> HIDE DEF q, r
<1>3. r + 1 \in 1 .. PagePackets /\ k = q * PagePackets + (r + 1)
  BY <1>1, <1>2
<1>4. QED BY <1>2, <1>3

LEMMA Below ==
  ASSUME NEW q \in Nat, NEW r \in 1 .. PagePackets, NEW n \in Nat, q * PagePackets + r <= n * PagePackets
  PROVE  q + 1 <= n
<1>1. PagePackets \in Nat /\ n * PagePackets \in Nat /\ q * PagePackets \in Nat
  BY BootAssumption
<1>2. n <= q => n * PagePackets <= q * PagePackets
  BY Mono
<1>3. QED BY <1>1, <1>2
LEMMA NextBase ==
  ASSUME NEW p \in Nat \ {0}
  PROVE  (p + 1 - 1) * PagePackets = (p - 1) * PagePackets + PagePackets
BY BootAssumption
LEMMA Halves ==
  ASSUME NEW n \in Nat
  PROVE  /\ Packets(n) \in Nat /\ (n > 0 => Packets(n) > 0) /\ Packets(0) = 0
         /\ Packets(n + 2) = Packets(n) + 1
         /\ n % 2 = 0 => Packets(n + 1) = Packets(n) + 1 /\ Packets(n) = n \div 2 /\ (n + 2) % 2 = 0
         /\ n % 2 \in {0, 1}
         /\ \A m \in Nat : Packets(2 * m + n) = m + Packets(n)
BY DEF Packets

-----------------------------------------------------------------------------
(* lpcboot and the loader, in step.  This is the inductive invariant of what they
   promise: for each point of lpcboot, where the loader is, what the two buffers
   hold, and, while data go out, that file, buffer, RAM and flash add up.         *)

Busy == {"ack", "info", "recv", "erase", "write", "final"}
Whole == Packets(Length[host.img])
Fits == Length[host.img] <= 2 * (IF host.letter = "W" THEN RomPages * PagePackets ELSE RamPackets)
Base == (job.page - 1) * PagePackets
PagesHold(n) == \A p \in 1 .. n : flash[p] = ImagePage(host.img, p)

(* Nothing on the way, and the loader not in a command. *)
Quiet == out = NoPacket /\ in = "none" /\ at \notin Busy
(* After the command: it is in the buffer; the loader is at it; it has answered,
   and the answer tells how it went.                                            *)
Accepted == job = [letter |-> host.letter, left |-> FileLength, page |-> 1]
Command == /\ out = [kind |-> "cmd", letter |-> host.letter, arg |-> FileLength]
           /\ in = "none" /\ at \in {"loop", "drain"}
Answering ==
  /\ out = NoPacket /\ in = "none"
  /\ \/ /\ at = "ack" /\ reply = "ok" /\ Accepted
        /\ host.letter \in {"W", "X", "Q", "A", "R"} /\ (host.letter \in {"W", "X"} => Fits)
     \/ at = "erase" /\ reply = "ok" /\ Accepted /\ host.letter = "E"
     \/ /\ at = "final" /\ reply = "ok" /\ host.letter = "E" /\ job.letter = "E"
        /\ flash[1] = Page(Blank)
     \/ at = "final" /\ reply = "fail"
Answered ==
  /\ out = NoPacket
  /\ \/ in = "fail" /\ at = "loop"
     \/ in = "ok" /\ at = "loop" /\ host.letter = "E" /\ flash[1] = Page(Blank)
     \/ /\ in = "ok" /\ at = "recv" /\ host.letter \in {"W", "X"} /\ Fits /\ Accepted
        /\ got = 0 /\ reply = "ok"
     \/ in = "ok" /\ at = "info" /\ host.letter = "Q"
     \/ in = "ok" /\ at = "drain" /\ host.letter \in {"A", "R"}
Informed == out = NoPacket /\ ((at = "info" /\ in = "none") \/ (at = "loop" /\ in = "info"))
(* While the file goes out: the pages before the one in hand are in flash, what
   was received of this one is in RAM, and one packet more may be in the buffer. *)
Stored == \A k \in 1 .. Packets(got) : ram[k] = Packet(host.img, Base + k)
Counted == host.sent = Base + Packets(got) + (IF out = NoPacket THEN 0 ELSE 1)
Sending ==
  /\ host.letter \in {"W", "X"} /\ job.letter = host.letter /\ reply = "ok" /\ in = "none" /\ Fits
  /\ at \in {"recv", "erase", "write"} /\ (host.letter = "X" => at = "recv" /\ job.page = 1)
  /\ job.left = Length[host.img] - 2 * Base /\ job.left > 0
  /\ IF at = "recv" THEN got < Due /\ got % 2 = 0 ELSE got = Due
  /\ Stored /\ Counted
  /\ out \in {NoPacket, Packet(host.img, host.sent)}
  /\ host.letter = "W" => PagesHold(job.page - 1)
  /\ at = "write" => flash[job.page] = Page(Blank)
(* What OKAY tells; and the way there from the last of the data. *)
Done == /\ host.letter = "W" => InFlash(host.img)
        /\ host.letter = "E" => flash[1] = Page(Blank)
        /\ host.letter = "X" /\ attached => \A k \in 1 .. Whole : ram[k] = Packet(host.img, k)
Ending == /\ out = NoPacket /\ host.letter \in {"W", "X"} /\ Done
          /\ \/ in = "none" /\ at = "final" /\ reply = "ok" /\ job.letter = host.letter
             \/ in = "ok" /\ at \in {"loop", "drain"}

(* A device that is not configured has no packets and no lpcboot with a handle. *)
Offline == /\ ~online => out = NoPacket /\ in = "none" /\ ~attached
           /\ at \in {"reset", "enum", "app", "ram"} => ~online
(* The above for each point of lpcboot, with and without its handle. *)
Talk ==
  /\ host.at = "send" => host.sent = 0
  /\ host.at = "reply" => host.sent = 0 /\ (Command \/ Answering \/ Answered)
  /\ host.at = "info" => Informed
  /\ host.at = "data" => Sending /\ host.sent < Whole
  /\ host.at = "final" => host.sent = Whole /\ (Sending \/ Ending)
Rest ==
  /\ ~attached \/ host.at \in {"idle", "send", "okay"} => Quiet
  /\ host.at = "okay" => Done
Tracked == trusted => Rest /\ (attached => Talk)
(* As long as nothing went wrong flash is blank, whole or being written. *)
Writing == at \in {"recv", "erase", "write"} /\ job.letter = "W"
FlashWhole ==
  hazards = 0 => /\ trusted
                 /\ \/ Writing
                    \/ flash[1][1] = Blank
                    \/ \E i \in Images : InFlash(i)

BootInv == Typed /\ Offline /\ Tracked

LEMMA InitBoot == Init => BootInv
<1> SUFFICES ASSUME Init PROVE BootInv
  OBVIOUS
<1>1. Offline
  BY DEF Init, Offline
<1>2. host.at = "idle" /\ Quiet /\ ~attached
  BY DEF Init, NoRun, Quiet, Busy
<1>3. QED BY <1>1, <1>2, InitTyped DEF BootInv, Tracked, Rest

LEMMA DoneKept ==
  ASSUME Done, UNCHANGED <<flash, host>>, attached' => attached /\ ram' = ram
  PROVE  Done'
BY DEF Done, InFlash, Whole

(* The device is gone from the bus: no packets, and no lpcboot that goes on. *)
LEMMA Gone ==
  ASSUME Tracked, out' = NoPacket, in' = "none", ~attached', at' \notin Busy,
         UNCHANGED <<host>>, trusted' => trusted, host.at = "okay" => flash' = flash \/ at \in Busy
  PROVE  Tracked'
<1> SUFFICES ASSUME trusted' PROVE Rest'
  BY DEF Tracked
<1>1. Rest
  BY DEF Tracked
<1>2. Quiet'
  BY DEF Quiet, Busy
<1>3. host.at = "okay" => Done'
  BY <1>1, DoneKept DEF Rest, Quiet
<1>4. QED BY <1>2, <1>3 DEF Rest

(* The steps of lpcboot. *)
LEMMA OpenStep ==
  ASSUME BootInv, Open
  PROVE  Offline' /\ Tracked'
<1>1. host.at = "idle" /\ online /\ attached' /\ host'.at = "send" /\ host'.sent = 0
      /\ UNCHANGED <<at, out, in, online, trusted>>
  BY DEF Open, deviceVars, faultVars
<1>2. Offline'
  BY <1>1 DEF BootInv, Offline
<1>3. trusted => Quiet'
  BY <1>1 DEF BootInv, Tracked, Rest, Quiet, Busy
<1>4. QED BY <1>1, <1>2, <1>3 DEF Tracked, Rest, Talk

LEMMA CommandStep ==
  ASSUME BootInv, SendCommand
  PROVE  Offline' /\ Tracked'
<1>1. /\ attached /\ host.at = "send" /\ out' = [kind |-> "cmd", letter |-> host.letter, arg |-> FileLength]
      /\ UNCHANGED <<at, in, online, attached, trusted>>
      /\ host' = [host EXCEPT !.at = "reply"]
  BY DEF SendCommand, CanSend, deviceVars, faultVars
<1>2. Offline'
  BY <1>1 DEF BootInv, Offline
<1>3. host'.at = "reply" /\ host'.letter = host.letter /\ host'.img = host.img /\ host'.sent = host.sent
  BY <1>1 DEF BootInv, Typed, NoRun, Runs
<1>4. trusted => Command'
  <2>1. FileLength' = FileLength
    BY <1>3 DEF FileLength
  <2>2. at \in Places \ {"reset", "enum", "app", "ram"}
    BY <1>1 DEF BootInv, Typed, Offline
  <2>3. trusted => at \notin Busy /\ in = "none"
    BY <1>1 DEF BootInv, Tracked, Rest, Quiet
  <2>4. QED BY <1>1, <1>3, <2>1, <2>2, <2>3 DEF Command, Places, Busy
<1>5. trusted => host.sent = 0
  BY <1>1 DEF BootInv, Tracked, Talk
<1>6. QED BY <1>1, <1>2, <1>3, <1>4, <1>5 DEF Tracked, Rest, Talk

LEMMA ReplyStep ==
  ASSUME BootInv, ReadReply
  PROVE  Offline' /\ Tracked'
<1>1. /\ attached /\ host.at \in {"reply", "final"} /\ in # "none" /\ in' = "none"
      /\ UNCHANGED <<deviceVars, out, online, attached, trusted>>
      /\ host' = (IF AfterReply = "idle" THEN NoRun ELSE [host EXCEPT !.at = AfterReply])
  BY DEF ReadReply, faultVars
<1>2. Offline'
  BY <1>1 DEF BootInv, Offline, deviceVars
<1>3. AfterReply \in {"idle", "okay", "info", "data"} 
  BY DEF AfterReply
<1>4. AfterReply # "idle" =>
        host'.at = AfterReply /\ host'.letter = host.letter /\ host'.img = host.img /\ host'.sent = host.sent
  BY <1>1 DEF BootInv, Typed, NoRun, Runs
<1>5. AfterReply = "idle" => host'.at = "idle"
  BY <1>1 DEF NoRun
<1> SUFFICES ASSUME trusted PROVE Rest' /\ Talk'
  BY <1>1, <1>2 DEF Tracked
<1>6. Talk
  BY <1>1 DEF BootInv, Tracked
<1>7. CASE host.at = "reply"
  <2>1. Answered /\ host.sent = 0
    BY <1>1, <1>6, <1>7 DEF Talk, Command, Answering
  <2>2. CASE in = "fail" /\ at = "loop"
    <3>1. host'.at = "idle"
      BY <1>5, <2>2 DEF AfterReply
    <3>2. Quiet'
      BY <1>1, <2>1, <2>2 DEF Quiet, Busy, deviceVars, Answered
    <3>3. QED BY <3>1, <3>2 DEF Rest, Talk
  <2>3. CASE in = "ok" /\ at = "loop" /\ host.letter = "E" /\ flash[1] = Page(Blank)
    <3>1. host'.at = "okay" /\ host'.letter = "E"
      BY <1>4, <1>7, <2>3 DEF AfterReply, WithFile
    <3>2. Quiet'
      BY <1>1, <2>1, <2>3 DEF Quiet, Busy, deviceVars, Answered
    <3>3. Done'
      BY <1>1, <2>3, <3>1 DEF Done, deviceVars, Page
    <3>4. QED BY <3>1, <3>2, <3>3 DEF Rest, Talk
  <2>4. CASE /\ in = "ok" /\ at = "recv" /\ host.letter \in {"W", "X"} /\ Fits /\ Accepted
             /\ got = 0 /\ reply = "ok"
    <3>1. host'.at = "data" /\ host'.letter = host.letter /\ host'.img = host.img /\ host'.sent = 0
      BY <1>4, <1>7, <2>1, <2>4 DEF AfterReply, WithFile
    <3>2. Length[host.img] \in Nat \ {0}
      BY <1>7, BootAssumption DEF BootInv, Typed, NoRun, Runs
    <3>3. Whole' = Whole /\ Whole > 0 /\ Packets(0) = 0
      BY <3>1, <3>2, Halves DEF Whole
    <3>4. /\ job.letter = host.letter /\ job.left = Length[host.img] /\ job.page = 1 /\ job' = job
          /\ got' = 0 /\ reply' = "ok" /\ at' = "recv" /\ out' = NoPacket
      BY <1>1, <2>1, <2>4 DEF Accepted, FileLength, WithFile, deviceVars, Answered
    <3>5. Base' = 0 /\ PagesHold(job.page - 1)'
      BY <3>4, BootAssumption DEF Base, PagesHold
    <3>6. Due' > 0
      BY <3>2, <3>4, BootAssumption DEF Due, Least, PageUnits
    <3>7. Fits'
      BY <2>4, <3>1 DEF Fits
    <3>8. Sending'
      BY <1>1, <2>4, <3>1, <3>2, <3>3, <3>4, <3>5, <3>6, <3>7 DEF Sending, Stored, Counted
    <3>9. QED BY <3>1, <3>3, <3>8, <1>1 DEF Rest, Talk
  <2>5. CASE in = "ok" /\ at = "info" /\ host.letter = "Q"
    <3>1. host'.at = "info"
      BY <1>4, <1>7, <2>5 DEF AfterReply
    <3>2. Informed'
      BY <1>1, <2>1, <2>5 DEF Informed, deviceVars, Answered
    <3>3. QED BY <1>1, <3>1, <3>2 DEF Rest, Talk
  <2>6. CASE in = "ok" /\ at = "drain" /\ host.letter \in {"A", "R"}
    <3>1. host'.at = "okay" /\ host'.letter \in {"A", "R"}
      BY <1>4, <1>7, <2>6 DEF AfterReply, WithFile
    <3>2. Quiet' /\ Done'
      BY <1>1, <2>1, <2>6, <3>1 DEF Quiet, Busy, deviceVars, Answered, Done
    <3>3. QED BY <3>1, <3>2 DEF Rest, Talk
  <2>7. QED BY <2>1, <2>2, <2>3, <2>4, <2>5, <2>6 DEF Answered
<1>8. CASE host.at = "final"
  <2>1. Ending
    BY <1>1, <1>6, <1>8 DEF Talk, Sending
  <2>2. in = "ok" /\ at \in {"loop", "drain"} /\ Done /\ out = NoPacket
    BY <1>1, <2>1 DEF Ending
  <2>3. host'.at = "okay" /\ host'.letter = host.letter /\ host'.img = host.img
    BY <1>4, <1>8, <2>2 DEF AfterReply
  <2>4. Quiet'
    BY <1>1, <2>2 DEF Quiet, Busy, deviceVars
  <2>5. Done'
    BY <1>1, <2>2, <2>3 DEF Done, InFlash, Whole, deviceVars
  <2>6. QED BY <2>3, <2>4, <2>5 DEF Rest, Talk
<1>9. QED BY <1>1, <1>7, <1>8

LEMMA InfoStep ==
  ASSUME BootInv, ReadInfo
  PROVE  Offline' /\ Tracked'
<1>1. /\ attached /\ host.at = "info" /\ in # "none" /\ in' = "none" /\ host'.at = "idle"
      /\ UNCHANGED <<at, out, online, attached, trusted>>
  BY DEF ReadInfo, faultVars, deviceVars, NoRun
<1>2. Offline'
  BY <1>1 DEF BootInv, Offline
<1>3. trusted => Quiet'
  BY <1>1 DEF BootInv, Tracked, Talk, Informed, Quiet, Busy
<1>4. QED BY <1>1, <1>2, <1>3 DEF Tracked, Rest, Talk

LEMMA DataStep ==
  ASSUME BootInv, SendData
  PROVE  Offline' /\ Tracked'
<1>1. /\ attached /\ host.at = "data" /\ out = NoPacket
      /\ out' = Packet(host.img, host.sent + 1)
      /\ UNCHANGED <<deviceVars, in, online, attached, trusted>>
  BY DEF SendData, faultVars, CanSend
<1>2. host \in Runs
  BY <1>1 DEF BootInv, Typed, NoRun
<1>3. /\ host'.at = IF host.sent + 1 = Packets(FileLength) THEN "final" ELSE "data"
      /\ host'.letter = host.letter /\ host'.img = host.img /\ host'.sent = host.sent + 1
  BY <1>2 DEF SendData, Runs
<1>4. Offline'
  BY <1>1 DEF BootInv, Offline, deviceVars
<1> SUFFICES ASSUME trusted PROVE Rest' /\ Talk'
  BY <1>1, <1>4 DEF Tracked
<1>5. Sending /\ host.sent < Whole
  BY <1>1 DEF BootInv, Tracked, Talk
<1>6. FileLength = Length[host.img]
  BY <1>5 DEF Sending, FileLength, WithFile
<1>7. Whole' = Whole /\ Base' = Base /\ Due' = Due /\ host.sent \in Nat /\ Whole \in Nat
  <2>1. Length[host.img] \in Nat /\ host.sent \in Nat
    BY <1>2, BootAssumption DEF Runs
  <2>2. QED BY <1>1, <1>3, <2>1, Halves DEF Whole, Base, Due, deviceVars
<1>8. out' # NoPacket
  BY <1>1 DEF Packet, NoPacket
<1>9. Fits' /\ PagesHold(job.page - 1)' = PagesHold(job.page - 1)
  BY <1>1, <1>3, <1>5 DEF Sending, Fits, PagesHold, deviceVars
<1>10. host'.sent = Base + Packets(got) + 1
  <2>1. host.sent = Base + Packets(got)
    <3>1. Base \in Int /\ Packets(got) \in Int
      <4>1. job.page \in Nat /\ got \in Nat /\ PagePackets \in Nat
        BY BootAssumption DEF BootInv, Typed
      <4>2. Base \in Int
        BY <4>1 DEF Base
      <4>3. Packets(got) \in Int
        BY <4>1, Halves
      <4>4. QED BY <4>2, <4>3
    <3>2. Counted
      BY <1>5 DEF Sending
    <3>3. QED BY <1>1, <3>1, <3>2 DEF Counted
  <2>2. QED BY <1>3, <2>1
<1>11. Sending'
  <2>1. Stored' /\ Counted'
    BY <1>1, <1>3, <1>5, <1>7, <1>8, <1>10 DEF Sending, Stored, Counted, deviceVars
  <2>2. QED BY <1>1, <1>3, <1>5, <1>7, <1>8, <1>9, <2>1 DEF Sending, deviceVars
<1>12. host'.at = "final" => host'.sent = Whole'
  BY <1>3, <1>6, <1>7 DEF Whole
<1>13. host'.at = "data" => host'.sent < Whole'
  BY <1>3, <1>5, <1>6, <1>7 DEF Whole
<1>14. QED BY <1>1, <1>3, <1>11, <1>12, <1>13 DEF Rest, Talk

LEMMA OtherSteps ==
  ASSUME BootInv, Finish \/ Abandon \/ BusSleeps \/ BusWakes \/ UNCHANGED vars
  PROVE  Offline' /\ Tracked'
<1>1. CASE Finish
  <2>1. /\ host.at = "okay" \/ ~attached
        /\ host'.at = "idle" /\ ~attached' /\ UNCHANGED <<at, out, in, online, trusted>>
    BY <1>1 DEF Finish, NoRun, deviceVars, faultVars
  <2>2. Offline'
    BY <2>1 DEF BootInv, Offline
  <2>3. trusted => Quiet'
    BY <2>1 DEF BootInv, Tracked, Rest, Quiet
  <2>4. QED BY <2>1, <2>2, <2>3 DEF Tracked, Rest
<1>2. CASE Abandon
  <2>1. ~attached' /\ UNCHANGED <<at, out, in, online>>
    BY <1>2 DEF Abandon, deviceVars
  <2>2. ~trusted'
    BY <1>2, Zenon DEF Abandon, Hazard
  <2>3. QED BY <2>1, <2>2 DEF BootInv, Offline, Tracked
<1>3. CASE BusSleeps \/ BusWakes \/ UNCHANGED vars
  <2>1. UNCHANGED <<deviceVars, usbVars, host>>
    BY <1>3 DEF BusSleeps, BusWakes, vars, deviceVars, usbVars
  <2>7. trusted' => trusted
    BY <1>3, Zenon DEF BusSleeps, BusWakes, Hazard, vars
  <2>2. UNCHANGED <<at, job, got, reply, flash, ram, out, in, online, attached, host>>
    BY <2>1 DEF deviceVars, usbVars
  <2>3. Offline'
    BY <2>2 DEF BootInv, Offline
  <2>4. Rest => Rest'
    BY <2>2 DEF Rest, Quiet, Done, InFlash, Whole
  <2>5. Talk => Talk'
    BY <2>2 DEF Talk, Command, Answering, Answered, Informed, Sending, Stored, Counted, Ending, Done, InFlash, Whole,
                Fits, Base, PagesHold, Accepted, FileLength, Due
  <2>6. QED BY <2>7, <2>2, <2>3, <2>4, <2>5 DEF BootInv, Tracked
<1>4. QED BY <1>1, <1>2, <1>3

LEMMA Sizes ==
  ASSUME Typed
  PROVE  /\ PagePackets \in Nat \ {0} /\ RomPages \in Nat \ {0} /\ RamPackets \in Nat \ {0}
         /\ PagePackets <= RamPackets
         /\ got \in Nat /\ Packets(got) \in Nat /\ job.page \in Nat \ {0} /\ job.left \in Nat
         /\ Base \in Nat
         /\ host.at # "idle" => /\ host.img \in Images /\ host.sent \in Nat
                                /\ Length[host.img] \in Nat \ {0} /\ Whole \in Nat \ {0}
<1>1. PagePackets \in Nat \ {0} /\ RomPages \in Nat \ {0} /\ RamPackets \in Nat \ {0}
      /\ PagePackets <= RamPackets
  BY BootAssumption
<1>2. got \in Nat /\ job.page \in Nat \ {0} /\ job.left \in Nat
  BY DEF Typed
<1>3. Packets(got) \in Nat
  BY <1>2, Halves
<1>4. Base \in Nat
  BY <1>1, <1>2 DEF Base
<1>5. ASSUME host.at # "idle"
      PROVE  /\ host.img \in Images /\ host.sent \in Nat
             /\ Length[host.img] \in Nat \ {0} /\ Whole \in Nat \ {0}
  <2>1. host.img \in Images /\ host.sent \in Nat
    BY <1>5 DEF Typed, NoRun, Runs
  <2>2. Length[host.img] \in Nat \ {0}
    BY <2>1, BootAssumption
  <2>3. Packets(Length[host.img]) \in Nat /\ Packets(Length[host.img]) > 0
    <3>1. Length[host.img] \in Nat /\ Length[host.img] > 0
      BY <2>2
    <3>2. \A l \in Nat : Packets(l) \in Nat /\ (l > 0 => Packets(l) > 0)
      BY Halves
    <3>3. QED BY <3>1, <3>2
  <2>4. QED BY <2>1, <2>2, <2>3 DEF Whole
<1>6. QED BY <1>1, <1>2, <1>3, <1>4, <1>5

(* Where lpcboot is while its data go out, from what the device does. *)
LEMMA InData ==
  ASSUME BootInv, trusted, at \in {"recv", "erase", "write"},
         out # NoPacket \/ job.letter = "W" \/ at = "write"
  PROVE  \/ /\ attached /\ host.at \in {"data", "final"} /\ Sending
            /\ (host.at = "data" => host.sent < Whole) /\ (host.at = "final" => host.sent = Whole)
         \/ /\ attached /\ host.at = "reply" /\ at = "recv" /\ out = NoPacket
<1>1. Rest /\ (attached => Talk) /\ Typed
  BY DEF BootInv, Tracked
<1>2. attached /\ host.at \notin {"idle", "send", "okay"}
  BY <1>1 DEF Rest, Quiet, Busy
<1>3. host.at \in {"reply", "info", "data", "final"}
  BY <1>1, <1>2 DEF Typed, NoRun, Runs
<1>4. CASE host.at = "reply"
  <2>1. ~Command
    BY DEF Command
  <2>2. Answering => at = "erase" /\ out = NoPacket /\ job.letter = "E"
    BY DEF Answering, Accepted
  <2>3. Answered => at = "recv" /\ out = NoPacket
    BY DEF Answered
  <2>4. QED BY <1>1, <1>2, <1>4, <2>1, <2>2, <2>3 DEF Talk
<1>5. CASE host.at = "info"
  BY <1>1, <1>2, <1>5 DEF Talk, Informed
<1>6. CASE host.at = "data"
  BY <1>1, <1>2, <1>6 DEF Talk
<1>7. CASE host.at = "final"
  BY <1>1, <1>2, <1>7 DEF Talk, Ending
<1>8. QED BY <1>3, <1>4, <1>5, <1>6, <1>7

LEMMA RecvStep ==
  ASSUME BootInv, Recv
  PROVE  Offline' /\ Tracked'
<1>1. /\ at = "recv" /\ online /\ out # NoPacket /\ out' = NoPacket
      /\ at' \in {"recv", AfterRecv}
      /\ UNCHANGED <<job, reply, flash, in, online, attached, host, trusted>>
  BY DEF Recv, faultVars
<1>2. AfterRecv \in {"erase", "final"}
  BY DEF AfterRecv
<1>3. Offline'
  BY <1>1, <1>2 DEF BootInv, Offline
<1> SUFFICES ASSUME trusted PROVE Rest' /\ Talk'
  BY <1>1, <1>3 DEF Tracked
<1>4. /\ attached /\ host.at \in {"data", "final"} /\ Sending
      /\ (host.at = "data" => host.sent < Whole) /\ (host.at = "final" => host.sent = Whole)
  BY <1>1, InData
<1> DEFINE L == Length[host.img]
           n == Least(Units(out), Due - got)
<1>5. /\ out = Packet(host.img, host.sent) /\ out.kind = "data" /\ out.img = host.img
      /\ out.n = host.sent
  BY <1>1, <1>4 DEF Sending, Packet
<1>6. /\ got' = got + n
      /\ at' = IF n < 2 \/ got + n = Due THEN AfterRecv ELSE "recv"
      /\ ram' = [ram EXCEPT ![got \div 2 + 1] = out]
  BY <1>5 DEF Recv
<1>7. /\ job.letter = host.letter /\ host.letter \in {"W", "X"} /\ job.left = L - 2 * Base
      /\ got < Due /\ got % 2 = 0
  BY <1>1, <1>4 DEF Sending
<1>8. /\ L \in Nat \ {0} /\ got \in Nat /\ Base \in Nat /\ Packets(got) \in Nat /\ host.sent \in Nat
      /\ Packets(L) \in Nat /\ job.left \in Nat /\ Whole = Packets(L)
  BY <1>4, Sizes DEF BootInv, Whole
<1>9. Packets(got) = got \div 2 /\ host.sent = Base + Packets(got) + 1
  <2>1. Counted
    BY <1>4 DEF Sending
  <2>2. QED BY <1>1, <1>7, <1>8, <2>1, Halves DEF Counted
<1>10. Due \in Nat /\ Due <= job.left /\ Due <= 2 * RamPackets
  <2>1. CASE job.letter = "W"
    BY <2>1, <1>8, Sizes DEF Due, Least, PageUnits, BootInv
  <2>2. CASE job.letter = "X"
    <3>1. job.page = 1 /\ Fits
      BY <1>4, <1>7, <2>2 DEF Sending
    <3>2. Base = 0 /\ L <= 2 * RamPackets
      BY <1>7, <2>2, <3>1, Sizes DEF Base, Fits, BootInv
    <3>3. QED BY <1>7, <1>8, <2>2, <3>2 DEF Due
  <2>3. QED BY <1>7, <2>1, <2>2
<1>11. Units(out) \in {1, 2} /\ (Units(out) = 1 => host.sent = Packets(L) /\ L % 2 = 1)
  BY <1>5 DEF Units
<1>12. Due - got >= 2 => Units(out) = 2
  <2>1. L % 2 = 1 => 2 * Packets(L) = L + 1
    BY <1>8 DEF Packets
  <2>2. 2 * Packets(got) = got
    BY <1>7, <1>8, <1>9
  <2>3. QED BY <1>7, <1>8, <1>9, <1>10, <1>11, <2>1, <2>2
<1>13. \/ Due - got >= 2 /\ n = 2
       \/ Due - got = 1 /\ n = 1
  BY <1>7, <1>8, <1>10, <1>11, <1>12 DEF Least
<1> HIDE DEF n
<1>14. got' \in Nat /\ Packets(got') = Packets(got) + 1 /\ got' <= Due
  <2>1. Packets(got + 2) = Packets(got) + 1 /\ Packets(got + 1) = Packets(got) + 1
    BY <1>7, <1>8, Halves
  <2>2. CASE Due - got >= 2 /\ n = 2
    BY <1>6, <1>8, <1>10, <2>1, <2>2
  <2>3. CASE Due - got = 1 /\ n = 1
    BY <1>6, <1>8, <1>10, <2>1, <2>3
  <2>4. QED BY <1>13, <2>2, <2>3
<1>15. at' = IF got' = Due THEN AfterRecv ELSE "recv"
  BY <1>6, <1>7, <1>8, <1>10, <1>13
<1>16. at' = "recv" => got' < Due /\ got' % 2 = 0
  <2>1. at' = "recv" => got' # Due
    BY <1>2, <1>15
  <2>2. got' # Due => n = 2
    BY <1>6, <1>8, <1>10, <1>13
  <2>3. n = 2 => got' % 2 = 0
    <3>1. (got + 2) % 2 = 0
      BY <1>7, <1>8, Halves
    <3>2. QED BY <1>6, <3>1
  <2>4. got' # Due => got' < Due
    BY <1>10, <1>14
  <2>5. QED BY <2>1, <2>2, <2>3, <2>4
<1>17. got \div 2 + 1 \in 1 .. RamPackets
  <2>1. RamPackets \in Nat
    BY BootAssumption
  <2>2. QED BY <1>7, <1>8, <1>10, <2>1
<1>18. Stored'
  <2>1. ram \in [1 .. RamPackets -> Contents] /\ Stored
    BY <1>4 DEF BootInv, Typed, Sending
  <2>2. ram'[Packets(got) + 1] = Packet(host.img, Base + (Packets(got) + 1))
    <3>1. ram'[Packets(got) + 1] = out
      BY <1>6, <1>9, <1>17, <2>1
    <3>2. host.sent = Base + (Packets(got) + 1)
      BY <1>8, <1>9
    <3>3. QED BY <1>5, <3>1, <3>2
  <2>3. \A k \in 1 .. Packets(got) : ram'[k] = ram[k]
    BY <1>6, <1>8, <1>9, <1>17, <2>1
  <2>4. Base' = Base /\ host' = host
    BY <1>1 DEF Base
  <2>5. \A k \in 1 .. Packets(got') : ram'[k] = Packet(host.img, Base + k)
    <3>1. \A k \in 1 .. Packets(got) : ram[k] = Packet(host.img, Base + k)
      BY <2>1 DEF Stored
    <3>2. \A k \in 1 .. Packets(got') : k = Packets(got) + 1 \/ k \in 1 .. Packets(got)
      BY <1>8, <1>14
    <3>3. QED BY <2>2, <2>3, <3>1, <3>2
  <2>6. QED BY <2>4, <2>5 DEF Stored
<1>19. host.sent = Base + Packets(got')
  BY <1>8, <1>9, <1>14
<1>20. Base' = Base /\ Due' = Due /\ Whole' = Whole /\ Fits' = Fits
       /\ PagesHold(job.page - 1)' = PagesHold(job.page - 1)
  BY <1>1 DEF Base, Due, Whole, Fits, PagesHold
<1>21. CASE at' = "recv" \/ job.letter = "W"
  <2>1. at' \in {"recv", "erase"} /\ (host.letter = "X" => at' = "recv") 
    BY <1>7, <1>15, <1>21 DEF AfterRecv
  <2>2. Counted'
    BY <1>1, <1>8, <1>14, <1>19, <1>20 DEF Counted
  <2>3. IF at' = "recv" THEN got' < Due /\ got' % 2 = 0 ELSE got' = Due
    BY <1>15, <1>16
  <2>4. Sending'
    BY <1>1, <1>4, <1>18, <1>20, <2>1, <2>2, <2>3 DEF Sending
  <2>5. QED BY <1>1, <1>4, <1>20, <2>4 DEF Rest, Talk
<1>22. CASE at' # "recv" /\ job.letter = "X"
  <2>1. at' = "final" /\ got' = Due
    BY <1>15, <1>22 DEF AfterRecv
  <2>2. Base = 0 /\ got' = L
    BY <1>4, <1>7, <1>8, <1>22, <2>1, Sizes DEF Sending, Base, Due, BootInv
  <2>3. host.sent = Whole /\ host.at = "final"
    BY <1>4, <1>8, <1>19, <2>2
  <2>4. Done'
    <3>1. \A k \in 1 .. Whole : ram'[k] = Packet(host.img, k)
      <4>1. \A k \in 1 .. Packets(got') : ram'[k] = Packet(host.img, Base + k)
        BY <1>1, <1>18, <1>20 DEF Stored
      <4>2. \A k \in 1 .. Whole : Base + k = k
        BY <1>8, <2>2
      <4>3. QED BY <1>8, <2>2, <4>1, <4>2
    <3>2. QED BY <1>1, <1>7, <1>20, <1>22, <3>1 DEF Done
  <2>5. Ending'
    BY <1>1, <1>4, <1>7, <2>1, <2>4 DEF Ending, Sending
  <2>6. QED BY <1>1, <1>4, <1>20, <2>3, <2>5 DEF Rest, Talk
<1>23. QED BY <1>7, <1>21, <1>22

(* While the device is busy there is a lpcboot, waiting or sending. *)
LEMMA Engaged ==
  ASSUME BootInv, trusted, at \in Busy \/ out # NoPacket \/ in # "none"
  PROVE  attached /\ online /\ host.at \in {"reply", "info", "data", "final"} /\ Talk
<1>1. Rest /\ (attached => Talk) /\ Typed
  BY DEF BootInv, Tracked
<1>2. attached /\ host.at \notin {"idle", "send", "okay"}
  BY <1>1 DEF Rest, Quiet
<1>3. host.at \in {"reply", "info", "data", "final"}
  BY <1>1, <1>2 DEF Typed, NoRun, Runs
<1>4. online
  BY <1>2 DEF BootInv, Offline
<1>5. QED BY <1>1, <1>2, <1>3, <1>4

(* The page in hand is one of the ROM's. *)
LEMMA PageInRom ==
  ASSUME Typed, Sending, host.letter = "W", host.at # "idle"
  PROVE  job.page \in 1 .. RomPages
<1>1. Length[host.img] \in Nat /\ Base \in Nat /\ RomPages * PagePackets \in Nat
  BY Sizes
<1>2. Length[host.img] <= 2 * (RomPages * PagePackets)
  BY DEF Sending, Fits
<1>3. job.left = Length[host.img] - 2 * Base /\ job.left > 0
  BY DEF Sending
<1>4. Base < RomPages * PagePackets
  BY <1>1, <1>2, <1>3
<1>5. job.page \in Nat \ {0} /\ RomPages \in Nat /\ PagePackets \in Nat
  BY Sizes
<1>6. RomPages <= job.page - 1 => RomPages * PagePackets <= (job.page - 1) * PagePackets
  <2>1. job.page - 1 \in Nat
    BY <1>5
  <2>2. QED BY <1>5, <2>1, Mono
<1>7. QED BY <1>4, <1>5, <1>6 DEF Base

LEMMA EraseStep ==
  ASSUME BootInv, Erase
  PROVE  Offline' /\ Tracked'
<1>1. /\ at = "erase" /\ at' = (IF job.letter = "W" THEN "write" ELSE "final")
      /\ UNCHANGED <<job, got, reply, ram, out, in, online, attached, host>>
  BY DEF Erase, usbVars
<1>2. Offline'
  BY <1>1 DEF BootInv, Offline
<1>3. CASE Hazard(FALSE)
  BY <1>2, <1>3 DEF Hazard, Tracked
<1>4. CASE flash' = [flash EXCEPT ![job.page] = Page(Blank)] /\ UNCHANGED trusted
  <2> SUFFICES ASSUME trusted PROVE Rest' /\ Talk'
    BY <1>2, <1>4 DEF Tracked
  <2>1. attached /\ host.at \in {"reply", "info", "data", "final"} /\ Talk
    BY <1>1, Engaged DEF Busy
  <2>2. flash \in [1 .. RomPages -> Memory]
    BY DEF BootInv, Typed
  <2>3. CASE host.at \in {"data", "final"}
    <3>1. Sending /\ (host.at = "data" => host.sent < Whole) /\ (host.at = "final" => host.sent = Whole)
      BY <1>1, <2>1, <2>3 DEF Talk, Ending
    <3>2. host.letter = "W" /\ job.letter = "W" /\ at' = "write"
      BY <1>1, <3>1 DEF Sending
    <3>3. job.page \in 1 .. RomPages
      BY <2>3, <3>1, <3>2, PageInRom DEF BootInv
    <3>4. flash'[job.page] = Page(Blank) /\ \A p \in 1 .. RomPages : p # job.page => flash'[p] = flash[p]
      BY <1>4, <2>2, <3>3
    <3>5. PagesHold(job.page - 1)'
      <4>1. \A p \in 1 .. job.page - 1 : p \in 1 .. RomPages /\ p # job.page
        BY <3>3, Sizes DEF BootInv
      <4>2. \A p \in 1 .. job.page - 1 : flash[p] = ImagePage(host.img, p)
        BY <3>1, <3>2 DEF Sending, PagesHold
      <4>3. QED BY <1>1, <3>4, <4>1, <4>2 DEF PagesHold
    <3>6. Base' = Base /\ Due' = Due /\ Whole' = Whole /\ Fits' = Fits /\ Stored' = Stored /\ Counted' = Counted
      BY <1>1 DEF Base, Due, Whole, Fits, Stored, Counted
    <3>7. got = Due
      BY <1>1, <3>1 DEF Sending
    <3>8. Sending'
      BY <1>1, <3>1, <3>2, <3>4, <3>5, <3>6, <3>7 DEF Sending
    <3>9. QED BY <1>1, <2>1, <2>3, <3>1, <3>6, <3>8 DEF Rest, Talk
  <2>4. CASE host.at = "reply"
    <3>1. Answering /\ host.sent = 0
      BY <1>1, <2>1, <2>4 DEF Talk, Command, Answered
    <3>2. /\ out = NoPacket /\ in = "none" /\ reply = "ok" /\ host.letter = "E"
          /\ job.letter = "E" /\ job.page = 1
      BY <1>1, <3>1 DEF Answering, Accepted
    <3>3. flash'[1] = Page(Blank)
      BY <1>4, <2>2, <3>2, BootAssumption
    <3>4. Answering'
      BY <1>1, <3>2, <3>3 DEF Answering, Page
    <3>5. QED BY <1>1, <2>1, <2>4, <3>1, <3>4 DEF Rest, Talk
  <2>5. CASE host.at = "info"
    BY <1>1, <2>1, <2>5 DEF Talk, Informed
  <2>6. QED BY <2>1, <2>3, <2>4, <2>5
<1>5. QED BY <1>3, <1>4 DEF Erase

(* A page of ImagePage, and the rest of the file in the page after. *)
LEMMA Filled ==
  ASSUME NEW i \in Images, NEW f, NEW n \in Nat, NEW last \in Nat, last <= PagePackets,
         \A p \in 1 .. n : f[p] = ImagePage(i, p),
         \A k \in 1 .. last : f[n + 1][k] = Packet(i, n * PagePackets + k),
         NEW k \in 1 .. n * PagePackets + last
  PROVE  f[((k - 1) \div PagePackets) + 1][((k - 1) % PagePackets) + 1] = Packet(i, k)
<1>1. PagePackets \in Nat \ {0} /\ n * PagePackets \in Nat /\ k \in Nat \ {0}
  BY BootAssumption
<1>2. PICK q \in Nat, r \in 1 .. PagePackets : k = q * PagePackets + r
  BY <1>1, Split
<1>3. q * PagePackets \in Nat /\ k - 1 = q * PagePackets + r - 1
  BY <1>1, <1>2
<1>4. ((k - 1) \div PagePackets) + 1 = q + 1 /\ ((k - 1) % PagePackets) + 1 = r
  BY <1>2, <1>3, Where
<1>5. CASE q + 1 <= n
  <2>1. f[q + 1] = ImagePage(i, q + 1)
    BY <1>5
  <2>2. ImagePage(i, q + 1)[r] = Packet(i, (q + 1 - 1) * PagePackets + r)
    BY <1>1 DEF ImagePage
  <2>3. (q + 1 - 1) * PagePackets + r = k
    BY <1>1, <1>2
  <2>4. QED BY <1>4, <2>1, <2>2, <2>3
<1>6. CASE n <= q
  <2>1. (n + 1) * PagePackets = n * PagePackets + PagePackets
    BY <1>1
  <2>2. q + 1 <= n + 1
    <3>1. q * PagePackets + r <= (n + 1) * PagePackets
      BY <1>1, <1>2, <1>3, <2>1
    <3>2. QED BY <3>1, Below
  <2>3. q = n
    BY <1>6, <2>2
  <2>4. r \in 1 .. last
    BY <1>1, <1>2, <2>3
  <2>5. QED BY <1>2, <1>4, <2>3, <2>4
<1>7. QED BY <1>5, <1>6

LEMMA WriteStep ==
  ASSUME BootInv, Write
  PROVE  Offline' /\ Tracked'
<1>1. /\ at = "write" /\ at' = (IF job.left > Due THEN "recv" ELSE "final")
      /\ job' = [letter |-> job.letter, left |-> job.left - Due, page |-> job.page + 1]
      /\ got' = 0
      /\ UNCHANGED <<reply, out, in, online, attached, host>>
  BY DEF Write, usbVars, NextPage
<1>2. Offline'
  BY <1>1 DEF BootInv, Offline
<1>3. CASE Hazard(FALSE)
  BY <1>2, <1>3 DEF Hazard, Tracked
<1>4. CASE flash' = [flash EXCEPT ![job.page] = Burnt] /\ UNCHANGED trusted
  <2> SUFFICES ASSUME trusted PROVE Rest' /\ Talk'
    BY <1>2, <1>4 DEF Tracked
  <2>1. /\ attached /\ host.at \in {"data", "final"} /\ Sending
        /\ (host.at = "data" => host.sent < Whole) /\ (host.at = "final" => host.sent = Whole)
    BY <1>1, InData
  <2> DEFINE L == Length[host.img]
  <2>2. /\ host.letter = "W" /\ job.letter = "W" /\ reply = "ok" /\ in = "none" /\ got = Due
        /\ job.left = L - 2 * Base /\ job.left > 0 /\ flash[job.page] = Page(Blank) /\ Fits
        /\ out \in {NoPacket, Packet(host.img, host.sent)}
    BY <1>1, <2>1 DEF Sending
  <2>3. Stored /\ Counted /\ PagesHold(job.page - 1)
    BY <2>1, <2>2 DEF Sending
  <2>4. /\ PagePackets \in Nat \ {0} /\ PagePackets <= RamPackets /\ RamPackets \in Nat
        /\ job.left \in Nat /\ Base \in Nat /\ job.page \in Nat \ {0} /\ got \in Nat
        /\ host.img \in Images /\ host.sent \in Nat /\ L \in Nat \ {0} /\ Whole \in Nat
        /\ Packets(got) \in Nat
    BY <2>1, Sizes DEF BootInv
  <2>5. Due = IF job.left <= 2 * PagePackets THEN job.left ELSE 2 * PagePackets
    BY <2>2, <2>4 DEF Due, Least, PageUnits
  <2>6. Packets(got) <= PagePackets
    <3>1. got <= 2 * PagePackets
      BY <2>2, <2>4, <2>5
    <3>2. QED BY <2>4, <3>1 DEF Packets
  <2>7. job.page \in 1 .. RomPages
    BY <2>1, <2>2, PageInRom DEF BootInv
  <2>8. /\ flash \in [1 .. RomPages -> Memory] /\ ram \in [1 .. RamPackets -> Contents]
        /\ Burnt = [k \in 1 .. PagePackets |-> ram[k]]
    BY <2>2 DEF BootInv, Typed, Burnt
  <2>9. /\ flash'[job.page] = [k \in 1 .. PagePackets |-> ram[k]]
        /\ \A p \in 1 .. RomPages : p # job.page => flash'[p] = flash[p]
    BY <1>4, <2>7, <2>8
  <2>10. \A p \in 1 .. job.page - 1 : flash'[p] = ImagePage(host.img, p)
    <3>1. \A p \in 1 .. job.page - 1 : p \in 1 .. RomPages /\ p # job.page
      <4>1. job.page \in Nat /\ RomPages \in Nat /\ job.page <= RomPages
        BY <2>7, <2>4, BootAssumption
      <4>2. QED BY <4>1
    <3>2. QED BY <2>3, <2>9, <3>1 DEF PagesHold
  <2>11. \A k \in 1 .. Packets(got) : flash'[job.page][k] = Packet(host.img, Base + k)
    BY <2>3, <2>4, <2>6, <2>9 DEF Stored
  <2>12. job'.letter = "W" /\ job'.left = job.left - Due /\ job'.page = job.page + 1
    BY <1>1, <2>2
  <2>13. Base' = Base + PagePackets
    BY <2>4, <2>12, NextBase DEF Base
  <2>14. CASE job.left > Due
    <3>1. Due = 2 * PagePackets /\ Packets(got) = PagePackets
      <4>1. Due = 2 * PagePackets
        BY <2>4, <2>5, <2>14
      <4>2. QED BY <2>2, <2>4, <4>1 DEF Packets
    <3>2. flash'[job.page] = ImagePage(host.img, job.page)
      <4>1. \A k \in 1 .. PagePackets : ram[k] = Packet(host.img, (job.page - 1) * PagePackets + k)
        BY <2>3, <3>1 DEF Stored, Base
      <4>2. QED BY <2>9, <4>1 DEF ImagePage
    <3>4. \A p \in 1 .. job'.page - 1 : flash'[p] = ImagePage(host'.img, p)
      <4>1. \A p \in 1 .. job.page - 1 : flash'[p] = ImagePage(host.img, p)
        BY <2>10
      <4>2. \A p \in 1 .. job'.page - 1 : p = job.page \/ p \in 1 .. job.page - 1
        BY <2>4, <2>12
      <4>3. QED BY <1>1, <3>2, <4>1, <4>2
    <3>5. (PagesHold(job.page - 1))'
      BY <3>4 DEF PagesHold
    <3>6. job'.left = L - 2 * Base' /\ job'.left > 0
      BY <2>2, <2>4, <2>12, <2>13, <2>14, <3>1
    <3>7. Due' > 0
      BY <1>1, <2>4, <2>12, <2>14, <3>6 DEF Due, Least, PageUnits
    <3>8. Packets(0) = 0
      BY Halves
    <3>9. Stored' /\ Counted'
      BY <1>1, <2>3, <2>4, <2>13, <3>1, <3>8 DEF Stored, Counted
    <3>10. Fits' /\ Whole' = Whole
      BY <1>1, <2>2 DEF Fits, Whole
    <3>11. Sending'
      BY <1>1, <2>2, <2>12, <2>14, <3>5, <3>6, <3>7, <3>9, <3>10 DEF Sending
    <3>12. QED BY <1>1, <2>1, <3>10, <3>11 DEF Rest, Talk
  <2>15. CASE ~(job.left > Due)
    <3>1. Due = job.left /\ at' = "final"
      BY <1>1, <2>4, <2>5, <2>15
    <3>2. Whole = Base + Packets(got)
      <4>1. L = 2 * Base + got
        BY <2>2, <2>4, <3>1
      <4>2. Packets(2 * Base + got) = Base + Packets(got)
        BY <2>4, Halves
      <4>3. QED BY <4>1, <4>2 DEF Whole
    <3>3. out = NoPacket /\ host.at = "final"
      <4>1. CASE out = NoPacket
        <5>1. host.sent = Whole
          BY <2>3, <2>4, <3>2, <4>1 DEF Counted
        <5>2. QED BY <2>1, <2>4, <4>1, <5>1
      <4>2. CASE out # NoPacket
        <5>1. host.sent = Whole + 1
          BY <2>3, <2>4, <3>2, <4>2 DEF Counted
        <5>2. QED BY <2>1, <2>4, <5>1
      <4>3. QED BY <4>1, <4>2
    <3>4. InFlash(host.img)'
      <4>1. \A p \in 1 .. job.page - 1 : flash'[p] = ImagePage(host.img, p)
        BY <2>10
      <4>2. \A k \in 1 .. Packets(got) :
              flash'[(job.page - 1) + 1][k] = Packet(host.img, (job.page - 1) * PagePackets + k)
        BY <2>4, <2>11 DEF Base
      <4>3. job.page - 1 \in Nat /\ Packets(got) \in Nat /\ host.img \in Images
        BY <2>4
      <4>4. \A k \in 1 .. (job.page - 1) * PagePackets + Packets(got) :
              flash'[((k - 1) \div PagePackets) + 1][((k - 1) % PagePackets) + 1] = Packet(host.img, k)
        BY <2>6, <4>1, <4>2, <4>3, Filled
      <4>5. QED BY <1>1, <3>2, <4>4 DEF InFlash, Whole, Base
    <3>5. Done'
      BY <1>1, <2>2, <3>4 DEF Done
    <3>6. Ending'
      BY <1>1, <2>2, <2>12, <3>1, <3>3, <3>5 DEF Ending
    <3>7. Whole' = Whole
      BY <1>1 DEF Whole
    <3>8. QED BY <1>1, <2>1, <3>3, <3>6, <3>7 DEF Rest, Talk
  <2>16. QED BY <2>14, <2>15
<1>5. QED BY <1>3, <1>4 DEF Write

(* The steps that leave lpcboot where it is. *)
LEMMA HandleStep ==
  ASSUME BootInv, RecvCommand
  PROVE  Offline' /\ Tracked'
<1>1. /\ at = "loop" /\ online /\ out # NoPacket /\ out' = NoPacket
      /\ UNCHANGED <<flash, ram, in, online, attached, host, trusted>>
  BY DEF RecvCommand, faultVars
<1>2. at' \in {"loop", "final", "erase", "ack"}
  BY <1>1 DEF RecvCommand, Handle, Refused
<1>3. Offline'
  BY <1>1, <1>2 DEF BootInv, Offline
<1> SUFFICES ASSUME trusted PROVE Rest' /\ Talk'
  BY <1>1, <1>3 DEF Tracked
<1>4. attached /\ host.at \in {"reply", "info", "data", "final"} /\ Talk
  BY <1>1, Engaged
<1>5. host.at = "reply" /\ Command /\ host.sent = 0
  BY <1>1, <1>4 DEF Talk, Informed, Sending, Ending, Answering, Answered
<1>6. out.kind = "cmd" /\ out.letter = host.letter /\ out.arg = FileLength /\ in = "none"
  BY <1>5 DEF Command
<1>7. Handle
  BY <1>6 DEF RecvCommand
<1>8. Accepted'
  <2>1. FileLength' = FileLength
    BY <1>1 DEF FileLength
  <2>2. QED BY <1>1, <1>6, <1>7, <2>1 DEF Handle, Accepted
<1>9. host.letter \in Letters
  BY <1>5 DEF BootInv, Typed, NoRun, Runs
<1>10. Answering'
  <2>1. CASE reply' = "fail"
    BY <1>1, <1>6, <1>7, <2>1 DEF Handle, Refused, Answering
  <2>2. CASE reply' # "fail"
    <3>1. reply' = "ok" /\ ~TooLong /\ host.letter \in {"E", "W", "X", "Q", "A", "R"}
      BY <1>6, <1>7, <2>2 DEF Handle
    <3>2. at' = IF host.letter = "E" THEN "erase" ELSE "ack"
      BY <1>6, <1>7, <2>2 DEF Handle
    <3>3. host.letter \in {"W", "X"} => Fits
      <4>1. ASSUME host.letter \in {"W", "X"}
            PROVE  Fits
        <5>1. FileLength = Length[host.img] /\ Length[host.img] \in Nat
          BY <1>5, <4>1, Sizes DEF FileLength, WithFile, BootInv
        <5>2. ~(FileLength > Limit)
          BY <1>6, <3>1, <4>1 DEF TooLong
        <5>3. Limit = 2 * (IF host.letter = "W" THEN RomPages * PagePackets ELSE RamPackets)
          BY <1>6, Sizes DEF Limit, BootInv
        <5>4. RomPages * PagePackets \in Nat /\ RamPackets \in Nat
          BY Sizes DEF BootInv
        <5>5. QED BY <5>1, <5>2, <5>3, <5>4 DEF Fits
      <4>2. QED BY <4>1
    <3>4. Fits' = Fits
      BY <1>1 DEF Fits
    <3>5. QED BY <1>1, <1>6, <1>8, <3>1, <3>2, <3>3, <3>4 DEF Answering
  <2>3. QED BY <2>1, <2>2
<1>11. QED BY <1>1, <1>4, <1>5, <1>10 DEF Rest, Talk

LEMMA XmitStep ==
  ASSUME BootInv, Xmit
  PROVE  Offline' /\ Tracked'
<1>1. /\ at \in {"ack", "info", "final"} /\ (online => in = "none")
      /\ in' = (IF ~online THEN in ELSE IF at = "info" THEN "info" ELSE reply)
      /\ at' = AfterXmit /\ got' = 0
      /\ IF at' = "loop" THEN job' = NoJob /\ reply' = "ok" ELSE UNCHANGED <<job, reply>>
      /\ UNCHANGED <<flash, ram, out, online, attached, host, trusted>>
  BY DEF Xmit, Return, faultVars
<1>2. at' \in {"recv", "info", "drain", "loop"}
  BY <1>1 DEF AfterXmit
<1>3. Offline'
  BY <1>1, <1>2 DEF BootInv, Offline
<1> SUFFICES ASSUME trusted PROVE Rest' /\ Talk'
  BY <1>1, <1>3 DEF Tracked
<1>4. attached /\ online /\ host.at \in {"reply", "info", "data", "final"} /\ Talk
  BY <1>1, Engaged DEF Busy
<1>5. in = "none" /\ in' = (IF at = "info" THEN "info" ELSE reply)
  BY <1>1, <1>4
<1>6. FileLength' = FileLength /\ Fits' = Fits
  BY <1>1 DEF FileLength, Fits
<1>7. CASE host.at = "reply"
  <2>1. Answering /\ host.sent = 0
    BY <1>1, <1>4, <1>5, <1>7 DEF Talk, Command, Answered
  <2>2. CASE /\ at = "ack" /\ reply = "ok" /\ Accepted
             /\ host.letter \in {"W", "X", "Q", "A", "R"} /\ (host.letter \in {"W", "X"} => Fits)
    <3>1. job.letter = host.letter
      BY <2>2 DEF Accepted
    <3>2. at' = IF host.letter \in {"W", "X"} THEN "recv" ELSE IF host.letter = "Q" THEN "info" ELSE "drain"
      BY <1>1, <2>2, <3>1 DEF AfterXmit
    <3>3. job' = job /\ reply' = "ok" /\ in' = "ok" /\ got' = 0 /\ out' = NoPacket
      BY <1>1, <1>5, <2>1, <2>2, <3>2 DEF Answering
    <3>4. Accepted'
      BY <1>1, <1>6, <2>2, <3>3 DEF Accepted
    <3>5. Answered'
      BY <1>1, <1>6, <2>2, <3>2, <3>3, <3>4 DEF Answered
    <3>6. QED BY <1>1, <1>4, <1>7, <2>1, <3>5 DEF Rest, Talk
  <2>3. CASE /\ at = "final" /\ reply = "ok" /\ host.letter = "E" /\ job.letter = "E"
             /\ flash[1] = Page(Blank)
    <3>1. at' = "loop" /\ in' = "ok" /\ out' = NoPacket /\ flash'[1] = Page(Blank)
      BY <1>1, <1>5, <2>1, <2>3 DEF AfterXmit, Answering
    <3>2. Answered'
      BY <1>1, <2>3, <3>1 DEF Answered, Page
    <3>3. QED BY <1>1, <1>4, <1>7, <2>1, <3>2 DEF Rest, Talk
  <2>4. CASE at = "final" /\ reply = "fail"
    <3>1. at' = "loop" /\ in' = "fail" /\ out' = NoPacket
      BY <1>1, <1>5, <2>1, <2>4 DEF AfterXmit, Answering
    <3>2. Answered'
      BY <3>1 DEF Answered
    <3>3. QED BY <1>1, <1>4, <1>7, <2>1, <3>2 DEF Rest, Talk
  <2>5. QED BY <1>1, <2>1, <2>2, <2>3, <2>4 DEF Answering
<1>8. CASE host.at = "info"
  <2>1. Informed
    BY <1>4, <1>8 DEF Talk
  <2>2. at = "info" /\ at' = "loop" /\ in' = "info" /\ out' = NoPacket
    BY <1>1, <1>5, <2>1 DEF Informed, AfterXmit
  <2>3. Informed'
    BY <2>2 DEF Informed
  <2>4. QED BY <1>1, <1>4, <1>8, <2>3 DEF Rest, Talk
<1>9. CASE host.at = "data"
  BY <1>1, <1>4, <1>9 DEF Talk, Sending
<1>10. CASE host.at = "final"
  <2>1. Ending /\ host.sent = Whole
    BY <1>1, <1>4, <1>10 DEF Talk, Sending
  <2>2. /\ out = NoPacket /\ at = "final" /\ reply = "ok" /\ job.letter = host.letter /\ Done
        /\ host.letter \in {"W", "X"}
    BY <1>5, <2>1 DEF Ending
  <2>3. at' \in {"loop", "drain"} /\ in' = "ok" /\ out' = NoPacket
    BY <1>1, <1>5, <2>2 DEF AfterXmit
  <2>4. Done'
    BY <1>1, <2>2, DoneKept
  <2>5. Ending' /\ Whole' = Whole
    BY <1>1, <2>2, <2>3, <2>4 DEF Ending, Whole
  <2>6. QED BY <1>1, <1>4, <1>10, <2>1, <2>5 DEF Rest, Talk
<1>11. QED BY <1>4, <1>7, <1>8, <1>9, <1>10

(* The steps that leave the bus. *)
LEMMA LeaveSteps ==
  ASSUME BootInv, StartApp \/ Drain \/ PowerLoss
  PROVE  Offline' /\ Tracked'
<1>1. /\ out' = NoPacket /\ in' = "none" /\ ~online' /\ ~attached' /\ at' \notin Busy
      /\ UNCHANGED host
  BY DEF StartApp, Drain, AfterDrain, PowerLoss, Detach, Busy, faultVars
<1>2. trusted' => trusted
  <2>1. CASE StartApp \/ Drain
    BY <2>1 DEF StartApp, Drain, faultVars
  <2>2. CASE PowerLoss
    BY <2>2, Zenon DEF PowerLoss, Hazard
  <2>3. QED BY <2>1, <2>2
<1>3. flash' = flash \/ at \in Busy
  BY DEF StartApp, Drain, PowerLoss, Busy
<1>4. Offline'
  BY <1>1 DEF Offline
<1>5. QED BY <1>1, <1>2, <1>3, <1>4, Gone DEF BootInv

(* The steps of a device that is not on the bus. *)
LEMMA AloneSteps ==
  ASSUME BootInv, Reset \/ Configure \/ AppResets
  PROVE  Offline' /\ Tracked'
<1>1. (~online /\ at' \notin Busy \cup {"ram"}) \/ (Configure /\ at' = at)
  BY DEF Reset, Configure, AppResets, Busy, BootInv, Offline
<1>2. ~online /\ UNCHANGED <<flash, out, in, attached, host, trusted>>
  BY DEF Reset, Configure, AppResets, BootInv, Offline, usbVars, faultVars
<1>3. out = NoPacket /\ in = "none" /\ ~attached
  BY <1>2 DEF BootInv, Offline
<1>4. Offline'
  <2>1. CASE Reset \/ AppResets
    BY <1>2, <1>3, <2>1 DEF Reset, AppResets, usbVars, Offline
  <2>2. CASE Configure
    BY <1>2, <1>3, <2>2 DEF Configure, Offline
  <2>3. QED BY <2>1, <2>2
<1> SUFFICES ASSUME trusted PROVE Rest' /\ ~attached'
  BY <1>2, <1>4 DEF Tracked
<1>5. Rest
  BY DEF BootInv, Tracked
<1>6. Quiet'
  BY <1>1, <1>2, <1>3, <1>5 DEF Rest, Quiet, Busy
<1>7. host.at = "okay" => Done'
  BY <1>2, <1>3, <1>5, DoneKept DEF Rest
<1>8. QED BY <1>2, <1>3, <1>6, <1>7 DEF Rest

LEMMA LoopStep ==
  ASSUME BootInv, LoopTimeout
  PROVE  Offline' /\ Tracked'
<1>1. CASE StartApp
  BY <1>1, LeaveSteps
<1>2. CASE UNCHANGED <<at, job, got, reply, gpreg, flash, ram, kept, usbVars, host, faultVars>>
  <2>1. UNCHANGED <<at, job, got, reply, flash, ram, out, in, online, attached, host, trusted>>
    BY <1>2 DEF usbVars, faultVars
  <2>2. Offline'
    BY <2>1 DEF BootInv, Offline
  <2>3. Rest => Rest'
    BY <2>1 DEF Rest, Quiet, Done, InFlash, Whole
  <2>4. Talk => Talk'
    BY <2>1 DEF Talk, Command, Answering, Answered, Informed, Sending, Stored, Counted, Ending, Done,
                InFlash, Whole, Fits, Base, PagesHold, Accepted, FileLength, Due
  <2>5. QED BY <2>1, <2>2, <2>3, <2>4 DEF BootInv, Tracked
<1>3. QED BY <1>1, <1>2 DEF LoopTimeout

LEMMA DeconfigureStep ==
  ASSUME BootInv, Deconfigure
  PROVE  Offline' /\ Tracked'
<1>1. ~trusted'
  BY Zenon DEF Deconfigure, Hazard
<1>2. out' = NoPacket /\ in' = "none" /\ ~online' /\ ~attached'
  BY DEF Deconfigure, Detach, AfterDrain
<1>3. QED BY <1>1, <1>2 DEF Offline, Tracked

LEMMA NextBoot == BootInv /\ [Next]_vars => BootInv'
<1> SUFFICES ASSUME BootInv, [Next]_vars PROVE BootInv'
  OBVIOUS
<1>1. Typed'
  BY LpcbootTyped, DeviceTyped, WorldTyped DEF Next, BootInv
<1>2. Offline' /\ Tracked'
  <2>1. CASE Open \/ Lpcboot \/ Abandon \/ BusSleeps \/ BusWakes \/ UNCHANGED vars
    BY <2>1, OpenStep, CommandStep, ReplyStep, InfoStep, DataStep, OtherSteps DEF Lpcboot
  <2>2. CASE Device
    BY <2>2, AloneSteps, LeaveSteps, LoopStep, HandleStep, XmitStep, RecvStep, EraseStep, WriteStep
       DEF Device, EnumTimeout
  <2>3. CASE Configure \/ AppResets \/ Deconfigure \/ PowerLoss
    BY <2>3, AloneSteps, DeconfigureStep, LeaveSteps
  <2>4. QED BY <2>1, <2>2, <2>3 DEF Next
<1>3. QED BY <1>1, <1>2 DEF BootInv

LEMMA BootAlways == Spec => []BootInv
<1>1. QED BY InitBoot, NextBoot, PTL DEF Spec

LEMMA InitWhole == Init => FlashWhole
<1> SUFFICES ASSUME Init PROVE FlashWhole
  OBVIOUS
<1>1. trusted
  BY DEF Init
<1>2. 1 \in 1 .. RomPages /\ 1 \in 1 .. PagePackets
  BY BootAssumption
<1>3. CASE flash = [p \in 1 .. RomPages |-> Page(Blank)]
  <2>1. flash[1][1] = Blank
    BY <1>2, <1>3 DEF Page
  <2>2. QED BY <1>1, <2>1 DEF FlashWhole
<1>4. ASSUME NEW i \in Images, Packets(Length[i]) = RomPages * PagePackets,
             flash = [p \in 1 .. RomPages |-> ImagePage(i, p)]
      PROVE  FlashWhole
  <2>1. RomPages \in Nat /\ PagePackets \in Nat
    BY BootAssumption
  <2>2. \A p \in 1 .. RomPages : flash[p] = ImagePage(i, p)
    BY <1>4
  <2>3. \A k \in 1 .. RomPages * PagePackets + 0 :
          flash[((k - 1) \div PagePackets) + 1][((k - 1) % PagePackets) + 1] = Packet(i, k)
    <3>1. 0 \in Nat /\ 0 <= PagePackets
      BY <2>1
    <3>2. \A k \in 1 .. 0 : flash[RomPages + 1][k] = Packet(i, RomPages * PagePackets + k)
      OBVIOUS
    <3>3. QED BY <2>1, <2>2, <3>1, <3>2, Filled
  <2>4. RomPages * PagePackets + 0 = Packets(Length[i])
    BY <1>4, <2>1
  <2>5. InFlash(i)
    BY <2>3, <2>4 DEF InFlash
  <2>6. QED BY <1>1, <2>5 DEF FlashWhole
<1>5. QED BY <1>3, <1>4 DEF Init

LEMMA WholeKept ==
  ASSUME FlashWhole, UNCHANGED <<flash, hazards, trusted>>, Writing => Writing'
  PROVE  FlashWhole'
<1>1. \A i \in Images : InFlash(i) => InFlash(i)'
  BY DEF InFlash
<1>2. QED BY <1>1 DEF FlashWhole

LEMMA WholeLost ==
  ASSUME Typed, NEW b, Hazard(b)
  PROVE  FlashWhole'
<1>1. hazards' # 0
  BY DEF Typed, Hazard
<1>2. QED BY <1>1 DEF FlashWhole

LEMMA NextWhole == BootInv /\ FlashWhole /\ [Next]_vars => FlashWhole'
<1> SUFFICES ASSUME BootInv, FlashWhole, [Next]_vars PROVE FlashWhole'
  OBVIOUS
<1>1. BootInv'
  BY NextBoot
<1>2. Typed
  BY DEF BootInv
<1>3. CASE Open \/ Lpcboot \/ BusWakes \/ UNCHANGED vars
  <2>1. UNCHANGED <<at, job, flash, hazards, trusted>>
    BY <1>3 DEF Open, Lpcboot, SendCommand, ReadReply, ReadInfo, SendData, Finish, BusWakes,
                vars, deviceVars, faultVars
  <2>2. QED BY <2>1, WholeKept DEF Writing
<1>4. CASE Abandon
  <2>1. CASE Hazard(FALSE)
    BY <1>2, <2>1, WholeLost
  <2>2. CASE ~trusted /\ UNCHANGED <<hazards, trusted>>
    BY <2>2 DEF FlashWhole
  <2>3. QED BY <1>4, <2>1, <2>2 DEF Abandon
<1>5. CASE BusSleeps \/ Deconfigure \/ PowerLoss
  BY <1>2, <1>5, WholeLost DEF BusSleeps, Deconfigure, PowerLoss
<1>6. CASE Reset \/ EnumTimeout \/ LoopTimeout \/ RecvCommand \/ Xmit \/ Drain
             \/ Configure \/ AppResets
  <2>1. UNCHANGED <<flash, hazards, trusted>>
    BY <1>6 DEF Reset, EnumTimeout, LoopTimeout, StartApp, RecvCommand, Xmit, Drain, Configure,
                AppResets, faultVars
  <2>2. Writing => Configure
    BY <1>6 DEF Writing, Reset, EnumTimeout, LoopTimeout, RecvCommand, Xmit, Drain, AppResets
  <2>3. Writing => Writing'
    BY <2>2 DEF Writing, Configure
  <2>4. QED BY <2>1, <2>3, WholeKept
<1>7. CASE Recv
  <2>1. UNCHANGED <<flash, hazards, trusted>>
    BY <1>7 DEF Recv, faultVars
  <2>2. Writing => Writing'
    BY <1>7 DEF Recv, AfterRecv, Writing
  <2>3. QED BY <2>1, <2>2, WholeKept
<1>8. CASE Erase
  <2>1. CASE Hazard(FALSE)
    BY <1>2, <2>1, WholeLost
  <2>2. CASE flash' = [flash EXCEPT ![job.page] = Page(Blank)] /\ UNCHANGED <<hazards, trusted>>
    <3> SUFFICES ASSUME hazards = 0 PROVE FlashWhole'
      BY <2>2 DEF FlashWhole
    <3>1. trusted /\ trusted' /\ at = "erase" /\ UNCHANGED job
          /\ at' = (IF job.letter = "W" THEN "write" ELSE "final")
      BY <1>8, <2>2 DEF FlashWhole, Erase
    <3>2. CASE job.letter = "W"
      BY <3>1, <3>2 DEF FlashWhole, Writing
    <3>3. CASE job.letter # "W"
      <4>1. attached /\ host.at \in {"reply", "info", "data", "final"} /\ Talk
        BY <3>1, Engaged DEF Busy
      <4>2. host.at = "reply" /\ Answering
        BY <3>1, <3>3, <4>1 DEF Talk, Sending, Ending, Informed, Command, Answered
      <4>3. job.page = 1
        BY <3>1, <4>2 DEF Answering, Accepted
      <4>4. 1 \in 1 .. RomPages /\ 1 \in 1 .. PagePackets /\ flash \in [1 .. RomPages -> Memory]
        BY BootAssumption, <1>2 DEF Typed
      <4>5. flash'[1][1] = Blank
        BY <2>2, <4>3, <4>4 DEF Page
      <4>6. QED BY <3>1, <4>5 DEF FlashWhole
    <3>4. QED BY <3>2, <3>3
  <2>3. QED BY <1>8, <2>1, <2>2 DEF Erase
<1>9. CASE Write
  <2>1. CASE Hazard(FALSE)
    BY <1>2, <2>1, WholeLost
  <2>2. CASE UNCHANGED <<hazards, trusted>>
    <3> SUFFICES ASSUME hazards = 0 PROVE FlashWhole'
      BY <2>2 DEF FlashWhole
    <3>1. /\ trusted /\ trusted' /\ at = "write" /\ at' \in {"recv", "final"}
          /\ job'.letter = job.letter /\ UNCHANGED <<attached, host>>
      BY <1>9, <2>2 DEF FlashWhole, Write, usbVars
    <3>2. attached /\ host.at \in {"data", "final"} /\ Sending
      BY <3>1, InData
    <3>3. job.letter = "W" /\ host.letter = "W" /\ host.img \in Images
      BY <1>2, <3>1, <3>2, Sizes DEF Sending
    <3>4. CASE at' = "recv"
      BY <3>1, <3>3, <3>4 DEF FlashWhole, Writing
    <3>5. CASE at' = "final"
      <4>1. Talk'
        BY <1>1, <3>1, <3>2 DEF BootInv, Tracked
      <4>2. Ending'
        BY <3>1, <3>2, <3>5, <4>1 DEF Talk, Sending
      <4>3. InFlash(host.img)'
        BY <3>1, <3>3, <4>2 DEF Ending, Done
      <4>4. QED BY <3>1, <3>3, <4>3 DEF FlashWhole, InFlash
    <3>6. QED BY <3>1, <3>4, <3>5
  <2>3. QED BY <1>9, <2>1, <2>2 DEF Write
<1>10. QED BY <1>3, <1>4, <1>5, <1>6, <1>7, <1>8, <1>9 DEF Next, Device

(* Type correctness of Boot, for every instance. *)
THEOREM BootTypes == Spec => []Typed
BY TypedAlways

(* OkayMeansDone for every instance: "OKAY" of lpcboot is true although the loader
   looks at no result of usb_recv or the IAP, if these do not fail.               *)
THEOREM OkayIsHonest == Spec => []OkayMeansDone
<1>1. BootInv => OkayMeansDone
  <2> SUFFICES ASSUME BootInv, host.at = "okay", trusted
               PROVE  CASE host.letter = "W" -> InFlash(host.img)
                        [] host.letter = "E" -> flash[1] = Page(Blank)
                        [] host.letter = "X" -> attached =>
                             \A k \in 1 .. Packets(FileLength) : ram[k] = Packet(host.img, k)
                        [] OTHER -> TRUE
    BY DEF OkayMeansDone
  <2>1. Done
    BY DEF BootInv, Tracked, Rest
  <2>2. host.letter = "X" => FileLength = Length[host.img]
    BY DEF FileLength, WithFile
  <2>3. QED BY <2>1, <2>2 DEF Done, Whole
<1>2. QED BY <1>1, BootAlways, PTL

(* InStep for every instance: lpcboot and the loader agree where they are, packet
   by packet, so that no command is taken for data and no answer is left unread.  *)
THEOREM StaysInStep == Spec => []InStep
<1>1. BootInv => InStep
  <2> SUFFICES ASSUME BootInv, trusted, attached
               PROVE  CASE host.at = "send" -> at \in {"loop", "drain"} /\ in = "none" /\ out = NoPacket
                        [] host.at = "okay" -> in = "none" /\ out = NoPacket
                        [] host.at = "data" ->
                             /\ at \in {"recv", "erase", "write"} /\ in = "none"
                             /\ Packets(Received) + (IF out = NoPacket THEN 0 ELSE 1) = host.sent
                        [] host.at = "final" ->
                             /\ in = "none" => at \in {"recv", "erase", "write", "final"}
                             /\ in # "none" => at \in {"loop", "drain"} /\ out = NoPacket
                        [] OTHER -> TRUE
    BY DEF InStep
  <2>1. Rest /\ Talk
    BY DEF BootInv, Tracked
  <2>2. host.at = "send" => at \in {"loop", "drain"} /\ in = "none" /\ out = NoPacket
    <3>1. at \in Places \ {"reset", "enum", "app", "ram"}
      BY DEF BootInv, Typed, Offline
    <3>2. QED BY <2>1, <3>1 DEF Rest, Quiet, Busy, Places
  <2>3. host.at = "okay" => in = "none" /\ out = NoPacket
    BY <2>1 DEF Rest, Quiet
  <2>4. ASSUME host.at = "data"
        PROVE  /\ at \in {"recv", "erase", "write"} /\ in = "none"
               /\ Packets(Received) + (IF out = NoPacket THEN 0 ELSE 1) = host.sent
    <3>1. Sending /\ Counted
      BY <2>1, <2>4 DEF Talk, Sending
    <3>2. Packets(Received) = Base + Packets(got)
      <4>1. Base \in Nat /\ got \in Nat /\ PagePackets \in Nat /\ job.page \in Nat
        BY Sizes DEF BootInv
      <4>2. Received = 2 * Base + got
        BY <4>1 DEF Received, Base
      <4>3. Packets(2 * Base + got) = Base + Packets(got)
        BY <4>1, Halves
      <4>4. QED BY <4>2, <4>3
    <3>3. QED BY <3>1, <3>2 DEF Sending, Counted
  <2>5. ASSUME host.at = "final"
        PROVE  /\ in = "none" => at \in {"recv", "erase", "write", "final"}
               /\ in # "none" => at \in {"loop", "drain"} /\ out = NoPacket
    BY <2>1, <2>5 DEF Talk, Sending, Ending
  <2>6. QED BY <2>2, <2>3, <2>4, <2>5
<1>2. QED BY <1>1, BootAlways, PTL

(* ImageStarted for every instance: while nothing goes wrong, the application that
   the timer starts is a whole image.                                             *)
THEOREM StartsWholeImages == Spec => []ImageStarted
<1>1. BootInv /\ FlashWhole /\ LoaderInv => ImageStarted
  BY DEF LoaderInv, Seen, FlashWhole, Writing, ImageStarted, NotBlank
<1>2. Init => BootInv /\ FlashWhole
  BY InitBoot, InitWhole
<1>3. (BootInv /\ FlashWhole) /\ [Next]_vars => (BootInv /\ FlashWhole)'
  BY NextBoot, NextWhole
<1>4. QED BY <1>1, <1>2, <1>3, LoaderAlways, PTL DEF Spec

-----------------------------------------------------------------------------
(* Memory.  Whatever is sent, killed or unplugged, trusted or not: a job accepted
   fits the memory it is for, and what is left of it fits what is left there.     *)

Ranged ==
  /\ out.kind = "cmd" /\ out.letter \in WithFile => out.arg > 0
  /\ at \in {"ack", "recv", "erase", "write"} =>
       /\ job.letter = "W" => job.left > 0 /\ 2 * Base + job.left <= 2 * (RomPages * PagePackets)
       /\ job.letter = "X" => job.left > 0 /\ job.left <= 2 * RamPackets
       /\ job.letter = "E" => job.page = 1
  /\ at = "recv" => job.letter \in {"W", "X"} /\ got < Due /\ got % 2 = 0
  /\ at \in {"erase", "write"} => job.letter \in {"W", "E"}
  /\ at = "write" => job.letter = "W"
(* No page outside the ROM is erased or programmed, and no packet is put outside
   the RAM: what the comparison with ROM_SIZE and RAM_SIZE in handle is for.      *)
WithinMemory ==
  /\ at \in {"erase", "write"} => job.page \in 1 .. RomPages
  /\ at = "recv" => got \div 2 + 1 \in 1 .. RamPackets

LEMMA RangedKept ==
  ASSUME Ranged, out'.kind = "none" \/ out' = out, UNCHANGED <<job, got>>,
         at' = at \/ at' \notin {"ack", "recv", "erase", "write"}
  PROVE  Ranged'
BY DEF Ranged, Base, Due

LEMMA NoCommand == NoPacket.kind = "none" /\ \A i \in Images, k \in Nat : Packet(i, k).kind = "data"
BY DEF NoPacket, Packet

LEMMA InitRanged == Init => Ranged
BY NoCommand DEF Init, Ranged

LEMMA NewDue ==
  ASSUME Typed', job'.left > 0, job'.letter \in {"W", "X"}
  PROVE  Due' > 0
<1>1. PagePackets \in Nat \ {0} /\ job'.left \in Nat
  BY BootAssumption DEF Typed
<1>2. QED BY <1>1 DEF Due, Least, PageUnits

LEMMA ReturnRanged ==
  ASSUME Typed, Typed', Ranged, at \in {"ack", "info", "final"}, Return,
         out'.kind = "none" \/ out' = out
  PROVE  Ranged'
<1>1. CASE at' = "recv"
  <2>1. at = "ack" /\ job.letter \in {"W", "X"} /\ job' = job /\ got' = 0
    BY <1>1 DEF Return, AfterXmit
  <2>2. job.left > 0
    BY <2>1 DEF Ranged
  <2>3. Due' > 0
    BY <2>1, <2>2, NewDue
  <2>4. QED BY <1>1, <2>1, <2>3 DEF Ranged, Base
<1>2. CASE at' # "recv"
  <2>1. at' \in {"info", "drain", "loop"}
    BY <1>2 DEF Return, AfterXmit
  <2>2. QED BY <2>1 DEF Ranged
<1>3. QED BY <1>1, <1>2

LEMMA NextRanged == Typed /\ Typed' /\ Ranged /\ [Next]_vars => Ranged'
<1> SUFFICES ASSUME Typed, Typed', Ranged, [Next]_vars PROVE Ranged'
  OBVIOUS
<1>1. CASE SendCommand
  <2>1. host.at # "idle" /\ UNCHANGED <<at, job, got>>
        /\ out' = [kind |-> "cmd", letter |-> host.letter, arg |-> FileLength]
    BY <1>1 DEF SendCommand, deviceVars
  <2>2. host.letter \in WithFile => FileLength > 0
    BY <2>1, Sizes DEF FileLength
  <2>3. QED BY <2>1, <2>2 DEF Ranged, Base, Due
<1>2. CASE SendData
  <2>1. out'.kind = "data" /\ UNCHANGED <<at, job, got>>
    BY <1>2 DEF SendData, deviceVars, Packet
  <2>2. QED BY <2>1 DEF Ranged, Base, Due
<1>3. CASE Open \/ ReadReply \/ ReadInfo \/ Finish \/ Abandon \/ BusSleeps \/ BusWakes \/ UNCHANGED vars
  <2>1. UNCHANGED <<at, job, got, out>>
    BY <1>3 DEF Open, ReadReply, ReadInfo, Finish, Abandon, BusSleeps, BusWakes, vars, deviceVars,
                usbVars
  <2>2. QED BY <2>1, RangedKept
<1>4. CASE Reset \/ EnumTimeout \/ LoopTimeout \/ Configure \/ AppResets
  <2>1. UNCHANGED <<job, got>> /\ (out' = NoPacket \/ out' = out)
        /\ (at' = at \/ at' \notin {"ack", "recv", "erase", "write"})
    BY <1>4 DEF Reset, EnumTimeout, LoopTimeout, StartApp, Detach, Configure, AppResets, usbVars
  <2>2. QED BY <2>1, NoCommand, RangedKept
<1>5. CASE RecvCommand
  <2>1. out' = NoPacket
    BY <1>5 DEF RecvCommand
  <2>2. CASE out.kind = "cmd"
    <3>1. Handle /\ out.letter \in Letters /\ out.arg \in Nat
      BY <1>5, <2>2, Kinds DEF RecvCommand
    <3>2. job'.letter = out.letter /\ job'.left = out.arg /\ job'.page = 1
      BY <3>1 DEF Handle
    <3>3. at' \in {"final", "erase", "ack"} /\ (at' = "erase" => out.letter = "E")
          /\ (at' = "ack" => ~TooLong)
      BY <3>1 DEF Handle, Refused
    <3>4. Base' = 0
      BY <3>2, BootAssumption DEF Base
    <3>5. at' = "ack" /\ out.letter \in {"W", "X"} => out.arg > 0 /\ out.arg <= Limit
      <4>1. Limit \in Nat
        BY BootAssumption DEF Limit
      <4>2. QED BY <2>2, <3>1, <3>3, <4>1 DEF Ranged, WithFile, TooLong
    <3>6. Limit = IF out.letter = "W" THEN 2 * (RomPages * PagePackets) ELSE 2 * RamPackets
      BY BootAssumption DEF Limit
    <3>7. QED BY <2>1, <3>1, <3>2, <3>3, <3>4, <3>5, <3>6, NoCommand DEF Ranged
  <2>3. CASE out.kind # "cmd"
    <3>1. at' = "loop"
      BY <1>5, <2>3 DEF RecvCommand
    <3>2. QED BY <2>1, <3>1, NoCommand DEF Ranged
  <2>4. QED BY <2>2, <2>3
<1>6. CASE Xmit
  BY <1>6, ReturnRanged DEF Xmit
<1>7. CASE Recv
  <2>1. /\ at = "recv" /\ out # NoPacket /\ out' = NoPacket /\ job' = job
        /\ at' \in {"recv", AfterRecv} /\ got' = got + Least(Units(out), Due - got)
        /\ (at' = "recv" => Least(Units(out), Due - got) >= 2 /\ got + Least(Units(out), Due - got) # Due)
    <3>1. Least(Units(out), Due - got) \in Int
      <4>1. Due \in Nat /\ Units(out) \in {1, 2} /\ got \in Nat
        BY <1>7, Kinds, BootAssumption DEF Recv, Due, Least, PageUnits, Typed
      <4>2. QED BY <4>1 DEF Least
    <3>2. QED BY <1>7, <3>1 DEF Recv, AfterRecv
  <2>2. job.letter \in {"W", "X"} /\ got < Due /\ got % 2 = 0
    BY <2>1 DEF Ranged
  <2>3. Base' = Base /\ Due' = Due
    BY <2>1 DEF Base, Due
  <2>4. CASE at' = "recv"
    <3>1. Units(out) \in {1, 2} /\ got \in Nat /\ Due \in Nat
      BY <2>1, Kinds, BootAssumption DEF Due, Least, PageUnits, Typed
    <3>2. Least(Units(out), Due - got) = 2
      BY <2>1, <2>4, <3>1 DEF Least
    <3>3. got' = got + 2 /\ got' <= Due /\ got' # Due
      BY <2>1, <2>2, <2>4, <3>1, <3>2 DEF Least
    <3>4. got' < Due /\ got' % 2 = 0
      BY <2>2, <3>1, <3>3, Halves
    <3>5. QED BY <2>1, <2>2, <2>3, <2>4, <3>4, NoCommand DEF Ranged
  <2>5. CASE at' # "recv"
    <3>1. at' = (IF job.letter = "W" THEN "erase" ELSE "final")
      BY <2>1, <2>5 DEF AfterRecv
    <3>2. QED BY <2>1, <2>2, <2>3, <3>1, NoCommand DEF Ranged
  <2>6. QED BY <2>4, <2>5
<1>8. CASE Erase
  <2>1. at = "erase" /\ at' = (IF job.letter = "W" THEN "write" ELSE "final")
        /\ UNCHANGED <<job, got, out>>
    BY <1>8 DEF Erase, usbVars
  <2>2. QED BY <2>1 DEF Ranged, Base
<1>9. CASE Write
  <2>1. /\ at = "write" /\ job.letter = "W" /\ at' = (IF job.left > Due THEN "recv" ELSE "final")
        /\ job'.letter = "W" /\ job'.left = job.left - Due /\ job'.page = job.page + 1
        /\ got' = 0 /\ out' = out
    BY <1>9 DEF Write, usbVars, NextPage, Ranged
  <2>2. CASE job.left > Due
    <3>1. /\ PagePackets \in Nat \ {0} /\ job.left \in Nat /\ job.page \in Nat \ {0} /\ Base \in Nat
      BY Sizes
    <3>2. Due = 2 * PagePackets
      BY <2>1, <2>2, <3>1 DEF Due, Least, PageUnits
    <3>3. Base' = Base + PagePackets
      BY <2>1, <3>1, NextBase DEF Base
    <3>4. job'.left > 0 /\ 2 * Base' + job'.left <= 2 * (RomPages * PagePackets)
      <4>1. 2 * Base' + job'.left = 2 * Base + job.left
        BY <2>1, <3>1, <3>2, <3>3
      <4>2. QED BY <2>1, <2>2, <3>1, <3>2, <4>1 DEF Ranged
    <3>5. Due' > 0
      BY <2>1, <3>4, NewDue
    <3>6. QED BY <2>1, <2>2, <3>4, <3>5 DEF Ranged
  <2>3. CASE ~(job.left > Due)
    BY <2>1, <2>3 DEF Ranged
  <2>4. QED BY <2>2, <2>3
<1>10. CASE Drain \/ PowerLoss
  <2>1. out' = NoPacket /\ at' \in {"ram", "reset"}
    BY <1>10 DEF Drain, AfterDrain, PowerLoss, Detach
  <2>2. QED BY <2>1, NoCommand DEF Ranged
<1>11. CASE Deconfigure
  <2>1. out' = NoPacket
    BY <1>11 DEF Deconfigure, Detach, AfterDrain
  <2>2. CASE at \in {"loop", "recv"}
    <3>1. UNCHANGED <<job, got>> /\ at' = (IF at = "recv" THEN AfterRecv ELSE "loop")
      BY <1>11, <2>2 DEF Deconfigure
    <3>2. QED BY <2>1, <2>2, <3>1, NoCommand DEF Ranged, AfterRecv, Base
  <2>3. CASE at \in {"ack", "info", "final"}
    BY <1>11, <2>1, <2>3, NoCommand, ReturnRanged DEF Deconfigure
  <2>4. CASE at = "drain"
    BY <1>11, <2>1, <2>4, NoCommand DEF Deconfigure, AfterDrain, Ranged
  <2>5. QED BY <1>11, <2>2, <2>3, <2>4 DEF Deconfigure
<1>12. QED BY <1>1, <1>2, <1>3, <1>4, <1>5, <1>6, <1>7, <1>8, <1>9, <1>10, <1>11
       DEF Next, Lpcboot, Device

(* WithinMemory, for every instance and whatever goes wrong. *)
THEOREM StaysInMemory == Spec => []WithinMemory
<1>1. Typed /\ Ranged => WithinMemory
  <2> SUFFICES ASSUME Typed, Ranged PROVE WithinMemory
    OBVIOUS
  <2>1. /\ PagePackets \in Nat \ {0} /\ RomPages \in Nat \ {0} /\ RamPackets \in Nat \ {0}
        /\ PagePackets <= RamPackets /\ job.left \in Nat /\ job.page \in Nat \ {0} /\ Base \in Nat
        /\ got \in Nat
    BY Sizes
  <2>2. ASSUME at \in {"erase", "write"}
        PROVE  job.page \in 1 .. RomPages
    <3>1. CASE job.letter = "W"
      <4>1. job.left > 0 /\ 2 * Base + job.left <= 2 * (RomPages * PagePackets)
        BY <2>2, <3>1 DEF Ranged
      <4>2. RomPages * PagePackets \in Nat
        BY <2>1
      <4>3. Base < RomPages * PagePackets
        BY <2>1, <4>1, <4>2
      <4>4. job.page - 1 \in Nat
        BY <2>1
      <4>5. RomPages <= job.page - 1 => RomPages * PagePackets <= (job.page - 1) * PagePackets
        BY <2>1, <4>4, Mono
      <4>6. QED BY <2>1, <4>3, <4>5 DEF Base
    <3>2. CASE job.letter = "E"
      BY <2>1, <2>2, <3>2 DEF Ranged
    <3>3. QED BY <2>2, <3>1, <3>2 DEF Ranged
  <2>3. ASSUME at = "recv"
        PROVE  got \div 2 + 1 \in 1 .. RamPackets
    <3>1. job.letter \in {"W", "X"} /\ got < Due /\ got % 2 = 0
      BY <2>3 DEF Ranged
    <3>2. Due \in Nat /\ Due <= 2 * RamPackets
      <4>1. CASE job.letter = "W"
        BY <2>1, <4>1 DEF Due, Least, PageUnits
      <4>2. CASE job.letter = "X"
        <5>1. job.left <= 2 * RamPackets
          BY <2>3, <4>2 DEF Ranged
        <5>2. QED BY <2>1, <4>2, <5>1 DEF Due
      <4>3. QED BY <3>1, <4>1, <4>2
    <3>3. QED BY <2>1, <3>1, <3>2
  <2>4. QED BY <2>2, <2>3 DEF WithinMemory
<1>2. Init => Typed /\ Ranged
  BY InitTyped, InitRanged
<1>3. (Typed /\ Ranged) /\ [Next]_vars => (Typed /\ Ranged)'
  BY LpcbootTyped, DeviceTyped, WorldTyped, NextRanged DEF Next
<1>4. QED BY <1>1, <1>2, <1>3, PTL DEF Spec
=============================================================================
