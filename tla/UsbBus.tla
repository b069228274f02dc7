-------------------------------- MODULE UsbBus --------------------------------
(***************************************************************************)
(* What the three USB device drivers have in common: the host, the device    *)
(* controller's endpoints 0 and 1 as the drivers use them, and the program,  *)
(* which calls usb_recv and usb_xmit in turn, as the main loops of m3debug   *)
(* and swdp do.  The drivers are UsbV1, UsbV2 and UsbStm32; Usb runs each.   *)
(*                                                                           *)
(* A packet is numbered; it is full (64 bytes), short or empty.  Counts are  *)
(* in full packets.  A bus reset begins a new session.                       *)
(***************************************************************************)
EXTENDS Integers, Sequences

CONSTANTS
  MaxPackets, \* packets the host sends in a session, and the program in a call
  MaxResets,
  MaxAborts   \* control transfers the host gives up in a session

ASSUME UsbAssumption == {MaxPackets, MaxResets, MaxAborts} \subseteq Nat /\ MaxPackets > 0

VARIABLES
  driver,     \* "v1", "v2" or "stm32"
  drv,        \* its own state
  online,     \* _usb_online, usb_state
  setup,      \* the request in the SETUP latch, or "none"
  ctlIn,      \* what endpoint 0 answers IN with: "nak", "data" or "ack" (empty)
  ctlOut,     \* endpoint 0 takes the host's empty OUT packet
  armed,      \* endpoint 1 takes an OUT packet
  outBuf, inBuf,     \* packets in endpoint 1's buffers, or NoPacket
  ints,       \* interrupts pending
  ctl,        \* the host's control transfer and its stage
  described, configured,   \* how far the host has enumerated the device
  session, aborts,
  clean,      \* history: every reset so far found the driver at rest
  sent, taken,       \* packets the host has sent and received in this session
  call,       \* the program's call, and how many packets of it are left
  got, xmitted       \* packets the program received and sent in this session

hostVars == <<ctl, described, configured, session, aborts, clean, sent, taken>>
ctlVars  == <<setup, ctlIn, ctlOut>>
dataVars == <<armed, outBuf, inBuf>>
progVars == <<call, got, xmitted>>
vars == <<driver, drv, online, ctlVars, dataVars, ints, hostVars, progVars>>

Sizes == {"full", "short", "empty"}
NoPacket == [s |-> 0, n |-> 0, size |-> "none"]
NoCtl == [req |-> "none", stage |-> "none"]

BusInit ==
  /\ online = FALSE /\ setup = "none" /\ ctlIn = "nak" /\ ctlOut = FALSE
  /\ armed = FALSE /\ outBuf = NoPacket /\ inBuf = NoPacket /\ ints = {}
  /\ ctl = NoCtl /\ described = FALSE /\ configured = FALSE /\ session = 1 /\ aborts = 0
  /\ clean = TRUE
  /\ sent = <<>> /\ taken = <<>> /\ got = <<>> /\ xmitted = <<>>
  /\ call \in [at : {"recv"}, left : 1 .. MaxPackets]

-----------------------------------------------------------------------------
(* The host *)

(* A SETUP packet is always taken, and puts an end to what endpoint 0 was at. *)
Setup(req) ==
  /\ "reset" \notin ints
  /\ setup' = req /\ ctlIn' = "nak" /\ ctlOut' = FALSE /\ ints' = ints \cup {"ep0out"}
  /\ ctl' = [req |-> req, stage |-> IF req = "desc" THEN "data" ELSE "ack"]

(* The host reads a descriptor, then sets the configuration; it may give up a
   transfer and start it over.                                                 *)
Request == IF described THEN "conf" ELSE "desc"
HostRequests ==
  /\ ctl = NoCtl /\ ~configured /\ Setup(Request)
  /\ UNCHANGED <<described, configured, session, aborts, clean, sent, taken, dataVars>>
HostRetries ==
  /\ ctl # NoCtl /\ aborts < MaxAborts /\ aborts' = aborts + 1
  /\ Setup(Request)
  /\ UNCHANGED <<described, configured, session, clean, sent, taken, dataVars>>

HostCtlIn ==
  /\ ctl.stage = ctlIn /\ ctlIn' = "nak" /\ ints' = ints \cup {"ep0in"}
  /\ ctl' = IF ctl.stage = "data" THEN [ctl EXCEPT !.stage = "status"] ELSE NoCtl
  /\ configured' = (configured \/ ctl.req = "conf")
  /\ UNCHANGED <<setup, ctlOut, dataVars, described, session, aborts, clean, sent, taken>>
HostCtlOut ==
  /\ ctl.stage = "status" /\ ctlOut /\ ctlOut' = FALSE
  /\ ctl' = NoCtl /\ described' = TRUE /\ ints' = ints \cup {"ep0out"}
  /\ UNCHANGED <<setup, ctlIn, dataVars, configured, session, aborts, clean, sent, taken>>

HostOut ==
  /\ configured /\ armed /\ Len(sent) < MaxPackets
  /\ \E size \in Sizes :
       /\ outBuf' = [s |-> session, n |-> Len(sent) + 1, size |-> size]
       /\ sent' = Append(sent, outBuf')
  /\ armed' = FALSE /\ ints' = ints \cup {"out"}
  /\ UNCHANGED <<ctlVars, inBuf, ctl, described, configured, session, aborts, clean, taken>>
HostIn ==
  /\ configured /\ inBuf # NoPacket
  /\ taken' = Append(taken, inBuf) /\ inBuf' = NoPacket /\ ints' = ints \cup {"in"}
  /\ UNCHANGED <<ctlVars, armed, outBuf, ctl, described, configured, session, aborts, clean, sent>>

HostSteps ==
  /\ HostRequests \/ HostRetries \/ HostCtlIn \/ HostCtlOut \/ HostOut \/ HostIn
  /\ UNCHANGED <<driver, drv, online, progVars>>

(* A bus reset empties the endpoints; v1 does not look at its interrupt.  atRest
   says that the driver was at nothing the reset would tear.                     *)
HostResets(atRest) ==
  /\ session <= MaxResets /\ session' = session + 1 /\ "reset" \notin ints
  /\ clean' = (clean /\ atRest)
  /\ ctlIn' = "nak" /\ ctlOut' = FALSE /\ setup' = "none"
  /\ armed' = FALSE /\ outBuf' = NoPacket /\ inBuf' = NoPacket
  /\ ints' = IF driver = "v1" THEN {} ELSE ints \cup {"reset"}
  /\ ctl' = NoCtl /\ described' = FALSE /\ configured' = FALSE /\ aborts' = 0
  /\ sent' = <<>> /\ taken' = <<>> /\ got' = <<>> /\ xmitted' = <<>>
  /\ UNCHANGED <<driver, drv, online, call>>

-----------------------------------------------------------------------------
(* The program and what the drivers' calls do to it *)

(* usb_recv has packet p, and returns with its last or one that is not full. *)
RecvReturns == call' = [at |-> "xmit", left |-> MaxPackets]
Received(p) ==
  /\ got' = Append(got, p) /\ UNCHANGED xmitted
  /\ IF p.size # "full" \/ call.left = 1 THEN RecvReturns
     ELSE call' = [call EXCEPT !.left = @ - 1]

(* usb_xmit passes packet p on, and returns with its last. *)
XmitReturns == call' \in [at : {"recv"}, left : 1 .. MaxPackets]
NextIn == [s |-> session, n |-> Len(xmitted) + 1, size |-> "full"]
Transmitted ==
  /\ xmitted' = Append(xmitted, NextIn) /\ UNCHANGED got
  /\ IF call.left = 1 THEN XmitReturns ELSE call' = [call EXCEPT !.left = @ - 1]

(* A call fails: the program starts over. *)
CallFails == call' \in [at : {"recv"}, left : 1 .. MaxPackets] /\ UNCHANGED <<got, xmitted>>

-----------------------------------------------------------------------------
(* No packet is lost, repeated or reordered in either direction, whatever the host
   gives up and whenever it resets the bus, as long as each reset found the driver
   at rest: usb_recv and usb_xmit hand on what the endpoint registers say, and the
   registers, the driver's own record of them and the interrupts that connect the
   two change at different times.                                                *)
IsPrefixOf(s, t) == Len(s) <= Len(t) /\ SubSeq(t, 1, Len(s)) = s
Pipes == clean => IsPrefixOf(got, sent) /\ IsPrefixOf(taken, xmitted)
=============================================================================
