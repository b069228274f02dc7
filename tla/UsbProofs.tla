------------------------------ MODULE UsbProofs ------------------------------
(***************************************************************************)
(* No driver loses, repeats or reorders a packet, for any number of packets,   *)
(* resets that find it at rest, and given-up control transfers.                *)
(***************************************************************************)
EXTENDS Usb, SequenceTheorems, TLAPS

Packets == [s : Nat, n : Nat, size : Sizes]
Buffers == Packets \cup {NoPacket}
Ints == {"reset", "ep0out", "ep0in", "out", "in"}
DrvV2 ==
  [in0 : BOOLEAN, in1 : BOOLEAN, rx : Buffers, off : BOOLEAN, irq : SUBSET Ints, seen : SUBSET Ints,
   nested : BOOLEAN]
DrvStm32 ==
  [pc : {"online", "arm", "wait", "check", "send"}, polling : BOOLEAN, busy : BOOLEAN,
   rx : Buffers \cup {NoDev}, ep0 : {"idle", "tx", "tx_ack", "rx_ack"}, rxSlip : BOOLEAN, txSlip : BOOLEAN]
TypeOK ==
  /\ session \in Nat
  /\ sent \in Seq(Packets) /\ got \in Seq(Packets)
  /\ taken \in Seq(Packets) /\ xmitted \in Seq(Packets)
  /\ outBuf \in Buffers /\ inBuf \in Buffers /\ ints \in SUBSET Ints
  /\ driver \in {"v1", "v2", "stm32"}
  /\ driver = "v2" => drv \in DrvV2
  /\ driver = "stm32" => drv \in DrvStm32

(* A direction's history and the packet that is under way in it *)
With(seq, buf) == IF buf = NoPacket THEN seq ELSE Append(seq, buf)
Flow(out) == sent = With(got, out) /\ xmitted = With(taken, inBuf)

(* v1: a packet is under way while it is in the endpoint's buffer, and the endpoint
   takes none then.                                                                *)
OnV1 == driver = "v1" => Flow(outBuf) /\ (armed => outBuf = NoPacket)

(* v2: what usb_handle_out notes is what the buffer holds; nobody still has to handle
   that a packet has gone once the next is in the buffer; and until the host has
   configured the device, which the handler learns of by one request, nothing is
   under way.                                                                        *)
Pending == ints \cup drv.irq \cup drv.seen
Quiet ==
  /\ sent = <<>> /\ got = <<>> /\ taken = <<>> /\ xmitted = <<>>
  /\ outBuf = NoPacket /\ inBuf = NoPacket /\ drv.rx = NoPacket
  /\ "out" \notin Pending /\ "in" \notin Pending /\ call.at = "recv"
V2Data ==
  /\ Flow(outBuf)
  /\ armed => outBuf = NoPacket
  /\ drv.rx # NoPacket => drv.rx = outBuf
  /\ inBuf # NoPacket => drv.in1 /\ "in" \notin Pending
  /\ "in" \in ints => drv.in1
Transfers == {NoCtl} \cup {[req |-> "desc", stage |-> s] : s \in {"data", "status"}}
                     \cup {[req |-> "conf", stage |-> "ack"]}
V2Control ==
  /\ ctl \in Transfers /\ setup \in {"none", "desc", "conf"} /\ ctlIn \in {"nak", "data", "ack"}
  /\ setup # "none" => ctl # NoCtl /\ ctl.stage # "status" /\ ctlIn = "nak"
  /\ configured => ctl = NoCtl /\ ~drv.off
  /\ ctlIn = "ack" => ~drv.off
  /\ "reset" \in ints => setup = "none" /\ ctlIn = "nak" /\ ctl = NoCtl /\ ~configured
  /\ configured \/ Quiet
OnV2 == driver = "v2" /\ clean => V2Data /\ V2Control

(* STM32: a packet is under way from its coming until the call that waits for it has
   it; the endpoint's status is not toggled while a reset is still to be handled.    *)
Held ==
  IF outBuf # NoPacket THEN outBuf
  ELSE IF drv.pc = "wait" /\ drv.rx # NoDev THEN drv.rx ELSE NoPacket
Stm32Data ==
  /\ Flow(Held)
  /\ ~drv.rxSlip /\ ~drv.txSlip
  /\ "reset" \in ints => /\ ~armed /\ outBuf = NoPacket /\ inBuf = NoPacket
                         /\ drv.pc = "online" \/ (drv.pc = "wait" /\ drv.rx = NoPacket)
                         /\ drv.pc = "online" => ~online
  /\ armed \/ outBuf # NoPacket => drv.pc = "wait" /\ drv.rx = NoPacket
  /\ armed => outBuf = NoPacket
  /\ "out" \in ints /\ "reset" \notin ints => outBuf # NoPacket
  /\ inBuf # NoPacket => "in" \notin ints /\ drv.busy
  /\ "in" \in ints => drv.busy
OnStm32 == driver = "stm32" /\ clean => Stm32Data

IInv == TypeOK /\ OnV1 /\ OnV2 /\ OnStm32

LEMMA NotAPacket == NoPacket \notin Packets /\ NoDev \notin Buffers
BY DEF NoPacket, Packets, Buffers, Sizes, NoDev

LEMMA PrefixOfWith ==
  ASSUME NEW seq \in Seq(Packets), NEW buf \in Buffers
  PROVE  IsPrefixOf(seq, With(seq, buf))
<1>1. CASE buf = NoPacket
  <2>1. SubSeq(seq, 1, Len(seq)) = seq
    OBVIOUS
  <2> QED BY <1>1, <2>1 DEF With, IsPrefixOf
<1>2. CASE buf # NoPacket
  <2>1. buf \in Packets
    BY <1>2 DEF Buffers
  <2>2. Len(Append(seq, buf)) = Len(seq) + 1
    BY <2>1
  <2>3. SubSeq(Append(seq, buf), 1, Len(seq)) = seq
    BY <2>1
  <2> QED BY <1>2, <2>2, <2>3 DEF With, IsPrefixOf
<1> QED BY <1>1, <1>2

LEMMA InitIInv == Init => IInv
<1> SUFFICES ASSUME Init PROVE IInv
  OBVIOUS
<1>1. BusInit /\ (InitV1 \/ InitV2 \/ InitStm32)
  BY DEF Init
<1>2. TypeOK
  <2>1. <<>> \in Seq(Packets)
    OBVIOUS
  <2>2. driver \in {"v1", "v2", "stm32"} /\ (driver = "v2" => InitV2) /\ (driver = "stm32" => InitStm32)
    BY <1>1 DEF InitV1, InitV2, InitStm32
  <2>3. InitV2 => drv \in DrvV2
    BY DEF InitV2, DrvV2, Buffers
  <2>4. InitStm32 => drv \in DrvStm32
    BY DEF InitStm32, DrvStm32
  <2>5. QED BY <1>1, <2>1, <2>2, <2>3, <2>4 DEF BusInit, TypeOK, Buffers
<1>3. Flow(NoPacket)
  BY <1>1 DEF BusInit, Flow, With
<1>4. OnV1
  BY <1>1, <1>3 DEF BusInit, OnV1
<1>5. OnV2
  <2>1. SUFFICES ASSUME driver = "v2" PROVE V2Data /\ V2Control
    BY DEF OnV2
  <2>2. InitV2
    BY <1>1, <2>1 DEF InitV1, InitStm32
  <2>3. drv.rx = NoPacket /\ drv.irq = {} /\ drv.seen = {}
    BY <2>2 DEF InitV2
  <2>4. QED BY <1>1, <1>3, <2>3 DEF BusInit, V2Data, V2Control, Quiet, Pending, Transfers
<1>6. OnStm32
  <2>1. SUFFICES ASSUME driver = "stm32" PROVE Stm32Data
    BY DEF OnStm32
  <2>2. InitStm32
    BY <1>1, <2>1 DEF InitV1, InitV2
  <2>3. drv.pc = "online" /\ ~drv.rxSlip /\ ~drv.txSlip
    BY <2>2 DEF InitStm32
  <2>4. QED BY <1>1, <1>3, <2>3 DEF BusInit, Stm32Data, Held
<1>7. QED BY <1>2, <1>4, <1>5, <1>6 DEF IInv

-----------------------------------------------------------------------------
(* What the program's calls do to the histories *)

LEMMA NextInIsPacket == TypeOK => NextIn \in Packets
BY DEF TypeOK, NextIn, Packets, Sizes

LEMMA GhostIsPacket == Ghost \in Packets
BY DEF Ghost, Packets, Sizes

LEMMA ReceivedTypes ==
  ASSUME TypeOK, NEW p \in Packets, Received(p)
  PROVE  got' = Append(got, p) /\ got' \in Seq(Packets) /\ xmitted' = xmitted
BY DEF TypeOK, Received

LEMMA TransmittedTypes ==
  ASSUME TypeOK, Transmitted
  PROVE  xmitted' = Append(xmitted, NextIn) /\ xmitted' \in Seq(Packets) /\ got' = got
BY NextInIsPacket DEF TypeOK, Transmitted

(* A handler of v2 crosses the interrupt it has handled off its list. *)
LEMMA DoneIs ==
  ASSUME drv \in DrvV2, NEW who \in {"irq", "seen"}, NEW int \in Ints
  PROVE  /\ Done(who, int) \in DrvV2
         /\ \A f \in {"in0", "in1", "rx", "off", "nested"} : Done(who, int)[f] = drv[f]
         /\ Done(who, int).irq \subseteq drv.irq /\ Done(who, int).seen \subseteq drv.seen
<1>1. CASE who = "irq"
  BY <1>1 DEF Done, DrvV2
<1>2. CASE who = "seen"
  BY <1>2 DEF Done, DrvV2
<1> QED BY <1>1, <1>2

-----------------------------------------------------------------------------
(* The steps keep the types *)

LEMMA HostTypes == TypeOK /\ HostSteps => TypeOK'
<1> SUFFICES ASSUME TypeOK, HostSteps PROVE TypeOK'
  OBVIOUS
<1>1. UNCHANGED <<driver, drv, got, xmitted>>
  BY DEF HostSteps, progVars
<1>2. ASSUME UNCHANGED <<session, sent, taken, dataVars>>, ints' \subseteq ints \cup {"ep0out", "ep0in"}
      PROVE  TypeOK'
  BY <1>1, <1>2 DEF TypeOK, dataVars, Ints
<1>3. CASE HostRequests
  BY <1>2, <1>3 DEF HostRequests, Setup
<1>4. CASE HostRetries
  BY <1>2, <1>4 DEF HostRetries, Setup
<1>5. CASE HostCtlIn
  BY <1>2, <1>5 DEF HostCtlIn
<1>6. CASE HostCtlOut
  BY <1>2, <1>6 DEF HostCtlOut
<1>7. CASE HostOut
  <2>1. PICK size \in Sizes :
          /\ outBuf' = [s |-> session, n |-> Len(sent) + 1, size |-> size]
          /\ sent' = Append(sent, outBuf')
    BY <1>7 DEF HostOut
  <2>2. outBuf' \in Packets
    BY <2>1 DEF Packets, TypeOK
  <2>3. sent' \in Seq(Packets)
    BY <2>1, <2>2 DEF TypeOK
  <2>4. UNCHANGED <<inBuf, session, taken>> /\ ints' = ints \cup {"out"}
    BY <1>7 DEF HostOut
  <2> QED BY <1>1, <2>2, <2>3, <2>4 DEF TypeOK, Buffers, Ints
<1>8. CASE HostIn
  <2>1. taken' = Append(taken, inBuf) /\ inBuf \in Packets
    BY <1>8 DEF HostIn, TypeOK, Buffers
  <2>2. taken' \in Seq(Packets)
    BY <2>1 DEF TypeOK
  <2>3. UNCHANGED <<outBuf, session, sent>> /\ ints' = ints \cup {"in"} /\ inBuf' = NoPacket
    BY <1>8 DEF HostIn
  <2> QED BY <1>1, <2>2, <2>3 DEF TypeOK, Buffers, Ints
<1> QED BY <1>3, <1>4, <1>5, <1>6, <1>7, <1>8 DEF HostSteps

LEMMA ResetTypes == TypeOK /\ Resets => TypeOK'
<1> SUFFICES ASSUME TypeOK, Resets PROVE TypeOK'
  OBVIOUS
<1>1. PICK atRest \in BOOLEAN : HostResets(atRest)
  <2>1. V2AtRest \in BOOLEAN /\ Stm32AtRest \in BOOLEAN
    BY DEF V2AtRest, Stm32AtRest
  <2> QED BY <2>1 DEF Resets
<1>2. /\ session' = session + 1 /\ outBuf' = NoPacket /\ inBuf' = NoPacket
      /\ sent' = <<>> /\ taken' = <<>> /\ got' = <<>> /\ xmitted' = <<>>
      /\ UNCHANGED <<driver, drv>>
  BY <1>1 DEF HostResets
<1>3. ints' \in SUBSET Ints
  BY <1>1 DEF HostResets, TypeOK, Ints
<1>4. <<>> \in Seq(Packets)
  OBVIOUS
<1> QED BY <1>2, <1>3, <1>4 DEF TypeOK, Buffers

LEMMA V1Types == TypeOK /\ V1Steps => TypeOK'
<1> SUFFICES ASSUME TypeOK, V1Steps PROVE TypeOK'
  OBVIOUS
<1>1. UNCHANGED <<driver, drv, session, sent, taken>> /\ driver = "v1"
  BY DEF V1Steps, hostVars
<1>2. CASE V1Polls
  <2>1. UNCHANGED <<outBuf, inBuf, got, xmitted>> /\ ints' = {}
    BY <1>2 DEF V1Polls, progVars
  <2> QED BY <1>1, <2>1 DEF TypeOK
<1>3. CASE V1Reads
  <2>1. outBuf \in Packets
    BY <1>3 DEF V1Reads, TypeOK, Buffers
  <2>2. got' \in Seq(Packets) /\ xmitted' = xmitted
    BY <1>3, <2>1, ReceivedTypes DEF V1Reads
  <2> QED BY <1>1, <1>3, <2>2 DEF V1Reads, TypeOK, Buffers
<1>4. CASE V1Writes
  BY <1>1, <1>4, TransmittedTypes, NextInIsPacket DEF V1Writes, TypeOK, Buffers
<1> QED BY <1>2, <1>3, <1>4 DEF V1Steps

LEMMA V2Types == TypeOK /\ V2Steps => TypeOK'
<1> SUFFICES ASSUME TypeOK, V2Steps PROVE TypeOK'
  OBVIOUS
<1>1. /\ UNCHANGED <<driver, session, sent, taken>> /\ driver = "v2" /\ drv \in DrvV2
      /\ got \in Seq(Packets) /\ xmitted \in Seq(Packets)
      /\ outBuf \in Buffers /\ inBuf \in Buffers /\ ints \in SUBSET Ints
  BY DEF V2Steps, hostVars, TypeOK
<1>2. ASSUME drv' \in DrvV2, outBuf' \in Buffers, inBuf' \in Buffers, ints' \in SUBSET Ints,
             got' \in Seq(Packets), xmitted' \in Seq(Packets)
      PROVE  TypeOK'
  BY <1>1, <1>2 DEF TypeOK
<1>3. NoPacket \in Buffers /\ Ghost \in Buffers /\ NextIn \in Buffers
  BY GhostIsPacket, NextInIsPacket DEF Buffers
<1>4. CASE HandlerSteps
  <2>1. PICK who \in {"irq", "seen"} :
          \/ usb_handle_dev_int(who) \/ usb_handle_ep0out(who) \/ usb_handle_ep0in(who)
          \/ usb_handle_out(who) \/ usb_handle_in(who)
    BY <1>4 DEF HandlerSteps
  <2>2. \A int \in Ints : Done(who, int) \in DrvV2
    BY <1>1, DoneIs
  <2>3. UNCHANGED <<got, xmitted>>
    BY <2>1 DEF usb_handle_dev_int, usb_handle_ep0out, usb_handle_ep0in, usb_handle_out, usb_handle_in,
                progVars
  <2>4. CASE usb_handle_dev_int(who)
    <3>1. Done(who, "reset") \in DrvV2
      BY <2>2 DEF Ints
    <3>2. drv' \in DrvV2
      BY <2>4, <3>1 DEF usb_handle_dev_int, DrvV2
    <3> QED BY <1>1, <1>2, <1>3, <2>3, <2>4, <3>2 DEF usb_handle_dev_int, dataVars
  <2>5. CASE usb_handle_ep0out(who)
    <3>1. Done(who, "ep0out") \in DrvV2
      BY <2>2 DEF Ints
    <3>2. drv' \in DrvV2 /\ outBuf' \in Buffers /\ inBuf' \in Buffers
      <4>1. CASE setup = "none" /\ drv' = Done(who, "ep0out") /\ UNCHANGED dataVars
        BY <1>1, <3>1, <4>1 DEF dataVars
      <4>2. CASE usb_handle_setup_req(who, setup)
        BY <1>1, <1>3, <3>1, <4>2 DEF usb_handle_setup_req, DrvV2, dataVars
      <4> QED BY <2>5, <4>1, <4>2 DEF usb_handle_ep0out
    <3>3. ints' \subseteq ints
      BY <2>5 DEF usb_handle_ep0out
    <3> QED BY <1>1, <1>2, <2>3, <3>2, <3>3
  <2>6. CASE usb_handle_ep0in(who)
    <3>1. Done(who, "ep0in") \in DrvV2
      BY <2>2 DEF Ints
    <3>2. drv' \in DrvV2
      BY <2>6, <3>1 DEF usb_handle_ep0in, DrvV2
    <3> QED BY <1>1, <1>2, <2>3, <2>6, <3>2 DEF usb_handle_ep0in, dataVars
  <2>7. CASE usb_handle_out(who)
    <3>1. Done(who, "out") \in DrvV2
      BY <2>2 DEF Ints
    <3>2. drv' \in DrvV2
      BY <1>1, <1>3, <2>7, <3>1 DEF usb_handle_out, DrvV2
    <3> QED BY <1>1, <1>2, <2>3, <2>7, <3>2 DEF usb_handle_out, dataVars
  <2>8. CASE usb_handle_in(who)
    <3>1. Done(who, "in") \in DrvV2
      BY <2>2 DEF Ints
    <3>2. drv' \in DrvV2
      BY <2>8, <3>1 DEF usb_handle_in, DrvV2
    <3> QED BY <1>1, <1>2, <2>3, <2>8, <3>2 DEF usb_handle_in, dataVars
  <2> QED BY <2>1, <2>4, <2>5, <2>6, <2>7, <2>8
<1>5. CASE IrqTaken
  <2>1. drv' \in DrvV2
    BY <1>1, <1>5 DEF IrqTaken, DrvV2
  <2> QED BY <1>1, <1>2, <1>5, <2>1 DEF IrqTaken, dataVars, progVars
<1>6. CASE V2Polls
  <2>1. drv' \in DrvV2
    BY <1>1, <1>6 DEF V2Polls, DrvV2
  <2> QED BY <1>1, <1>2, <1>6, <2>1 DEF V2Polls, dataVars, progVars
<1>7. CASE usb_ep_read
  <2>1. drv.rx \in Packets
    BY <1>1, <1>7 DEF usb_ep_read, DrvV2, Buffers
  <2>2. got' \in Seq(Packets) /\ xmitted' = xmitted
    BY <1>7, <2>1, ReceivedTypes DEF usb_ep_read
  <2>3. drv' \in DrvV2
    BY <1>1, <1>3, <1>7 DEF usb_ep_read, DrvV2
  <2> QED BY <1>1, <1>2, <1>3, <1>7, <2>2, <2>3 DEF usb_ep_read
<1>8. CASE usb_ep_write
  <2>1. drv' \in DrvV2
    BY <1>1, <1>8 DEF usb_ep_write, DrvV2
  <2>2. got' = got /\ xmitted' \in Seq(Packets)
    BY <1>8, TransmittedTypes DEF usb_ep_write
  <2> QED BY <1>1, <1>2, <1>3, <1>8, <2>1, <2>2 DEF usb_ep_write
<1> QED BY <1>4, <1>5, <1>6, <1>7, <1>8 DEF V2Steps

LEMMA Stm32Types == TypeOK /\ Stm32Steps => TypeOK'
<1> SUFFICES ASSUME TypeOK, Stm32Steps PROVE TypeOK'
  OBVIOUS
<1>1. /\ UNCHANGED <<driver, session, sent, taken>> /\ driver = "stm32" /\ drv \in DrvStm32
      /\ got \in Seq(Packets) /\ xmitted \in Seq(Packets)
      /\ outBuf \in Buffers /\ inBuf \in Buffers /\ ints \in SUBSET Ints
  BY DEF Stm32Steps, hostVars, TypeOK
<1>2. ASSUME drv' \in DrvStm32, outBuf' \in Buffers, inBuf' \in Buffers, ints' \in SUBSET Ints,
             got' \in Seq(Packets), xmitted' \in Seq(Packets)
      PROVE  TypeOK'
  BY <1>1, <1>2 DEF TypeOK
<1>3. NoPacket \in Buffers /\ NextIn \in Buffers
  BY NextInIsPacket DEF Buffers
<1>4. CASE usb_handle_reset
  <2>1. [s |-> session, n |-> 0, size |-> "empty"] \in Buffers
    BY DEF TypeOK, Buffers, Packets, Sizes
  <2>2. drv' \in DrvStm32
    BY <1>1, <1>4 DEF usb_handle_reset, DrvStm32
  <2> QED BY <1>1, <1>2, <1>3, <1>4, <2>1, <2>2 DEF usb_handle_reset, progVars
<1>5. CASE usb_handle_ep0_setup
  <2>1. drv' \in DrvStm32
    BY <1>1, <1>5 DEF usb_handle_ep0_setup, DrvStm32
  <2> QED BY <1>1, <1>2, <1>5, <2>1 DEF usb_handle_ep0_setup, dataVars, progVars
<1>6. CASE usb_handle_ep0_tx
  <2>1. drv' \in DrvStm32
    BY <1>1, <1>6 DEF usb_handle_ep0_tx, DrvStm32
  <2> QED BY <1>1, <1>2, <1>6, <2>1 DEF usb_handle_ep0_tx, dataVars, progVars
<1>7. CASE usb_handle_ep0_rx
  <2>1. drv' \in DrvStm32
    BY <1>1, <1>7 DEF usb_handle_ep0_rx, DrvStm32
  <2> QED BY <1>1, <1>2, <1>7, <2>1 DEF usb_handle_ep0_rx, dataVars, progVars
<1>8. CASE usb_handle_ep1
  <2>1. drv' \in DrvStm32
    BY <1>1, <1>8 DEF usb_handle_ep1, DrvStm32
  <2> QED BY <1>1, <1>2, <1>3, <1>8, <2>1 DEF usb_handle_ep1, progVars
<1>9. CASE usb_handle_irq
  <2>1. drv' \in DrvStm32
    BY <1>1, <1>9 DEF usb_handle_irq, DrvStm32
  <2> QED BY <1>1, <1>2, <1>9, <2>1 DEF usb_handle_irq, dataVars, progVars
<1>10. CASE GoesOnline
  <2>1. drv' \in DrvStm32
    BY <1>1, <1>10 DEF GoesOnline, DrvStm32
  <2> QED BY <1>1, <1>2, <1>10, <2>1 DEF GoesOnline, dataVars, progVars
<1>11. CASE Arms
  <2>1. drv' \in DrvStm32
    BY <1>1, <1>3, <1>11 DEF Arms, DrvStm32
  <2> QED BY <1>1, <1>2, <1>11, <2>1 DEF Arms, progVars
<1>12. CASE HasPacket
  <2>1. drv' \in DrvStm32
    BY <1>1, <1>12 DEF HasPacket, DrvStm32
  <2>2. drv.rx \in Packets
    BY <1>1, <1>12 DEF HasPacket, DrvStm32, Buffers
  <2>3. got' \in Seq(Packets) /\ xmitted' = xmitted
    BY <1>12, <2>2, ReceivedTypes DEF HasPacket
  <2> QED BY <1>1, <1>2, <1>12, <2>1, <2>3 DEF HasPacket, dataVars
<1>13. CASE Checks
  <2>1. drv' \in DrvStm32
    BY <1>1, <1>13 DEF Checks, DrvStm32
  <2> QED BY <1>1, <1>2, <1>13, <2>1 DEF Checks, dataVars, progVars
<1>14. CASE Sends
  <2>1. drv' \in DrvStm32
    BY <1>1, <1>14 DEF Sends, DrvStm32
  <2>2. got' = got /\ xmitted' \in Seq(Packets)
    BY <1>14, TransmittedTypes DEF Sends
  <2> QED BY <1>1, <1>2, <1>3, <1>14, <2>1, <2>2 DEF Sends
<1>15. CASE Fails
  <2>1. drv' \in DrvStm32
    BY <1>1, <1>15 DEF Fails, DrvStm32
  <2> QED BY <1>1, <1>2, <1>15, <2>1 DEF Fails, CallFails, dataVars
<1> QED
  BY <1>4, <1>5, <1>6, <1>7, <1>8, <1>9, <1>10, <1>11, <1>12, <1>13, <1>14, <1>15 DEF Stm32Steps

LEMMA Types == TypeOK /\ [Next]_vars => TypeOK'
<1> SUFFICES ASSUME TypeOK, [Next]_vars PROVE TypeOK'
  OBVIOUS
<1>1. CASE UNCHANGED vars
  BY <1>1 DEF vars, hostVars, dataVars, progVars, TypeOK
<1> QED BY <1>1, HostTypes, ResetTypes, V1Types, V2Types, Stm32Types DEF Next, DriverSteps

-----------------------------------------------------------------------------
(* Each driver's steps, and the host's under it, keep what a packet under way is *)

LEMMA WithPacket ==
  ASSUME NEW p \in Packets, NEW seq
  PROVE  With(seq, p) = Append(seq, p) /\ With(seq, NoPacket) = seq /\ p # NoPacket
BY NotAPacket DEF With

(* What the host does to endpoint 1 while the driver stands still *)
LEMMA HostPackets ==
  ASSUME TypeOK, HostSteps
  PROVE  /\ UNCHANGED <<driver, drv, online, call, got, xmitted, clean>>
         /\ \/ UNCHANGED <<sent, taken, armed, outBuf, inBuf>>
               /\ ints' \subseteq ints \cup {"ep0out", "ep0in"} /\ ("reset" \in ints' <=> "reset" \in ints)
            \/ /\ HostOut /\ configured /\ armed /\ ~armed' /\ ints' = ints \cup {"out"}
               /\ outBuf' \in Packets /\ sent' = Append(sent, outBuf') /\ UNCHANGED <<taken, inBuf>>
            \/ /\ HostIn /\ configured /\ inBuf \in Packets /\ inBuf' = NoPacket
               /\ ints' = ints \cup {"in"}
               /\ taken' = Append(taken, inBuf) /\ UNCHANGED <<sent, outBuf, armed>>
<1>1. UNCHANGED <<driver, drv, online, call, got, xmitted>>
  BY DEF HostSteps, progVars
<1>2. CASE HostRequests
  BY <1>1, <1>2 DEF HostRequests, Setup, dataVars
<1>3. CASE HostRetries
  BY <1>1, <1>3 DEF HostRetries, Setup, dataVars
<1>4. CASE HostCtlIn
  BY <1>1, <1>4 DEF HostCtlIn, dataVars
<1>5. CASE HostCtlOut
  BY <1>1, <1>5 DEF HostCtlOut, dataVars
<1>6. CASE HostOut
  <2>1. PICK size \in Sizes :
          /\ outBuf' = [s |-> session, n |-> Len(sent) + 1, size |-> size]
          /\ sent' = Append(sent, outBuf')
    BY <1>6 DEF HostOut
  <2>2. outBuf' \in Packets
    BY <2>1 DEF Packets, TypeOK
  <2> QED BY <1>1, <1>6, <2>1, <2>2 DEF HostOut
<1>7. CASE HostIn
  <2>1. inBuf \in Packets
    BY <1>7 DEF HostIn, TypeOK, Buffers
  <2> QED BY <1>1, <1>7, <2>1 DEF HostIn
<1> QED BY <1>2, <1>3, <1>4, <1>5, <1>6, <1>7 DEF HostSteps

LEMMA HostFlow ==
  ASSUME TypeOK, HostSteps, NEW old, NEW new, Flow(old), armed => outBuf = NoPacket,
         outBuf' = outBuf => new = old,
         armed /\ outBuf' # outBuf => old = NoPacket /\ new = outBuf'
  PROVE  sent' = With(got', new) /\ xmitted' = With(taken', inBuf')
<1>1. CASE UNCHANGED <<sent, taken, armed, outBuf, inBuf>>
  BY <1>1, HostPackets DEF Flow
<1>2. CASE HostOut /\ outBuf' \in Packets /\ sent' = Append(sent, outBuf') /\ UNCHANGED <<taken, inBuf>>
  <2>1. sent = With(got, old) /\ xmitted = With(taken, inBuf) /\ got' = got /\ xmitted' = xmitted
    BY HostPackets DEF Flow
  <2>2. old = NoPacket /\ new = outBuf'
    BY <1>2, NotAPacket DEF HostOut
  <2>3. sent = got
    BY <2>1, <2>2 DEF With
  <2>4. With(got, outBuf') = Append(got, outBuf')
    BY <1>2, WithPacket
  <2> QED BY <1>2, <2>1, <2>2, <2>3, <2>4
<1>3. CASE /\ inBuf \in Packets /\ inBuf' = NoPacket
           /\ taken' = Append(taken, inBuf) /\ UNCHANGED <<sent, outBuf>>
  <2>1. sent = With(got, old) /\ xmitted = With(taken, inBuf) /\ got' = got /\ xmitted' = xmitted
    BY HostPackets DEF Flow
  <2>2. xmitted' = taken'
    BY <1>3, <2>1, WithPacket
  <2> QED BY <1>3, <2>1, <2>2 DEF With
<1> QED BY <1>1, <1>2, <1>3, HostPackets

LEMMA ResetPackets ==
  ASSUME Resets
  PROVE  /\ UNCHANGED <<driver, drv, online, call>>
         /\ ~armed' /\ outBuf' = NoPacket /\ inBuf' = NoPacket
         /\ sent' = <<>> /\ taken' = <<>> /\ got' = <<>> /\ xmitted' = <<>>
         /\ setup' = "none" /\ ctlIn' = "nak" /\ ctl' = NoCtl /\ ~configured'
         /\ driver # "v1" => ints' = ints \cup {"reset"}
         /\ driver = "v2" /\ clean' => clean /\ V2AtRest
         /\ driver = "stm32" /\ clean' => clean /\ Stm32AtRest
<1>1. V2AtRest \in BOOLEAN /\ Stm32AtRest \in BOOLEAN
  BY DEF V2AtRest, Stm32AtRest
<1> QED BY <1>1 DEF Resets, HostResets

LEMMA StepV1 == TypeOK /\ OnV1 /\ [Next]_vars => OnV1'
<1> SUFFICES ASSUME TypeOK, OnV1, [Next]_vars, driver' = "v1" PROVE (Flow(outBuf) /\ (armed => outBuf = NoPacket))'
  BY DEF OnV1
<1>1. CASE UNCHANGED vars
  BY <1>1 DEF OnV1, Flow, With, vars, hostVars, dataVars, progVars
<1>2. CASE HostSteps
  <2>1. driver = "v1" /\ Flow(outBuf) /\ (armed => outBuf = NoPacket)
    BY <1>2, HostPackets DEF OnV1
  <2>2. armed' => outBuf' = NoPacket
    BY <1>2, <2>1, HostPackets
  <2>3. outBuf' # outBuf => outBuf = NoPacket
    BY <1>2, <2>1, HostPackets
  <2>4. sent' = With(got', outBuf') /\ xmitted' = With(taken', inBuf')
    BY <1>2, <2>1, <2>3, HostFlow
  <2> QED BY <2>2, <2>4 DEF Flow
<1>3. CASE Resets
  BY <1>3, ResetPackets DEF Flow, With
<1>4. CASE V1Steps
  <2>1. UNCHANGED <<sent, taken>> /\ Flow(outBuf) /\ (armed => outBuf = NoPacket)
    BY <1>4 DEF V1Steps, hostVars, OnV1
  <2>2. CASE V1Polls
    <3>1. armed' => armed \/ outBuf = NoPacket
      BY <2>2 DEF V1Polls, usb_ep0_rx, ctlVars
    <3> QED BY <2>1, <2>2, <3>1 DEF V1Polls, progVars, Flow, With
  <2>3. CASE V1Reads
    <3>1. outBuf \in Packets
      BY <2>3 DEF V1Reads, TypeOK, Buffers
    <3> QED BY <2>1, <2>3, <3>1, ReceivedTypes, WithPacket DEF V1Reads, Flow, With
  <2>4. CASE V1Writes
    BY <2>1, <2>4, NextInIsPacket, TransmittedTypes, WithPacket DEF V1Writes, Flow, With
  <2> QED BY <1>4, <2>2, <2>3, <2>4 DEF V1Steps
<1>5. CASE V2Steps \/ Stm32Steps
  BY <1>5 DEF V2Steps, Stm32Steps
<1> QED BY <1>1, <1>2, <1>3, <1>4, <1>5 DEF Next, DriverSteps

(* v2 is reset at rest, before anything is under way. *)
LEMMA ResetV2 ==
  ASSUME TypeOK, Resets, driver = "v2", clean'
  PROVE  (V2Data /\ V2Control)'
<1>1. /\ UNCHANGED drv /\ call' = call /\ call.at = "recv" /\ ints' = {"reset"}
      /\ drv.irq = {} /\ drv.seen = {} /\ drv.rx = NoPacket
  BY ResetPackets DEF V2AtRest
<1>2. Pending' = {"reset"}
  BY <1>1 DEF Pending
<1>3. V2Data'
  BY <1>1, ResetPackets DEF V2Data, Flow, With
<1>4. Quiet'
  BY <1>1, <1>2, ResetPackets DEF Quiet
<1>5. V2Control'
  BY <1>4, ResetPackets DEF V2Control, Transfers, NoCtl
<1> QED BY <1>3, <1>5

LEMMA HostV2Control ==
  ASSUME TypeOK, HostSteps, driver = "v2", V2Control, Quiet \/ configured, configured' \/ Quiet'
  PROVE  V2Control'
<1> USE HostPackets
<1>1. CASE HostRequests
  BY <1>1 DEF HostRequests, Setup, Request, V2Control, Transfers, NoCtl
<1>2. CASE HostRetries
  BY <1>2 DEF HostRetries, Setup, Request, V2Control, Transfers, NoCtl
<1>3. CASE HostCtlIn
  <2>1. CASE ctl = [req |-> "desc", stage |-> "data"]
    <3>1. ctl' = [req |-> "desc", stage |-> "status"] /\ ctlIn' = "nak" /\ UNCHANGED setup
      BY <1>3, <2>1 DEF HostCtlIn
    <3>2. setup = "none" /\ ~configured /\ "reset" \notin ints
      BY <1>3, <2>1 DEF HostCtlIn, V2Control, NoCtl
    <3>3. ~configured' /\ "reset" \notin ints'
      BY <1>3, <2>1, <3>2 DEF HostCtlIn
    <3> QED BY <3>1, <3>2, <3>3 DEF V2Control, Transfers
  <2>2. CASE ctl = [req |-> "conf", stage |-> "ack"]
    <3>1. ctl' = NoCtl /\ ctlIn = "ack" /\ ctlIn' = "nak" /\ UNCHANGED setup /\ configured'
      BY <1>3, <2>2 DEF HostCtlIn
    <3>2. setup = "none" /\ ~drv.off /\ "reset" \notin ints'
      BY <1>3, <3>1 DEF V2Control
    <3> QED BY <3>1, <3>2 DEF V2Control, Transfers
  <2>3. ctl.stage \in {"data", "ack"}
    BY <1>3 DEF HostCtlIn, V2Control, Transfers, NoCtl
  <2> QED BY <2>1, <2>2, <2>3 DEF V2Control, Transfers, NoCtl
<1>4. CASE HostCtlOut
  <2>1. ctl' = NoCtl /\ UNCHANGED <<setup, ctlIn, configured>> /\ setup = "none" /\ "reset" \notin ints'
    BY <1>4 DEF HostCtlOut, V2Control, NoCtl
  <2> QED BY <2>1 DEF V2Control, Transfers
<1>5. CASE HostOut \/ HostIn
  <2>1. UNCHANGED <<setup, ctlIn, ctl, configured>> /\ ("reset" \in ints' <=> "reset" \in ints)
    BY <1>5 DEF HostOut, HostIn, ctlVars
  <2> QED BY <2>1 DEF V2Control
<1> QED BY <1>1, <1>2, <1>3, <1>4, <1>5 DEF HostSteps

LEMMA HostV2 ==
  ASSUME TypeOK, HostSteps, driver = "v2", V2Data, V2Control
  PROVE  (V2Data /\ V2Control)'
<1>1. UNCHANGED <<drv, call, got, xmitted>>
  BY HostPackets
<1>2. Pending' = ints' \cup drv.irq \cup drv.seen
  BY <1>1 DEF Pending
<1>3. V2Data'
  <2>1. outBuf' # outBuf => outBuf = NoPacket
    BY HostPackets DEF V2Data
  <2>2. Flow(outBuf)'
    BY <2>1, HostFlow DEF V2Data, Flow
  <2>3. armed' => outBuf' = NoPacket
    BY HostPackets DEF V2Data
  <2>4. drv.rx # NoPacket => drv.rx = outBuf'
    BY HostPackets DEF V2Data
  <2>5. inBuf' # NoPacket => drv.in1 /\ "in" \notin Pending'
    BY <1>2, HostPackets DEF V2Data, Pending
  <2>6. "in" \in ints' => drv.in1
    BY HostPackets, NotAPacket DEF V2Data
  <2> QED BY <1>1, <2>2, <2>3, <2>4, <2>5, <2>6 DEF V2Data
<1>4. configured' \/ Quiet'
  <2>1. configured => configured'
    BY DEF HostSteps, HostRequests, HostRetries, HostCtlIn, HostCtlOut, HostOut, HostIn
  <2>2. CASE ~configured
    BY <1>1, <1>2, <2>2, HostPackets DEF V2Control, Quiet, Pending
  <2> QED BY <2>1, <2>2
<1>5. V2Control'
  BY <1>4, HostV2Control DEF V2Control
<1> QED BY <1>3, <1>5

(* What is pending shrinks, and nothing else moves. *)
LEMMA OnlyPending ==
  ASSUME V2Data, V2Control,
         UNCHANGED <<dataVars, progVars, hostVars, setup>>, drv'.rx = drv.rx, drv'.in1 = drv.in1,
         Pending' \subseteq Pending, ints' \subseteq ints
  PROVE  V2Data' /\ (configured' \/ Quiet')
<1> USE DEF dataVars, progVars, hostVars
<1>1. V2Data'
  <2>1. Flow(outBuf)'
    BY DEF V2Data, Flow
  <2> QED BY <2>1 DEF V2Data
<1>2. configured \/ Quiet'
  BY DEF V2Control, Quiet
<1> QED BY <1>1, <1>2

(* Handling one interrupt, as far as it is the same for all of them *)
LEMMA HandlesOne ==
  ASSUME TypeOK, driver = "v2", NEW who \in {"irq", "seen"}, NEW int \in Ints, Handling(who, int)
  PROVE  /\ int \in Pending
         /\ Done(who, int) \in DrvV2
         /\ Done(who, int).rx = drv.rx /\ Done(who, int).in1 = drv.in1 /\ Done(who, int).off = drv.off
         /\ Done(who, int).irq \cup Done(who, int).seen \subseteq drv.irq \cup drv.seen
<1>1. drv \in DrvV2
  BY DEF TypeOK
<1>2. int \in Pending
  BY <1>1 DEF Handling, Pending, DrvV2
<1> QED BY <1>1, <1>2, DoneIs

LEMMA HandlerV2 ==
  ASSUME TypeOK, HandlerSteps, UNCHANGED hostVars, driver = "v2", V2Data, V2Control
  PROVE  (V2Data /\ V2Control)'
<1>1. PICK who \in {"irq", "seen"} :
        \/ usb_handle_dev_int(who) \/ usb_handle_ep0out(who) \/ usb_handle_ep0in(who)
        \/ usb_handle_out(who) \/ usb_handle_in(who)
  BY DEF HandlerSteps
<1>2. UNCHANGED <<ctl, configured>>
  BY DEF hostVars
<1>3. CASE usb_handle_dev_int(who)
  <2> DEFINE d == Done(who, "reset")
  <2>1. /\ "reset" \in Pending /\ d \in DrvV2 /\ d.rx = drv.rx /\ d.in1 = drv.in1 /\ d.off = drv.off
        /\ d.irq \cup d.seen \subseteq drv.irq \cup drv.seen
    BY <1>3, HandlesOne DEF usb_handle_dev_int, Ints
  <2>2. drv' = [d EXCEPT !.off = @ \/ "reset" \in ints]
    BY <1>3 DEF usb_handle_dev_int
  <2>3. /\ drv'.rx = drv.rx /\ drv'.in1 = drv.in1 /\ drv'.irq = d.irq /\ drv'.seen = d.seen
        /\ drv'.off <=> (drv.off \/ "reset" \in ints)
    BY <2>1, <2>2 DEF DrvV2
  <2>4. ints' = ints \ {"reset"} /\ UNCHANGED <<ctlVars, progVars>>
    BY <1>3 DEF usb_handle_dev_int
  <2>5. Pending' \subseteq Pending
    BY <2>1, <2>3, <2>4 DEF Pending
  <2>6. CASE "reset" \in ints
    <3>1. ~configured /\ ctlIn = "nak" /\ Quiet
      BY <2>6 DEF V2Control
    <3>2. armed' = FALSE /\ UNCHANGED <<outBuf, inBuf>>
      BY <1>3, <2>6, <3>1 DEF usb_handle_dev_int, Quiet
    <3>3. V2Data'
      BY <2>3, <2>4, <2>5, <3>1, <3>2 DEF V2Data, Quiet, Flow, With, hostVars, progVars
    <3>4. Quiet'
      BY <2>3, <2>4, <2>5, <3>1, <3>2 DEF Quiet, hostVars, progVars
    <3> QED BY <1>2, <2>4, <3>1, <3>3, <3>4 DEF V2Control, ctlVars
  <2>7. CASE "reset" \notin ints
    <3>1. UNCHANGED dataVars
      BY <1>3, <2>7 DEF usb_handle_dev_int
    <3>2. V2Data' /\ (configured' \/ Quiet')
      BY <2>3, <2>4, <2>5, <3>1, OnlyPending DEF ctlVars
    <3> QED BY <1>2, <2>3, <2>4, <2>7, <3>2 DEF V2Control, ctlVars
  <2> QED BY <2>6, <2>7
<1>4. CASE usb_handle_ep0out(who)
  <2> DEFINE d == Done(who, "ep0out")
  <2>1. /\ d \in DrvV2 /\ d.rx = drv.rx /\ d.in1 = drv.in1 /\ d.off = drv.off
        /\ d.irq \cup d.seen \subseteq drv.irq \cup drv.seen
    BY <1>4, HandlesOne DEF usb_handle_ep0out, Ints
  <2>2. CASE setup = "none" /\ ints' = ints \ {"ep0out"} /\ drv' = d /\ UNCHANGED <<ctlVars, dataVars, progVars>>
    <3>1. Pending' \subseteq Pending
      BY <2>1, <2>2 DEF Pending
    <3>2. V2Data' /\ (configured' \/ Quiet')
      BY <2>1, <2>2, <3>1, OnlyPending DEF ctlVars
    <3> QED BY <1>2, <2>1, <2>2, <3>2 DEF V2Control, ctlVars
  <2>3. CASE /\ setup # "none" /\ ints' = ints \ {"ep0out", "ep0in"} /\ setup' = "none"
             /\ usb_handle_setup_req(who, setup) /\ UNCHANGED progVars
    <3>1. Quiet /\ ~configured /\ "reset" \notin ints
      BY <2>3 DEF V2Control
    <3>2. drv' = [d EXCEPT !.in0 = TRUE, !.off = @ /\ setup # "conf"]
      BY <2>3 DEF usb_handle_setup_req
    <3>3. /\ drv'.rx = drv.rx /\ drv'.in1 = drv.in1 /\ drv'.irq = d.irq /\ drv'.seen = d.seen
          /\ setup = "conf" => ~drv'.off
      BY <2>1, <3>2 DEF DrvV2
    <3>4. Pending' \subseteq Pending
      BY <2>1, <2>3, <3>3 DEF Pending
    <3>5. UNCHANGED <<outBuf, inBuf>>
      BY <2>3, <3>1 DEF usb_handle_setup_req, Quiet, dataVars
    <3>6. V2Data'
      BY <2>3, <3>1, <3>3, <3>4, <3>5 DEF V2Data, Quiet, Flow, With, hostVars, progVars
    <3>7. Quiet'
      BY <2>3, <3>1, <3>3, <3>4, <3>5 DEF Quiet, hostVars, progVars
    <3>8. ctlIn' \in {"nak", "data", "ack"} /\ (ctlIn' = "ack" => setup = "conf")
      BY <2>3 DEF usb_handle_setup_req, Replies, V2Control
    <3> QED BY <1>2, <2>3, <3>1, <3>3, <3>6, <3>7, <3>8 DEF V2Control
  <2> QED BY <1>4, <2>2, <2>3 DEF usb_handle_ep0out
<1>5. CASE usb_handle_ep0in(who)
  <2> DEFINE d == Done(who, "ep0in")
  <2>1. /\ d \in DrvV2 /\ d.rx = drv.rx /\ d.in1 = drv.in1 /\ d.off = drv.off
        /\ d.irq \cup d.seen \subseteq drv.irq \cup drv.seen
    BY <1>5, HandlesOne DEF usb_handle_ep0in, Ints
  <2>2. drv' = [d EXCEPT !.in0 = FALSE]
    BY <1>5 DEF usb_handle_ep0in
  <2>3. drv'.rx = drv.rx /\ drv'.in1 = drv.in1 /\ drv'.irq = d.irq /\ drv'.seen = d.seen /\ drv'.off = drv.off
    BY <2>1, <2>2 DEF DrvV2
  <2>4. /\ ints' \subseteq ints /\ UNCHANGED <<setup, dataVars, progVars>> /\ ctlIn' = "nak"
    BY <1>5 DEF usb_handle_ep0in
  <2>5. Pending' \subseteq Pending
    BY <2>1, <2>3, <2>4 DEF Pending
  <2>6. V2Data' /\ (configured' \/ Quiet')
    BY <2>3, <2>4, <2>5, OnlyPending
  <2> QED BY <1>2, <2>3, <2>4, <2>6 DEF V2Control
<1>6. CASE usb_handle_out(who)
  <2> DEFINE d == Done(who, "out")
  <2>1. /\ "out" \in Pending /\ d \in DrvV2 /\ d.rx = drv.rx /\ d.in1 = drv.in1 /\ d.off = drv.off
        /\ d.irq \cup d.seen \subseteq drv.irq \cup drv.seen
    BY <1>6, HandlesOne DEF usb_handle_out, Ints
  <2>2. configured /\ ~drv.off
    BY <2>1 DEF V2Control, Quiet
  <2>3. drv' = [d EXCEPT !.rx = IF armed \/ outBuf.size = "empty" THEN NoPacket ELSE outBuf]
    BY <1>6, <2>2 DEF usb_handle_out
  <2>4. /\ drv'.rx \in {NoPacket, outBuf} /\ drv'.in1 = drv.in1 /\ drv'.irq = d.irq /\ drv'.seen = d.seen
        /\ drv'.off = drv.off
    BY <2>1, <2>3 DEF DrvV2
  <2>5. ints' = ints \ {"out"} /\ UNCHANGED <<ctlVars, dataVars, progVars>>
    BY <1>6 DEF usb_handle_out
  <2>6. Pending' \subseteq Pending
    BY <2>1, <2>4, <2>5 DEF Pending
  <2>7. V2Data'
    <3>1. Flow(outBuf)'
      BY <2>5 DEF V2Data, Flow, dataVars, progVars, hostVars
    <3> QED BY <2>4, <2>5, <2>6, <3>1 DEF V2Data, dataVars
  <2> QED BY <1>2, <2>2, <2>4, <2>5, <2>7 DEF V2Control, ctlVars
<1>7. CASE usb_handle_in(who)
  <2> DEFINE d == Done(who, "in")
  <2>1. /\ "in" \in Pending /\ d \in DrvV2 /\ d.rx = drv.rx /\ d.in1 = drv.in1 /\ d.off = drv.off
        /\ d.irq \cup d.seen \subseteq drv.irq \cup drv.seen
    BY <1>7, HandlesOne DEF usb_handle_in, Ints
  <2>2. configured /\ inBuf = NoPacket
    BY <2>1 DEF V2Control, V2Data, Quiet
  <2>3. drv' = [d EXCEPT !.in1 = FALSE]
    BY <1>7 DEF usb_handle_in
  <2>4. drv'.rx = drv.rx /\ drv'.irq = d.irq /\ drv'.seen = d.seen /\ drv'.off = drv.off
    BY <2>1, <2>3 DEF DrvV2
  <2>5. ints' = ints \ {"in"} /\ UNCHANGED <<ctlVars, dataVars, progVars>>
    BY <1>7 DEF usb_handle_in
  <2>6. V2Data'
    <3>1. Flow(outBuf)'
      BY <2>5 DEF V2Data, Flow, dataVars, progVars, hostVars
    <3> QED BY <2>2, <2>4, <2>5, <3>1 DEF V2Data, dataVars
  <2> QED BY <1>2, <2>2, <2>4, <2>5, <2>6 DEF V2Control, ctlVars
<1> QED BY <1>1, <1>3, <1>4, <1>5, <1>6, <1>7

LEMMA DriverV2 ==
  ASSUME TypeOK, V2Steps, V2Data, V2Control
  PROVE  (V2Data /\ V2Control)'
<1>1. driver = "v2" /\ UNCHANGED hostVars /\ drv \in DrvV2
  BY DEF V2Steps, TypeOK
<1>2. UNCHANGED <<ctl, configured, sent, taken>>
  BY <1>1 DEF hostVars
<1>3. CASE HandlerSteps
  BY <1>1, <1>3, HandlerV2
<1>4. CASE IrqTaken \/ V2Polls
  <2>1. UNCHANGED <<ctlVars, dataVars, ints, progVars>>
    BY <1>4 DEF IrqTaken, V2Polls
  <2>2. /\ drv'.rx = drv.rx /\ drv'.in1 = drv.in1 /\ drv'.off = drv.off
        /\ drv'.irq \cup drv'.seen \subseteq drv.irq \cup drv.seen \cup ints
    BY <1>1, <1>4 DEF IrqTaken, V2Polls, DrvV2
  <2>3. Pending' \subseteq Pending
    BY <2>1, <2>2 DEF Pending
  <2>4. V2Data' /\ (configured' \/ Quiet')
    BY <1>1, <2>1, <2>2, <2>3, OnlyPending DEF ctlVars
  <2> QED BY <1>2, <2>1, <2>2, <2>4 DEF V2Control, ctlVars
<1>5. CASE usb_ep_read
  <2>1. drv.rx # NoPacket /\ drv.rx = outBuf /\ Received(outBuf)
    BY <1>5 DEF usb_ep_read, V2Data
  <2>2. outBuf \in Packets /\ configured
    BY <1>1, <2>1 DEF TypeOK, Buffers, V2Control, Quiet
  <2>3. /\ drv'.rx = NoPacket /\ ~drv'.off /\ drv'.in1 = drv.in1 /\ drv'.irq = drv.irq /\ drv'.seen = drv.seen
    BY <1>1, <1>5 DEF usb_ep_read, DrvV2
  <2>4. got' = Append(got, outBuf) /\ xmitted' = xmitted
    BY <2>1, <2>2, ReceivedTypes
  <2>5. armed' = TRUE /\ outBuf' = NoPacket /\ UNCHANGED <<ctlVars, inBuf, ints>>
    BY <1>5 DEF usb_ep_read
  <2>6. Flow(outBuf)'
    BY <1>2, <2>2, <2>4, <2>5, WithPacket DEF V2Data, Flow
  <2>7. V2Data'
    BY <2>3, <2>5, <2>6 DEF V2Data, Pending
  <2> QED BY <1>2, <2>2, <2>3, <2>5, <2>7 DEF V2Control, ctlVars
<1>6. CASE usb_ep_write
  <2>1. ~drv.in1 /\ drv.irq = {} /\ drv.seen = {} /\ call.at = "xmit" /\ Transmitted
    BY <1>6 DEF usb_ep_write, ProgramRuns
  <2>2. inBuf = NoPacket /\ "in" \notin ints /\ configured
    BY <2>1 DEF V2Data, V2Control, Quiet
  <2>3. drv'.rx = drv.rx /\ drv'.in1 /\ drv'.irq = {} /\ drv'.seen = {} /\ drv'.off = drv.off
    BY <1>1, <1>6, <2>1 DEF usb_ep_write, DrvV2
  <2>4. xmitted' = Append(xmitted, NextIn) /\ got' = got /\ NextIn \in Packets
    BY <2>1, TransmittedTypes, NextInIsPacket
  <2>5. inBuf' = NextIn /\ UNCHANGED <<ctlVars, armed, outBuf, ints>>
    BY <1>6 DEF usb_ep_write
  <2>6. Flow(outBuf)'
    BY <1>2, <2>2, <2>4, <2>5, WithPacket DEF V2Data, Flow
  <2>7. V2Data'
    BY <2>2, <2>3, <2>5, <2>6 DEF V2Data, Pending
  <2> QED BY <1>2, <2>2, <2>3, <2>5, <2>7 DEF V2Control, ctlVars
<1> QED BY <1>3, <1>4, <1>5, <1>6 DEF V2Steps

LEMMA StepV2 == TypeOK /\ OnV2 /\ [Next]_vars => OnV2'
<1> SUFFICES ASSUME TypeOK, OnV2, [Next]_vars, driver' = "v2", clean' PROVE (V2Data /\ V2Control)'
  BY DEF OnV2
<1>1. CASE UNCHANGED vars
  <2>1. V2Data /\ V2Control
    BY <1>1 DEF OnV2, vars, hostVars
  <2> QED BY <1>1, <2>1 DEF V2Data, V2Control, Quiet, Pending, Flow, vars, hostVars, dataVars, ctlVars, progVars
<1>2. CASE HostSteps
  BY <1>2, HostPackets, HostV2 DEF OnV2
<1>3. CASE Resets
  BY <1>3, ResetPackets, ResetV2
<1>4. CASE V2Steps
  BY <1>4, DriverV2 DEF OnV2, V2Steps, hostVars
<1>5. CASE V1Steps \/ Stm32Steps
  BY <1>5 DEF V1Steps, Stm32Steps
<1> QED BY <1>1, <1>2, <1>3, <1>4, <1>5 DEF Next, DriverSteps

LEMMA HostStm32 ==
  ASSUME TypeOK, HostSteps, driver = "stm32", Stm32Data
  PROVE  Stm32Data'
<1>1. UNCHANGED <<drv, online>>
  BY HostPackets
<1>2. CASE UNCHANGED <<sent, taken, armed, outBuf, inBuf>>
  <2>1. /\ ints' \subseteq ints \cup {"ep0out", "ep0in"} /\ ("reset" \in ints' <=> "reset" \in ints)
        /\ UNCHANGED <<got, xmitted>>
    BY <1>2, HostPackets DEF HostOut, HostIn
  <2>2. Held' = Held
    BY <1>1, <1>2 DEF Held
  <2>3. Flow(Held)'
    BY <1>2, <2>1, <2>2 DEF Stm32Data, Flow
  <2>4. "out" \in ints' => "out" \in ints
    BY <2>1
  <2>5. "in" \in ints' => "in" \in ints
    BY <2>1
  <2> QED BY <1>1, <1>2, <2>1, <2>3, <2>4, <2>5 DEF Stm32Data
<1>3. CASE /\ HostOut /\ armed /\ ~armed' /\ ints' = ints \cup {"out"}
           /\ outBuf' \in Packets /\ UNCHANGED <<taken, inBuf>>
  <2>1. outBuf = NoPacket /\ drv.pc = "wait" /\ drv.rx = NoPacket /\ "reset" \notin ints
    BY <1>3 DEF Stm32Data
  <2>2. outBuf' # NoPacket
    BY <1>3, WithPacket
  <2>3. Held = NoPacket /\ Held' = outBuf'
    BY <1>1, <2>1, <2>2 DEF Held
  <2>4. Flow(Held)'
    BY <1>3, <2>1, <2>2, <2>3, HostFlow DEF Stm32Data, Flow
  <2> QED BY <1>1, <1>3, <2>1, <2>2, <2>4 DEF Stm32Data
<1>4. CASE /\ HostIn /\ inBuf \in Packets /\ inBuf' = NoPacket
           /\ ints' = ints \cup {"in"} /\ UNCHANGED <<sent, outBuf, armed>>
  <2>1. inBuf # NoPacket
    BY <1>4, WithPacket
  <2>2. Held' = Held
    BY <1>1, <1>4 DEF Held
  <2>3. Flow(Held)'
    BY <1>4, <2>2, HostFlow DEF Stm32Data, Flow, HostIn
  <2> QED BY <1>1, <1>4, <2>1, <2>3 DEF Stm32Data
<1> QED BY <1>2, <1>3, <1>4, HostPackets

LEMMA ResetStm32 ==
  ASSUME TypeOK, Resets, driver = "stm32", clean', OnStm32
  PROVE  Stm32Data'
<1>1. /\ UNCHANGED <<drv, online>> /\ ints' = ints \cup {"reset"} /\ Stm32AtRest /\ Stm32Data
  BY ResetPackets DEF OnStm32
<1>2. Held' = NoPacket
  BY <1>1, ResetPackets DEF Held, Stm32AtRest
<1>3. Flow(Held)'
  BY <1>2, ResetPackets DEF Flow, With
<1> QED BY <1>1, <1>3, ResetPackets DEF Stm32Data, Stm32AtRest

LEMMA DriverStm32 ==
  ASSUME TypeOK, Stm32Steps, Stm32Data
  PROVE  Stm32Data'
<1>1. UNCHANGED <<sent, taken>> /\ drv \in DrvStm32
  BY DEF Stm32Steps, hostVars, TypeOK
<1>2. ASSUME UNCHANGED progVars, Held' = Held, UNCHANGED inBuf
      PROVE  Flow(Held)'
  BY <1>1, <1>2 DEF Stm32Data, Flow, progVars
<1>3. CASE usb_handle_reset
  <2>1. outBuf = NoPacket /\ inBuf = NoPacket /\ Held = NoPacket
    BY <1>3 DEF usb_handle_reset, Stm32Data, Held
  <2>2. /\ drv'.pc = drv.pc /\ drv'.rx = NoDev /\ ~drv'.rxSlip /\ ~drv'.txSlip
    BY <1>1, <1>3 DEF usb_handle_reset, DrvStm32
  <2>3. armed' = FALSE /\ outBuf' = NoPacket /\ inBuf' = NoPacket /\ ints' = {} /\ UNCHANGED progVars
    BY <1>3 DEF usb_handle_reset, Stm32Data
  <2>4. Held' = NoPacket
    BY <2>2, <2>3 DEF Held
  <2>5. Flow(Held)'
    BY <1>2, <2>1, <2>3, <2>4
  <2> QED BY <2>2, <2>3, <2>5 DEF Stm32Data
<1>4. CASE usb_handle_ep0_setup \/ usb_handle_ep0_tx \/ usb_handle_ep0_rx
  <2>1. "reset" \notin ints /\ ints' \subseteq ints /\ UNCHANGED <<dataVars, progVars>>
        /\ ("out" \in ints' <=> "out" \in ints) /\ ("in" \in ints' <=> "in" \in ints)
    BY <1>4 DEF usb_handle_ep0_setup, usb_handle_ep0_tx, usb_handle_ep0_rx, Ep0Ints
  <2>2. /\ drv'.pc = drv.pc /\ drv'.rx = drv.rx /\ drv'.busy = drv.busy
        /\ drv'.rxSlip = drv.rxSlip /\ drv'.txSlip = drv.txSlip
    BY <1>1, <1>4 DEF usb_handle_ep0_setup, usb_handle_ep0_tx, usb_handle_ep0_rx, DrvStm32
  <2>3. Held' = Held
    BY <2>1, <2>2 DEF Held, dataVars
  <2>4. Flow(Held)'
    BY <1>2, <2>1, <2>3 DEF dataVars
  <2> QED BY <2>1, <2>2, <2>4 DEF Stm32Data, dataVars
<1>5. CASE usb_handle_ep1
  <2>1. ints' = {} /\ UNCHANGED <<armed, inBuf, progVars>> /\ "reset" \notin ints
    BY <1>5 DEF usb_handle_ep1
  <2>2. /\ drv'.pc = drv.pc /\ drv'.rx = (IF "out" \in ints THEN outBuf ELSE drv.rx)
        /\ drv'.busy <=> (drv.busy /\ "in" \notin ints)
        /\ drv'.rxSlip = drv.rxSlip /\ drv'.txSlip = drv.txSlip
    BY <1>1, <1>5 DEF usb_handle_ep1, DrvStm32
  <2>3. CASE "out" \in ints
    <3>1. outBuf # NoPacket /\ drv.pc = "wait" /\ ~armed
      BY <2>1, <2>3 DEF Stm32Data
    <3>2. outBuf' = NoPacket /\ drv'.rx = outBuf /\ outBuf # NoDev
      BY <1>5, <2>2, <2>3, NotAPacket DEF usb_handle_ep1, TypeOK
    <3>3. Held = outBuf /\ Held' = outBuf
      BY <2>2, <3>1, <3>2 DEF Held
    <3>4. Flow(Held)'
      BY <1>2, <2>1, <3>3
    <3> QED BY <2>1, <2>2, <3>1, <3>2, <3>4 DEF Stm32Data
  <2>4. CASE "out" \notin ints
    <3>1. outBuf' = outBuf /\ drv'.rx = drv.rx
      BY <1>5, <2>2, <2>4 DEF usb_handle_ep1
    <3>2. Held' = Held
      BY <2>2, <3>1 DEF Held
    <3>3. Flow(Held)'
      BY <1>2, <2>1, <3>2
    <3> QED BY <2>1, <2>2, <3>1, <3>3 DEF Stm32Data
  <2> QED BY <2>3, <2>4
<1>6. CASE usb_handle_irq
  <2>1. UNCHANGED <<dataVars, online, ints, progVars>>
    BY <1>6 DEF usb_handle_irq
  <2>2. /\ drv'.pc = drv.pc /\ drv'.rx = drv.rx /\ drv'.busy = drv.busy
        /\ drv'.rxSlip = drv.rxSlip /\ drv'.txSlip = drv.txSlip
    BY <1>1, <1>6 DEF usb_handle_irq, DrvStm32
  <2>3. Held' = Held
    BY <2>1, <2>2 DEF Held, dataVars
  <2>4. Flow(Held)'
    BY <1>2, <2>1, <2>3 DEF dataVars
  <2> QED BY <2>1, <2>2, <2>4 DEF Stm32Data, dataVars

(* The calls go on while no reset is to be handled: it found the driver at rest. *)
<1>7. CASE GoesOnline \/ Checks
  <2>1. UNCHANGED <<dataVars, online, ints, progVars>> /\ online /\ drv.pc \in {"online", "check"}
    BY <1>7 DEF GoesOnline, Checks
  <2>2. /\ drv'.pc \in {"arm", "send"} /\ drv'.rx = drv.rx /\ drv'.busy = drv.busy
        /\ drv'.rxSlip = drv.rxSlip /\ drv'.txSlip = drv.txSlip
    BY <1>1, <1>7 DEF GoesOnline, Checks, DrvStm32
  <2>3. "reset" \notin ints /\ ~armed /\ outBuf = NoPacket
    BY <2>1 DEF Stm32Data
  <2>4. Held = NoPacket /\ Held' = NoPacket
    BY <2>1, <2>2, <2>3 DEF Held, dataVars
  <2>5. Flow(Held)'
    BY <1>2, <2>1, <2>4 DEF dataVars
  <2> QED BY <2>1, <2>2, <2>3, <2>5 DEF Stm32Data, dataVars
<1>8. CASE Arms
  <2>1. drv.pc = "arm" /\ UNCHANGED <<outBuf, inBuf, ints, progVars>>
    BY <1>8 DEF Arms
  <2>2. "reset" \notin ints /\ ~armed /\ outBuf = NoPacket
    BY <2>1 DEF Stm32Data
  <2>3. /\ drv'.pc = "wait" /\ drv'.rx = NoPacket /\ drv'.busy = drv.busy
        /\ drv'.rxSlip = drv.rxSlip /\ drv'.txSlip = drv.txSlip
    BY <1>1, <1>8, <2>2 DEF Arms, DrvStm32
  <2>4. Held = NoPacket /\ Held' = NoPacket
    BY <2>1, <2>2, <2>3 DEF Held
  <2>5. Flow(Held)'
    BY <1>2, <2>1, <2>4
  <2> QED BY <2>1, <2>2, <2>3, <2>5 DEF Stm32Data
<1>9. CASE HasPacket
  <2>1. drv.pc = "wait" /\ drv.rx # NoPacket /\ drv.rx # NoDev /\ Received(drv.rx)
    BY <1>9 DEF HasPacket
  <2>2. drv.rx \in Packets
    BY <1>1, <2>1 DEF DrvStm32, Buffers
  <2>3. outBuf = NoPacket /\ ~armed /\ "reset" \notin ints
    BY <2>1 DEF Stm32Data
  <2>4. /\ drv'.pc \in {"check", "arm"} /\ drv'.busy = drv.busy
        /\ drv'.rxSlip = drv.rxSlip /\ drv'.txSlip = drv.txSlip
    BY <1>1, <1>9 DEF HasPacket, DrvStm32
  <2>5. UNCHANGED <<dataVars, ints>>
    BY <1>9 DEF HasPacket
  <2>6. Held = drv.rx /\ Held' = NoPacket
    BY <2>1, <2>3, <2>4, <2>5 DEF Held, dataVars
  <2>7. got' = Append(got, drv.rx) /\ xmitted' = xmitted
    BY <2>1, <2>2, ReceivedTypes
  <2>8. Flow(Held)'
    BY <1>1, <2>2, <2>5, <2>6, <2>7, WithPacket DEF Stm32Data, Flow, dataVars
  <2> QED BY <2>3, <2>4, <2>5, <2>8 DEF Stm32Data, dataVars
<1>10. CASE Sends
  <2>1. drv.pc = "send" /\ ~drv.busy /\ Transmitted
    BY <1>10 DEF Sends
  <2>2. outBuf = NoPacket /\ ~armed /\ "reset" \notin ints /\ inBuf = NoPacket /\ "in" \notin ints
    BY <2>1 DEF Stm32Data
  <2>3. /\ drv'.pc \in {"online", "check"} /\ drv'.busy
        /\ drv'.rxSlip = drv.rxSlip /\ drv'.txSlip = drv.txSlip
    BY <1>1, <1>10, <2>2 DEF Sends, DrvStm32
  <2>4. inBuf' = NextIn /\ UNCHANGED <<armed, outBuf, ints>>
    BY <1>10, <2>2 DEF Sends
  <2>5. Held = NoPacket /\ Held' = NoPacket
    BY <2>1, <2>2, <2>3, <2>4 DEF Held
  <2>6. xmitted' = Append(xmitted, NextIn) /\ got' = got /\ NextIn \in Packets
    BY <2>1, TransmittedTypes, NextInIsPacket
  <2>7. Flow(Held)'
    BY <1>1, <2>2, <2>4, <2>5, <2>6, WithPacket DEF Stm32Data, Flow
  <2> QED BY <2>2, <2>3, <2>4, <2>7 DEF Stm32Data
<1>11. CASE Fails
  <2>1. drv.pc \in {"arm", "check"} \/ (drv.pc = "wait" /\ drv.rx = NoDev)
    BY <1>11 DEF Fails
  <2>2. NoDev # NoPacket
    BY DEF NoDev, NoPacket
  <2>3. outBuf = NoPacket /\ ~armed /\ "reset" \notin ints
    BY <2>1, <2>2 DEF Stm32Data
  <2>4. /\ drv'.pc = "online" /\ drv'.rx = drv.rx /\ drv'.busy = drv.busy
        /\ drv'.rxSlip = drv.rxSlip /\ drv'.txSlip = drv.txSlip
    BY <1>1, <1>11 DEF Fails, DrvStm32
  <2>5. UNCHANGED <<dataVars, ints, got, xmitted>>
    BY <1>11 DEF Fails, CallFails
  <2>6. Held = NoPacket /\ Held' = NoPacket
    BY <2>1, <2>3, <2>4, <2>5 DEF Held, dataVars
  <2>7. Flow(Held)'
    BY <1>1, <2>5, <2>6 DEF Stm32Data, Flow, dataVars
  <2> QED BY <2>3, <2>4, <2>5, <2>7 DEF Stm32Data, dataVars
<1> QED BY <1>3, <1>4, <1>5, <1>6, <1>7, <1>8, <1>9, <1>10, <1>11 DEF Stm32Steps

LEMMA StepStm32 == TypeOK /\ OnStm32 /\ [Next]_vars => OnStm32'
<1> SUFFICES ASSUME TypeOK, OnStm32, [Next]_vars, driver' = "stm32", clean' PROVE Stm32Data'
  BY DEF OnStm32
<1>1. CASE UNCHANGED vars
  <2>1. Stm32Data
    BY <1>1 DEF OnStm32, vars, hostVars
  <2> QED BY <1>1, <2>1 DEF Stm32Data, Held, Flow, vars, hostVars, dataVars, ctlVars, progVars
<1>2. CASE HostSteps
  BY <1>2, HostPackets, HostStm32 DEF OnStm32
<1>3. CASE Resets
  BY <1>3, ResetPackets, ResetStm32
<1>4. CASE Stm32Steps
  BY <1>4, DriverStm32 DEF OnStm32, Stm32Steps, hostVars
<1>5. CASE V1Steps \/ V2Steps
  BY <1>5 DEF V1Steps, V2Steps
<1> QED BY <1>1, <1>2, <1>3, <1>4, <1>5 DEF Next, DriverSteps

LEMMA StepIInv == IInv /\ [Next]_vars => IInv'
BY Types, StepV1, StepV2, StepStm32 DEF IInv

LEMMA FlowIsPipes ==
  ASSUME TypeOK, NEW out \in Buffers, Flow(out)
  PROVE  IsPrefixOf(got, sent) /\ IsPrefixOf(taken, xmitted)
BY PrefixOfWith DEF TypeOK, Flow

(* No packet is lost, repeated or reordered in either direction by any of the three
   drivers, as long as each bus reset finds the driver at rest, whatever control
   transfers the host gives up and wherever the interrupt comes between the steps
   of the called handler: what the driver notes of a buffer is what the buffer
   holds, and no packet goes into one that still holds another.                   *)
THEOREM PacketsFlow == Spec => []Pipes
<1>1. ASSUME IInv PROVE Pipes
  <2>1. SUFFICES ASSUME clean PROVE IsPrefixOf(got, sent) /\ IsPrefixOf(taken, xmitted)
    BY DEF Pipes
  <2>2. CASE driver = "v1"
    BY <1>1, <2>2, FlowIsPipes DEF IInv, TypeOK, OnV1
  <2>3. CASE driver = "v2"
    BY <1>1, <2>1, <2>3, FlowIsPipes DEF IInv, TypeOK, OnV2, V2Data
  <2>4. CASE driver = "stm32"
    <3>1. Stm32Data /\ drv \in DrvStm32
      BY <1>1, <2>1, <2>4 DEF IInv, TypeOK, OnStm32
    <3>2. Held \in Buffers
      BY <1>1, <3>1 DEF Held, DrvStm32, IInv, TypeOK, Buffers
    <3> QED BY <1>1, <3>1, <3>2, FlowIsPipes DEF IInv, Stm32Data
  <2> QED BY <1>1, <2>2, <2>3, <2>4 DEF IInv, TypeOK
<1>2. IInv => Pipes
  BY <1>1
<1> QED BY InitIInv, StepIInv, <1>2, PTL DEF Spec
===============================================================================
