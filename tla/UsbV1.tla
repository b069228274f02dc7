-------------------------------- MODULE UsbV1 ---------------------------------
(***************************************************************************)
(* arch/lpc13xx/usb-v1.c: the LPC13xx driver, polled.  The controller keeps   *)
(* an endpoint's buffer until the driver clears it, takes no reply while a    *)
(* SETUP packet waits, and a pass of usb_handle_irq is therefore one step.    *)
(***************************************************************************)
EXTENDS UsbBus

InitV1 == driver = "v1" /\ drv = <<>>

(* The calls poll while they wait: usb_ep1_read and usb_ep1_write say EBUSY.
   _usb_online once set stays set, so neither ever says ENODEV again.        *)
Waiting ==
  \/ call.at = "recv" /\ (~online \/ outBuf = NoPacket)
  \/ call.at = "xmit" /\ inBuf # NoPacket

(* What usb_ep0_rx_setup finds in the buffer.  usb_ep0_rx asks only whether the
   buffer is full: the host's empty status packet is read as a request too, and
   the words read are the last request's or nothing the driver knows.          *)
RequestRead == IF setup = "none" THEN {"desc", "unknown"} ELSE {setup}

usb_ep0_rx(req) ==
  /\ setup' = "none" /\ ctlOut' = TRUE
  /\ ctlIn' = CASE req = "desc" -> "data" [] req = "conf" -> "ack" [] req = "unknown" -> "nak"
  /\ online' = (online \/ req = "conf")
  /\ armed' = (armed \/ (req = "conf" /\ outBuf = NoPacket))

(* usb_handle_irq; usb_ep0_tx only moves ep0state and sets the address. *)
V1Polls ==
  /\ Waiting /\ ints # {} /\ ints' = {}
  /\ IF "ep0out" \in ints THEN \E req \in RequestRead : usb_ep0_rx(req)
     ELSE UNCHANGED <<ctlVars, online, armed>>
  /\ UNCHANGED <<outBuf, inBuf, progVars>>

(* usb_epN_read in usb_recv_timeout, usb_epN_write in usb_xmit *)
V1Reads ==
  /\ call.at = "recv" /\ online /\ outBuf # NoPacket
  /\ Received(outBuf) /\ outBuf' = NoPacket /\ armed' = TRUE
  /\ UNCHANGED <<ctlVars, online, inBuf, ints>>
V1Writes_bug ==   \* the full-buffer bit is not looked at
  /\ call.at = "xmit"
  /\ Transmitted /\ inBuf' = NextIn
  /\ UNCHANGED <<ctlVars, online, armed, outBuf, ints>>
V1Writes ==
  /\ call.at = "xmit" /\ inBuf = NoPacket
  /\ Transmitted /\ inBuf' = NextIn
  /\ UNCHANGED <<ctlVars, online, armed, outBuf, ints>>

V1Steps ==
  /\ driver = "v1"
  /\ V1Polls \/ V1Reads \/ V1Writes
  /\ UNCHANGED <<driver, drv, hostVars>>
=============================================================================
