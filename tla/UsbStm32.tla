------------------------------- MODULE UsbStm32 --------------------------------
(***************************************************************************)
(* arch/stm32f1xx/usb.c: the STM32 driver, polled.  A bus reset makes the     *)
(* controller disable its endpoints at once, while the driver learns of it    *)
(* when it polls.  The status of an endpoint is written by toggling bits.     *)
(***************************************************************************)
EXTENDS UsbBus

NoDev == [s |-> 0, n |-> 0, size |-> "nodev"]   \* ep1_rx_status = -ENODEV

(* pc: where the call is; polling: it is inside usb_handle_irq; busy: ep1_tx_busy;
   rx: ep1_rx_status and the packet, NoPacket for -EBUSY; ep0: ep0state;
   rxSlip, txSlip: the low status bit was toggled on the disabled endpoint.      *)
InitStm32 ==
  /\ driver = "stm32"
  /\ drv = [pc |-> "online", polling |-> FALSE, busy |-> FALSE, rx |-> NoDev,
            ep0 |-> "idle", rxSlip |-> FALSE, txSlip |-> FALSE]

Polls ==
  \/ drv.polling
  \/ drv.pc = "online" /\ ~online
  \/ drv.pc = "wait" /\ drv.rx = NoPacket
  \/ drv.pc = "send" /\ drv.busy

(* From disabled the write of NAK gives NAK; with the low bit set it gives VALID,
   and the transmitter's count is 0.                                             *)
usb_handle_reset ==
  /\ Polls /\ "reset" \in ints /\ ints' = {}
  /\ online' = FALSE /\ armed' = drv.rxSlip /\ outBuf' = NoPacket
  /\ inBuf' = IF drv.txSlip THEN [s |-> session, n |-> 0, size |-> "empty"] ELSE NoPacket
  /\ drv' = [drv EXCEPT !.polling = TRUE, !.busy = FALSE, !.rx = NoDev,
                        !.rxSlip = FALSE, !.txSlip = FALSE]
  /\ UNCHANGED <<ctlVars, progVars>>

Ep0Ints == {"ep0out", "ep0in"}
usb_handle_ep0_setup ==
  /\ Polls /\ "reset" \notin ints /\ "ep0out" \in ints /\ setup # "none"
  /\ ints' = ints \ Ep0Ints /\ setup' = "none"
  /\ ctlIn' = IF setup = "desc" THEN "data" ELSE "ack"
  /\ drv' = [drv EXCEPT !.polling = TRUE, !.ep0 = IF setup = "desc" THEN "tx" ELSE "tx_ack"]
  /\ online' = (online \/ setup = "conf")
  /\ UNCHANGED <<ctlOut, dataVars, progVars>>
usb_handle_ep0_tx_bug ==   \* ep0_recv_ack is not called
  /\ Polls /\ "reset" \notin ints /\ "ep0in" \in ints /\ setup = "none"
  /\ ints' = ints \ Ep0Ints
  /\ drv' = [drv EXCEPT !.polling = TRUE, !.ep0 = "idle"]
  /\ UNCHANGED <<ctlVars, dataVars, online, progVars>>
usb_handle_ep0_tx ==
  /\ Polls /\ "reset" \notin ints /\ "ep0in" \in ints /\ setup = "none"
  /\ ints' = ints \ Ep0Ints
  /\ drv' = [drv EXCEPT !.polling = TRUE, !.ep0 = IF @ = "tx" THEN "rx_ack" ELSE "idle"]
  /\ ctlOut' = (drv.ep0 = "tx")
  /\ UNCHANGED <<setup, ctlIn, dataVars, online, progVars>>
usb_handle_ep0_rx ==
  /\ Polls /\ ints \cap (Ep0Ints \cup {"reset"}) = {"ep0out"} /\ setup = "none"
  /\ ints' = ints \ Ep0Ints
  /\ drv' = [drv EXCEPT !.polling = TRUE, !.ep0 = IF @ = "rx_ack" THEN "idle" ELSE @]
  /\ UNCHANGED <<ctlVars, dataVars, online, progVars>>
usb_handle_ep1 ==
  /\ Polls /\ ints # {} /\ ints \subseteq {"out", "in"} /\ ints' = {}
  /\ drv' = [drv EXCEPT !.polling = TRUE, !.rx = IF "out" \in ints THEN outBuf ELSE @,
                        !.busy = @ /\ "in" \notin ints]
  /\ outBuf' = IF "out" \in ints THEN NoPacket ELSE outBuf
  /\ UNCHANGED <<ctlVars, online, armed, inBuf, progVars>>
(* usb_handle_irq returns when USB_ISR shows nothing more. *)
usb_handle_irq ==
  /\ drv.polling /\ ints = {} /\ drv' = [drv EXCEPT !.polling = FALSE]
  /\ UNCHANGED <<ctlVars, dataVars, online, ints, progVars>>

-----------------------------------------------------------------------------
(* usb_recv *)
GoesOnline ==
  /\ ~drv.polling /\ drv.pc = "online" /\ online
  /\ drv' = [drv EXCEPT !.pc = "arm"]
  /\ UNCHANGED <<ctlVars, dataVars, online, ints, progVars>>
Arms ==
  /\ ~drv.polling /\ drv.pc = "arm" /\ online
  /\ IF "reset" \in ints THEN drv' = [drv EXCEPT !.pc = "wait", !.rx = NoPacket, !.rxSlip = ~@]
                              /\ UNCHANGED armed
     ELSE drv' = [drv EXCEPT !.pc = "wait", !.rx = NoPacket] /\ armed' = ~armed
  /\ UNCHANGED <<ctlVars, outBuf, inBuf, online, ints, progVars>>
HasPacket ==
  /\ ~drv.polling /\ drv.pc = "wait" /\ drv.rx \notin {NoPacket, NoDev}
  /\ Received(drv.rx)
  /\ drv' = [drv EXCEPT !.pc = IF call'.at = "xmit" THEN "check" ELSE "arm"]
  /\ UNCHANGED <<ctlVars, dataVars, online, ints>>

(* usb_xmit asks whether it is online before it waits, not after. *)
Checks ==
  /\ ~drv.polling /\ drv.pc = "check" /\ online
  /\ drv' = [drv EXCEPT !.pc = "send"]
  /\ UNCHANGED <<ctlVars, dataVars, online, ints, progVars>>
Sends ==
  /\ ~drv.polling /\ drv.pc = "send" /\ ~drv.busy
  /\ Transmitted
  /\ drv' = [drv EXCEPT !.pc = IF call'.at = "recv" THEN "online" ELSE "check", !.busy = TRUE,
                        !.txSlip = IF "reset" \in ints THEN ~@ ELSE @]
  /\ inBuf' = IF "reset" \notin ints /\ inBuf = NoPacket THEN NextIn ELSE NoPacket
  /\ UNCHANGED <<ctlVars, online, armed, outBuf, ints>>

(* Both calls return -ENODEV. *)
Fails ==
  /\ ~drv.polling
  /\ \/ drv.pc \in {"arm", "check"} /\ ~online
     \/ drv.pc = "wait" /\ drv.rx = NoDev
  /\ CallFails /\ drv' = [drv EXCEPT !.pc = "online"]
  /\ UNCHANGED <<ctlVars, dataVars, online, ints>>

Stm32AtRest ==
  \/ drv.pc = "online" /\ ~online
  \/ drv.pc = "wait" /\ drv.rx = NoPacket

Stm32Steps ==
  /\ driver = "stm32"
  /\ \/ usb_handle_reset \/ usb_handle_ep0_setup \/ usb_handle_ep0_tx \/ usb_handle_ep0_rx
     \/ usb_handle_ep1 \/ usb_handle_irq
     \/ GoesOnline \/ Arms \/ HasPacket \/ Checks \/ Sends \/ Fails
  /\ UNCHANGED <<driver, hostVars>>
=============================================================================
