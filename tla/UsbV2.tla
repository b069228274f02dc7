-------------------------------- MODULE UsbV2 ---------------------------------
(***************************************************************************)
(* arch/lpc13xx/usb-v2.c: the driver of the LPC13Uxx and LPC11Uxx.  The       *)
(* handler runs as the interrupt and is called by usb_recv and usb_xmit too:  *)
(* each reads USB_INTSTAT once and works from what it read.  The interrupt    *)
(* comes between any two steps of the called one, with any delay.             *)
(***************************************************************************)
EXTENDS UsbBus

Ghost == [s |-> 0, n |-> 0, size |-> "full"]

(* in0, in1: in_len >= 0 for endpoints 0 and 1; rx: what lies between out_pos and
   out_len; off: endpoint 1's entry is USB_EP_LIST_DISABLED; irq, seen: what the
   interrupt and the called handler have read and not yet handled; nested: history,
   the interrupt has come in the middle of the called handler.                   *)
InitV2 ==
  /\ driver = "v2"
  /\ drv = [in0 |-> FALSE, in1 |-> FALSE, rx |-> NoPacket, off |-> TRUE, irq |-> {}, seen |-> {},
            nested |-> FALSE]

Order == <<"reset", "ep0out", "ep0in", "out", "in">>
Handling(who, int) ==
  /\ int \in drv[who] /\ (who = "seen" => drv.irq = {})
  /\ \A i, j \in DOMAIN Order : Order[i] = int /\ Order[j] \in drv[who] => i <= j
Done(who, int) == [drv EXCEPT ![who] = @ \ {int}]

usb_handle_dev_int(who) ==
  /\ Handling(who, "reset") /\ ints' = ints \ {"reset"}
  /\ drv' = [Done(who, "reset") EXCEPT !.off = @ \/ "reset" \in ints]
  /\ IF "reset" \in ints THEN armed' = FALSE /\ outBuf' = NoPacket /\ inBuf' = NoPacket
     ELSE UNCHANGED dataVars
  /\ UNCHANGED <<ctlVars, online, progVars>>

(* usb_ep_write refuses the descriptor while in_len says an older reply is in the
   buffer; usb_send_zlp does not ask.  Clearing EP0IN, as usb_handle_ep0out does,
   forgets that such a reply has gone.                                           *)
Replies(req) ==
  IF req = "desc" THEN IF drv.in0 THEN "nak" ELSE "data" ELSE "ack"
usb_handle_setup_req(who, req) ==
  /\ ctlIn' = Replies(req)
  /\ drv' = [Done(who, "ep0out") EXCEPT !.in0 = TRUE, !.off = @ /\ req # "conf"]
  /\ online' = (online \/ req = "conf")
  /\ IF req = "conf" THEN armed' = TRUE /\ outBuf' = NoPacket /\ inBuf' = NoPacket
     ELSE UNCHANGED dataVars

usb_handle_ep0out(who) ==
  /\ Handling(who, "ep0out")
  /\ \/ /\ setup = "none" /\ ints' = ints \ {"ep0out"} /\ drv' = Done(who, "ep0out")
        /\ UNCHANGED <<ctlVars, dataVars, online>>
     \/ /\ setup # "none" /\ ints' = ints \ {"ep0out", "ep0in"}
        /\ setup' = "none" /\ ctlOut' = FALSE
        /\ usb_handle_setup_req(who, setup)
  /\ UNCHANGED progVars

usb_handle_ep0in(who) ==
  /\ Handling(who, "ep0in")
  /\ ctlIn' = "nak" /\ ctlOut' = (ctlOut \/ drv.in0)
  /\ ints' = ints \ (IF drv.in0 THEN {"ep0in", "ep0out"} ELSE {"ep0in"})
  /\ drv' = [Done(who, "ep0in") EXCEPT !.in0 = FALSE]
  /\ UNCHANGED <<setup, dataVars, online, progVars>>

(* out_len is out_size less what the entry says is left of it: an armed entry has
   received nothing, and a disabled one seems full.                              *)
usb_handle_out(who) ==
  /\ Handling(who, "out") /\ ints' = ints \ {"out"}
  /\ drv' = [Done(who, "out") EXCEPT !.rx =
               IF drv.off THEN Ghost
               ELSE IF armed \/ outBuf.size = "empty" THEN NoPacket ELSE outBuf]
  /\ UNCHANGED <<ctlVars, dataVars, online, progVars>>
usb_handle_in(who) ==
  /\ Handling(who, "in") /\ ints' = ints \ {"in"}
  /\ drv' = [Done(who, "in") EXCEPT !.in1 = FALSE]
  /\ UNCHANGED <<ctlVars, dataVars, online, progVars>>

HandlerSteps ==
  \E who \in {"irq", "seen"} :
    \/ usb_handle_dev_int(who) \/ usb_handle_ep0out(who) \/ usb_handle_ep0in(who)
    \/ usb_handle_out(who) \/ usb_handle_in(who)

IrqTaken ==
  /\ drv.irq = {} /\ ints # {} /\ drv' = [drv EXCEPT !.irq = ints, !.nested = @ \/ drv.seen # {}]
  /\ UNCHANGED <<ctlVars, dataVars, online, ints, progVars>>

-----------------------------------------------------------------------------
(* usb_recv_timeout and usb_xmit; usb_state never goes back to offline, and the
   frame interrupt that would end a timeout is never enabled.                  *)
ProgramRuns == drv.irq = {} /\ drv.seen = {}
V2Polls ==
  /\ ProgramRuns /\ ints # {} /\ drv' = [drv EXCEPT !.seen = ints]
  /\ \/ call.at = "recv" /\ (~online \/ drv.rx = NoPacket)
     \/ call.at = "xmit" /\ drv.in1
  /\ UNCHANGED <<ctlVars, dataVars, online, ints, progVars>>
usb_ep_read_bug ==   \* the endpoint is not armed again
  /\ ProgramRuns /\ call.at = "recv" /\ online /\ drv.rx # NoPacket
  /\ Received(drv.rx) /\ drv' = [drv EXCEPT !.rx = NoPacket] /\ outBuf' = NoPacket
  /\ UNCHANGED <<ctlVars, online, armed, inBuf, ints>>
usb_ep_read ==
  /\ ProgramRuns /\ call.at = "recv" /\ online /\ drv.rx # NoPacket
  /\ Received(drv.rx) /\ drv' = [drv EXCEPT !.rx = NoPacket, !.off = FALSE]
  /\ armed' = TRUE /\ outBuf' = NoPacket
  /\ UNCHANGED <<ctlVars, online, inBuf, ints>>
usb_ep_write ==
  /\ ProgramRuns /\ call.at = "xmit" /\ ~drv.in1
  /\ Transmitted /\ drv' = [drv EXCEPT !.in1 = TRUE] /\ inBuf' = NextIn
  /\ UNCHANGED <<ctlVars, online, armed, outBuf, ints>>

V2AtRest ==
  /\ call.at = "recv" /\ ints \cup drv.irq \cup drv.seen = {}
  /\ drv.rx = NoPacket /\ ~drv.in0 /\ ~drv.in1

V2Steps ==
  /\ driver = "v2"
  /\ HandlerSteps \/ IrqTaken \/ V2Polls \/ usb_ep_read \/ usb_ep_write
  /\ UNCHANGED <<driver, hostVars>>
=============================================================================
