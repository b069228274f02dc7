--------------------------------- MODULE Usb ----------------------------------
(***************************************************************************)
(* The three drivers, each under the same host and the same program.          *)
(***************************************************************************)
EXTENDS UsbV1, UsbV2, UsbStm32

Init == BusInit /\ (InitV1 \/ InitV2 \/ InitStm32)
DriverSteps == V1Steps \/ V2Steps \/ Stm32Steps
Resets ==
  \/ driver = "v1" /\ HostResets(TRUE)
  \/ driver = "v2" /\ HostResets(V2AtRest)
  \/ driver = "stm32" /\ HostResets(Stm32AtRest)
Next == HostSteps \/ Resets \/ DriverSteps

Host(A) == A /\ UNCHANGED <<driver, drv, online, progVars>>
Spec ==
  /\ Init /\ [][Next]_vars
  /\ WF_vars(DriverSteps)
  /\ WF_vars(Host(HostRequests)) /\ WF_vars(Host(HostCtlIn)) /\ WF_vars(Host(HostCtlOut))
  /\ WF_vars(Host(HostIn)) /\ WF_vars(Host(HostOut))

Sessions == 1 .. MaxResets + 1
Torn(s) == session # s \/ ~clean

(* The host can always enumerate the device, also after it gave up a transfer: the
   handlers of endpoint 0 answer each SETUP packet and each stage.  Not so in v2
   when the host gives one up (in_len still says a reply is in the buffer, and the
   next descriptor is refused) or when the interrupt comes in the middle of the
   called handler (which goes on to cancel the reply to a later request).         *)
Enumerates ==
  \A s \in Sessions :
    session = s ~> configured \/ Torn(s) \/ (driver = "v2" /\ (aborts > 0 \/ drv.nested))

(* Once configured, everything the host has to send reaches the program: usb_recv
   arms the endpoint again each time, usb_xmit returns when the host reads, and
   neither polls for an interrupt that has been handled.  Not so in v2 once a packet
   is empty: usb_ep_read takes its length for "nothing there" and never re-arms.   *)
HasEmpty == \E i \in DOMAIN sent : sent[i].size = "empty"
Delivered ==
  \A s \in Sessions :
    session = s /\ configured ~> Len(got) = MaxPackets \/ Torn(s) \/ (driver = "v2" /\ HasEmpty)
=============================================================================
