-------------------------------- MODULE Boot ---------------------------------
(***************************************************************************)
(* The boot loader (lpc13boot/main.c on the polled driver of               *)
(* arch/lpc13xx/usb-v1.c) and the host program that drives it, lpcboot     *)
(* (tools/lpcboot.c).  The two share two one-packet endpoint buffers and   *)
(* nothing else; the loader and the application share GPREG and flash.     *)
(*                                                                         *)
(* Lengths count half packets (32 bytes): a command, of 12 bytes, is a     *)
(* short packet of one, a full packet has two.  The contents of a packet's *)
(* place in flash or RAM is the piece of a file put there, or junk: what a *)
(* usb_recv finds in RAM from before, a command taken for data, a place    *)
(* half programmed.  Locals of a call that has returned have fixed values. *)
(***************************************************************************)
EXTENDS Integers

CONSTANTS
  Images,       \* the files lpcboot is given
  Length,       \* of each, in half packets
  RomPages,     \* ROM_SIZE in flash pages
  PagePackets,  \* packets in a flash page
  RamPackets,   \* RAM_SIZE in packets
  Wait,         \* the timeout of main, in calls of usb_recv_timeout
  MaxHazards

ASSUME BootAssumption ==
  /\ Length \in [Images -> Nat \ {0}]
  /\ {RomPages, PagePackets, RamPackets, Wait} \subseteq Nat \ {0}
  /\ PagePackets <= RamPackets /\ MaxHazards \in Nat

VARIABLES
  at,       \* where the device is, see Places
  job,      \* the command in handle: its letter, the data still due, the next page
  got,      \* what the usb_recv under way has received
  reply,    \* reply[1] of the last answer: "ok" (0) or "fail" (-1)
  timeout,  \* of main
  gpreg,    \* GPREG0 and 1: "app", "stay" or "none" of the two
  flash,    \* the contents of each packet's place in each page
  ram,      \* those of RAM_BASE
  out, in,  \* the buffers of EP1, host to device and device to host
  online,   \* _usb_online
  sof,      \* the bus is awake: frames arrive, packets can pass
  host,     \* lpcboot: where it is, its command, its file, the packets sent
  attached, \* its handle is of the device as now enumerated
  hazards,  \* what went wrong so far
  trusted,  \* history: no lpcboot was killed, no IAP call or configuration failed
  kept      \* history: since power came or the last reboot by the loader it was
            \* asked for, or was given a command

usbVars == <<out, in, online, attached>>
deviceVars == <<at, job, got, reply, timeout, gpreg, flash, ram, kept>>
faultVars == <<sof, hazards, trusted>>
vars == <<at, job, got, reply, timeout, gpreg, flash, ram, out, in, online, sof, host,
          attached, hazards, trusted, kept>>

Letters   == {"E", "W", "X", "Q", "A", "R", "w"}     \* "w": lpcboot flash:boot
WithFile  == {"W", "X", "w"}
Places    == {"reset", "enum", "loop", "ack", "info", "recv", "erase", "write", "final",
              "drain", "app", "ram"}
PageUnits == 2 * PagePackets
Packets(n) == (n + 1) \div 2
Least(m, n) == IF m < n THEN m ELSE n

DataPackets == [kind : {"data"}, img : Images, n : Nat \ {0}]
CmdPackets  == [kind : {"cmd"}, letter : Letters, arg : {0} \cup {Length[i] : i \in Images}]
NoPacket    == [kind |-> "none"]
Blank       == [kind |-> "blank"]       \* erased: 0xFFFFFFFF
Junk        == [kind |-> "junk"]
Contents    == {Blank, Junk} \cup DataPackets

Packet(i, k) == [kind |-> "data", img |-> i, n |-> k]
Units(p) == IF p.kind = "cmd" \/ (p.n = Packets(Length[p.img]) /\ Length[p.img] % 2 = 1)
              THEN 1 ELSE 2

NoJob  == [letter |-> "none", left |-> 0, page |-> 1]
NoRun  == [at |-> "idle", letter |-> "none", img |-> CHOOSE i \in Images : TRUE, sent |-> 0]
Stale  == [k \in 1 .. RamPackets |-> Junk]
Page(c) == [k \in 1 .. PagePackets |-> c]
ImagePage(i, p) == [k \in 1 .. PagePackets |-> Packet(i, (p - 1) * PagePackets + k)]

(* Image i is in flash, from the first page on. *)
InFlash(i) == \A k \in 1 .. Packets(Length[i]) :
                flash[((k - 1) \div PagePackets) + 1][((k - 1) % PagePackets) + 1] = Packet(i, k)

Init ==
  /\ at = "reset" /\ job = NoJob /\ got = 0 /\ reply = "ok"
  /\ timeout = 0 /\ gpreg = "none"
  /\ flash \in {[p \in 1 .. RomPages |-> Page(Blank)]}
                 \cup {[p \in 1 .. RomPages |-> ImagePage(i, p)] :
                         i \in {j \in Images : Packets(Length[j]) = RomPages * PagePackets}}
  /\ ram = Stale
  /\ out = NoPacket /\ in = "none" /\ online = FALSE /\ sof = TRUE /\ attached = FALSE
  /\ host = NoRun
  /\ hazards = 0 /\ trusted = TRUE /\ kept = FALSE

Hazard(trust) == /\ hazards < MaxHazards /\ hazards' = hazards + 1
                 /\ trusted' = (trusted /\ trust)

(* The device leaves the bus: buffers are gone, and lpcboot's handle is dead. *)
Detach == out' = NoPacket /\ in' = "none" /\ online' = FALSE /\ attached' = FALSE

-----------------------------------------------------------------------------
(* lpcboot *)

(* usb_open succeeds once a loader is on the bus. *)
Open ==
  /\ host.at = "idle" /\ online /\ sof
  /\ \E c \in Letters, i \in Images :
       /\ c \notin {"W", "X"} => i = NoRun.img
       /\ host' = [at |-> "send", letter |-> c, img |-> i, sent |-> 0]
  /\ attached' = TRUE /\ UNCHANGED <<deviceVars, faultVars, out, in, online>>

CanSend == attached /\ sof /\ out = NoPacket

FileLength == IF host.letter \in WithFile THEN Length[host.img] ELSE 0

SendCommand ==
  /\ host.at = "send" /\ CanSend
  /\ out' = [kind |-> "cmd", letter |-> host.letter, arg |-> FileLength]
  /\ host' = [host EXCEPT !.at = "reply"]
  /\ UNCHANGED <<deviceVars, faultVars, in, online, attached>>

(* A reply; what lpcboot does next depends on its command and on dl. *)
AfterReply_bug ==                       \* the answer to a query not read to its end
  IF in # "ok" THEN "idle"
  ELSE IF host.at = "reply" /\ host.letter \in WithFile THEN "data" ELSE "okay"
AfterReply ==
  IF in # "ok" THEN "idle"              \* "failure", or not eight bytes: "io error"
  ELSE IF host.at = "final" THEN "okay"
  ELSE IF host.letter = "Q" THEN "info"
  ELSE IF host.letter \in WithFile THEN "data" ELSE "okay"

ReadReply ==
  /\ host.at \in {"reply", "final"} /\ attached /\ sof /\ in # "none"
  /\ host' = (IF AfterReply = "idle" THEN NoRun ELSE [host EXCEPT !.at = AfterReply]) /\ in' = "none"
  /\ UNCHANGED <<deviceVars, faultVars, out, online, attached>>

ReadInfo ==
  /\ host.at = "info" /\ attached /\ sof /\ in # "none"
  /\ host' = NoRun /\ in' = "none"
  /\ UNCHANGED <<deviceVars, faultVars, out, online, attached>>

SendData ==
  /\ host.at = "data" /\ CanSend
  /\ out' = Packet(host.img, host.sent + 1)
  /\ host' = [host EXCEPT !.sent = @ + 1,
                          !.at = IF host.sent + 1 = Packets(FileLength) THEN "final" ELSE "data"]
  /\ UNCHANGED <<deviceVars, faultVars, in, online, attached>>

(* "OKAY"; or the device left the bus: "io error". *)
Finish ==
  /\ host.at = "okay" \/ (host.at # "idle" /\ ~attached)
  /\ host' = NoRun /\ attached' = FALSE
  /\ UNCHANGED <<deviceVars, faultVars, out, in, online>>

(* The user stops lpcboot, or one of its transfers takes 5 s; what it has sent
   and not read stays.  After the first time this can be had for nothing.     *)
Abandon ==
  /\ host.at \notin {"idle", "okay"} /\ attached
  /\ (Hazard(FALSE) \/ (~trusted /\ UNCHANGED <<hazards, trusted>>))
  /\ host' = NoRun /\ attached' = FALSE
  /\ UNCHANGED <<deviceVars, sof, out, in, online>>

Lpcboot == SendCommand \/ ReadReply \/ ReadInfo \/ SendData \/ Finish

-----------------------------------------------------------------------------
(* The boot loader: between reset and the loop of main *)

(* The first word of the image is neither 0 nor 0xFFFFFFFF.  Words the chip was
   programming when power went may be anything.                               *)
HasImage_bug(b) == TRUE             \* an erased flash not told from an image
HasImage(b) == IF flash[1][1] = Junk THEN b ELSE flash[1][1] # Blank

TakeRequest_bug == UNCHANGED gpreg  \* not cleared
TakeRequest == gpreg' = "none"

Reset ==
  /\ at = "reset" /\ TakeRequest
  /\ IF gpreg = "app" THEN at' = "app" /\ UNCHANGED timeout
     ELSE \E b \in BOOLEAN :
            IF HasImage(b) /\ gpreg # "stay" THEN timeout' = Wait /\ at' = "enum"
                                         ELSE timeout' = 0 /\ at' = "loop"
  /\ UNCHANGED <<job, got, reply, flash, ram, usbVars, host, faultVars, kept>>

(* The host sets configuration 1; the driver sees it while it waits. *)
Configure ==
  /\ at \in {"enum", "loop", "recv", "drain"} /\ ~online /\ sof
  /\ online' = TRUE /\ at' = (IF at = "enum" THEN "loop" ELSE at)
  /\ UNCHANGED <<job, got, reply, timeout, gpreg, flash, ram, kept, out, in, attached, host, faultVars>>

(* start_app: a warm reset with the request for the application. *)
StartApp ==
  /\ at' = "reset" /\ gpreg' = "app" /\ timeout' = 0 /\ Detach
  /\ UNCHANGED <<job, got, reply, flash, ram, host, faultVars, kept>>

EnumTimeout_bug == FALSE            \* waits for the host without a limit
EnumTimeout == at = "enum" /\ ~online /\ StartApp

(* 100 frames without a packet.  A packet that comes after the last look at the
   buffer is lost in the reset, as one that finds no device would be.          *)
LoopTimeout ==
  /\ at = "loop" /\ online /\ sof /\ out = NoPacket
  /\ \/ timeout = 1 /\ StartApp
     \/ /\ timeout # 1 /\ timeout' = (IF timeout = 0 THEN 0 ELSE timeout - 1)
        /\ UNCHANGED <<at, job, got, reply, gpreg, flash, ram, kept, usbVars, host, faultVars>>

-----------------------------------------------------------------------------
(* Commands *)

Limit == IF out.letter = "W" THEN 2 * RomPages * PagePackets ELSE 2 * RamPackets
TooLong == out.letter \in {"W", "X"} /\ out.arg > Limit

KeepLoader_bug == timeout           \* the timer goes on after a command
KeepLoader == 0
Refused_bug == "loop"               \* return where the code breaks
Refused == "final"

(* handle, up to its first usb_xmit or IAP call. *)
Handle ==
  LET c == out.letter IN
    /\ job' = [letter |-> c, left |-> out.arg, page |-> 1] /\ timeout' = KeepLoader
    /\ reply' = IF TooLong \/ c \notin {"E", "W", "X", "Q", "A", "R"} THEN "fail" ELSE "ok"
    /\ at' = IF reply' = "fail" THEN Refused ELSE IF c = "E" THEN "erase" ELSE "ack"
    /\ gpreg' = IF c = "A" THEN "app" ELSE gpreg

(* A packet in the loop: a command, or the data of a lpcboot out of step, of
   which only the 12-byte one with another magic has an effect.               *)
RecvCommand ==
  /\ at = "loop" /\ online /\ out # NoPacket
  /\ IF out.kind = "cmd"
       THEN Handle /\ kept' = TRUE
       ELSE /\ timeout' \in (IF Units(out) = 1 THEN {timeout, 0} ELSE {timeout})
            /\ kept' = (kept \/ timeout' = 0) /\ UNCHANGED <<at, job, reply, gpreg>>
  /\ out' = NoPacket
  /\ UNCHANGED <<got, flash, ram, in, online, attached, host, faultVars>>

(* usb_xmit: waits for the buffer to be read, gives up when offline. *)
AfterXmit ==
  IF at = "ack" THEN IF job.letter \in {"W", "X"} THEN "recv"
                     ELSE IF job.letter = "Q" THEN "info" ELSE "drain"
  ELSE IF at = "final" /\ job.letter = "X" /\ reply = "ok" THEN "drain" ELSE "loop"

Return == /\ at' = AfterXmit /\ got' = 0
          /\ IF at' = "loop" THEN job' = NoJob /\ reply' = "ok" ELSE UNCHANGED <<job, reply>>

Xmit ==
  /\ at \in {"ack", "info", "final"} /\ (online => in = "none")
  /\ in' = IF ~online THEN in ELSE IF at = "info" THEN "info" ELSE reply
  /\ Return /\ UNCHANGED <<timeout, gpreg, flash, ram, kept, out, online, attached, host, faultVars>>

(* usb_recv of a page, or of the image for RAM: ends when full or on a short
   packet; its result is ignored.                                             *)
Due == IF job.letter = "W" THEN Least(job.left, PageUnits) ELSE job.left
AfterRecv == IF job.letter = "W" THEN "erase" ELSE "final"

Recv ==
  /\ at = "recv" /\ online /\ out # NoPacket
  /\ LET n == Least(Units(out), Due - got) IN
       /\ got' = got + n
       /\ at' = IF n < 2 \/ got + n = Due THEN AfterRecv ELSE "recv"
  /\ ram' = [ram EXCEPT ![got \div 2 + 1] = IF out.kind = "data" THEN out ELSE Junk]
  /\ out' = NoPacket
  /\ UNCHANGED <<job, reply, timeout, gpreg, flash, kept, in, online, attached, host, faultVars>>

(* iap_erase_page and iap_write_page; their results are ignored, too. *)
Erase ==
  /\ at = "erase" /\ at' = (IF job.letter = "W" THEN "write" ELSE "final")
  /\ \/ flash' = [flash EXCEPT ![job.page] = Page(Blank)] /\ UNCHANGED <<hazards, trusted>>
     \/ Hazard(FALSE) /\ UNCHANGED flash
  /\ UNCHANGED <<job, got, reply, timeout, gpreg, ram, kept, usbVars, host, sof>>

Burnt == IF flash[job.page] = Page(Blank) THEN [k \in 1 .. PagePackets |-> ram[k]]
                                         ELSE Page(Junk)
NextPage_bug == job.page             \* addr not advanced
NextPage == job.page + 1
Write ==
  /\ at = "write"
  /\ \/ flash' = [flash EXCEPT ![job.page] = Burnt] /\ UNCHANGED <<hazards, trusted>>
     \/ Hazard(FALSE) /\ UNCHANGED flash
  /\ job' = [letter |-> job.letter, left |-> job.left - Due, page |-> NextPage]
  /\ at' = (IF job.left > Due THEN "recv" ELSE "final") /\ got' = 0 /\ ram' = Stale
  /\ UNCHANGED <<reply, timeout, gpreg, kept, usbVars, host, sof>>

(* "let last txn clear": a packet or ten frames; then the image in RAM, or the reset. *)
AfterDrain == /\ at' = (IF job.letter = "X" THEN "ram" ELSE "reset") /\ Detach
              /\ kept' = (job.letter = "A") /\ job' = NoJob /\ got' = 0 /\ reply' = "ok"

Drain ==
  /\ at = "drain" /\ online /\ (sof \/ out # NoPacket) /\ AfterDrain
  /\ UNCHANGED <<timeout, gpreg, flash, ram, host, faultVars>>

Device == Reset \/ EnumTimeout \/ LoopTimeout \/ RecvCommand \/ Xmit \/ Recv \/ Erase \/ Write
            \/ Drain

-----------------------------------------------------------------------------
(* The application, the bus and the power *)

(* The application, or a program in RAM, resets; or asks for the loader. *)
AppResets ==
  /\ at \in {"app", "ram"} /\ at' = "reset"
  /\ \/ kept' = FALSE /\ UNCHANGED gpreg
     \/ at = "app" /\ kept' = TRUE /\ gpreg' = "stay"        \* reboot_bootloader
  /\ ram' = Stale /\ UNCHANGED <<job, got, reply, timeout, flash, usbVars, host, faultVars>>

(* The host sets configuration 0 while the driver polls: the call in progress
   returns -ENODEV.  The buffers of a disabled endpoint are taken to be lost.  *)
Deconfigure ==
  /\ online /\ sof /\ Hazard(FALSE)
  /\ \/ /\ at \in {"loop", "recv"} /\ out = NoPacket /\ Detach
        /\ at' = (IF at = "recv" THEN AfterRecv ELSE "loop") /\ UNCHANGED <<job, got, reply, kept>>
     \/ at \in {"ack", "info", "final"} /\ in # "none" /\ Detach /\ Return /\ UNCHANGED kept
     \/ at = "drain" /\ AfterDrain
  /\ UNCHANGED <<timeout, gpreg, flash, ram, sof, host>>

BusSleeps ==
  /\ online /\ sof /\ Hazard(TRUE) /\ sof' = FALSE
  /\ UNCHANGED <<deviceVars, usbVars, host>>

BusWakes == ~sof /\ sof' = TRUE /\ UNCHANGED <<deviceVars, usbVars, host, hazards, trusted>>

(* Power fails, in the middle of an erasure or a programming perhaps. *)
PowerLoss ==
  /\ at # "reset" /\ Hazard(TRUE)
  /\ flash' \in
       {flash} \cup (IF at \in {"erase", "write"}
                      THEN {[flash EXCEPT ![job.page] = Page(Junk)],
                            [flash EXCEPT ![job.page] = IF at = "erase" THEN Page(Blank) ELSE Burnt]}
                      ELSE {})
  /\ at' = "reset" /\ gpreg' = "none" /\ timeout' = 0 /\ kept' = FALSE
  /\ job' = NoJob /\ got' = 0 /\ reply' = "ok" /\ ram' = Stale /\ Detach
  /\ UNCHANGED <<sof, host>>

Next == Open \/ Lpcboot \/ Abandon \/ Device \/ Configure \/ AppResets \/ Deconfigure \/ BusSleeps
          \/ BusWakes \/ PowerLoss

Spec == Init /\ [][Next]_vars

(* The device runs, frames arrive while the bus is awake, and lpcboot goes on;
   nothing is assumed of its user, of the application or of what goes wrong.   *)
Fairness == WF_vars(Device) /\ WF_vars(Lpcboot)
LiveSpec == Spec /\ Fairness

-----------------------------------------------------------------------------
(* Properties *)

(* lpcboot prints OKAY for "flash", "erase" and "boot" only when the flash holds
   the image, is erased, or RAM holds the image, whatever happens to the power
   and the bus: unless some lpcboot was killed, an IAP call failed or the host
   deconfigured the device, of which the loader takes no notice.              *)
OkayMeansDone ==
  (host.at = "okay" /\ trusted) =>
     CASE host.letter = "W" -> InFlash(host.img)
       [] host.letter = "E" -> flash[1] = Page(Blank)
       [] host.letter = "X" -> attached =>
            \A k \in 1 .. Packets(FileLength) : ram[k] = Packet(host.img, k)
       [] OTHER -> TRUE

(* Host and loader agree where they are: a new command finds both buffers empty
   and a loader that listens or is about to reset, what the loader has received
   and the buffer holds is what lpcboot has sent, and nothing is left unread.  *)
Received == 2 * PagePackets * (job.page - 1) + got
InStep ==
  (trusted /\ attached) =>
    CASE host.at = "send" -> at \in {"loop", "drain"} /\ in = "none" /\ out = NoPacket
      [] host.at = "okay" -> in = "none" /\ out = NoPacket
      [] host.at = "data" -> /\ at \in {"recv", "erase", "write"} /\ in = "none"
                             /\ Packets(Received) + (IF out = NoPacket THEN 0 ELSE 1)
                                  = host.sent
      [] host.at = "final" -> /\ in = "none" => at \in {"recv", "erase", "write", "final"}
                              /\ in # "none" => at \in {"loop", "drain"} /\ out = NoPacket
      [] OTHER -> TRUE

(* The timer never takes the device away from somebody who asked for the loader,
   by reboot_bootloader or by a command since the last reboot.                 *)
StaysWhenAsked == [][(at \in {"enum", "loop"} /\ at' = "reset" /\ gpreg' = "app") => ~kept]_vars

(* The application is started by the timer only if its first page is not blank;
   and while nothing went wrong, only if flash holds a whole image.            *)
NotBlank == (at = "app" /\ ~kept) => flash[1][1] # Blank
ImageStarted == /\ NotBlank
                /\ (at = "app" /\ ~kept /\ hazards = 0) => \E i \in Images : InFlash(i)

(* The request to start the application holds for one reset: an application that
   crashes comes back through the loader.                                      *)
RequestIsSpent == at \in {"app", "ram"} => gpreg # "app"

(* With an image in flash and nobody talking to the loader, the application is
   started, provided the bus does not go to sleep: the timeout counts frames.  *)
AutoStarts ==
  (at \in {"enum", "loop"} /\ timeout > 0 /\ flash[1][1] # Junk) 
    ~> (at = "app" \/ kept \/ (at = "loop" /\ ~(online /\ sof)))

(* While nothing goes wrong no command keeps lpcboot waiting. *)
Served == (host.at # "idle") ~> (host.at = "idle" \/ hazards > 0)
=============================================================================
