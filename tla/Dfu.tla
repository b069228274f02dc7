---------------------------------- MODULE Dfu ----------------------------------
(***************************************************************************)
(* tools/lpcboot.c dfu: puts a program into the RAM of a chip whose ROM       *)
(* waits for one as a USB device of the DFU class (firmware download).        *)
(*                                                                           *)
(* A control transfer is one step of both ends.  line is the ROM and the USB  *)
(* connection to it: state is DFU's, image what the ROM took last, and open   *)
(* whether the tool's handle is that of the device as it is now.              *)
(***************************************************************************)
EXTENDS FlashTarget

InitDfu ==
  /\ path = "dfu"
  /\ line = [state |-> "IDLE", image |-> <<>>, open |-> FALSE]
  /\ core = "off" /\ chip = "off" /\ buffer = <<>>

-----------------------------------------------------------------------------
(* The ROM *)

(* DFU_DNLOAD: a block continues the image, none ends it, and anything else is an
   error, which only a reset ends.                                                *)
Taken(block) ==
  CASE line.state = "IDLE" /\ block # <<>> -> [line EXCEPT !.state = "BUSY", !.image = block]
    [] line.state = "DOWNLOAD_IDLE" /\ block # <<>> -> [line EXCEPT !.state = "BUSY", !.image = @ \o block]
    [] line.state = "DOWNLOAD_IDLE" /\ block = <<>> -> [line EXCEPT !.state = "MANIFEST"]
    [] OTHER -> [line EXCEPT !.state = "ERROR"]
(* The ROM is done with what it took; the program, once complete, needs a reset. *)
RomFinishes ==
  /\ line.state \in {"BUSY", "MANIFEST"}
  /\ line' = [line EXCEPT !.state = IF @ = "BUSY" THEN "DOWNLOAD_IDLE" ELSE "MANIFEST_WAIT_RESET"]
  /\ UNCHANGED faults
RomRefuses == line.state = "BUSY" /\ Fault /\ line' = [line EXCEPT !.state = "ERROR"]
(* The user resets the chip, or pulls the plug. *)
DeviceResets ==
  /\ line.state # "IDLE" \/ line.open
  /\ line' = [line EXCEPT !.state = "IDLE", !.open = FALSE] /\ UNCHANGED faults
DeviceSteps ==
  /\ RomFinishes \/ RomRefuses \/ DeviceResets
  /\ UNCHANGED <<jobVars, flash, stage, callee, pos, result>>

-----------------------------------------------------------------------------
(* The tool, in dfu_download: it opens the device, asks its state, sends the program
   behind a header, block by block, asking after each, and an empty block last.       *)

Opens ==
  /\ \/ /\ \E j \in Jobs : j.op \in {"exec", "load"} /\ Starts(j, "open")
        /\ UNCHANGED <<path, line>>
     \/ /\ stage = "open" /\ stage' = "status" /\ line' = [line EXCEPT !.open = TRUE]
        /\ UNCHANGED <<jobVars, pos, result>>
  /\ callee' = "open" /\ UNCHANGED <<flash, faults>>

(* usb_ctrl: the answer to a transfer the ROM took may be lost, too. *)
usb_ctrl(device, outcome) ==
  \/ line.open /\ line' = device /\ outcome /\ UNCHANGED faults
  \/ line.open /\ Fault /\ line' \in {line, device} /\ Ends("fail") /\ UNCHANGED pos
  \/ ~line.open /\ UNCHANGED <<line, faults>> /\ Ends("fail") /\ UNCHANGED pos

Left == Len(Stream) - pos
Xfer == IF Left > Part.page THEN Part.page ELSE Left

Sends ==
  /\ stage = "send"
  /\ usb_ctrl(Taken(SubSeq(Stream, pos + 1, pos + Xfer)),
       pos' = pos + Xfer /\ stage' = "status" /\ UNCHANGED result)

(* dfu_status, and what the state must be: before the first block, after each, and
   after the empty one.  The delay the ROM asks for is not observed.                *)
Wanted == CASE pos = 0 -> "IDLE" [] callee = "end" -> "MANIFEST_WAIT_RESET" [] OTHER -> "DOWNLOAD_IDLE"
dfu_status ==
  /\ stage = "status"
  /\ usb_ctrl(line,
       /\ UNCHANGED pos
       /\ IF line.state # Wanted THEN Ends("fail")
          ELSE IF callee = "end" THEN Ends("ok")
          ELSE stage' = (IF Left > 0 THEN "send" ELSE "end") /\ UNCHANGED result)

Finishes ==
  /\ stage = "end"
  /\ usb_ctrl(Taken(<<>>), stage' = "status" /\ UNCHANGED <<pos, result>>)
Killed == stage # "idle" /\ Ends("fail") /\ line' = [line EXCEPT !.open = FALSE] /\ UNCHANGED <<pos, faults>>

(* dfu_download *)
dfu_download ==
  /\ \/ Sends /\ callee' = "send"
     \/ dfu_status /\ UNCHANGED callee
     \/ Finishes /\ callee' = "end"
     \/ Killed /\ UNCHANGED callee
  /\ UNCHANGED <<jobVars, flash>>

DfuSteps ==
  /\ path = "dfu"
  /\ DeviceSteps \/ Opens \/ dfu_download
  /\ UNCHANGED <<chip, core, buffer>>
=============================================================================
