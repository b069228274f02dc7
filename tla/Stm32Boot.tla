------------------------------- MODULE Stm32Boot -------------------------------
(***************************************************************************)
(* tools/stm32boot.c: erases and writes an STM32's flash, or runs a program   *)
(* from its RAM, through the serial boot loader in the chip's ROM.            *)
(*                                                                           *)
(* A frame (a command, an address, a chunk of data, the pages to erase) goes  *)
(* over the line at once, and the tool waits for its ACK; a frame may lose a  *)
(* byte or have one damaged, an answer may be lost or late.                   *)
(***************************************************************************)
EXTENDS FlashTarget

(* line.rom: what the ROM takes the next byte for; "baud" after a reset, "half" in
   the middle of a command's two bytes, "gone" once it runs the program.           *)
InitSerial ==
  /\ path = "serial"
  /\ line = [rom |-> "cmd", frame |-> "none", addr |-> 0, data |-> <<>>, answers |-> <<>>, syncs |-> 0]
  /\ core = "off" /\ chip = "off" /\ buffer = <<>>

Frames == [erase |-> "pages", write |-> "addr", go |-> "start"]
Commands == DOMAIN Frames
RAM == Words          \* the address exec writes to: no cell of the flash

-----------------------------------------------------------------------------
(* The ROM *)

Answer(a, next) == line' = [line EXCEPT !.frame = "none", !.answers = Append(@, a), !.rom = next]
Swallows(next) == line' = [line EXCEPT !.frame = "none", !.rom = next]
(* Bytes that complete what an earlier run of the tool left half sent *)
Unexpected == (line.rom # "gone" /\ Answer("nak", "cmd")) \/ Swallows(line.rom)

RomSyncs ==
  /\ line.frame = "sync" /\ UNCHANGED flash
  /\ CASE line.rom = "baud" -> Answer("ack", "cmd")
       [] line.rom = "cmd" -> Swallows("half")
       [] OTHER -> Unexpected
RomCommands ==
  /\ line.frame \in Commands /\ UNCHANGED flash
  /\ CASE line.rom = "cmd" -> Answer("ack", Frames[line.frame])
       [] line.rom = "half" -> Answer("nak", "half")
       [] OTHER -> Unexpected
RomAddress ==
  /\ line.frame = "address" /\ line.rom \in {"addr", "start"}
  /\ Answer("ack", IF line.rom = "addr" THEN "data" ELSE "gone") /\ UNCHANGED flash
RomErases ==
  /\ line.frame = "pages" /\ line.rom = "pages"
  /\ Answer("ack", "cmd") /\ flash' = [c \in Cells |-> Erased]
Programmed(c) ==
  LET i == c - line.addr + 1 IN
  IF i \notin DOMAIN line.data THEN flash[c] ELSE IF flash[c] = Erased THEN line.data[i] ELSE Junk
RomWrites ==
  /\ line.frame = "data" /\ line.rom = "data"
  /\ Answer("ack", "cmd") /\ flash' = [c \in Cells |-> Programmed(c)]
(* A damaged frame fails its check, one that lost a byte leaves the ROM waiting; the
   last chunk, which main's n += n % 4 does not make a multiple of 4, may be refused;
   an answer may be damaged, and is then dropped.                                    *)
RomMisses ==
  /\ line.frame # "none" /\ line.rom # "gone" /\ UNCHANGED flash
  /\ \/ Fault /\ (Answer("nak", "cmd") \/ Swallows(line.rom))
     \/ line.frame = "data" /\ Answer("nak", "cmd") /\ UNCHANGED faults
AnswerLost ==
  /\ line.answers # <<>> /\ Fault
  /\ line' = [line EXCEPT !.answers = Tail(@)] /\ UNCHANGED flash
RomSteps ==
  /\ \/ (RomSyncs \/ RomCommands \/ RomAddress \/ RomErases \/ RomWrites) /\ UNCHANGED faults
     \/ RomMisses \/ AnswerLost
  /\ UNCHANGED <<jobVars, stage, callee, pos, result>>

-----------------------------------------------------------------------------
(* The tool.  stage names the frame to send; at "ack" it waits for the answer to
   callee's.                                                                      *)

(* main: openserial drops what has come in, and DTR resets a board that is wired for
   it; of the file, as much is read as the buffer holds.                              *)
Asked(j) ==
  IF j.op = "erase" THEN [j EXCEPT !.addr = 0, !.size = All]
  ELSE [j EXCEPT !.addr = IF j.op = "exec" THEN RAM ELSE 0,
                 !.size = IF @ > Part.buffer THEN Part.buffer ELSE @]
Opens ==
  /\ \E j \in Jobs : j.op # "load" /\ (j.op = "erase" \/ j.size > 0) /\ Starts(Asked(j), "sync")
  /\ \/ line' = [line EXCEPT !.answers = <<>>, !.syncs = 0]
     \/ line' = [line EXCEPT !.answers = <<>>, !.syncs = 0, !.frame = "none", !.rom = "baud"]
  /\ UNCHANGED <<path, flash, callee, faults>>

(* Up to five SYNC bytes, 0.1 s apart, by when the answer to the one before may not
   have come; an ACK or a NAK will do.  The ROM, while it is at something, misses them. *)
Syncs ==
  /\ stage = "sync" /\ UNCHANGED <<jobVars, flash, callee, pos, faults>>
  /\ \/ /\ line.answers # <<>> /\ line' = [line EXCEPT !.answers = Tail(@)]
        /\ stage' = (IF job.op = "exec" THEN "write" ELSE "erase") /\ UNCHANGED result
     \/ /\ line.syncs < 5
        /\ line' = [line EXCEPT !.syncs = @ + 1, !.frame = IF @ = "none" THEN "sync" ELSE @]
        /\ UNCHANGED <<stage, result>>
     \/ line.syncs = 5 /\ Ends("fail") /\ UNCHANGED line

(* sendCommand, sendAddress, sendData and eraseFlash's write *)
Jumps == job.op = "exec" /\ pos = job.size
Chunk == IF job.size - pos > Part.page THEN Part.page ELSE job.size - pos
SendsFrame ==
  /\ stage \in Commands \cup {"pages", "address", "data"} /\ line.frame = "none"
  /\ line' = [line EXCEPT
       !.frame = stage,
       !.addr = IF stage # "address" THEN @ ELSE job.addr + (IF Jumps THEN 0 ELSE pos),
       !.data = IF stage = "data" THEN [i \in 1 .. Chunk |-> Image(pos + i)] ELSE @]
  /\ callee' = stage /\ stage' = "ack" /\ UNCHANGED <<jobVars, flash, pos, result, faults>>

(* readAck, and what follows in writeMemory, eraseFlash, jumpToAddress and main, which
   does not ask what became of the jump.                                               *)
Refused == Ends(IF Jumps THEN "ok" ELSE "fail") /\ UNCHANGED pos
Goes(next) == stage' = next /\ UNCHANGED <<pos, result>>
Accepted ==
  CASE callee = "erase" -> Goes("pages")
    [] callee \in {"write", "go"} -> Goes("address")
    [] callee = "pages" -> IF job.op = "erase" THEN Ends("ok") /\ UNCHANGED pos ELSE Goes("write")
    [] callee = "address" -> IF Jumps THEN Ends("ok") /\ UNCHANGED pos ELSE Goes("data")
    [] callee = "data" ->
         /\ pos' = pos + Chunk
         /\ CASE pos' < job.size -> stage' = "write" /\ UNCHANGED result
              [] pos' = job.size /\ job.op = "exec" -> stage' = "go" /\ UNCHANGED result
              [] pos' = job.size /\ job.op = "flash" -> Ends("ok")
readAck ==
  /\ stage = "ack" /\ UNCHANGED <<jobVars, flash, callee, faults>>
  /\ \/ /\ line.answers # <<>> /\ line' = [line EXCEPT !.answers = Tail(@)]
        /\ IF Head(line.answers) = "ack" THEN Accepted ELSE Refused
     \/ Refused /\ UNCHANGED line   \* *TIMEOUT*

SerialSteps ==
  /\ path = "serial"
  /\ RomSteps \/ Opens \/ Syncs \/ SendsFrame \/ readAck
  /\ UNCHANGED <<chip, core, buffer>>
=============================================================================
