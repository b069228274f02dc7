-------------------------------- MODULE MCFlash --------------------------------
(* The three agents on a flash of eight words, the serial tool on another, and a
   program sent by DFU. *)
EXTENDS Flash

Geometry(s, p, b) == [starts |-> s, page |-> p, buffer |-> b]
MCParts ==
  [lpc    |-> Geometry({0, 4}, 4, 4),
   stm32  |-> Geometry({0, 2, 4}, 1, 3),
   spifi  |-> Geometry({0, 4}, 2, 4),
   serial |-> Geometry({0}, 2, 5),
   dfu    |-> Geometry({0}, 3, 0)]
Job(o, a, s) == [op |-> o, addr |-> a, size |-> s]
MCJobs ==
  {Job("flash", 0, 7), Job("flash", 4, 3), Job("flash", 2, 2), Job("flash", 4, 5), Job("flash", 0, 0),
   Job("erase", 4, 1), Job("erase", 0, 0), Job("erase", 0, All), Job("exec", 0, 3),
   Job("load", 0, 1)}
=============================================================================
