---------------------------- MODULE MCRunControl -----------------------------
(* RunControl for TLC: every command, failures of both kinds. *)
EXTENDS RunControl

AllCommands == {"stop", "go", "step", "until", "maskints"}
AllFaults   == {"post", "link"}
=============================================================================
