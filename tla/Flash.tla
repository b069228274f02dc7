--------------------------------- MODULE Flash ---------------------------------
(***************************************************************************)
(* A target that is written through one of the agents, by the serial tool or  *)
(* by DFU.                                                                    *)
(***************************************************************************)
EXTENDS FlashAgent

Serial == INSTANCE Stm32Boot
Ram == INSTANCE Dfu

Init ==
  /\ FlashInit
  /\ \/ InitAgent /\ line = "off"
     \/ Serial!InitSerial
     \/ Ram!InitDfu
Next == AgentSteps \/ Serial!SerialSteps \/ Ram!DfuSteps
Spec == Init /\ [][Next]_vars
=============================================================================
