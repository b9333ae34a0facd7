---------------------------- MODULE ProgramOrder ----------------------------
(***************************************************************************)
(* What the front end promises: instructions are executed one by one in    *)
(* the order the program prescribes, as if there were no prediction and no *)
(* pipeline.  An instruction that was just executed may trap, in place of  *)
(* the instruction after it.                                               *)
(***************************************************************************)
CONSTANTS
  Boot,         (* the first instruction                              *)
  NoPC,         (* no instruction                                     *)
  Follows(_),   (* the instructions that may come after one           *)
  TrapTargets   (* handlers and the addresses handlers return to      *)

VARIABLES
  pc,     (* the instruction to execute next                        *)
  last    (* the instruction executed in the last period, or NoPC   *)

Init == pc = Boot /\ last = NoPC

Execute == pc' \in Follows(pc) /\ last' = pc

Bubble == pc' = pc /\ last' = NoPC

Trap == last # NoPC /\ pc' \in TrapTargets /\ last' = NoPC

Next == Execute \/ Bubble \/ Trap

Spec == Init /\ [][Next]_<<pc, last>>
=============================================================================
