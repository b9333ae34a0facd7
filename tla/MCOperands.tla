---------------------------- MODULE MCOperands -----------------------------
(* One register besides x0, two values: a wrong choice shows as the other   *)
(* value, a missing comparison as x0's register number.  Every kind of      *)
(* instruction names x1 as destination and source; an ALU operation and a   *)
(* load also write x0, a multiplication also reads x0.                      *)
EXTENDS Operands

Instructions ==
  [kind : Kind, rd : {1}, rs : {1}]
    \cup [kind : {"alu", "load"}, rd : {0}, rs : {1}]
    \cup [kind : {"multi"}, rd : {1}, rs : {0}]
=============================================================================
