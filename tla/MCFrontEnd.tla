----------------------------- MODULE MCFrontEnd -----------------------------
(* Six instructions in two BTB rows: two branches that share a row, a jump *)
(* sharing the other row with a jalr, and plain instructions in both.      *)
EXTENDS FrontEnd

Addresses == 0..5
Sequential == [p \in Addresses |-> (p + 1) % 6]
LowBits == [p \in Addresses |-> p % 2]
HighBits == [p \in Addresses |-> p \div 2]
Targets == [p \in {1, 3, 4} |-> CASE p = 1 -> 3 [] p = 3 -> 0 [] p = 4 -> 1]
=============================================================================
