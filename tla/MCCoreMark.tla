----------------------------- MODULE MCCoreMark -----------------------------
EXTENDS CoreMark, Bitwise

XorOp(a, b) == a ^^ b
OrOp(a, b) == a | b

MCBuilds ==
  {[seed1 |-> 0, seed2 |-> 0, seed3 |-> 102, total |-> 2000],
   [seed1 |-> 1, seed2 |-> 0, seed3 |-> 0,   total |-> 2000],
   [seed1 |-> 8, seed2 |-> 8, seed3 |-> 8,   total |-> 1200]}

ASSUME DistinctAssumption == \A b \in MCBuilds : Distinguishable(Inputs(b))
=============================================================================
