--------------------------- MODULE MCStackBuffer ----------------------------
(* Words 0 and 1 share a buffer row, word 2 has a row of its own. *)
EXTENDS StackBuffer

RowOf == [c \in 0..2 |-> c \div 2]
=============================================================================
