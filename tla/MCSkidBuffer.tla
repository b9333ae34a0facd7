---------------------------- MODULE MCSkidBuffer ----------------------------
(* Model-checking instance of SkidBuffer: five distinguishable instructions *)
(* tell every reordering, loss and duplication of the at most three that    *)
(* meet at one boundary apart.                                              *)
EXTENDS SkidBuffer
=============================================================================
