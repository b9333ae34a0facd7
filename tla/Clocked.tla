------------------------------ MODULE Clocked -------------------------------
(***************************************************************************)
(* The pipeline with its clock made visible.  An edge that changes no      *)
(* register of the pipeline is a step of the chip all the same, so a       *)
(* pipeline that waits for ever is told apart from one whose clock has     *)
(* stopped.                                                                *)
(***************************************************************************)
EXTENDS Pipeline

VARIABLE phase   (* parity of the clock periods since reset *)

Edge(in, fetched) == Clock(in, fetched) /\ phase' = 1 - phase

LiveInit == Init /\ phase = 0

LiveNext == \E in \in Inputs : \E fetched \in Response(in) : Edge(in, fetched)

(* The clock runs, and the multiplier or divider reports completion again  *)
(* and again.  Nothing is assumed of operand collisions, interrupts or the *)
(* instructions fetched.                                                   *)
LiveSpec ==
  /\ LiveInit
  /\ [][LiveNext]_<<vars, phase>>
  /\ WF_<<vars, phase>>(\E in \in Inputs :
       in.mul_done /\ \E fetched \in Response(in) : Edge(in, fetched))

-----------------------------------------------------------------------------
(* Instructions keep reaching MEM unflushed: stalls end, and no redirect   *)
(* or trap repeats itself so as to starve the program.                     *)
KeepsExecuting == []<>(mem.valid /\ ~mem.flush)
=============================================================================
