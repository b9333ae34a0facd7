---------------------------- MODULE BoundedFifo ----------------------------
(***************************************************************************)
(* What one pipeline boundary promises: a first-in first-out queue of at   *)
(* most Capacity instructions that can hand its oldest entry on and take a *)
(* new one in the same clock period.  Nothing is dropped, duplicated or    *)
(* reordered.                                                              *)
(***************************************************************************)
EXTENDS Naturals, Sequences

CONSTANT Capacity   (* entries the boundary can hold *)

VARIABLE q

Init == q = <<>>

(* The queue after the oldest entry was, or was not, handed on. *)
Remaining(pop) == IF pop THEN Tail(q) ELSE q

Transfer(pop) ==
  /\ pop => q # <<>>
  /\ q' = Remaining(pop)

TransferAndAccept(pop, x) ==
  /\ pop => q # <<>>
  /\ Len(Remaining(pop)) < Capacity
  /\ q' = Append(Remaining(pop), x)

(* One clock edge: pop and push say what the two neighbours saw happen. *)
Edge(pop, push, x) ==
  IF push THEN TransferAndAccept(pop, x) ELSE Transfer(pop)
=============================================================================
