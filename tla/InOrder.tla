------------------------------ MODULE InOrder ------------------------------
(***************************************************************************)
(* What the five-stage pipeline promises about control: the instructions   *)
(* in flight form a queue in program order.  The oldest one, once it has   *)
(* reached the exit, retires or traps at the next edge and not before; a   *)
(* jump that was fetched past wrongly must have its younger instructions   *)
(* discarded before it retires; a trap discards the whole queue.           *)
(***************************************************************************)
EXTENDS Naturals, Sequences

CONSTANTS
  Inst,        (* instructions                                          *)
  Jumps,       (* control transfers that the fetch stage predicts wrong *)
  SyncTraps,   (* instructions that raise a synchronous exception       *)
  Mrets        (* returns from a trap handler                           *)

VARIABLES
  q,           (* instructions in flight, oldest first   *)
  exit,        (* the oldest of them is at the exit      *)
  in_handler   (* a trap was taken and not returned from *)

vars == <<q, exit, in_handler>>

InFlight(x, r) == [inst |-> x, resolved |-> r]

Init == q = <<>> /\ exit = FALSE /\ in_handler = FALSE

Settled(e) == e.inst \in Jumps => e.resolved

(* The instruction at the exit may leave for good. *)
MayRetire ==
  /\ Settled(Head(q))
  /\ Head(q).inst \notin SyncTraps
  /\ Head(q).inst \in Mrets => ~in_handler

Remaining == IF exit THEN Tail(q) ELSE q

(* The instruction at the exit traps: its own exception or an interrupt. *)
Trap ==
  /\ exit
  /\ Settled(Head(q))
  /\ q' = <<>>
  /\ in_handler' = TRUE

Return ==
  /\ exit
  /\ Head(q).inst \in Mrets
  /\ in_handler
  /\ q' = <<>>
  /\ in_handler' = FALSE

(* Everything younger than the wrongly predicted jump at position i goes. *)
Resolve(rest, i) ==
  /\ rest[i].inst \in Jumps
  /\ ~rest[i].resolved
  /\ q' = [SubSeq(rest, 1, i) EXCEPT ![i].resolved = TRUE]

Advance ==
  /\ exit => MayRetire
  /\ \/ q' = Remaining
     \/ \E x \in Inst : q' = Append(Remaining, InFlight(x, FALSE))
     \/ \E i \in 1..Len(Remaining) : Resolve(Remaining, i)
  /\ UNCHANGED in_handler

Next ==
  /\ Trap \/ Return \/ Advance
  /\ exit' \in BOOLEAN
  /\ exit' => q' # <<>>

Spec == Init /\ [][Next]_vars
=============================================================================
