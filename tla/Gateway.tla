------------------------------ MODULE Gateway -------------------------------
(***************************************************************************)
(* What an interrupt controller promises for each of its sources: a source *)
(* that raises its line becomes pending, stays pending until its number is *)
(* told to the processor, is then in service until the processor completes *)
(* it, and only then can become pending again.  Sources proceed            *)
(* independently; at most one is told or completed in a period.            *)
(***************************************************************************)
CONSTANT Source

VARIABLES
  state,   (* of each source: "idle", "pending", "serving"            *)
  told     (* the last answer to a read                               *)

Init ==
  /\ state = [s \in Source |-> "idle"]
  /\ told \notin Source

Raised(raised, s) ==
  IF s \in raised /\ state[s] = "idle" THEN "pending" ELSE state[s]

(* No claim: no source is told that was not told before. *)
Pass(raised) ==
  /\ state' = [s \in Source |-> Raised(raised, s)]
  /\ told' = told \/ told' \notin Source

(* A pending source is told.  A read right behind another, which finds the *)
(* answer not yet replaced, is told the same source once more.             *)
Claim(raised, claimed) ==
  /\ \/ state[claimed] = "pending"
     \/ state[claimed] = "serving" /\ told = claimed
  /\ state' = [s \in Source |->
                 IF s = claimed THEN "serving" ELSE Raised(raised, s)]
  /\ told' = claimed

Complete(raised, completed) ==
  /\ state[completed] = "serving"
  /\ state' = [s \in Source |->
                 IF s = completed THEN "idle" ELSE Raised(raised, s)]
  /\ told' = told

Next == \E raised \in SUBSET Source :
  \/ Pass(raised)
  \/ \E s \in Source : Claim(raised, s) \/ Complete(raised, s)

Spec == Init /\ [][Next]_<<state, told>>
=============================================================================
