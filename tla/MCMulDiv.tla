------------------------------ MODULE MCMulDiv ------------------------------
(* Any operation is the first one in EX, with the unit idle; a few others  *)
(* follow it, and flushes come at any time.                                *)
EXTENDS MulDiv

AllOps == [kind : Kind, a : Word, b : Word]

SomeOps ==
  [kind : {"mul", "mulhsu"}, a : {W - 2}, b : {W - 1}]
    \cup [kind : {"div", "remu"}, a : {W - 2}, b : {3}]
    \cup {[kind |-> "rem", a |-> W \div 2, b |-> W - 1]}

MCInit == es \in Op \cup {NoOp} /\ Idle

(* What follows matters only when EX moves on. *)
Follower(kill) == IF MulStall(kill) THEN {NoOp} ELSE SomeOps \cup {NoOp}
MCNext == \E kill \in BOOLEAN : \E next \in Follower(kill) : Clock(next, kill)

(* The clock runs, and periods without a flush come again: flushed         *)
(* instructions never stall EX, and an unflushed one follows them.         *)
MCSpec == MCInit /\ [][MCNext]_vars /\ WF_vars(MCNext /\ Unflushed)
=============================================================================
