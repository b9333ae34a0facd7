------------------------------ MODULE FrontEnd ------------------------------
(***************************************************************************)
(* Instruction fetch composed with what decode and execute do to it: a     *)
(* queue of the instructions that decode accepted and EX has not yet       *)
(* executed, EX's check of the prediction, the redirect and the training   *)
(* it sends back, and the trap unit's redirect.                            *)
(*                                                                         *)
(* How the queue is held in the ID and EX registers is module Pipeline.    *)
(***************************************************************************)
EXTENDS Fetch, Sequences

CONSTANTS
  Branches,      (* conditional branches                             *)
  Jals,          (* direct jumps                                     *)
  Jalrs,         (* jumps to a register                              *)
  Target,        (* Target[p], p a branch or jal: p + immediate      *)
  JalrTargets,   (* what those registers may hold                    *)
  TrapTargets,   (* mtvec and the values of mepc                     *)
  Depth          (* how many instructions ID and EX hold             *)

Direct == Branches \cup Jals

ASSUME ProgramAssumption ==
  /\ Branches \subseteq PC
  /\ Jals \subseteq PC
  /\ Jalrs \subseteq PC
  /\ Direct \cap Jalrs = {}
  /\ Branches \cap Jals = {}
  /\ Target \in [Direct -> PC]
  /\ JalrTargets \subseteq PC
  /\ TrapTargets \subseteq PC
  /\ Depth \in Nat \ {0}

VARIABLES
  flight,     (* accepted and not yet executed, oldest first              *)
  ms_pc       (* address of the instruction in MEM, which EX executed in the *)
              (* period before; NoPC for a bubble                             *)

vars == <<if_active, req_valid, req_pc, redirect_pending, redirect_pc_r,
          btb, bp_q, bp_update_r, flight, ms_pc>>

Delivered == [pc : PC, taken : BOOLEAN, target : PC \cup {NoPC}]

Init == FetchInit /\ flight = <<>> /\ ms_pc = NoPC

-----------------------------------------------------------------------------
(* EX.  An outcome is br_taken and br_target. *)

Outcomes(p) ==
  CASE p \in Branches -> [taken : BOOLEAN, target : {Target[p]}]
    [] p \in Jals     -> [taken : {TRUE}, target : {Target[p]}]
    [] p \in Jalrs    -> [taken : {TRUE}, target : JalrTargets]
    [] OTHER          -> [taken : {FALSE}, target : {NextPC[p]}]

Successor(p, outcome) == IF outcome.taken THEN outcome.target ELSE NextPC[p]

Follows(p) == {Successor(p, outcome) : outcome \in Outcomes(p)}

(* br_redirect, br_redirect_target *)
Redirect(d, outcome) ==
  IF /\ d.pc \in Direct \cup Jalrs
     /\ \/ outcome.taken # d.taken
        \/ outcome.taken /\ outcome.target # d.target
  THEN Successor(d.pc, outcome)
  ELSE NoPC

(* bp_update_*: a jalr does not train *)
Resolved(d, outcome) ==
  IF d.pc \in Direct
  THEN [pc |-> d.pc, taken |-> outcome.taken, target |-> outcome.target]
  ELSE NoUpdate

-----------------------------------------------------------------------------
(* One clock edge each.  Decode accepts when there is room for it.         *)

Accepted(rest, redirect, ds_allowin) ==
  IF ResponseFire(redirect, ds_allowin) THEN Append(rest, ToDecode) ELSE rest

Accepts == {accept \in BOOLEAN : accept => Len(flight) < Depth}

(* EX executes the oldest instruction; a redirect discards the others. *)
Execute(outcome, ds_allowin) ==
  LET redirect == Redirect(Head(flight), outcome)
  IN  /\ FetchEdge(redirect, ds_allowin, Resolved(Head(flight), outcome))
      /\ flight' = IF redirect # NoPC THEN <<>>
                   ELSE Accepted(Tail(flight), redirect, ds_allowin)
      /\ ms_pc' = Head(flight).pc

(* Nothing executes: a bubble or a stall in EX. *)
Wait(ds_allowin) ==
  /\ FetchEdge(NoPC, ds_allowin, NoUpdate)
  /\ flight' = Accepted(flight, NoPC, ds_allowin)
  /\ ms_pc' = NoPC

(* MEM raises a trap or returns from one; EX is flushed in this period. *)
Trap(target) ==
  /\ ms_pc # NoPC
  /\ FetchEdge(target, TRUE, NoUpdate)
  /\ flight' = <<>>
  /\ ms_pc' = NoPC

Next ==
  \/ /\ flight # <<>>
     /\ \E outcome \in Outcomes(Head(flight).pc), ds_allowin \in Accepts :
          Execute(outcome, ds_allowin)
  \/ \E ds_allowin \in Accepts : Wait(ds_allowin)
  \/ \E target \in TrapTargets : Trap(target)

Spec == Init /\ [][Next]_vars

-----------------------------------------------------------------------------
(* Types of the fetch registers, the predictor and the queue. *)
TypeOK ==
  /\ if_active \in BOOLEAN
  /\ req_valid \in BOOLEAN
  /\ req_pc \in PC \cup {NoPC}
  /\ redirect_pending \in BOOLEAN
  /\ redirect_pc_r \in PC \cup {NoPC}
  /\ btb \in [Rows -> Entry \cup {NoEntry}]
  /\ bp_q \in Entry \cup {NoEntry}
  /\ bp_update_r \in Update \cup {NoUpdate}
  /\ flight \in Seq(Delivered)
  /\ ms_pc \in PC \cup {NoPC}

(* EX checks the prediction of branches and jumps only.  So an instruction *)
(* in flight that is neither is never predicted taken, whatever shares its *)
(* BTB row; and a predicted direct jump is predicted to its own target.    *)
SoundPrediction ==
  \A i \in 1..Len(flight) :
    flight[i].taken => /\ flight[i].pc \in Direct
                       /\ flight[i].target = Target[flight[i].pc]

(* A fetch is predicted from the newest training: the row it reads equals  *)
(* the table after the edge, although lookup and training can hit the same *)
(* row at one edge, where the table still reads its old contents.          *)
LookupIsCurrent ==
  [][(req_valid' /\ req_pc' # req_pc) => bp_q' = btb'[Index[req_pc']]]_vars

(* The instruction EX executes next, flushed ones discarded. *)
NextToExecute ==
  CASE flight # <<>>                          -> Head(flight).pc
    [] flight = <<>> /\ redirect_pending      -> redirect_pc_r
    [] flight = <<>> /\ ~redirect_pending /\ req_valid -> req_pc
    [] OTHER                                  -> Boot

Program == INSTANCE ProgramOrder WITH pc <- NextToExecute, last <- ms_pc

(* Prediction is invisible: whatever the table predicts and whenever       *)
(* redirects, stalls and traps strike, what EX hands to MEM is the program *)
(* in order, none skipped and none twice.                                  *)
ExecutesProgram == Program!Spec
=============================================================================
