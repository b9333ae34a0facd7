------------------------------- MODULE Fetch --------------------------------
(***************************************************************************)
(* if_stage: the request/response registers of instruction fetch, the      *)
(* redirect register and the branch target buffer.                         *)
(*                                                                         *)
(* One operator, FetchEdge, is the whole clock edge; the module that       *)
(* composes it with decode and execute chooses its inputs.  The lookup     *)
(* table and the update shadow of the source are written together with the *)
(* same data; both are btb here, and the valid bitmaps are folded into it. *)
(***************************************************************************)
EXTENDS Naturals

CONSTANTS
  PC,        (* addresses of instructions                     *)
  NoPC,      (* the all-zero word: no address of the program  *)
  Boot,      (* PC_START                                      *)
  NextPC,    (* NextPC[p] is p + 4                            *)
  Index,     (* Index[p]: the low address bits, a BTB row     *)
  Tag,       (* Tag[p]: the remaining high bits               *)
  NoEntry,   (* a row whose valid bit is clear                *)
  NoUpdate   (* bp_update_valid_r is clear                    *)

Rows == {Index[p] : p \in PC}
Tags == {Tag[p] : p \in PC}
Entry == [tag : Tags, counter : 0..3, target : PC]
Update == [pc : PC, taken : BOOLEAN, target : PC]

ASSUME AddressAssumption ==
  /\ NoPC \notin PC
  /\ Boot \in PC
  /\ NextPC \in [PC -> PC]
  /\ \A p, q \in PC : Index[p] = Index[q] /\ Tag[p] = Tag[q] => p = q
  /\ NoEntry \notin Entry
  /\ NoUpdate \notin Update

VARIABLES
  if_active,         (* fetching has started                              *)
  req_valid,         (* a fetch is outstanding or waits for decode        *)
  req_pc,            (* its address                                       *)
  redirect_pending,  (* a redirect target waits to be requested           *)
  redirect_pc_r,     (* that target                                       *)
  btb,               (* branch target buffer, by row                      *)
  bp_q,              (* the row read along with the outstanding fetch     *)
  bp_update_r        (* the resolved branch that trains the table next    *)

fetchVars == <<if_active, req_valid, req_pc, redirect_pending, redirect_pc_r,
               btb, bp_q, bp_update_r>>

FetchInit ==
  /\ if_active = FALSE
  /\ req_valid = FALSE
  /\ req_pc = NoPC
  /\ redirect_pending = FALSE
  /\ redirect_pc_r = NoPC
  /\ btb = [r \in Rows |-> NoEntry]
  /\ bp_q = NoEntry
  /\ bp_update_r = NoUpdate

-----------------------------------------------------------------------------
(* Prediction for the outstanding fetch. *)

(* Mutant: the tag is not compared. *)
BpHitWithoutTag == bp_q # NoEntry

BpHit == bp_q # NoEntry /\ bp_q.tag = Tag[req_pc]

BpPredTaken == BpHit /\ bp_q.counter >= 2

BpPredTarget == IF BpHit THEN bp_q.target ELSE NoPC

PredictedNextPC == IF BpPredTaken THEN bp_q.target ELSE NextPC[req_pc]

(* What decode receives: the address and what EX will compare with. *)
ToDecode == [pc |-> req_pc, taken |-> BpPredTaken, target |-> BpPredTarget]

-----------------------------------------------------------------------------
(* Request and response.  redirect is NoPC in a period without redirect.   *)

ResponseFire(redirect, ds_allowin) ==
  req_valid /\ ds_allowin /\ redirect = NoPC

RequestFire(redirect, ds_allowin) ==
  /\ if_active
  /\ redirect = NoPC
  /\ ~req_valid \/ ResponseFire(redirect, ds_allowin)

(* Mutant: the outstanding fetch is preferred to the redirect. *)
RequestPCIgnoresRedirect ==
  IF req_valid THEN PredictedNextPC ELSE Boot

RequestPC ==
  CASE redirect_pending -> redirect_pc_r
    [] ~redirect_pending /\ req_valid -> PredictedNextPC
    [] OTHER -> Boot

-----------------------------------------------------------------------------
(* Training. *)

(* Mutant: the counter does not saturate at the top. *)
CounterUpdateOverflows(current, taken) ==
  IF taken THEN current + 1 ELSE IF current = 0 THEN 0 ELSE current - 1

CounterUpdate(current, taken) ==
  IF taken THEN IF current = 3 THEN 3 ELSE current + 1
           ELSE IF current = 0 THEN 0 ELSE current - 1

TrainedRow(u) ==
  LET old == btb[Index[u.pc]]
  IN  [tag |-> Tag[u.pc],
       counter |-> IF old # NoEntry /\ old.tag = Tag[u.pc]
                   THEN CounterUpdate(old.counter, u.taken)
                   ELSE IF u.taken THEN 2 ELSE 1,
       target |-> u.target]

TrainedTable ==
  IF bp_update_r = NoUpdate
  THEN btb
  ELSE [btb EXCEPT ![Index[bp_update_r.pc]] = TrainedRow(bp_update_r)]

(* Mutant: no bypass of the training write. *)
LookupRowWithoutBypass(pc) == btb[Index[pc]]

(* The row read for a request: the table holds its old contents at the     *)
(* edge, so a collision with the training write is bypassed.               *)
LookupRow(pc) ==
  IF bp_update_r # NoUpdate /\ Index[bp_update_r.pc] = Index[pc]
  THEN TrainedRow(bp_update_r)
  ELSE btb[Index[pc]]

-----------------------------------------------------------------------------
(* The clock edge.  resolved: the branch EX resolves in this period, or    *)
(* NoUpdate; EX's jalr is filtered out before it gets here.                *)
FetchEdge(redirect, ds_allowin, resolved) ==
  LET request == RequestFire(redirect, ds_allowin)
      response == ResponseFire(redirect, ds_allowin)
  IN  /\ if_active' = TRUE
      /\ redirect_pending' =
           (redirect # NoPC \/ (redirect_pending /\ ~request))
      /\ redirect_pc_r' = IF redirect # NoPC THEN redirect ELSE redirect_pc_r
      /\ req_valid' = (redirect = NoPC /\ (request \/ (req_valid /\ ~response)))
      /\ req_pc' = IF request THEN RequestPC ELSE req_pc
      /\ bp_update_r' = resolved
      /\ btb' = TrainedTable
      /\ bp_q' = IF request THEN LookupRow(RequestPC)
                 ELSE IF redirect # NoPC THEN NoEntry ELSE bp_q
=============================================================================
