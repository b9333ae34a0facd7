------------------------------- MODULE MulDiv -------------------------------
(***************************************************************************)
(* The multiply/divide unit of EX: the controller mul.sv, the multiplier   *)
(* mul_pipeline.sv and the divider model divider.sv.                       *)
(*                                                                         *)
(* EX keeps an operation until mul_stall falls.  A flush (kill) removes it *)
(* and clears the multiplier, but a divider that has accepted operands     *)
(* cannot be stopped: the controller waits for the stale response and      *)
(* drops it.  A word is two half words of H values each (2^16 in the       *)
(* source).                                                                *)
(***************************************************************************)
EXTENDS Integers

CONSTANTS
  H,            (* the number of values of half a word                   *)
  HighStages,   (* HIGH_PIPE_STAGES: latency of a high product, 2 or 3   *)
  Latency,      (* periods the divider computes                          *)
  Op,           (* the operations EX may hold                            *)
  NoOp          (* EX holds something else                               *)

W == H * H
Word == 0..(W - 1)
Low == {"mul"}
High == {"mulh", "mulhsu", "mulhu"}
Quotients == {"div", "divu"}
Remainders == {"rem", "remu"}
Kind == Low \cup High \cup Quotients \cup Remainders

ASSUME UnitAssumption ==
  /\ H \in Nat \ {0} /\ H % 2 = 0
  /\ HighStages \in {2, 3}
  /\ Latency \in Nat
  /\ Op \subseteq [kind : Kind, a : Word, b : Word]
  /\ NoOp \notin Op

VARIABLES
  es,                                  (* the operation in EX              *)
  active, stage1, stage2, done,        (* the multiplier's control         *)
  mul_r, result,                       (* its operands and its result      *)
  div_state, div_discard, div_result,  (* the controller's division state  *)
  dv_state, dv_count, dv_op            (* the divider                      *)

mulVars == <<active, stage1, stage2, done, mul_r, result>>
divVars == <<div_state, div_discard, div_result>>
dvVars == <<dv_state, dv_count, dv_op>>
vars == <<es, active, stage1, stage2, done, mul_r, result,
          div_state, div_discard, div_result, dv_state, dv_count, dv_op>>

Idle ==
  /\ active = FALSE /\ stage1 = FALSE /\ stage2 = FALSE /\ done = FALSE
  /\ mul_r = NoOp
  /\ result = 0
  /\ div_state = "idle"
  /\ div_discard = FALSE
  /\ div_result = [q |-> 0, r |-> 0]
  /\ dv_state = "IDLE"
  /\ dv_count = 0
  /\ dv_op = [dividend |-> 0, divisor |-> 0]

Init == es = NoOp /\ Idle

-----------------------------------------------------------------------------
(* Operands. *)

IsMul == es # NoOp /\ es.kind \in Low \cup High
IsDiv == es # NoOp /\ es.kind \in Quotients \cup Remainders

Negative(x) == x >= W \div 2

Src1Signed(k) == k \in {"mul", "mulh", "mulhsu", "div", "rem"}
Src2Signed(k) == k \in {"mul", "mulh", "div", "rem"}
Src1Negative(op) == Src1Signed(op.kind) /\ Negative(op.a)
Src2Negative(op) == Src2Signed(op.kind) /\ Negative(op.b)

Negate(x) == (W - x) % W

-----------------------------------------------------------------------------
(* The multiplier: four half-word products and the sign correction.        *)

MiddleSum(op) ==
  (op.a % H) * (op.b \div H) + (op.a \div H) * (op.b % H)
    + ((op.a % H) * (op.b % H)) \div H

LowResult(op) == (MiddleSum(op) % H) * H + (((op.a % H) * (op.b % H)) % H)

(* Mutant: the high product is not corrected for a negative multiplier. *)
HighResultHalfCorrected(op) ==
  ((op.a \div H) * (op.b \div H) + MiddleSum(op) \div H
     - (IF Src1Negative(op) THEN op.b ELSE 0)) % W

HighResult(op) ==
  ((op.a \div H) * (op.b \div H) + MiddleSum(op) \div H
     - (IF Src1Negative(op) THEN op.b ELSE 0)
     - (IF Src2Negative(op) THEN op.a ELSE 0)) % W

Product(op) == IF op.kind \in Low THEN LowResult(op) ELSE HighResult(op)

StartAccept(kill) == IsMul /\ ~kill /\ ~active

Complete ==
  \/ mul_r # NoOp /\ mul_r.kind \in Low /\ stage1
  \/ /\ mul_r # NoOp /\ mul_r.kind \in High
     /\ IF HighStages = 2 THEN stage1 ELSE stage2

(* Mutant: a flush does not empty the multiplier. *)
MultiplyThroughFlush(kill) ==
  /\ stage1' = StartAccept(kill)
  /\ stage2' = stage1
  /\ mul_r' = IF StartAccept(kill) THEN es ELSE mul_r
  /\ result' = IF Complete THEN Product(mul_r) ELSE result
  /\ done' = Complete
  /\ active' = (StartAccept(kill) \/ (active /\ (Complete \/ ~done)))

(* result_ready is the allow-in of MEM, always high while the CPU runs      *)
(* (PipelineProofs!BackEndFlows), so a finished product stays one period.   *)
Multiply(kill) ==
  /\ stage1' = (~kill /\ StartAccept(kill))
  /\ stage2' = (~kill /\ stage1)
  /\ mul_r' = IF StartAccept(kill) THEN es ELSE mul_r
  /\ result' = CASE kill -> 0
                 [] ~kill /\ Complete -> Product(mul_r)
                 [] OTHER -> result
  /\ done' = (~kill /\ Complete)
  /\ active' = (~kill /\ (StartAccept(kill) \/ (active /\ (Complete \/ ~done))))

-----------------------------------------------------------------------------
(* The divider works on magnitudes; two cases never reach it.              *)

Magnitudes(op) ==
  [dividend |-> IF Src1Negative(op) THEN Negate(op.a) ELSE op.a,
   divisor  |-> IF Src2Negative(op) THEN Negate(op.b) ELSE op.b]

ByZero(op) == op.b = 0

Overflows(op) == Src2Signed(op.kind) /\ op.a = W \div 2 /\ op.b = W - 1

Special(op) == ByZero(op) \/ Overflows(op)

SpecialResult(op) ==
  IF ByZero(op) THEN [q |-> W - 1, r |-> op.a] ELSE [q |-> W \div 2, r |-> 0]

Quotient(m) == [q |-> m.dividend \div m.divisor, r |-> m.dividend % m.divisor]

DivStart(kill) ==
  IsDiv /\ ~kill /\ div_state = "idle" /\ ~div_discard /\ ~Special(es)

Response == dv_state = "OUTPUT"

(* Mutant: the divider counts past zero. *)
DividerEdgeNeverDone(kill) ==
  CASE dv_state = "IDLE" /\ DivStart(kill) ->
         /\ dv_op' = Magnitudes(es)
         /\ dv_count' = Latency
         /\ dv_state' = "WAIT"
    [] dv_state = "WAIT" ->
         /\ dv_count' = dv_count - 1
         /\ UNCHANGED <<dv_state, dv_op>>
    [] dv_state = "OUTPUT" ->
         /\ dv_state' = "IDLE"
         /\ UNCHANGED <<dv_count, dv_op>>
    [] OTHER -> UNCHANGED dvVars

DividerEdge(kill) ==
  CASE dv_state = "IDLE" /\ DivStart(kill) ->
         /\ dv_op' = Magnitudes(es)
         /\ dv_count' = Latency
         /\ dv_state' = "WAIT"
    [] dv_state = "WAIT" /\ dv_count > 0 ->
         /\ dv_count' = dv_count - 1
         /\ UNCHANGED <<dv_state, dv_op>>
    [] dv_state = "WAIT" /\ dv_count = 0 ->
         /\ dv_state' = "OUTPUT"
         /\ UNCHANGED <<dv_count, dv_op>>
    [] dv_state = "OUTPUT" ->
         /\ dv_state' = "IDLE"
         /\ UNCHANGED <<dv_count, dv_op>>
    [] OTHER -> UNCHANGED dvVars

(* Mutants: a flush forgets the answer on its way; the drain misses it. *)
KillWithoutDiscard ==
  /\ div_state' = "idle"
  /\ div_discard' = FALSE
  /\ UNCHANGED div_result

DrainForEver ==
  /\ div_state' = "idle"
  /\ UNCHANGED <<div_discard, div_result>>

(* The controller: drop, drain, or divide. *)
KillDivision ==
  /\ div_state' = "idle"
  /\ div_discard' = ((div_discard \/ div_state = "wait") /\ ~Response)
  /\ UNCHANGED div_result

DrainDivision ==
  /\ div_state' = "idle"
  /\ div_discard' = ~Response
  /\ UNCHANGED div_result

Divide ==
  /\ div_discard' = FALSE
  /\ CASE div_state = "idle" /\ DivStart(FALSE) ->
            /\ div_state' = IF dv_state = "IDLE" THEN "wait" ELSE "idle"
            /\ UNCHANGED div_result
       [] div_state = "idle" /\ IsDiv /\ Special(es) ->
            /\ div_state' = "special"
            /\ div_result' = SpecialResult(es)
       [] div_state = "wait" /\ Response ->
            /\ div_state' = "done"
            /\ div_result' = Quotient(dv_op)
       [] div_state = "wait" /\ ~Response -> UNCHANGED <<div_state, div_result>>
       [] OTHER -> div_state' = "idle" /\ UNCHANGED div_result

ControlEdge(kill) ==
  CASE kill                 -> KillDivision
    [] ~kill /\ div_discard  -> DrainDivision
    [] ~kill /\ ~div_discard -> Divide

-----------------------------------------------------------------------------
(* The result and the stall EX sees. *)

MulStall(kill) ==
  /\ ~kill
  /\ \/ IsMul /\ ~done
     \/ IsDiv /\ div_state \notin {"special", "done"}

(* The sign is applied to a computed quotient or remainder only. *)
MulResult ==
  CASE IsMul -> result
    [] es.kind \in Quotients ->
         IF Src1Negative(es) # Src2Negative(es) /\ div_state = "done"
         THEN Negate(div_result.q) ELSE div_result.q
    [] es.kind \in Remainders ->
         IF Src1Negative(es) /\ div_state = "done"
         THEN Negate(div_result.r) ELSE div_result.r

(* The clock edge; next is what EX takes when it moves on. *)
Clock(next, kill) ==
  /\ Multiply(kill)
  /\ ControlEdge(kill)
  /\ DividerEdge(kill)
  /\ es' = IF MulStall(kill) THEN es ELSE next

Next == \E next \in Op \cup {NoOp}, kill \in BOOLEAN : Clock(next, kill)

Spec == Init /\ [][Next]_vars

(* A period without a flush, whatever follows the operation in EX.         *)
Unflushed ==
  /\ Multiply(FALSE)
  /\ ControlEdge(FALSE)
  /\ DividerEdge(FALSE)
  /\ MulStall(FALSE) => UNCHANGED es

-----------------------------------------------------------------------------
(* Types of the unit's registers. *)
TypeOK ==
  /\ es \in Op \cup {NoOp}
  /\ active \in BOOLEAN /\ stage1 \in BOOLEAN /\ stage2 \in BOOLEAN
  /\ done \in BOOLEAN
  /\ mul_r \in Op \cup {NoOp}
  /\ div_state \in {"idle", "wait", "special", "done"}
  /\ div_discard \in BOOLEAN
  /\ dv_state \in {"IDLE", "WAIT", "OUTPUT"}
  /\ dv_count \in 0..Latency

Signed(x) == IF Negative(x) THEN x - W ELSE x
Operand1(op) == IF Src1Signed(op.kind) THEN Signed(op.a) ELSE op.a
Operand2(op) == IF Src2Signed(op.kind) THEN Signed(op.b) ELSE op.b
Abs(x) == IF x < 0 THEN -x ELSE x
SignOf(x) == IF x < 0 THEN -1 ELSE 1

(* The RISC-V M extension. *)
Reference(op) ==
  LET x == Operand1(op)
      y == Operand2(op)
  IN  CASE op.kind \in Low  -> (x * y) % W
        [] op.kind \in High -> ((x * y) \div W) % W
        [] op.kind \in Quotients ->
             IF y = 0 THEN W - 1
             ELSE (SignOf(x) * SignOf(y) * (Abs(x) \div Abs(y))) % W
        [] op.kind \in Remainders ->
             IF y = 0 THEN op.a ELSE (SignOf(x) * (Abs(x) % Abs(y))) % W

(* When EX moves on with an operation, the result is the one RISC-V        *)
(* defines for that operation, whatever was flushed or drained before.     *)
ResultIsRight == es # NoOp /\ ~MulStall(FALSE) => MulResult = Reference(es)

(* A result is never that of another operation: what the multiplier        *)
(* finished and what the divider answers belong to the operation in EX.    *)
OwnResult ==
  /\ done => IsMul /\ result = Product(es)
  /\ div_state = "wait" => IsDiv /\ dv_op = Magnitudes(es)
  /\ div_state = "done" => IsDiv /\ div_result = Quotient(Magnitudes(es))
  /\ div_state = "special" => IsDiv /\ div_result = SpecialResult(es)

(* The divider works exactly while the controller waits for its answer or  *)
(* waits to drop it: no response is left over for a later division, and no *)
(* request meets a busy divider.                                           *)
OneOutstanding ==
  dv_state = "IDLE" <=> (div_state = "wait" <=> div_discard)

(* Once flushes cease, no operation stalls EX for ever: a division waits   *)
(* for the drain of a flushed one, and then finishes.                      *)
UnitNeverWedges ==
  <>[][Unflushed]_vars => []<>~MulStall(FALSE)
=============================================================================
