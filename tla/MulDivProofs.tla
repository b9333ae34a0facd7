---------------------------- MODULE MulDivProofs ----------------------------
(***************************************************************************)
(* Proofs about MulDiv: with any word width, divider latency and mix of    *)
(* operations and flushes, the unit never delivers the result of another   *)
(* operation, never has two divisions outstanding, and what it delivers is *)
(* the product, quotient or remainder that RISC-V defines.                 *)
(***************************************************************************)
EXTENDS MulDiv, TLAPS

(* The multiplier is a one-place pipeline for the operation in EX. *)
Multiplier ==
  /\ active => IsMul /\ mul_r = es
  /\ stage1 \/ stage2 \/ done => active
  /\ stage1 => ~stage2 /\ ~done
  /\ done /\ stage2 => mul_r.kind \in Low \/ HighStages = 2

Division == ~(div_state = "wait" /\ div_discard)

(* The divider never sees a division by zero or an overflow.               *)
Sorted ==
  /\ div_state \in {"wait", "done"} => ~Special(es)
  /\ div_state = "special" => Special(es)

IInv == TypeOK /\ Multiplier /\ Division /\ Sorted /\ OwnResult /\ OneOutstanding

(* With the unit idle, the invariant holds. *)
LEMMA InitIInv == Init => IInv
<1> SUFFICES ASSUME Init PROVE IInv
  OBVIOUS
<1>1. TypeOK
  <2>1. 0 \in 0..Latency
    BY UnitAssumption
  <2> QED
    BY <2>1 DEF Init, Idle, TypeOK
<1>2. Multiplier /\ Division /\ Sorted /\ OwnResult /\ OneOutstanding
  BY DEF Init, Idle, Multiplier, Division, Sorted, OwnResult, OneOutstanding
<1> QED
  BY <1>1, <1>2 DEF IInv

(* Every clock edge keeps the types. *)
LEMMA StepTypes ==
  ASSUME TypeOK, NEW next \in Op \cup {NoOp}, NEW kill \in BOOLEAN,
         Clock(next, kill)
  PROVE  TypeOK'
<1>1. es' \in Op \cup {NoOp}
  BY DEF Clock, TypeOK
<1>2. /\ active' \in BOOLEAN /\ stage1' \in BOOLEAN /\ stage2' \in BOOLEAN
      /\ done' \in BOOLEAN
  BY DEF Clock, Multiply
<1>3. mul_r' \in Op \cup {NoOp}
  BY DEF Clock, Multiply, StartAccept, IsMul, TypeOK
<1>4. /\ div_state' \in {"idle", "wait", "special", "done"}
      /\ div_discard' \in BOOLEAN
  <2>1. CASE kill
    BY <2>1 DEF Clock, ControlEdge, KillDivision
  <2>2. CASE ~kill /\ div_discard
    BY <2>2 DEF Clock, ControlEdge, DrainDivision
  <2>3. CASE ~kill /\ ~div_discard
    BY <2>3 DEF Clock, ControlEdge, Divide, TypeOK
  <2> QED
    BY <2>1, <2>2, <2>3
<1>5. dv_state' \in {"IDLE", "WAIT", "OUTPUT"} /\ dv_count' \in 0..Latency
  BY UnitAssumption DEF Clock, DividerEdge, dvVars, TypeOK
<1> QED
  BY <1>1, <1>2, <1>3, <1>4, <1>5 DEF TypeOK

(* The operation in EX changes only when it is flushed, finished or not    *)
(* the unit's business.                                                    *)
LEMMA StallKeeps ==
  ASSUME NEW next, NEW kill \in BOOLEAN, Clock(next, kill), ~kill
  PROVE  /\ IsMul /\ ~done => es' = es
         /\ IsDiv /\ div_state \notin {"special", "done"} => es' = es
  BY DEF Clock, MulStall

(* The multiplier keeps to the operation in EX, and finishes its product.  *)
LEMMA StepMultiplier ==
  ASSUME IInv, NEW next \in Op \cup {NoOp}, NEW kill \in BOOLEAN,
         Clock(next, kill)
  PROVE  Multiplier' /\ (done' => IsMul' /\ result' = Product(es)')
<1>1. /\ Multiplier /\ TypeOK
      /\ Multiply(kill)
  BY DEF IInv, Clock
<1>2. CASE kill
  BY <1>1, <1>2 DEF Multiply, Multiplier
<1>3. CASE ~kill /\ StartAccept(kill)
  <2>1. /\ IsMul /\ ~active /\ ~done /\ ~stage1 /\ ~stage2
    BY <1>1, <1>3 DEF StartAccept, Multiplier
  <2>2. es' = es /\ mul_r' = es /\ IsMul'
    BY <1>1, <1>3, <2>1, StallKeeps DEF Multiply, IsMul
  <2>3. ~Complete
    BY <1>1, <2>1 DEF Complete
  <2>4. /\ stage1' = TRUE /\ stage2' = FALSE /\ done' = FALSE /\ active' = TRUE
    BY <1>1, <1>3, <2>1, <2>3 DEF Multiply
  <2> QED
    BY <2>2, <2>4 DEF Multiplier
<1>4. CASE ~kill /\ ~StartAccept(kill) /\ active /\ ~done
  <2>1. IsMul /\ mul_r = es
    BY <1>1, <1>4 DEF Multiplier
  <2>2. es' = es /\ mul_r' = es /\ IsMul'
    BY <1>1, <1>4, <2>1, StallKeeps DEF Multiply, IsMul
  <2>3. /\ stage1' = FALSE /\ active'
        /\ stage2' <=> stage1
        /\ done' <=> Complete
        /\ Complete => result' = Product(es)
    BY <1>1, <1>4, <2>1 DEF Multiply
  <2>4. Product(es)' = Product(es)
    BY <2>2 DEF Product, LowResult, HighResult, MiddleSum, Src1Negative,
                Src2Negative, Src1Signed, Src2Signed
  <2>5. Complete /\ stage1 => mul_r.kind \in Low \/ HighStages = 2
    BY <1>1, UnitAssumption DEF Complete, Multiplier
  <2> QED
    BY <2>1, <2>2, <2>3, <2>4, <2>5 DEF Multiplier
<1>5. CASE ~kill /\ ~StartAccept(kill) /\ active /\ done
  <2>1. ~stage1 /\ IsMul /\ mul_r = es
    BY <1>1, <1>5 DEF Multiplier
  <2>2. ~Complete
    BY <1>1, <1>5, <2>1, UnitAssumption DEF Complete, Multiplier, Low, High
  <2>3. /\ ~stage1' /\ ~stage2' /\ ~active' /\ ~done'
    BY <1>1, <1>5, <2>1, <2>2 DEF Multiply
  <2> QED
    BY <2>3 DEF Multiplier
<1>6. CASE ~kill /\ ~StartAccept(kill) /\ ~active
  <2>1. ~stage1 /\ ~stage2 /\ ~done
    BY <1>1, <1>6 DEF Multiplier
  <2>2. ~Complete
    BY <2>1 DEF Complete
  <2>3. /\ ~stage1' /\ ~stage2' /\ ~active' /\ ~done'
    BY <1>1, <1>6, <2>1, <2>2 DEF Multiply
  <2> QED
    BY <2>3 DEF Multiplier
<1> QED
  BY <1>2, <1>3, <1>4, <1>5, <1>6

(* What the divider does at an edge, its count left aside. *)
LEMMA DividerFacts ==
  ASSUME TypeOK, NEW kill \in BOOLEAN, DividerEdge(kill)
  PROVE  /\ dv_state = "IDLE" /\ DivStart(kill) =>
              dv_state' = "WAIT" /\ dv_op' = Magnitudes(es)
         /\ dv_state = "IDLE" /\ ~DivStart(kill) => dv_state' = "IDLE"
         /\ dv_state = "WAIT" =>
              dv_state' \in {"WAIT", "OUTPUT"} /\ dv_op' = dv_op
         /\ dv_state = "OUTPUT" => dv_state' = "IDLE"
<1>1. dv_count > 0 \/ dv_count = 0
  BY UnitAssumption DEF TypeOK
<1> QED
  BY <1>1 DEF DividerEdge, dvVars

(* The controller and the divider: what is waited for, dropped or done. *)
LEMMA StepDivision ==
  ASSUME IInv, NEW next \in Op \cup {NoOp}, NEW kill \in BOOLEAN,
         Clock(next, kill)
  PROVE  /\ Division'
         /\ OneOutstanding'
         /\ div_state' = "wait" => IsDiv' /\ dv_op' = Magnitudes(es)'
         /\ div_state' = "done" => IsDiv' /\ div_result' = Quotient(Magnitudes(es))'
         /\ div_state' = "special" => IsDiv' /\ div_result' = SpecialResult(es)'
<1>1. /\ TypeOK /\ Division /\ OneOutstanding /\ OwnResult
      /\ ControlEdge(kill) /\ DividerEdge(kill)
  BY DEF IInv, Clock
<1>2. /\ dv_state = "IDLE" /\ DivStart(kill) =>
           dv_state' = "WAIT" /\ dv_op' = Magnitudes(es)
      /\ dv_state = "IDLE" /\ ~DivStart(kill) => dv_state' = "IDLE"
      /\ dv_state = "WAIT" => dv_state' \in {"WAIT", "OUTPUT"} /\ dv_op' = dv_op
      /\ dv_state = "OUTPUT" => dv_state' = "IDLE"
  BY <1>1, DividerFacts
<1>3. /\ dv_state \in {"IDLE", "WAIT", "OUTPUT"}
      /\ div_state \in {"idle", "wait", "special", "done"}
      /\ div_discard \in BOOLEAN
  BY <1>1 DEF TypeOK
<1>4. es' = es => /\ IsDiv' = IsDiv
                  /\ Magnitudes(es)' = Magnitudes(es)
                  /\ Quotient(Magnitudes(es))' = Quotient(Magnitudes(es))
                  /\ SpecialResult(es)' = SpecialResult(es)
  BY DEF IsDiv, Magnitudes, Quotient, SpecialResult, ByZero, Src1Negative,
         Src2Negative, Src1Signed, Src2Signed
<1>5. CASE kill
  <2>1. ~DivStart(kill)
    BY <1>5 DEF DivStart
  <2>2. /\ div_state' = "idle"
        /\ div_discard' = ((div_discard \/ div_state = "wait") /\ ~Response)
    BY <1>1, <1>5 DEF ControlEdge, KillDivision
  <2> QED
    BY <1>1, <1>2, <1>3, <2>1, <2>2 DEF Division, OneOutstanding, Response
<1>6. CASE ~kill /\ div_discard
  <2>1. ~DivStart(kill)
    BY <1>6 DEF DivStart
  <2>2. div_state' = "idle" /\ div_discard' = ~Response
    BY <1>1, <1>6 DEF ControlEdge, DrainDivision
  <2> QED
    BY <1>1, <1>2, <1>3, <1>6, <2>1, <2>2 DEF Division, OneOutstanding, Response
<1>7. CASE ~kill /\ ~div_discard
  <2>1. Divide
    BY <1>1, <1>7 DEF ControlEdge
  <2>2. ~div_discard'
    BY <2>1 DEF Divide
  <2>3. IsDiv /\ div_state \notin {"special", "done"} => es' = es
    BY <1>7, StallKeeps
  <2>4. CASE div_state = "idle" /\ DivStart(FALSE)
    <3>1. dv_state = "IDLE" /\ IsDiv
      BY <1>1, <1>7, <2>4 DEF OneOutstanding, DivStart
    <3>2. /\ div_state' = "wait"
      BY <2>1, <2>4, <3>1 DEF Divide, DivStart
    <3>3. dv_state' = "WAIT" /\ dv_op' = Magnitudes(es)
      BY <1>2, <1>7, <2>4, <3>1
    <3> QED
      BY <1>4, <2>2, <2>3, <2>4, <3>1, <3>2, <3>3 DEF Division, OneOutstanding
  <2>5. CASE div_state = "idle" /\ IsDiv /\ Special(es)
    <3>1. dv_state = "IDLE" /\ ~DivStart(kill)
      BY <1>1, <1>7, <2>5 DEF OneOutstanding, DivStart
    <3>2. div_state' = "special" /\ div_result' = SpecialResult(es)
      BY <2>1, <2>5 DEF Divide, DivStart
    <3> QED
      BY <1>2, <1>4, <2>2, <2>3, <2>5, <3>1, <3>2 DEF Division, OneOutstanding
  <2>6. CASE div_state = "wait" /\ Response
    <3>1. /\ dv_state' = "IDLE" /\ IsDiv /\ dv_op = Magnitudes(es)
      BY <1>1, <1>2, <2>6 DEF OwnResult, Response
    <3>2. div_state' = "done" /\ div_result' = Quotient(dv_op)
      BY <2>1, <2>6 DEF Divide
    <3> QED
      BY <1>4, <2>2, <2>3, <2>6, <3>1, <3>2 DEF Division, OneOutstanding
  <2>7. CASE div_state = "wait" /\ ~Response
    <3>1. /\ dv_state = "WAIT" /\ IsDiv /\ dv_op = Magnitudes(es)
      BY <1>1, <1>3, <1>7, <2>7 DEF OwnResult, Response, OneOutstanding
    <3>2. div_state' = "wait"
      BY <2>1, <2>7 DEF Divide
    <3> QED
      BY <1>2, <1>4, <2>2, <2>3, <2>7, <3>1, <3>2 DEF Division, OneOutstanding
  <2>8. CASE div_state # "wait" /\ ~(div_state = "idle" /\ DivStart(FALSE))
                                /\ ~(div_state = "idle" /\ IsDiv /\ Special(es))
    <3>1. dv_state = "IDLE" /\ ~DivStart(kill)
      BY <1>1, <1>7, <2>8 DEF OneOutstanding, DivStart
    <3>2. div_state' = "idle"
      BY <2>1, <2>8 DEF Divide
    <3> QED
      BY <1>2, <2>2, <3>1, <3>2 DEF Division, OneOutstanding
  <2> QED
    BY <2>4, <2>5, <2>6, <2>7, <2>8
<1> QED
  BY <1>5, <1>6, <1>7

(* Operands are sorted when a division starts and stay while it lasts.     *)
LEMMA StepSorted ==
  ASSUME IInv, NEW next \in Op \cup {NoOp}, NEW kill \in BOOLEAN,
         Clock(next, kill)
  PROVE  Sorted'
<1>1. /\ Sorted /\ OwnResult
      /\ ControlEdge(kill)
  BY DEF IInv, Clock
<1>2. es' = es => Special(es)' = Special(es)
  BY DEF Special, ByZero, Overflows, Src2Signed
<1>3. CASE kill
  <2>1. div_state' = "idle"
    BY <1>1, <1>3 DEF ControlEdge, KillDivision
  <2> QED
    BY <2>1 DEF Sorted
<1>4. CASE ~kill /\ div_discard
  <2>1. div_state' = "idle"
    BY <1>1, <1>4 DEF ControlEdge, DrainDivision
  <2> QED
    BY <2>1 DEF Sorted
<1>5. CASE ~kill /\ ~div_discard
  <2>1. Divide
    BY <1>1, <1>5 DEF ControlEdge
  <2>2. IsDiv /\ div_state \notin {"special", "done"} => es' = es
    BY <1>5, StallKeeps
  <2>3. CASE div_state = "idle" /\ DivStart(FALSE)
    <3>1. IsDiv /\ ~Special(es) /\ div_state' \in {"wait", "idle"}
      BY <2>1, <2>3 DEF Divide, DivStart
    <3> QED
      BY <1>2, <2>2, <2>3, <3>1 DEF Sorted
  <2>4. CASE div_state = "idle" /\ IsDiv /\ Special(es)
    <3>1. div_state' = "special"
      BY <2>1, <2>4 DEF Divide, DivStart
    <3> QED
      BY <1>2, <2>2, <2>4, <3>1 DEF Sorted
  <2>5. CASE div_state = "wait"
    <3>1. IsDiv /\ ~Special(es) /\ div_state' \in {"wait", "done"}
      BY <1>1, <2>1, <2>5 DEF Divide, Sorted, OwnResult
    <3> QED
      BY <1>2, <2>2, <2>5, <3>1 DEF Sorted
  <2>6. CASE div_state # "wait" /\ ~(div_state = "idle" /\ DivStart(FALSE))
                                /\ ~(div_state = "idle" /\ IsDiv /\ Special(es))
    <3>1. div_state' = "idle"
      BY <2>1, <2>6 DEF Divide
    <3> QED
      BY <3>1 DEF Sorted
  <2> QED
    BY <2>3, <2>4, <2>5, <2>6
<1> QED
  BY <1>3, <1>4, <1>5

(* The invariant holds in every reachable state. *)
LEMMA Invariance == Spec => []IInv
<1>1. IInv /\ [Next]_vars => IInv'
  <2> SUFFICES ASSUME IInv, [Next]_vars PROVE IInv'
    OBVIOUS
  <2>1. CASE Next
    <3>1. PICK next \in Op \cup {NoOp}, kill \in BOOLEAN : Clock(next, kill)
      BY <2>1 DEF Next
    <3>2. TypeOK'
      BY <3>1, StepTypes DEF IInv
    <3>3. Multiplier' /\ (done' => IsMul' /\ result' = Product(es)')
      BY <3>1, StepMultiplier
    <3>4. /\ Division'
          /\ OneOutstanding'
          /\ div_state' = "wait" => IsDiv' /\ dv_op' = Magnitudes(es)'
          /\ div_state' = "done" => IsDiv' /\ div_result' = Quotient(Magnitudes(es))'
          /\ div_state' = "special" => IsDiv' /\ div_result' = SpecialResult(es)'
      BY <3>1, StepDivision
    <3>5. OwnResult'
      BY <3>3, <3>4 DEF OwnResult
    <3>6. Sorted'
      BY <3>1, StepSorted
    <3> QED
      BY <3>2, <3>3, <3>4, <3>5, <3>6 DEF IInv
  <2>2. CASE UNCHANGED vars
    BY <2>2 DEF vars, IInv, TypeOK, Multiplier, Division, Sorted, OwnResult,
                OneOutstanding, IsMul, IsDiv, Product, LowResult, HighResult, MiddleSum,
                Magnitudes, Quotient, SpecialResult, Special, Overflows, ByZero, Src1Negative, Src2Negative,
                Src1Signed, Src2Signed
  <2> QED
    BY <2>1, <2>2
<1> QED
  BY <1>1, InitIInv, PTL DEF Spec

-----------------------------------------------------------------------------
(* The registers keep their types. *)
THEOREM TypeCorrect == Spec => []TypeOK
<1>1. IInv => TypeOK
  BY DEF IInv
<1> QED
  BY <1>1, Invariance, PTL

(* Flushes and drains never hand an operation the result of another. *)
THEOREM ResultsAreOwn == Spec => []OwnResult
<1>1. IInv => OwnResult
  BY DEF IInv
<1> QED
  BY <1>1, Invariance, PTL

(* At most one division is in the divider, and it is accounted for. *)
THEOREM DividerAccounted == Spec => []OneOutstanding
<1>1. IInv => OneOutstanding
  BY DEF IInv
<1> QED
  BY <1>1, Invariance, PTL

-----------------------------------------------------------------------------
(* Division by a positive number: what the prover's own theory knows. *)
LEMMA Divided ==
  ASSUME NEW a \in Int, NEW d \in Nat \ {0}
  PROVE  /\ a = (a \div d) * d + (a % d)
         /\ a \div d \in Int
         /\ a % d \in Int
         /\ 0 <= a % d
         /\ a % d < d
  BY SMT

(* ... and nothing but the quotient and the remainder divides so. *)
LEMMA Unique ==
  ASSUME NEW a \in Int, NEW d \in Nat \ {0}, NEW q \in Int, NEW r \in Int,
         a = q * d + r, 0 <= r, r < d
  PROVE  a \div d = q /\ a % d = r
  BY SMT

(* Whole multiples of the divisor do not show in the remainder. *)
LEMMA Shifted ==
  ASSUME NEW a \in Int, NEW d \in Nat \ {0}, NEW k \in Int
  PROVE  (a + k * d) % d = a % d
<1> DEFINE q == a \div d
           r == a % d
<1>1. a = q * d + r /\ q \in Int /\ r \in Int /\ 0 <= r /\ r < d
  BY Divided
<1> HIDE DEF q, r
<1>2. a + k * d = (q + k) * d + r
  BY <1>1
<1> DEFINE b == a + k * d
<1>3. b \in Int /\ b = (q + k) * d + r /\ q + k \in Int
  BY <1>1, <1>2
<1> HIDE DEF b
<1>4. b % d = r
  BY <1>1, <1>3, Unique
<1> QED
  BY <1>4 DEF b, r

(* A word has a whole number of half words, and an even number of values. *)
LEMMA Widths ==
  /\ W \in Nat /\ W > 0 /\ W = H * H
  /\ W \div 2 \in Nat /\ W = 2 * (W \div 2) /\ W \div 2 >= 1
<1>1. H \in Nat /\ H > 0 /\ H % 2 = 0
  BY UnitAssumption
<1> DEFINE k == H \div 2
<1>2. H = k * 2 /\ k \in Int /\ k > 0
  BY <1>1
<1> HIDE DEF k
<1>3. H * H = (k * H) * 2 + 0
  BY <1>1, <1>2
<1>4. k * H \in Int /\ k * H > 0
  BY <1>1, <1>2
<1> DEFINE m == k * H
           w == H * H
<1>5. m \in Int /\ m > 0 /\ w \in Int /\ w = m * 2
  BY <1>1, <1>3, <1>4
<1> HIDE DEF m, w
<1>6. w \div 2 = m /\ w \in Nat /\ w > 0
  BY <1>5
<1> QED
  BY <1>5, <1>6 DEF w, W

(* The four half-word products make up the product of two words. *)
LEMMA HalfWordProducts ==
  ASSUME NEW op \in [kind : Kind, a : Word, b : Word]
  PROVE  /\ (op.a * op.b) % W = LowResult(op)
         /\ (op.a * op.b) \div W = (op.a \div H) * (op.b \div H) + MiddleSum(op) \div H
         /\ (op.a \div H) * (op.b \div H) \in Int /\ MiddleSum(op) \div H \in Int
<1> DEFINE a == op.a
           b == op.b
           ah == a \div H
           al == a % H
           bh == b \div H
           bl == b % H
           low == al * bl
           m == al * bh + ah * bl + low \div H
<1>1. H \in Nat \ {0} /\ a \in Nat /\ b \in Nat
  BY UnitAssumption, Widths DEF Word
<1>2. MiddleSum(op) = m /\ LowResult(op) = (m % H) * H + (low % H)
  BY DEF MiddleSum, LowResult
<1> HIDE DEF a, b
<1>3. /\ a = ah * H + al /\ ah \in Int /\ al \in Int
      /\ b = bh * H + bl /\ bh \in Int /\ bl \in Int
  <2>1. a = ah * H + al /\ ah \in Int /\ al \in Int
    BY <1>1, Divided
  <2>2. b = bh * H + bl /\ bh \in Int /\ bl \in Int
    BY <1>1, Divided
  <2> QED
    BY <2>1, <2>2
<1> HIDE DEF ah, al, bh, bl
<1>4. /\ low \in Int
      /\ low = (low \div H) * H + (low % H) /\ low \div H \in Int
      /\ low % H \in Int /\ 0 <= low % H /\ low % H < H
  BY <1>1, <1>3, Divided
<1>5. a * b = (ah * bh) * (H * H) + (al * bh + ah * bl) * H + low
  <2>1. a * b = (ah * H + al) * (bh * H + bl)
    BY <1>3
  <2>2. (ah * H + al) * (bh * H + bl)
          = (ah * bh) * (H * H) + (al * bh + ah * bl) * H + al * bl
    BY <1>1, <1>3
  <2> QED
    BY <2>1, <2>2 DEF low
<1> DEFINE c == low \div H
           z == low % H
           u == al * bh + ah * bl
           v == ah * bh
<1>6. u \in Int /\ v \in Int /\ m = u + c
  BY <1>3
<1> HIDE DEF c, z, u, v, low, m
<1>7. m \in Int
  BY <1>4, <1>6 DEF c
<1>8. m = (m \div H) * H + (m % H) /\ m \div H \in Int
      /\ m % H \in Int /\ 0 <= m % H /\ m % H < H
  BY <1>1, <1>7, Divided
<1> DEFINE g == m \div H
           f == m % H
<1>9. a * b = v * W + u * H + low
  BY <1>5 DEF u, v, W
<1>10. /\ low = c * H + z /\ c \in Int /\ z \in Int /\ 0 <= z /\ z < H
       /\ m = g * H + f /\ g \in Int /\ f \in Int /\ 0 <= f /\ f < H
  BY <1>4, <1>8 DEF c, z
<1> HIDE DEF f, g
<1>11. v * W + u * H + low = (v + g) * W + (f * H + z)
  <2>1. u * H + low = m * H + z
    BY <1>1, <1>6, <1>10
  <2>2. m * H = g * W + f * H
    BY <1>1, <1>10 DEF W
  <2>3. (v + g) * W = v * W + g * W
    BY <1>6, <1>10, Widths
  <2> DEFINE p1 == u * H
             p2 == m * H
             p3 == g * W
             p4 == f * H
             p5 == v * W
             p6 == (v + g) * W
  <2>4. /\ p1 \in Int /\ p2 \in Int /\ p3 \in Int /\ p4 \in Int /\ p5 \in Int
        /\ p6 \in Int /\ low \in Int
    BY <1>1, <1>4, <1>6, <1>7, <1>10, Widths
  <2>5. p1 + low = p2 + z /\ p2 = p3 + p4 /\ p6 = p5 + p3
    BY <2>1, <2>2, <2>3
  <2> HIDE DEF p1, p2, p3, p4, p5, p6
  <2>6. p5 + p1 + low = p6 + (p4 + z)
    BY <1>10, <2>4, <2>5
  <2> QED
    BY <2>6 DEF p1, p4, p5, p6
<1>12. f * H + z \in Int /\ 0 <= f * H + z /\ f * H + z < W
  <2>1. f + 1 <= H
    BY <1>1, <1>10
  <2>2. (f + 1) * H <= H * H /\ 0 <= f * H
    BY <1>1, <1>10, <2>1
  <2>3. (f + 1) * H = f * H + H /\ f * H \in Int
    BY <1>1, <1>10
  <2> QED
    BY <1>1, <1>10, <2>2, <2>3 DEF W
<1> DEFINE p == a * b
           r == f * H + z
           q == v + g
<1>13. /\ p \in Int /\ p = q * W + r /\ q \in Int
       /\ r \in Int /\ 0 <= r /\ r < W /\ W \in Nat \ {0}
  BY <1>1, <1>6, <1>9, <1>10, <1>11, <1>12, Widths
<1> HIDE DEF p, q, r
<1>14. p \div W = q /\ p % W = r
  BY <1>13, Unique
<1>15. /\ v = (op.a \div H) * (op.b \div H)
       /\ g = MiddleSum(op) \div H
       /\ r = LowResult(op)
       /\ p = op.a * op.b
  BY <1>2 DEF v, ah, bh, a, b, g, p, r, f, z
<1> QED
  BY <1>6, <1>10, <1>14, <1>15 DEF q

(* An operand is its word, less W when it is signed and negative. *)
LEMMA OperandValues ==
  ASSUME NEW op \in [kind : Kind, a : Word, b : Word]
  PROVE  /\ op.a \in Int /\ 0 <= op.a /\ op.a < W
         /\ op.b \in Int /\ 0 <= op.b /\ op.b < W
         /\ Src1Negative(op) => op.a >= W \div 2
         /\ Src2Negative(op) => op.b >= W \div 2
         /\ Operand1(op) = IF Src1Negative(op) THEN op.a - W ELSE op.a
         /\ Operand2(op) = IF Src2Negative(op) THEN op.b - W ELSE op.b
<1>1. op.a \in Word /\ op.b \in Word
  OBVIOUS
<1>2. /\ op.a \in Int /\ 0 <= op.a /\ op.a < W
      /\ op.b \in Int /\ 0 <= op.b /\ op.b < W
  BY <1>1, Widths DEF Word
<1>3. /\ Src1Negative(op) => op.a >= W \div 2
      /\ Operand1(op) = IF Src1Negative(op) THEN op.a - W ELSE op.a
  BY DEF Src1Negative, Operand1, Signed, Negative
<1>4. /\ Src2Negative(op) => op.b >= W \div 2
      /\ Operand2(op) = IF Src2Negative(op) THEN op.b - W ELSE op.b
  BY DEF Src2Negative, Operand2, Signed, Negative
<1> QED
  BY <1>2, <1>3, <1>4

(* The product of two signed operands: the low word is that of the unsigned *)
(* product, the high word is corrected once for each negative operand.      *)
LEMMA SignedProducts ==
  ASSUME NEW op \in [kind : Kind, a : Word, b : Word]
  PROVE  /\ (Operand1(op) * Operand2(op)) % W = LowResult(op)
         /\ ((Operand1(op) * Operand2(op)) \div W) % W = HighResult(op)
<1> DEFINE a == op.a
           b == op.b
           x == Operand1(op)
           y == Operand2(op)
           h == (a * b) \div W
           r == (a * b) % W
           ca == IF Src1Negative(op) THEN b ELSE 0
           cb == IF Src2Negative(op) THEN a ELSE 0
           k == IF Src1Negative(op) /\ Src2Negative(op) THEN 1 ELSE 0
           t == h - ca - cb
<1>1. /\ a \in Int /\ b \in Int
      /\ x = IF Src1Negative(op) THEN a - W ELSE a
      /\ y = IF Src2Negative(op) THEN b - W ELSE b
  BY OperandValues
<1>2. /\ h = (op.a \div H) * (op.b \div H) + MiddleSum(op) \div H
      /\ r = LowResult(op)
  BY HalfWordProducts
<1>w. W \in Nat \ {0}
  BY Widths
<1> DEFINE ab == a * b
<1>4. ab = h * W + r /\ h \in Int /\ r \in Int /\ 0 <= r /\ r < W
  <2>1. ab \in Int /\ h = ab \div W /\ r = ab % W
    BY <1>1
  <2> HIDE DEF ab, h, r
  <2> QED
    BY <1>w, <2>1, Divided
<1> HIDE DEF h, r
<1>3. HighResult(op) = t % W
  <2> DEFINE m == (op.a \div H) * (op.b \div H)
             c == MiddleSum(op) \div H
  <2>1. HighResult(op) = (m + (c - ca - cb)) % W
    BY Zenon DEF HighResult
  <2>2. h = m + c /\ m \in Int /\ c \in Int
    BY <1>2, HalfWordProducts
  <2>3. ca \in Int /\ cb \in Int
    BY <1>1
  <2> HIDE DEF m, c, ca, cb
  <2>4. m + (c - ca - cb) = t
    BY <2>2, <2>3
  <2> QED
    BY <2>1, <2>4
<1> HIDE DEF a, b, x, y
<1>5. /\ ca \in Int /\ cb \in Int /\ k \in Int /\ t \in Int
  BY <1>1, <1>4
<1>6. x * y = (t + k * W) * W + r
  <2>t. h \in Int /\ a \in Int /\ b \in Int /\ W \in Int
    BY <1>1, <1>4, <1>w
  <2>1. (h - b) * W = h * W - b * W /\ (h - a) * W = h * W - a * W
    BY <2>t
  <2>2. CASE Src1Negative(op) /\ Src2Negative(op)
    <3>1. x * y = a * b - b * W - a * W + W * W
      <4>1. x * y = (a - W) * (b - W)
        BY <1>1, <2>2
      <4>2. (a - W) * (b - W) = a * b - b * W - a * W + W * W
        BY <1>1, Widths
      <4> QED
        BY <4>1, <4>2
    <3>2. t = h - b - a /\ k = 1
      BY <1>1, <1>4, <2>2
    <3> HIDE DEF t, k, h, r
    <3>3. (t + k * W) * W = h * W - b * W - a * W + W * W
      <4>1. t + k * W = h - b - a + W
        BY <1>1, <1>4, <3>2, Widths
      <4>2. (h - b - a + W) * W = h * W - b * W - a * W + W * W
        BY <2>t
      <4> QED
        BY <4>1, <4>2
    <3> DEFINE p1 == b * W
               p2 == a * W
               p3 == W * W
               p4 == h * W
               p5 == a * b
               p6 == (t + k * W) * W
               p7 == x * y
    <3>4. /\ p1 \in Int /\ p2 \in Int /\ p3 \in Int /\ p4 \in Int /\ p5 \in Int
      BY <1>1, <1>4, Widths
    <3>5. /\ p7 = p5 - p1 - p2 + p3 /\ p6 = p4 - p1 - p2 + p3 /\ p5 = p4 + r
      BY <1>4, <3>1, <3>3
    <3> HIDE DEF p1, p2, p3, p4, p5, p6, p7
    <3>6. p7 = p6 + r
      BY <1>4, <3>4, <3>5
    <3> QED
      BY <3>6 DEF p6, p7
  <2>3. CASE Src1Negative(op) /\ ~Src2Negative(op)
    <3>1. x * y = a * b - b * W
      <4>1. x * y = (a - W) * b
        BY <1>1, <2>3
      <4>2. (a - W) * b = a * b - b * W
        BY <1>1, Widths
      <4> QED
        BY <4>1, <4>2
    <3>2. t + k * W = h - b
      BY <1>1, <1>4, <2>3, Widths
    <3> HIDE DEF t, k, h, r
    <3>3. (t + k * W) * W = h * W - b * W
      BY <2>1, <3>2
    <3> QED
      BY <1>1, <1>4, <3>1, <3>3, Widths
  <2>4. CASE ~Src1Negative(op) /\ Src2Negative(op)
    <3>1. x * y = a * b - a * W
      <4>1. x * y = a * (b - W)
        BY <1>1, <2>4
      <4>2. a * (b - W) = a * b - a * W
        BY <1>1, Widths
      <4> QED
        BY <4>1, <4>2
    <3>2. t + k * W = h - a
      BY <1>1, <1>4, <2>4, Widths
    <3> HIDE DEF t, k, h, r
    <3>3. (t + k * W) * W = h * W - a * W
      BY <2>1, <3>2
    <3> QED
      BY <1>1, <1>4, <3>1, <3>3, Widths
  <2>5. CASE ~Src1Negative(op) /\ ~Src2Negative(op)
    <3>1. x * y = a * b /\ t + k * W = h
      BY <1>1, <1>4, <2>5, Widths
    <3> QED
      BY <1>4, <3>1
  <2> QED
    BY <2>2, <2>3, <2>4, <2>5
<1> DEFINE p == x * y
           q == t + k * W
<1>7. p \in Int /\ q \in Int /\ p = q * W + r
  BY <1>1, <1>5, <1>6, Widths
<1> HIDE DEF p, q, t, k, h, r, ca, cb
<1>8. p \div W = q /\ p % W = r
  <2>1. W \in Nat \ {0}
    BY Widths
  <2> QED
    BY <1>4, <1>7, <2>1, Unique
<1>9. q % W = t % W
  <2>1. W \in Nat \ {0}
    BY Widths
  <2> QED
    BY <1>5, <2>1, Shifted DEF q
<1> QED
  BY <1>2, <1>3, <1>8, <1>9 DEF p, x, y

(* Negating a word negates the number it stands for. *)
LEMMA Negated ==
  ASSUME NEW v \in Int, 0 <= v, v <= W
  PROVE  Negate(v) = (-v) % W
<1> DEFINE n == -v
           one == 1
<1>1. n \in Int /\ one \in Int /\ W \in Nat \ {0} /\ W - v = n + one * W
  BY Widths
<1> HIDE DEF n, one
<1>2. (n + one * W) % W = n % W
  BY <1>1, Shifted
<1>3. Negate(v) = n % W
  BY <1>1, <1>2 DEF Negate
<1> QED
  BY <1>3 DEF n

(* A value of a word is its own remainder. *)
LEMMA SmallRemainder ==
  ASSUME NEW v \in Int, 0 <= v, v < W
  PROVE  v % W = v
<1>1. v = 0 * W + v
  BY Widths
<1> QED
  BY <1>1, Widths, Unique

(* What the divider gets are the absolute values of the operands. *)
LEMMA MagnitudesAreAbsolute ==
  ASSUME NEW op \in [kind : Kind, a : Word, b : Word]
  PROVE  /\ Magnitudes(op).dividend = Abs(Operand1(op))
         /\ Magnitudes(op).divisor = Abs(Operand2(op))
         /\ Abs(Operand1(op)) \in Int /\ 0 <= Abs(Operand1(op)) /\ Abs(Operand1(op)) < W
         /\ Abs(Operand2(op)) \in Int /\ 0 <= Abs(Operand2(op)) /\ Abs(Operand2(op)) < W
         /\ Operand2(op) = 0 <=> op.b = 0
         /\ Abs(Operand2(op)) = 0 <=> op.b = 0
         /\ SignOf(Operand1(op)) = IF Src1Negative(op) THEN -1 ELSE 1
         /\ SignOf(Operand2(op)) = IF Src2Negative(op) THEN -1 ELSE 1
<1> DEFINE a == op.a
           b == op.b
<1>1. /\ a \in Int /\ 0 <= a /\ a < W
      /\ b \in Int /\ 0 <= b /\ b < W
      /\ Src1Negative(op) => a >= W \div 2
      /\ Src2Negative(op) => b >= W \div 2
      /\ Operand1(op) = IF Src1Negative(op) THEN a - W ELSE a
      /\ Operand2(op) = IF Src2Negative(op) THEN b - W ELSE b
  BY OperandValues
<1>2. /\ Magnitudes(op).dividend = IF Src1Negative(op) THEN Negate(a) ELSE a
      /\ Magnitudes(op).divisor = IF Src2Negative(op) THEN Negate(b) ELSE b
  BY DEF Magnitudes
<1> HIDE DEF a, b
<1>3. \A v \in Int : W \div 2 <= v /\ v < W => Negate(v) = W - v
  <2> SUFFICES ASSUME NEW v \in Int, W \div 2 <= v, v < W PROVE Negate(v) = W - v
    OBVIOUS
  <2>1. W - v \in Int /\ 0 <= W - v /\ W - v < W
    BY Widths
  <2> QED
    BY <2>1, SmallRemainder DEF Negate
<1>4. /\ Magnitudes(op).dividend = Abs(Operand1(op))
      /\ Abs(Operand1(op)) \in Int /\ 0 <= Abs(Operand1(op)) /\ Abs(Operand1(op)) < W
      /\ SignOf(Operand1(op)) = IF Src1Negative(op) THEN -1 ELSE 1
  BY <1>1, <1>2, <1>3, Widths DEF Abs, SignOf
<1>5. /\ Magnitudes(op).divisor = Abs(Operand2(op))
      /\ Abs(Operand2(op)) \in Int /\ 0 <= Abs(Operand2(op)) /\ Abs(Operand2(op)) < W
      /\ SignOf(Operand2(op)) = IF Src2Negative(op) THEN -1 ELSE 1
      /\ Operand2(op) = 0 <=> b = 0
      /\ Abs(Operand2(op)) = 0 <=> b = 0
  BY <1>1, <1>2, <1>3, Widths DEF Abs, SignOf
<1> QED
  BY <1>4, <1>5 DEF b

(* The quotient and the remainder of the magnitudes, with their signs put   *)
(* back, are those that RISC-V defines.                                     *)
LEMMA SignedQuotients ==
  ASSUME NEW op \in [kind : Kind, a : Word, b : Word], ~ByZero(op),
         op.kind \in Quotients \cup Remainders
  PROVE  LET m == Quotient(Magnitudes(op))
         IN  /\ op.kind \in Quotients =>
                  Reference(op) = IF Src1Negative(op) # Src2Negative(op)
                                  THEN Negate(m.q) ELSE m.q
             /\ op.kind \in Remainders =>
                  Reference(op) = IF Src1Negative(op) THEN Negate(m.r) ELSE m.r
<1> DEFINE x == Operand1(op)
           y == Operand2(op)
           n == Abs(x)
           d == Abs(y)
           q == n \div d
           r == n % d
           s1 == SignOf(x)
           s2 == SignOf(y)
<1>1. /\ Magnitudes(op).dividend = n
      /\ Magnitudes(op).divisor = d
      /\ n \in Int /\ 0 <= n /\ n < W
      /\ d \in Int /\ 0 < d /\ d < W /\ y # 0
      /\ s1 = IF Src1Negative(op) THEN -1 ELSE 1
      /\ s2 = IF Src2Negative(op) THEN -1 ELSE 1
  BY MagnitudesAreAbsolute DEF ByZero
<1>2. /\ Quotient(Magnitudes(op)).q = q
      /\ Quotient(Magnitudes(op)).r = r
  BY <1>1 DEF Quotient
<1>3. /\ op.kind \in Quotients => Reference(op) = (s1 * s2 * q) % W
      /\ op.kind \in Remainders => Reference(op) = (s1 * r) % W
  BY <1>1 DEF Reference, Low, High, Quotients, Remainders
<1> HIDE DEF x, y, n, d, s1, s2
<1>4. d \in Nat \ {0}
  BY <1>1
<1>5. n = q * d + r /\ q \in Int /\ r \in Int /\ 0 <= r /\ r < d
  BY <1>1, <1>4, Divided
<1>6. 0 <= q /\ q <= n
  BY <1>1, <1>4
<1> HIDE DEF q, r
<1>7. /\ Negate(q) = (-q) % W /\ q % W = q
      /\ Negate(r) = (-r) % W /\ r % W = r
  <2>1. q <= W /\ q < W /\ r <= W /\ r < W
    BY <1>1, <1>5, <1>6, Widths
  <2> QED
    BY <1>5, <1>6, <2>1, Negated, SmallRemainder
<1>8. op.kind \in Quotients =>
        Reference(op) = IF Src1Negative(op) # Src2Negative(op) THEN Negate(q) ELSE q
  <2>1. CASE Src1Negative(op) /\ Src2Negative(op)
    <3>1. s1 * s2 * q = q /\ ~(Src1Negative(op) # Src2Negative(op))
      BY <1>1, <1>5, <2>1 DEF Src1Negative, Src2Negative
    <3> QED
      BY <1>3, <1>7, <3>1
  <2>2. CASE Src1Negative(op) /\ ~Src2Negative(op)
    <3>1. s1 * s2 * q = -q
      BY <1>1, <1>5, <2>2
    <3>2. Src1Negative(op) # Src2Negative(op)
      BY Zenon, <2>2
    <3> QED
      BY <1>3, <1>7, <3>1, <3>2
  <2>3. CASE ~Src1Negative(op) /\ Src2Negative(op)
    <3>1. s1 * s2 * q = -q
      BY <1>1, <1>5, <2>3
    <3>2. Src1Negative(op) # Src2Negative(op)
      BY Zenon, <2>3
    <3> QED
      BY <1>3, <1>7, <3>1, <3>2
  <2>4. CASE ~Src1Negative(op) /\ ~Src2Negative(op)
    <3>1. s1 * s2 * q = q /\ ~(Src1Negative(op) # Src2Negative(op))
      BY <1>1, <1>5, <2>4 DEF Src1Negative, Src2Negative
    <3> QED
      BY <1>3, <1>7, <3>1
  <2> QED
    BY <2>1, <2>2, <2>3, <2>4
<1>9. op.kind \in Remainders =>
        Reference(op) = IF Src1Negative(op) THEN Negate(r) ELSE r
  <2>1. CASE Src1Negative(op)
    <3>1. s1 * r = -r
      BY <1>1, <1>5, <2>1
    <3> QED
      BY <1>3, <1>7, <2>1, <3>1
  <2>2. CASE ~Src1Negative(op)
    <3>1. s1 * r = r
      BY <1>1, <1>5, <2>2
    <3> QED
      BY <1>3, <1>7, <2>2, <3>1
  <2> QED
    BY <2>1, <2>2
<1> QED
  BY <1>2, <1>8, <1>9

(* The two cases that the divider never sees have the results that RISC-V  *)
(* defines for them.                                                       *)
LEMMA SpecialCases ==
  ASSUME NEW op \in [kind : Kind, a : Word, b : Word], Special(op)
  PROVE  /\ op.kind \in Quotients => Reference(op) = SpecialResult(op).q
         /\ op.kind \in Remainders => Reference(op) = SpecialResult(op).r
<1> DEFINE x == Operand1(op)
           y == Operand2(op)
<1>1. /\ op.kind \in Quotients =>
           Reference(op) = IF y = 0 THEN W - 1
                           ELSE (SignOf(x) * SignOf(y) * (Abs(x) \div Abs(y))) % W
      /\ op.kind \in Remainders =>
           Reference(op) = IF y = 0 THEN op.a ELSE (SignOf(x) * (Abs(x) % Abs(y))) % W
  BY DEF Reference, Low, High, Quotients, Remainders
<1>2. CASE ByZero(op)
  <2>1. y = 0
    BY <1>2, MagnitudesAreAbsolute DEF ByZero
  <2> QED
    BY <1>1, <1>2, <2>1 DEF SpecialResult
<1>3. CASE ~ByZero(op)
  <2>1. Src2Signed(op.kind) /\ op.a = W \div 2 /\ op.b = W - 1
    BY <1>3 DEF Special, Overflows
  <2>2. SpecialResult(op).q = W \div 2 /\ SpecialResult(op).r = 0
    BY <1>3 DEF SpecialResult
  <2>3. op.kind \in Quotients \cup Remainders => Src1Signed(op.kind)
    BY <2>1 DEF Src2Signed, Src1Signed, Quotients, Remainders
  <2>4. CASE op.kind \in Quotients \cup Remainders
    <3>1. x = (W \div 2) - W /\ y = -1
      BY <2>1, <2>3, <2>4, Widths DEF Operand1, Operand2, Signed, Negative
    <3>2. /\ Abs(x) = W \div 2 /\ Abs(y) = 1 /\ SignOf(x) = -1 /\ SignOf(y) = -1
      <4> DEFINE v == W \div 2
      <4>1. v \in Int /\ v >= 1 /\ x + v = 0 /\ y + 1 = 0 /\ x \in Int /\ y \in Int
        <5>1. v \in Int /\ W = 2 * v /\ v >= 1 /\ x = v - W /\ y = -1
          BY <3>1, Widths
        <5> HIDE DEF v, x, y
        <5> QED
          BY <5>1
      <4> HIDE DEF v, x, y
      <4>2. x < 0 /\ -x = v /\ y < 0 /\ -y = 1
        BY <4>1
      <4>3. Abs(x) = v /\ Abs(y) = 1
        BY <4>2 DEF Abs
      <4>4. SignOf(x) = -1 /\ SignOf(y) = -1
        BY <4>2 DEF SignOf
      <4> QED
        BY <4>3, <4>4 DEF v
    <3> DEFINE v == W \div 2
    <3>3. v \in Int /\ 0 <= v /\ v < W
      BY Widths
    <3> HIDE DEF v
    <3>4. v \div 1 = v /\ v % 1 = 0 /\ (-1) * (-1) * v = v /\ (-1) * 0 = 0
      BY <3>3
    <3>5. v % W = v /\ 0 % W = 0
      BY <3>3, Widths, SmallRemainder
    <3>6. /\ Abs(x) = v /\ Abs(y) = 1 /\ SignOf(x) = -1 /\ SignOf(y) = -1 /\ y # 0
      BY <3>1, <3>2 DEF v
    <3> HIDE DEF x, y
    <3>7. SignOf(x) * SignOf(y) * (Abs(x) \div Abs(y)) = v
      BY <3>3, <3>4, <3>6
    <3>8. SignOf(x) * (Abs(x) % Abs(y)) = 0
      BY <3>3, <3>4, <3>6
    <3> QED
      BY <1>1, <2>2, <3>5, <3>6, <3>7, <3>8 DEF v
  <2> QED
    BY <2>4
<1> QED
  BY <1>2, <1>3

(* What EX takes over is the result of its own operation (IInv), and that  *)
(* is the one RISC-V defines for its operands.                             *)
LEMMA DefinedResult == IInv => ResultIsRight
<1> SUFFICES ASSUME IInv, es # NoOp, ~MulStall(FALSE)
             PROVE  MulResult = Reference(es)
  BY DEF ResultIsRight
<1>1. TypeOK /\ Sorted /\ OwnResult
  BY DEF IInv
<1>2. es \in [kind : Kind, a : Word, b : Word]
  BY <1>1, UnitAssumption DEF TypeOK
<1>3. CASE IsMul
  <2>1. done
    BY <1>3 DEF MulStall
  <2>2. es.kind \notin Quotients /\ es.kind \notin Remainders
    BY <1>3 DEF IsMul, Low, High, Quotients, Remainders
  <2>3. MulResult = Product(es)
    BY <1>1, <1>3, <2>1, <2>2 DEF MulResult, OwnResult
  <2>4. CASE es.kind \in Low
    <3>1. es.kind \notin High
      BY <2>4 DEF Low, High
    <3>2. Reference(es) = (Operand1(es) * Operand2(es)) % W
      BY <2>2, <2>4, <3>1 DEF Reference
    <3> QED
      BY <1>2, <2>3, <2>4, <3>2, SignedProducts DEF Product
  <2>5. CASE es.kind \in High
    <3>1. es.kind \notin Low
      BY <2>5 DEF Low, High
    <3>2. Reference(es) = ((Operand1(es) * Operand2(es)) \div W) % W
      BY <2>2, <2>5, <3>1 DEF Reference
    <3> QED
      BY <1>2, <2>3, <3>1, <3>2, SignedProducts DEF Product
  <2> QED
    BY <1>3, <2>4, <2>5 DEF IsMul
<1>4. CASE ~IsMul
  <2>1. IsDiv /\ es.kind \in Quotients \cup Remainders
    BY <1>2, <1>4 DEF IsMul, IsDiv, Kind
  <2>2. div_state \in {"special", "done"}
    BY <2>1 DEF MulStall
  <2>3. es.kind \in Quotients => es.kind \notin Remainders
    BY DEF Quotients, Remainders
  <2>4. CASE div_state = "special"
    <3>1. Special(es) /\ div_result = SpecialResult(es)
      BY <1>1, <2>4 DEF Sorted, OwnResult
    <3>2. /\ es.kind \in Quotients => MulResult = div_result.q
          /\ es.kind \in Remainders => MulResult = div_result.r
      BY <1>4, <2>3, <2>4 DEF MulResult
    <3> QED
      BY <1>2, <2>1, <3>1, <3>2, SpecialCases
  <2>5. CASE div_state = "done"
    <3>1. ~ByZero(es) /\ div_result = Quotient(Magnitudes(es))
      BY <1>1, <2>5 DEF Sorted, OwnResult, Special
    <3>2. /\ es.kind \in Quotients =>
               MulResult = IF Src1Negative(es) # Src2Negative(es)
                           THEN Negate(div_result.q) ELSE div_result.q
          /\ es.kind \in Remainders =>
               MulResult = IF Src1Negative(es)
                           THEN Negate(div_result.r) ELSE div_result.r
      BY <1>4, <2>3, <2>5 DEF MulResult
    <3> QED
      BY <1>2, <2>1, <3>1, <3>2, SignedQuotients
  <2> QED
    BY <2>2, <2>4, <2>5
<1> QED
  BY <1>3, <1>4

(* With any word width, latency and mix of operations and flushes, EX      *)
(* moves on with the result that RISC-V defines: products from half-word   *)
(* products, quotients from magnitudes, and the two special divisions.     *)
THEOREM ResultsAreRight == Spec => []ResultIsRight
  BY Invariance, DefinedResult, PTL

-----------------------------------------------------------------------------
(* How long an operation stalls EX: the measure behind UnitNeverWedges.    *)

(* Edges until the divider's answer is taken or dropped. *)
DividerLeft ==
  CASE dv_state = "WAIT"   -> dv_count + 2
    [] dv_state = "OUTPUT" -> 1
    [] dv_state = "IDLE"   -> 0

ProductTakes == IF es.kind \in High THEN HighStages ELSE 2
DivisionTakes == IF Special(es) THEN 1 ELSE Latency + 3

(* Edges without a flush until the operation in EX no longer stalls it.    *)
StallLeft ==
  CASE ~MulStall(FALSE) -> 0
    [] IsMul /\ ~done ->
         ProductTakes - (IF stage1 THEN 1 ELSE IF stage2 THEN 2 ELSE 0)
    [] IsDiv /\ div_state = "wait" -> DividerLeft
    [] IsDiv /\ div_state = "idle" -> DividerLeft + DivisionTakes

(* A product on its way is in a stage, and an answer to be dropped has     *)
(* been computed for an edge at least.                                     *)
Timing ==
  /\ active => stage1 \/ stage2 \/ done
  /\ stage2 /\ ~done => mul_r.kind \in High /\ HighStages = 3
  /\ div_discard /\ dv_state = "WAIT" => dv_count < Latency

(* The multiplier's part. *)
LEMMA StepStages ==
  ASSUME IInv, Timing, NEW kill \in BOOLEAN, Multiply(kill)
  PROVE  /\ active' => stage1' \/ stage2' \/ done'
         /\ stage2' /\ ~done' => mul_r'.kind \in High /\ HighStages = 3
<1>1. /\ active => stage1 \/ stage2 \/ done
      /\ stage2 /\ ~done => mul_r.kind \in High /\ HighStages = 3
      /\ active => IsMul /\ mul_r = es
      /\ stage1 \/ stage2 \/ done => active
      /\ HighStages \in {2, 3}
      /\ mul_r \in Op \cup {NoOp}
      /\ done /\ stage2 => mul_r.kind \in Low \/ HighStages = 2
      /\ stage1 => ~stage2 /\ ~done
  BY UnitAssumption DEF IInv, TypeOK, Timing, Multiplier
<1>2. CASE kill
  BY <1>2 DEF Multiply
<1>3. CASE ~kill /\ StartAccept(kill)
  <2>1. ~active /\ ~stage1 /\ ~stage2
    BY <1>1, <1>3 DEF StartAccept
  <2>2. stage1' /\ ~stage2'
    BY <1>3, <2>1 DEF Multiply
  <2> QED
    BY <2>2
<1>4. CASE ~kill /\ ~StartAccept(kill)
  <2>1. /\ stage2' <=> stage1
        /\ done' <=> Complete
        /\ mul_r' = mul_r
        /\ active' <=> active /\ (Complete \/ ~done)
    BY <1>4 DEF Multiply
  <2>2. stage1 => mul_r # NoOp /\ mul_r.kind \in Low \cup High
    BY <1>1 DEF IsMul
  <2>3. stage1 /\ ~Complete => mul_r.kind \in High /\ HighStages = 3
    BY <1>1, <2>2 DEF Complete
  <2>4. stage2 /\ ~done => Complete
    BY <1>1 DEF Complete, IsMul
  <2> QED
    BY <1>1, <2>1, <2>3, <2>4
<1> QED
  BY <1>2, <1>3, <1>4

(* The divider's part. *)
LEMMA StepDiscard ==
  ASSUME IInv, Timing, NEW kill \in BOOLEAN, ControlEdge(kill), DividerEdge(kill)
  PROVE  div_discard' /\ dv_state' = "WAIT" => dv_count' < Latency
<1>1. /\ Latency \in Nat /\ dv_count \in 0..Latency
      /\ dv_state \in {"IDLE", "WAIT", "OUTPUT"}
      /\ div_discard \in BOOLEAN
      /\ OneOutstanding
  BY UnitAssumption DEF IInv, TypeOK
<1> SUFFICES ASSUME div_discard', dv_state' = "WAIT" PROVE dv_count' < Latency
  OBVIOUS
<1>2. kill \/ div_discard
  BY DEF ControlEdge, Divide
<1>3. ~DivStart(kill)
  BY <1>2 DEF DivStart
<1>4. dv_state = "WAIT" /\ dv_count > 0 /\ dv_count' = dv_count - 1
  BY <1>1, <1>3 DEF DividerEdge, dvVars
<1> QED
  BY <1>1, <1>4

LEMMA TimingHolds == Spec => [](IInv /\ Timing)
<1>1. Init => Timing
  BY DEF Init, Idle, Timing
<1>2. IInv /\ Timing /\ [Next]_vars => Timing'
  <2> SUFFICES ASSUME IInv, Timing, [Next]_vars PROVE Timing'
    OBVIOUS
  <2>1. CASE Next
    <3>1. PICK next \in Op \cup {NoOp}, kill \in BOOLEAN : Clock(next, kill)
      BY <2>1 DEF Next
    <3>2. Multiply(kill) /\ ControlEdge(kill) /\ DividerEdge(kill)
      BY <3>1 DEF Clock
    <3> QED
      BY <3>2, StepStages, StepDiscard DEF Timing
  <2>2. CASE UNCHANGED vars
    BY <2>2 DEF vars, Timing
  <2> QED
    BY <2>1, <2>2
<1> QED
  BY <1>1, <1>2, Invariance, PTL DEF Spec

(* Where a stalled operation stands. *)
LEMMA Stalled ==
  ASSUME IInv, Timing, MulStall(FALSE)
  PROVE  \/ /\ IsMul /\ ~IsDiv /\ ~done /\ active
            /\ mul_r = es
            /\ stage1 \/ stage2
            /\ ~(stage1 /\ stage2)
            /\ stage2 => es.kind \in High /\ HighStages = 3
         \/ IsMul /\ ~IsDiv /\ ~done /\ ~active /\ ~stage1 /\ ~stage2
         \/ ~IsMul /\ IsDiv /\ div_state = "wait" /\ ~div_discard
              /\ dv_state \in {"WAIT", "OUTPUT"}
         \/ ~IsMul /\ IsDiv /\ div_state = "idle" /\ div_discard
              /\ dv_state \in {"WAIT", "OUTPUT"}
         \/ ~IsMul /\ IsDiv /\ div_state = "idle" /\ ~div_discard /\ dv_state = "IDLE"
<1>1. IsMul => ~IsDiv
  BY DEF IsMul, IsDiv, Low, High, Quotients, Remainders
<1>2. CASE IsMul
  <2>1. ~done
    BY <1>1, <1>2 DEF MulStall
  <2> QED
    BY <1>1, <1>2, <2>1 DEF IInv, Multiplier, Timing
<1>3. CASE IsDiv
  <2>1. div_state \in {"idle", "wait"}
    BY <1>1, <1>3 DEF MulStall, IInv, TypeOK
  <2> QED
    BY <1>1, <1>3, <2>1 DEF IInv, TypeOK, Division, OneOutstanding
<1> QED
  BY <1>2, <1>3 DEF MulStall

LEMMA LeftInRange ==
  ASSUME IInv, Timing, MulStall(FALSE)
  PROVE  StallLeft \in 1..2 * Latency + 4
<1>1. /\ Latency \in Nat /\ dv_count \in 0..Latency
      /\ HighStages \in {2, 3}
  BY UnitAssumption DEF IInv, TypeOK
<1>2. ProductTakes \in {2, 3} /\ (es.kind \in High /\ HighStages = 3 => ProductTakes = 3)
  BY <1>1 DEF ProductTakes
<1>3. DivisionTakes \in 1..Latency + 3
  BY <1>1 DEF DivisionTakes
<1>4. CASE IsMul
  <2>1. ~IsDiv /\ ~done /\ ~(stage1 /\ stage2)
        /\ (stage2 => es.kind \in High /\ HighStages = 3)
    BY <1>4, Stalled
  <2>2. StallLeft = ProductTakes - (IF stage1 THEN 1 ELSE IF stage2 THEN 2 ELSE 0)
    BY <1>4, <2>1 DEF StallLeft
  <2> QED
    BY <1>1, <1>2, <2>1, <2>2
<1>5. CASE ~IsMul
  <2>1. IsDiv
    BY <1>5 DEF MulStall
  <2>2. CASE div_state = "wait"
    <3>1. StallLeft = DividerLeft /\ dv_state \in {"WAIT", "OUTPUT"}
      BY <1>5, <2>1, <2>2, Stalled DEF StallLeft
    <3>2. DividerLeft \in 1..Latency + 2
      BY <1>1, <3>1 DEF DividerLeft
    <3> QED
      BY <1>1, <3>1, <3>2
  <2>3. CASE div_state # "wait"
    <3>1. /\ div_state = "idle"
          /\ \/ div_discard /\ dv_state \in {"WAIT", "OUTPUT"}
             \/ dv_state = "IDLE"
      BY <1>5, <2>1, <2>3, Stalled
    <3>2. StallLeft = DividerLeft + DivisionTakes
      BY <1>5, <2>1, <3>1 DEF StallLeft
    <3>3. DividerLeft \in 0..Latency + 1
      BY <1>1, <3>1 DEF DividerLeft, Timing
    <3> QED
      BY <1>1, <1>3, <3>2, <3>3
  <2> QED
    BY <2>2, <2>3
<1> QED
  BY <1>4, <1>5

(* A multiplication comes one stage nearer to its end. *)
LEMMA ProductNearer ==
  ASSUME IInv, Timing, MulStall(FALSE), IsMul, Unflushed
  PROVE  StallLeft' = StallLeft - 1
<1>1. /\ Multiply(FALSE) /\ es' = es
      /\ HighStages \in {2, 3}
      /\ es # NoOp /\ es.kind \in Low \cup High
  BY UnitAssumption DEF Unflushed, IsMul
<1>2. IsMul' /\ ~IsDiv'
  BY <1>1 DEF IsMul, IsDiv, Low, High, Quotients, Remainders
<1>3. ProductTakes' = ProductTakes /\ ProductTakes \in {2, 3}
  BY <1>1 DEF ProductTakes
<1>4. /\ StallLeft = ProductTakes - (IF stage1 THEN 1 ELSE IF stage2 THEN 2 ELSE 0)
      /\ ~done
  BY Stalled DEF StallLeft
<1>5. StallLeft' = IF done' THEN 0
                   ELSE ProductTakes - (IF stage1' THEN 1 ELSE IF stage2' THEN 2 ELSE 0)
  BY <1>2, <1>3 DEF StallLeft, MulStall
<1>6. CASE ~active
  <2>1. ~stage1 /\ ~stage2
    BY <1>6, Stalled
  <2>2. stage1' /\ ~done'
    BY <1>1, <1>6, <2>1 DEF Multiply, StartAccept, Complete
  <2> QED
    BY <1>3, <1>4, <1>5, <2>1, <2>2
<1>7. CASE active
  <2>1. /\ mul_r = es /\ (stage1 \/ stage2) /\ ~(stage1 /\ stage2)
        /\ stage2 => es.kind \in High /\ HighStages = 3
    BY <1>4, <1>7, Stalled
  <2>2. ~stage1' /\ (stage2' <=> stage1) /\ (done' <=> Complete)
    BY <1>1, <1>7 DEF Multiply, StartAccept
  <2>3. ~(es.kind \in Low /\ es.kind \in High)
    BY DEF Low, High
  <2>4. ProductTakes = IF es.kind \in High /\ HighStages = 3 THEN 3 ELSE 2
    BY <1>1 DEF ProductTakes
  <2>5. CASE stage1
    <3>1. done' <=> ~(es.kind \in High /\ HighStages = 3)
      BY <1>1, <2>1, <2>2, <2>3, <2>5 DEF Complete
    <3> QED
      BY <1>4, <1>5, <2>2, <2>4, <2>5, <3>1
  <2>6. CASE ~stage1
    <3>1. stage2 /\ es.kind \in High /\ HighStages = 3
      BY <2>1, <2>6
    <3>2. done'
      BY <1>1, <2>1, <2>2, <2>3, <3>1 DEF Complete
    <3> QED
      BY <1>4, <1>5, <2>4, <2>6, <3>1, <3>2
  <2> QED
    BY <2>5, <2>6
<1> QED
  BY <1>6, <1>7

(* A division comes one edge nearer to its end, its own or the one it      *)
(* waits for.                                                              *)
LEMMA DivisionNearer ==
  ASSUME IInv, Timing, MulStall(FALSE), ~IsMul, Unflushed
  PROVE  StallLeft' = StallLeft - 1
<1>1. /\ ControlEdge(FALSE) /\ DividerEdge(FALSE) /\ es' = es
      /\ Latency \in Nat /\ dv_count \in 0..Latency
      /\ IsDiv
  BY UnitAssumption DEF Unflushed, IInv, TypeOK, MulStall
<1>2. ~IsMul' /\ IsDiv' /\ DivisionTakes' = DivisionTakes
  BY <1>1 DEF IsMul, IsDiv, DivisionTakes, Special, ByZero, Overflows, Src2Signed
<1>3. /\ div_state' \in {"special", "done"} => StallLeft' = 0
      /\ div_state' = "wait" => StallLeft' = DividerLeft'
      /\ div_state' = "idle" => StallLeft' = DividerLeft' + DivisionTakes
  BY <1>2 DEF StallLeft, MulStall
<1>4. /\ div_state = "wait" => StallLeft = DividerLeft
      /\ div_state = "idle" => StallLeft = DividerLeft + DivisionTakes
  BY <1>1 DEF StallLeft
<1>5. DivisionTakes \in Nat
  BY <1>1 DEF DivisionTakes
<1>6. dv_state \in {"WAIT", "OUTPUT"} =>
        /\ DividerLeft' = DividerLeft - 1
        /\ DividerLeft \in Nat /\ DividerLeft' \in Nat
        /\ dv_state = "OUTPUT" => DividerLeft' = 0
  <2>1. CASE dv_state = "WAIT" /\ dv_count > 0
    <3>1. dv_state' = "WAIT" /\ dv_count' = dv_count - 1
      BY <1>1, <2>1 DEF DividerEdge
    <3>2. DividerLeft = dv_count + 2 /\ DividerLeft' = (dv_count - 1) + 2
      BY <2>1, <3>1 DEF DividerLeft
    <3> QED
      BY <1>1, <2>1, <3>2
  <2>2. CASE dv_state = "WAIT" /\ dv_count = 0
    <3>1. dv_state' = "OUTPUT"
      BY <1>1, <2>2 DEF DividerEdge
    <3> QED
      BY <2>2, <3>1 DEF DividerLeft
  <2>3. CASE dv_state = "OUTPUT"
    <3>1. dv_state' = "IDLE"
      BY <1>1, <2>3 DEF DividerEdge
    <3> QED
      BY <2>3, <3>1 DEF DividerLeft
  <2> QED
    BY <1>1, <2>1, <2>2, <2>3
<1>7. CASE div_state = "wait"
  <2>1. ~div_discard /\ dv_state \in {"WAIT", "OUTPUT"} /\ Divide
    BY <1>1, <1>7, Stalled DEF ControlEdge
  <2>2. div_state' = IF dv_state = "OUTPUT" THEN "done" ELSE "wait"
    BY <1>7, <2>1 DEF Divide, Response
  <2>3. DividerLeft - 1 = IF dv_state = "OUTPUT" THEN 0 ELSE DividerLeft'
    BY <1>6, <2>1
  <2> QED
    BY <1>3, <1>4, <1>7, <2>2, <2>3
<1>8. CASE div_state = "idle" /\ div_discard
  <2>1. dv_state \in {"WAIT", "OUTPUT"} /\ DrainDivision
    BY <1>1, <1>8, Stalled DEF ControlEdge
  <2>2. div_state' = "idle"
    BY <2>1 DEF DrainDivision
  <2> QED
    BY <1>3, <1>4, <1>5, <1>6, <1>8, <2>1, <2>2
<1>9. CASE div_state = "idle" /\ ~div_discard
  <2>1. dv_state = "IDLE" /\ Divide /\ DividerLeft = 0
    BY <1>1, <1>9, Stalled DEF ControlEdge, DividerLeft
  <2>2. CASE Special(es)
    <3>1. div_state' = "special" /\ DivisionTakes = 1
      BY <1>1, <1>9, <2>1, <2>2 DEF Divide, DivStart, DivisionTakes
    <3> QED
      BY <1>3, <1>4, <1>9, <2>1, <3>1
  <2>3. CASE ~Special(es)
    <3>1. DivStart(FALSE)
      BY <1>1, <1>9, <2>3 DEF DivStart
    <3>2. div_state' = "wait" /\ DivisionTakes = Latency + 3
      BY <1>9, <2>1, <2>3, <3>1 DEF Divide, DivisionTakes
    <3>3. dv_state' = "WAIT" /\ dv_count' = Latency
      BY <1>1, <2>1, <3>1 DEF DividerEdge
    <3>4. DividerLeft' = Latency + 2
      BY <3>3 DEF DividerLeft
    <3> QED
      BY <1>1, <1>3, <1>4, <1>9, <2>1, <3>2, <3>4
  <2> QED
    BY <2>2, <2>3
<1> QED
  BY <1>1, <1>7, <1>8, <1>9, Stalled

(* Every period without a flush brings the operation that stalls EX, if it *)
(* goes on stalling, exactly one edge nearer to its end, also while a      *)
(* flushed division is drained: the unit never spends a period idle.       *)
THEOREM StallCountsDown ==
  Spec => [][Unflushed /\ MulStall(FALSE) => StallLeft' = StallLeft - 1]_vars
<1>1. IInv /\ Timing => (Unflushed /\ MulStall(FALSE) => StallLeft' = StallLeft - 1)
  BY ProductNearer, DivisionNearer
<1> QED
  BY <1>1, TimingHolds, PTL

(* No operation needs more than two divisions' time: the one in the        *)
(* divider that was flushed, and its own.                                  *)
THEOREM StallIsBounded ==
  Spec => [](MulStall(FALSE) => StallLeft \in 1..2 * Latency + 4)
<1>1. IInv /\ Timing => (MulStall(FALSE) => StallLeft \in 1..2 * Latency + 4)
  BY LeftInRange
<1> QED
  BY <1>1, TimingHolds, PTL
=============================================================================
