--------------------------- MODULE CoreMarkProofs ---------------------------
(***************************************************************************)
(* The state and the matrix kernel leave their blocks as they found them,  *)
(* for all seeds and sizes, whichever items the comparisons of the sorts   *)
(* call them for.  The proof follows a call inwards: two corruptions of a  *)
(* byte and two additions cancel, so a kernel does, so does a comparison,  *)
(* and the other steps of the program do not touch the blocks.             *)
(*                                                                         *)
(* The list kernel loses no cell, and brings the list back.  In every      *)
(* state the cells in use have an order that the pointers of the running   *)
(* function spell out; ListInv says how for each place of the program, and *)
(* most lemmas show that one step of it makes an order out of the order    *)
(* before.  For a sort by idx it also says which runs of the order ascend, *)
(* and as no two items have the same idx there is one ascending order.     *)
(* The data comes back with it: the high byte of an item keeps what it was *)
(* made with, and a sort by idx compares every item, which restores the    *)
(* low byte.  DataInv says which items it has compared so far.             *)
(*                                                                         *)
(* At the end, what is left of the program is counted: no step is without  *)
(* progress.                                                               *)
(***************************************************************************)
EXTENDS CoreMark, FiniteSetTheorems, SequenceTheorems, WellFoundedInduction, TLAPS

\* One byte: the second corruption undoes the first.
LEMMA FlipBack ==
  ASSUME NEW D, NEW m \in [D -> Byte], NEW s, NEW t, NEW step,
         s % 256 \in Byte, s % 256 = t % 256,
         \A k \in D : m[k] = COMMA \/ BitXor(m[k], s % 256) # COMMA
  PROVE  Flip(Flip(m, s, step), t, step) = m
<1> DEFINE f == Flip(m, s, step)
<1>1. f = [k \in D |-> IF (k - 1) % step = 0 /\ m[k] # COMMA
                       THEN BitXor(m[k], s % 256) ELSE m[k]]
  BY DEF Flip
<1>2. Flip(f, t, step) = [k \in D |-> IF (k - 1) % step = 0 /\ f[k] # COMMA
                                      THEN BitXor(f[k], t % 256) ELSE f[k]]
  BY <1>1 DEF Flip
<1>3. ASSUME NEW k \in D PROVE Flip(f, t, step)[k] = m[k]
  <2>1. CASE (k - 1) % step = 0 /\ m[k] # COMMA
    <3>1. f[k] = BitXor(m[k], s % 256) /\ f[k] # COMMA
      BY <1>1, <2>1
    <3>2. BitXor(f[k], t % 256) = m[k]
      BY <3>1, XorAssumption
    <3> QED BY <1>2, <2>1, <3>1, <3>2
  <2>2. CASE ~((k - 1) % step = 0 /\ m[k] # COMMA)
    <3>1. f[k] = m[k]
      BY <1>1, <2>2
    <3> QED BY <1>2, <2>2, <3>1
  <2> QED BY <2>1, <2>2
<1> QED BY <1>2, <1>3

\* A corruption leaves bytes.
LEMMA FlipBytes ==
  ASSUME NEW D, NEW m \in [D -> Byte], NEW s, NEW step, s % 256 \in Byte
  PROVE  Flip(m, s, step) \in [D -> Byte]
BY XorAssumption DEF Flip

\* One cell: the subtraction undoes the addition, with wrap-around.
LEMMA ShortBack ==
  ASSUME NEW a \in Int16, NEW v \in Int
  PROVE  /\ Short(Short(a + v) + (-v)) = a
         /\ Short(a + v) \in Int16
BY DEF Short, Int16

\* The same for a whole matrix.
LEMMA AddBack ==
  ASSUME NEW D, NEW a \in [D -> Int16], NEW v \in Int
  PROVE  AddConst(AddConst(a, v), -v) = a
<1>1. AddConst(a, v) = [c \in D |-> Short(a[c] + v)]
  BY DEF AddConst
<1>2. AddConst(AddConst(a, v), -v) = [c \in D |-> Short(Short(a[c] + v) + (-v))]
  BY <1>1 DEF AddConst
<1>3. \A c \in D : Short(Short(a[c] + v) + (-v)) = a[c]
  BY ShortBack
<1> QED BY <1>2, <1>3

-----------------------------------------------------------------------------
(* The kernels, and the comparison that calls them.                        *)

\* A step of work from w to v leaves the blocks as they were.
Kept(w, v) ==
  /\ v = [data |-> v.data, mem |-> v.mem, A |-> v.A, crc |-> v.crc,
          crcstate |-> v.crcstate, crcmatrix |-> v.crcmatrix]
  /\ v.A = w.A
  /\ v.mem \in [DOMAIN w.mem -> Byte]
  /\ v.mem = w.mem \/ ~Undoable(w.mem)

\* What a step of work starts from.
IsWork(w) ==
  /\ w = [data |-> w.data, mem |-> w.mem, A |-> w.A, crc |-> w.crc,
          crcstate |-> w.crcstate, crcmatrix |-> w.crcmatrix]
  /\ w.A \in [DOMAIN w.A -> Int16]
  /\ w.mem \in [DOMAIN w.mem -> Byte]

\* The low bytes of the seeds.
SeedsOK == run.seed1 % 256 \in Byte /\ run.seed2 % 256 \in Byte

\* A call of core_bench_state.
LEMMA StateKept ==
  ASSUME SeedsOK, NEW D, NEW m \in [D -> Byte], NEW step, NEW c
  PROVE  LET new == BenchState(m, run.seed1, run.seed2, step, c).mem
         IN  new \in [D -> Byte] /\ (new = m \/ ~Undoable(m))
<1> DEFINE new == Flip(Flip(m, run.seed1, step), run.seed2, step)
<1>1. BenchState(m, run.seed1, run.seed2, step, c).mem = new
  BY DEF BenchState
<1>2. new \in [D -> Byte]
  BY FlipBytes DEF SeedsOK
<1>3. ASSUME Undoable(m) PROVE new = m
  <2>1. \A k \in D : m[k] = COMMA \/ BitXor(m[k], run.seed1 % 256) # COMMA
    BY <1>3 DEF Undoable
  <2> QED BY <1>3, <2>1, FlipBack DEF Undoable, SeedsOK
<1> QED BY <1>1, <1>2, <1>3

\* A call of core_bench_matrix.
LEMMA MatrixKept ==
  ASSUME NEW D, NEW a \in [D -> Int16], NEW N, NEW b, NEW v \in Int, NEW c
  PROVE  BenchMatrix(N, a, b, v, c).A = a
BY AddBack DEF BenchMatrix, MatrixTest

\* The numbers that a comparison passes to a kernel.
LEMMA NibbleType == ASSUME NEW value PROVE Nibble(value) \in Int
BY DEF Nibble

\* The operation that an item asks for.
LEMMA ComputeKept ==
  ASSUME SeedsOK, NEW w, IsWork(w), NEW value
  PROVE  Kept(w, Compute(value, w))
<1> DEFINE dtype == 17 * Nibble(value)
           flag  == value % 8
           state == BenchState(w.mem, run.seed1, run.seed2, Period(dtype), w.crc)
           mat   == BenchMatrix(Dimension(run.size), w.A, B, dtype, w.crc)
<1>1. dtype \in Int
  BY NibbleType
<1>2. mat.A = w.A
  BY <1>1, MatrixKept DEF IsWork
<1>3. state.mem \in [DOMAIN w.mem -> Byte] /\ (state.mem = w.mem \/ ~Undoable(w.mem))
  BY StateKept DEF IsWork
<1> HIDE DEF dtype, state, mat
<1>4. CASE flag = 0
  <2>1. Compute(value, w) = [w EXCEPT !.mem = state.mem, !.crc = state.crc,
                                      !.crcstate = IF @ = 0 THEN state.crc ELSE @]
    BY <1>4 DEF Compute, AfterState, state, dtype
  <2> QED BY <1>3, <2>1 DEF Kept, IsWork
<1>5. CASE flag = 1
  <2>1. Compute(value, w) = [w EXCEPT !.A = mat.A, !.crc = mat.crc,
                                      !.crcmatrix = IF @ = 0 THEN mat.crc ELSE @]
    BY <1>5 DEF Compute, AfterMatrix, mat, dtype
  <2> QED BY <1>2, <2>1 DEF Kept, IsWork
<1>6. CASE flag # 0 /\ flag # 1
  BY <1>6 DEF Compute, Kept, IsWork, state, dtype, mat
<1> QED BY <1>4, <1>5, <1>6

\* Two steps of work make one.
LEMMA KeptChain ==
  ASSUME NEW w, NEW v, NEW u, IsWork(w), Kept(w, v), Kept(v, u)
  PROVE  IsWork(v) /\ Kept(w, u)
BY DEF IsWork, Kept

\* calc_func, with the result cached or computed.
LEMMA CalcFuncKept ==
  ASSUME SeedsOK, NEW w, IsWork(w), NEW d
  PROVE  Kept(w, CalcFunc(d, w))
<1> DEFINE v == Compute(w.data[d], w)
<1>1. Kept(w, v)
  BY ComputeKept
<1> HIDE DEF v
<1>2. CASE Cached(w.data[d])
  BY <1>2 DEF CalcFunc, Kept, IsWork
<1>3. CASE ~Cached(w.data[d])
  <2>1. CalcFunc(d, w) = Cache(d, w, v)
    BY <1>3 DEF CalcFunc, v
  <2>2. PICK u : u = Cache(d, w, v)
    OBVIOUS
  <2>3. /\ u = [data |-> u.data, mem |-> u.mem, A |-> u.A, crc |-> u.crc,
                crcstate |-> u.crcstate, crcmatrix |-> u.crcmatrix]
        /\ u.A = v.A /\ u.mem = v.mem
    <3>1. v = [data |-> v.data, mem |-> v.mem, A |-> v.A, crc |-> v.crc,
               crcstate |-> v.crcstate, crcmatrix |-> v.crcmatrix]
      BY <1>1 DEF Kept
    <3>2. PICK items, sum : u = [v EXCEPT !.data = items, !.crc = sum]
      BY <2>2 DEF Cache
    <3>3. u = [data |-> items, mem |-> v.mem, A |-> v.A, crc |-> sum,
               crcstate |-> v.crcstate, crcmatrix |-> v.crcmatrix]
      BY <3>1, <3>2
    <3> QED
      BY <3>3
  <2> QED BY <1>1, <2>1, <2>2, <2>3 DEF Kept
<1> QED BY <1>2, <1>3

\* The regeneration of an item only changes its data.
LEMMA RegenerateKept ==
  ASSUME NEW w, IsWork(w), NEW d
  PROVE  Kept(w, Regenerate(d, w))
BY DEF Regenerate, Kept, IsWork

\* Both comparisons.
LEMMA CompareKept ==
  ASSUME SeedsOK, NEW w, IsWork(w), NEW cmp, NEW a, NEW b
  PROVE  Kept(w, Compare(cmp, a, b, w).w)
<1>1. CASE cmp = "complex"
  <2> DEFINE v == CalcFunc(a, w)
  <2>1. Compare(cmp, a, b, w).w = CalcFunc(b, v)
    BY <1>1 DEF Compare, Ranked
  <2>2. Kept(w, v) /\ IsWork(v)
    BY CalcFuncKept DEF IsWork, Kept
  <2> HIDE DEF v
  <2>3. Kept(v, CalcFunc(b, v))
    BY <2>2, CalcFuncKept
  <2> QED BY <2>1, <2>2, <2>3, KeptChain
<1>2. CASE cmp # "complex"
  <2> DEFINE v == Regenerate(a, w)
  <2>1. Compare(cmp, a, b, w).w = Regenerate(b, v)
    BY <1>2 DEF Compare
  <2>2. Kept(w, v) /\ IsWork(v)
    BY RegenerateKept DEF IsWork, Kept
  <2> HIDE DEF v
  <2>3. Kept(v, Regenerate(b, v))
    BY <2>2, RegenerateKept
  <2> QED BY <2>1, <2>2, <2>3, KeptChain
<1> QED BY <1>1, <1>2

-----------------------------------------------------------------------------
(* The program.                                                            *)

\* The blocks hold bytes and shorts, as at the snapshot.
IInv ==
  /\ SeedsOK
  /\ mem \in [DOMAIN mem -> Byte]
  /\ A \in [DOMAIN A -> Int16]
  /\ StateRestores
  /\ MatrixRestores

\* What a step may do to the blocks.
Harmless ==
  /\ UNCHANGED <<run, A, B, orig>>
  /\ mem' \in [DOMAIN mem -> Byte]
  /\ mem' = mem \/ ~Undoable(mem)

\* A harmless step keeps the invariant.
LEMMA HarmlessKeeps == ASSUME IInv, Harmless PROVE IInv'
<1>1. mem' \in [DOMAIN mem' -> Byte] /\ SeedsOK' /\ (A \in [DOMAIN A -> Int16])'
  BY DEF IInv, Harmless, SeedsOK
<1>2. \A block : Undoable(block)' <=> Undoable(block)
  BY DEF Harmless, Undoable
<1>3. StateRestores'
  BY <1>2 DEF IInv, Harmless, StateRestores
<1>4. MatrixRestores'
  BY DEF IInv, Harmless, MatrixRestores
<1> QED BY <1>1, <1>3, <1>4 DEF IInv

\* A step that does not touch the blocks is harmless.
LEMMA StillHarmless ==
  ASSUME IInv, UNCHANGED <<run, blocks, orig>>
  PROVE  Harmless
BY DEF IInv, Harmless, blocks

\* So is a step of a merge, the only one that calls the kernels.
LEMMA MergeHarmless ==
  ASSUME IInv, Merge, UNCHANGED orig
  PROVE  Harmless
<1>1. IsWork(Work)
  BY DEF IInv, IsWork, Work
<1>2. CASE Apply(Work)
  BY <1>2 DEF IInv, Harmless, Merge, Apply, Work
<1>3. ASSUME NEW v, Kept(Work, v), Apply(v) PROVE Harmless
  BY <1>3 DEF IInv, Harmless, Merge, Apply, Work, Kept
<1>4. CASE ~PEmpty /\ ~QEmpty
  <2>1. Apply(Compare(sort.cmp, info[sort.p], info[sort.q], Work).w)
    BY <1>4 DEF Merge, Take
  <2>2. Kept(Work, Compare(sort.cmp, info[sort.p], info[sort.q], Work).w)
    BY <1>1, CompareKept DEF IInv
  <2> QED BY <1>3, <2>1, <2>2
<1> QED BY <1>2, <1>4 DEF Merge

\* The blocks are made of bytes and shorts, before the snapshot.
LEMMA InitIInv == Init => IInv
<1> SUFFICES ASSUME Init PROVE IInv
  OBVIOUS
<1>1. PICK b \in Builds :
        /\ run = Inputs(b)
        /\ mem = InitState(run.size, run.seed1)
        /\ A = InitMatrix(Dimension(run.size), MatrixSeed(run)).A
  BY DEF Init
<1>2. SeedsOK
  <2>1. Seeds(b).seed1 \in Nat /\ Seeds(b).seed2 \in Nat
    BY BuildsAssumption DEF Seeds
  <2>2. \A s \in Nat : s % 256 \in Byte
    BY DEF Byte
  <2> QED BY <1>1, <2>1, <2>2 DEF SeedsOK, Inputs
<1>3. mem \in [DOMAIN mem -> Byte] /\ A \in [DOMAIN A -> Int16]
  BY <1>1, DataAssumption
<1>4. orig = <<>>
  BY DEF Init
<1> QED BY <1>2, <1>3, <1>4 DEF IInv, StateRestores, MatrixRestores

\* The snapshot is taken of such blocks, and every other step is harmless.
LEMMA NextIInv == IInv /\ [Next]_vars => IInv'
<1> SUFFICES ASSUME IInv, [Next]_vars PROVE IInv'
  OBVIOUS
<1>1. CASE Start
  <2>1. UNCHANGED <<run, mem, A, B>> /\ orig'.blocks = <<mem, A, B>>
    BY <1>1 DEF Start, blocks
  <2> QED BY <2>1 DEF IInv, SeedsOK, StateRestores, MatrixRestores
<1>2. CASE Merge /\ UNCHANGED orig
  BY <1>2, MergeHarmless, HarmlessKeeps
<1>3. CASE UNCHANGED <<run, blocks, orig>>
  BY <1>3, StillHarmless, HarmlessKeeps
<1>4. (Insert \/ Index \/ Split \/ Merged \/ EndPass \/ BenchList) => UNCHANGED <<run, blocks>>
  BY DEF Insert, Index, Split, Merged, EndPass, BenchList,
         Search, Reverse, Move, Found, Remove, UndoRemove, Finish
<1>5. (Returned \/ Verdict \/ UNCHANGED vars) => UNCHANGED <<run, blocks, orig>>
  BY DEF Returned, Verdict, vars, coreVars, blocks
<1> QED BY <1>1, <1>2, <1>3, <1>4, <1>5 DEF Next, Sort

\* The invariant of the blocks.
LEMMA Invariance == Spec => []IInv
<1> QED BY InitIInv, NextIInv, PTL DEF Spec

\* The scanner's block is restored after every call of core_bench_state.
THEOREM StateBlockRestored == Spec => []StateRestores
<1>1. IInv => StateRestores
  BY DEF IInv
<1> QED BY <1>1, Invariance, PTL

\* Matrix A is restored after every call of matrix_test, and B never changes.
THEOREM MatrixBlockRestored == Spec => []MatrixRestores
<1>1. IInv => MatrixRestores
  BY DEF IInv
<1> QED BY <1>1, Invariance, PTL

-----------------------------------------------------------------------------
(* The least number that a property holds of, which is how an induction is  *)
(* written here.                                                            *)
Below == {pair \in Nat \X Nat : pair[1] < pair[2]}

\* A set of numbers that is not empty has a least member.
LEMMA LeastExists ==
  ASSUME NEW S \in SUBSET Nat, S # {}
  PROVE  \E n \in S : \A k \in S : n <= k
<1>1. IsWellFoundedOn(Below, Nat)
  BY NatLessThanWellFounded DEF Below, OpToRel
<1>2. PICK n \in S : \A k \in S : ~(<<k, n>> \in Below)
  BY <1>1, WFMin
<1>3. ASSUME NEW k \in S PROVE n <= k
  <2>1. k \in Nat /\ n \in Nat
    OBVIOUS
  <2>2. ~(k < n)
    BY <1>2, <2>1 DEF Below
  <2> QED
    BY <2>1, <2>2
<1> QED
  BY <1>3

\* What holds of 0 and passes from each number to the next holds of all.
LEMMA Induction ==
  ASSUME NEW P, 0 \in P, \A n \in Nat : n \in P => n + 1 \in P
  PROVE  Nat \subseteq P
<1> SUFFICES ASSUME Nat \ P # {} PROVE FALSE
  OBVIOUS
<1>1. PICK n \in Nat \ P : \A k \in Nat \ P : n <= k
  BY LeastExists
<1>2. n # 0 /\ n - 1 \in Nat /\ ~(n <= n - 1)
  BY <1>1
<1>3. n - 1 \in P
  BY <1>1, <1>2
<1>4. n - 1 + 1 = n
  BY <1>1
<1> QED
  BY <1>1, <1>2, <1>3, <1>4

-----------------------------------------------------------------------------
(* Orders of the used cells.                                                *)

\* Cells are taken from the pool in turn.
Used == 0..free - 1

\* s has every used cell, and has it once.
Order(s) ==
  /\ s \in [1..free -> Used]
  /\ \A j, k \in 1..free : s[j] = s[k] => j = k
  /\ \A c \in Used : \E k \in 1..free : s[k] = c

\* The k-th cell, and behind the last one what its next points to.
At(s, k) == IF k \in 1..free THEN s[k] ELSE Null

\* The element at b moves to a, or the one at a to b; those between give way.
Forward(s, a, b) ==
  [k \in 1..free |-> IF k < a \/ k > b THEN s[k] ELSE IF k = a THEN s[b] ELSE s[k - 1]]

Backward(s, a, b) ==
  [k \in 1..free |-> IF k < a \/ k > b THEN s[k] ELSE IF k = b THEN s[a] ELSE s[k + 1]]

\* s with its places exchanged.
Placed(s, from) == [k \in 1..free |-> s[from[k]]]

\* What a permutation of its places makes of an order is an order.
LEMMA Permuted ==
  ASSUME free \in Nat, NEW s, Order(s),
         NEW from \in [1..free -> 1..free], NEW to \in [1..free -> 1..free],
         \A k \in 1..free : to[from[k]] = k /\ from[to[k]] = k
  PROVE  Order(Placed(s, from))
<1> DEFINE t == Placed(s, from)
<1>1. \A k \in 1..free : t[k] = s[from[k]] /\ from[k] \in 1..free /\ to[k] \in 1..free
  BY DEF Placed
<1>2. t \in [1..free -> Used]
  BY DEF Order, Placed
<1> HIDE DEF t
<1>3. ASSUME NEW j \in 1..free, NEW k \in 1..free, t[j] = t[k] PROVE j = k
  <2>1. s[from[j]] = s[from[k]] /\ from[j] \in 1..free /\ from[k] \in 1..free
    BY <1>1, <1>3
  <2>2. \A h, l \in 1..free : s[h] = s[l] => h = l
    BY DEF Order
  <2>3. from[j] = from[k]
    BY <2>1, <2>2
  <2>4. to[from[j]] = j /\ to[from[k]] = k
    OBVIOUS
  <2> QED
    BY <2>3, <2>4
<1>4. ASSUME NEW c \in Used PROVE \E k \in 1..free : t[k] = c
  <2>1. PICK k \in 1..free : s[k] = c
    BY DEF Order
  <2>2. to[k] \in 1..free /\ t[to[k]] = c
    BY <1>1, <2>1
  <2> QED
    BY <2>2
<1>5. Order(t)
  BY <1>2, <1>3, <1>4 DEF Order
<1> QED
  BY <1>5 DEF t

\* Moving an element forward leaves an order an order.
LEMMA ForwardOrder ==
  ASSUME free \in Nat, NEW s, Order(s), NEW a \in 1..free, NEW b \in a..free
  PROVE  Order(Forward(s, a, b))
<1> DEFINE from == [k \in 1..free |-> IF k < a \/ k > b THEN k ELSE IF k = a THEN b ELSE k - 1]
           to == [k \in 1..free |-> IF k < a \/ k > b THEN k ELSE IF k = b THEN a ELSE k + 1]
<1>1. from \in [1..free -> 1..free] /\ to \in [1..free -> 1..free]
  OBVIOUS
<1>2. \A k \in 1..free : to[from[k]] = k /\ from[to[k]] = k
  OBVIOUS
<1>3. Forward(s, a, b) = Placed(s, from)
  BY DEF Forward, Placed
<1> HIDE DEF from, to
<1>4. Order(Placed(s, from))
  BY <1>1, <1>2, Permuted
<1> QED
  BY <1>3, <1>4

\* And so does moving one backward.
LEMMA BackwardOrder ==
  ASSUME free \in Nat, NEW s, Order(s), NEW a \in 1..free, NEW b \in a..free
  PROVE  Order(Backward(s, a, b))
<1> DEFINE from == [k \in 1..free |-> IF k < a \/ k > b THEN k ELSE IF k = b THEN a ELSE k + 1]
           to == [k \in 1..free |-> IF k < a \/ k > b THEN k ELSE IF k = a THEN b ELSE k - 1]
<1>1. from \in [1..free -> 1..free] /\ to \in [1..free -> 1..free]
  OBVIOUS
<1>2. \A k \in 1..free : to[from[k]] = k /\ from[to[k]] = k
  OBVIOUS
<1>3. Backward(s, a, b) = Placed(s, from)
  BY DEF Backward, Placed
<1> HIDE DEF from, to
<1>4. Order(Placed(s, from))
  BY <1>1, <1>2, Permuted
<1> QED
  BY <1>3, <1>4

\* An order that is sorted by a number in each step is sorted altogether.
LEMMA Monotone ==
  ASSUME free \in Nat, NEW key \in [Used -> Int], NEW u, Order(u),
         \A k \in 1..free - 1 : key[u[k]] <= key[u[k + 1]],
         NEW j \in 1..free
  PROVE  \A k \in j..free : key[u[j]] <= key[u[k]]
<1> DEFINE P == {n \in Nat : j + n <= free => key[u[j]] <= key[u[j + n]]}
<1>0. \A k \in 1..free : u[k] \in Used /\ key[u[k]] \in Int
  BY DEF Order
<1>1. 0 \in P
  BY <1>0
<1>2. ASSUME NEW n \in Nat, n \in P, j + (n + 1) <= free
      PROVE  key[u[j]] <= key[u[j + (n + 1)]]
  <2>1. key[u[j]] <= key[u[j + n]]
    BY <1>2
  <2>2. key[u[j + n]] <= key[u[(j + n) + 1]]
    BY <1>2
  <2>3. (j + n) + 1 = j + (n + 1) /\ j + n \in 1..free /\ j + (n + 1) \in 1..free
    BY <1>2
  <2> QED
    BY <1>0, <2>1, <2>2, <2>3
<1>3. Nat \subseteq P
  <2> HIDE DEF P
  <2>1. \A n \in Nat : n \in P => n + 1 \in P
    BY <1>2 DEF P
  <2> QED
    BY <1>1, <2>1, Induction
<1>4. ASSUME NEW k \in j..free PROVE key[u[j]] <= key[u[k]]
  <2>1. k - j \in Nat /\ j + (k - j) = k
    OBVIOUS
  <2> QED
    BY <1>3, <2>1
<1> QED
  BY <1>4

\* Two orders that a number without ties sorts are the same.
LEMMA SortedOnce ==
  ASSUME free \in Nat, NEW s, NEW t, Order(s), Order(t),
         NEW key \in [Used -> Int], \A c, d \in Used : key[c] = key[d] => c = d,
         \A k \in 1..free - 1 : key[s[k]] <= key[s[k + 1]],
         \A k \in 1..free - 1 : key[t[k]] <= key[t[k + 1]]
  PROVE  s = t
<1>1. ASSUME NEW u, Order(u), \A k \in 1..free - 1 : key[u[k]] <= key[u[k + 1]],
             NEW j \in 1..free
      PROVE  \A k \in j..free : key[u[j]] <= key[u[k]]
  BY <1>1, Monotone
<1> DEFINE D == {k \in 1..free : s[k] # t[k]}
<1>2. ASSUME D = {} PROVE s = t
  <2>1. \A k \in 1..free : s[k] = t[k]
    BY <1>2
  <2>2. s = [k \in 1..free |-> s[k]] /\ t = [k \in 1..free |-> t[k]]
    BY DEF Order
  <2> QED
    BY <2>1, <2>2
<1> SUFFICES ASSUME D # {} PROVE FALSE
  BY <1>2
<1>3. PICK j \in D : \A k \in D : j <= k
  <2>1. D \in SUBSET Nat
    OBVIOUS
  <2> QED
    BY <2>1, LeastExists
<1>4. \A k \in 1..j - 1 : s[k] = t[k]
  BY <1>3
<1>5. s[j] \in Used /\ t[j] \in Used /\ key[s[j]] \in Int /\ key[t[j]] \in Int
  BY DEF Order
<1>6. key[t[j]] <= key[s[j]]
  <2>1. PICK k \in 1..free : t[k] = s[j]
    BY <1>5 DEF Order
  <2>2. ~(k < j)
    BY <1>4, <2>1 DEF Order
  <2>3. k \in j..free
    BY <2>2
  <2> QED
    BY <1>1, <2>1, <2>3
<1>7. key[s[j]] <= key[t[j]]
  <2>1. PICK k \in 1..free : s[k] = t[j]
    BY <1>5 DEF Order
  <2>2. ~(k < j)
    BY <1>4, <2>1 DEF Order
  <2>3. k \in j..free
    BY <2>2
  <2> QED
    BY <1>1, <2>1, <2>3
<1> QED
  BY <1>3, <1>5, <1>6, <1>7

-----------------------------------------------------------------------------
(* What the recursive functions of the model return on a chain of cells.    *)

\* m elements of s from place a on.
Part(s, a, m) == [k \in 1..m |-> s[a + k - 1]]

\* The walk along the cells of s from place a on.
LEMMA WalkIs ==
  ASSUME NEW c, NEW s, NEW a \in Nat, NEW m \in Nat, NEW n \in Nat, m <= n,
         \A k \in a..a + m - 1 : s[k] # Null,
         m > 0 => c = s[a],
         \A k \in a..a + m - 2 : next[s[k]] = s[k + 1],
         m < n => IF m = 0 THEN c = Null ELSE next[s[a + m - 1]] = Null
  PROVE  Walk(c, n) = Part(s, a, m)
<1> DEFINE reached[k \in 0..n - 1] ==
             IF k = 0 THEN c
             ELSE LET d == reached[k - 1] IN IF d = Null THEN Null ELSE next[d]
           g == [k \in 0..n - 1 |-> IF k < m THEN s[a + k] ELSE Null]
<1>1. Walk(c, n) = [k \in {j \in 1..n : reached[j - 1] # Null} |-> reached[k - 1]]
  BY DEF Walk
<1>2. ASSUME NEW k \in 0..n - 1
      PROVE  g[k] = IF k = 0 THEN c
                    ELSE LET d == g[k - 1] IN IF d = Null THEN Null ELSE next[d]
  <2>1. CASE k = 0
    BY <2>1
  <2>2. CASE k # 0 /\ k < m
    <3>1. k - 1 \in 0..n - 1 /\ k - 1 < m /\ a + (k - 1) \in a..a + m - 2
      BY <2>2
    <3>2. g[k - 1] = s[a + (k - 1)] /\ g[k] = s[a + k] /\ (a + (k - 1)) + 1 = a + k
      BY <2>2, <3>1
    <3>3. s[a + (k - 1)] # Null /\ next[s[a + (k - 1)]] = s[a + k]
      BY <3>1, <3>2
    <3> QED
      BY <2>2, <3>2, <3>3
  <2>3. CASE k # 0 /\ k = m
    <3>1. k - 1 \in 0..n - 1 /\ k - 1 < m /\ m < n /\ m # 0 /\ a + (k - 1) = a + m - 1
      BY <2>3
    <3>2. g[k - 1] = s[a + m - 1] /\ g[k] = Null /\ next[s[a + m - 1]] = Null
      BY <2>3, <3>1
    <3> QED
      BY <2>3, <3>2
  <2>4. CASE k # 0 /\ k > m
    <3>1. g[k - 1] = Null /\ g[k] = Null
      BY <2>4
    <3> QED
      BY <2>4, <3>1
  <2> QED
    BY <2>1, <2>2, <2>3, <2>4
<1>3. g = [k \in 0..n - 1 |-> IF k = 0 THEN c
             ELSE LET d == g[k - 1] IN IF d = Null THEN Null ELSE next[d]]
  BY <1>2
<1> HIDE DEF g
<1>4. reached = [k \in 0..n - 1 |-> IF k = 0 THEN c
                   ELSE LET d == reached[k - 1] IN IF d = Null THEN Null ELSE next[d]]
  BY <1>3
<1> HIDE DEF reached
<1>5. \A k \in 0..n - 1 : reached[k] = g[k]
  <2> DEFINE P == {k \in Nat : k \in 0..n - 1 => reached[k] = g[k]}
  <2>1. 0 \in P
    BY <1>3, <1>4
  <2>2. ASSUME NEW k \in Nat, k \in P PROVE k + 1 \in P
    <3> SUFFICES ASSUME k + 1 \in 0..n - 1 PROVE reached[k + 1] = g[k + 1]
      OBVIOUS
    <3>1. k \in 0..n - 1 /\ k + 1 # 0 /\ (k + 1) - 1 = k
      OBVIOUS
    <3>2. reached[k] = g[k]
      BY <2>2, <3>1
    <3> QED
      BY <1>3, <1>4, <3>1, <3>2
  <2> HIDE DEF P
  <2>3. Nat \subseteq P
    BY <2>1, <2>2, Induction
  <2> QED
    BY <2>3 DEF P
<1>6. \A k \in 0..n - 1 : g[k] = IF k < m THEN s[a + k] ELSE Null
  BY DEF g
<1>7. {j \in 1..n : reached[j - 1] # Null} = 1..m
  <2>1. ASSUME NEW j \in 1..n PROVE reached[j - 1] # Null <=> j \in 1..m
    <3>1. j - 1 \in 0..n - 1 /\ (j - 1 < m => a + (j - 1) \in a..a + m - 1)
      OBVIOUS
    <3> QED
      BY <1>5, <1>6, <3>1
  <2> QED
    BY <2>1
<1>8. ASSUME NEW k \in 1..m PROVE reached[k - 1] = s[a + k - 1]
  <2>1. k - 1 \in 0..n - 1 /\ k - 1 < m /\ a + (k - 1) = a + k - 1
    OBVIOUS
  <2> QED
    BY <1>5, <1>6, <2>1
<1> QED
  BY <1>1, <1>7, <1>8 DEF Part

\* The same for a whole order, which ends in Null.
Follows(s, a, b) == \A k \in a..b : next[s[k]] = At(s, k + 1)

\* The cells that are not in use point nowhere.
Unlinked == \A c \in Cell \ Used : next[c] = Null

\* The first cell in place, its tail behind it.
LEMMA Cons ==
  ASSUME NEW s, NEW n \in Nat, NEW k \in 1..n, \A j \in 1..n : s[j] \in Cell
  PROVE  /\ <<s[k]>> \o [j \in 1..n - k |-> s[k + j]] = [j \in 1..n - k + 1 |-> s[k + j - 1]]
         /\ <<s[k]>> \o <<>> = <<s[k]>>
<1> DEFINE one == <<s[k]>>
           t == [j \in 1..n - k |-> s[k + j]]
           u == [j \in 1..n - k + 1 |-> s[k + j - 1]]
<1>1. one \in Seq(Cell) /\ Len(one) = 1 /\ one[1] = s[k]
  OBVIOUS
<1>2. n - k \in Nat /\ \A j \in 1..n - k : k + j \in 1..n
  OBVIOUS
<1>3. t \in Seq(Cell) /\ Len(t) = n - k
  <2>1. t \in [1..n - k -> Cell]
    BY <1>2
  <2> QED
    BY <1>2, <2>1, LenProperties, ElementOfSeq
<1>4. u \in Seq(Cell) /\ Len(u) = n - k + 1
  <2>1. n - k + 1 \in Nat /\ \A j \in 1..n - k + 1 : k + j - 1 \in 1..n
    BY <1>2
  <2>2. u \in [1..n - k + 1 -> Cell]
    BY <2>1
  <2> QED
    BY <2>1, <2>2, LenProperties, ElementOfSeq
<1>5. /\ one \o t \in Seq(Cell)
      /\ Len(one \o t) = 1 + (n - k)
      /\ \A j \in 1..1 + (n - k) : (one \o t)[j] = IF j <= 1 THEN one[j] ELSE t[j - 1]
  <2>1. Len(one) \in Nat /\ Len(t) \in Nat
    BY <1>1, <1>2, <1>3
  <2> HIDE DEF one, t
  <2>2. /\ one \o t \in Seq(Cell)
        /\ Len(one \o t) = Len(one) + Len(t)
        /\ \A j \in 1..Len(one) + Len(t) :
             (one \o t)[j] = IF j <= Len(one) THEN one[j] ELSE t[j - Len(one)]
    BY <1>1, <1>3, ConcatProperties
  <2> QED
    BY <1>1, <1>3, <2>2
<1>6. \A j \in 1..1 + (n - k) : (one \o t)[j] = u[j]
  <2> TAKE j \in 1..1 + (n - k)
  <2>1. j \in 1..n - k + 1 /\ u[j] = s[k + j - 1]
    BY <1>2
  <2>2. CASE j = 1
    <3>1. k + j - 1 = k
      BY <2>2
    <3> QED
      BY <1>1, <1>5, <2>1, <2>2, <3>1
  <2>3. CASE j # 1
    <3>1. j - 1 \in 1..n - k /\ k + (j - 1) = k + j - 1 /\ ~(j <= 1)
      BY <1>2, <2>3
    <3> QED
      BY <1>5, <2>1, <3>1
  <2> QED
    BY <2>2, <2>3
<1>7. one \o t = u
  <2>1. Len(one \o t) = Len(u)
    BY <1>2, <1>4, <1>5
  <2> HIDE DEF one, t, u
  <2> QED
    BY <1>4, <1>5, <1>6, <2>1, SeqEqual
<1> QED
  BY <1>1, <1>7, ConcatEmptySeq

\* Chain lists the cells in order.
LEMMA ChainIs ==
  ASSUME NEW s, Order(s), Follows(s, 1, free), Unlinked,
         free \in Nat \ {0}, Used \subseteq Cell
  PROVE  Chain(s[1]) = s
<1> DEFINE from[d \in Cell \cup {Null}] == IF d = Null THEN <<>> ELSE <<d>> \o from[next[d]]
           place(d) == CHOOSE k \in 1..free : s[k] = d
           rest(k) == [j \in 1..free - k + 1 |-> s[k + j - 1]]
           g == [d \in Cell \cup {Null} |->
                   IF d = Null THEN <<>> ELSE IF d \in Used THEN rest(place(d)) ELSE <<d>>]
<1>1. Chain(s[1]) = from[s[1]]
  BY DEF Chain
<1>2. Null \notin Cell
  BY NullAssumption DEF Cell
<1>3. \A k \in 1..free : s[k] \in Used /\ s[k] \in Cell /\ place(s[k]) = k
  BY DEF Order
<1>4. ASSUME NEW k \in 1..free PROVE g[s[k]] = rest(k) /\ g[s[k]] = <<s[k]>> \o g[next[s[k]]]
  <2>1. g[s[k]] = rest(k)
    BY <1>2, <1>3
  <2>2. CASE k = free
    <3>1. next[s[k]] = Null /\ g[Null] = <<>>
      BY <2>2 DEF Follows, At
    <3>2. rest(k) = <<s[k]>>
      BY <2>2, <1>3
    <3>3. <<s[k]>> \o <<>> = <<s[k]>>
      BY <1>3, Cons
    <3> HIDE DEF g, rest
    <3> QED
      BY <2>1, <3>1, <3>2, <3>3
  <2>3. CASE k # free
    <3>1. k + 1 \in 1..free /\ next[s[k]] = s[k + 1]
      BY <2>3 DEF Follows, At
    <3>2. g[next[s[k]]] = rest(k + 1)
      <4>1. g[s[k + 1]] = rest(place(s[k + 1])) /\ place(s[k + 1]) = k + 1
        <5>1. s[k + 1] \in Used /\ s[k + 1] \in Cell /\ place(s[k + 1]) = k + 1
          BY <3>1, <1>3
        <5> HIDE DEF rest, place
        <5> QED
          BY <5>1, <1>2
      <4> HIDE DEF g, rest, place
      <4> QED
        BY <3>1, <4>1
    <3>3. rest(k + 1) = [j \in 1..free - k |-> s[k + j]]
      <4>1. 1..free - (k + 1) + 1 = 1..free - k
        BY <3>1
      <4>2. \A j \in 1..free - k : (k + 1) + j - 1 = k + j
        BY <3>1
      <4> QED
        BY <4>1, <4>2
    <3>4. free \in Nat /\ \A j \in 1..free : s[j] \in Cell
      BY <1>3
    <3> HIDE DEF g
    <3> QED
      BY <2>1, <3>2, <3>3, <3>4, Cons
  <2> QED
    BY <2>1, <2>2, <2>3
<1>5. ASSUME NEW d \in Cell \cup {Null}
      PROVE  g[d] = IF d = Null THEN <<>> ELSE <<d>> \o g[next[d]]
  <2>1. CASE d \in Used
    <3>1. PICK k \in 1..free : s[k] = d
      BY <2>1 DEF Order
    <3>2. d # Null
      BY <2>1, <1>2
    <3> HIDE DEF g
    <3> QED
      BY <1>4, <3>1, <3>2
  <2>2. CASE d = Null
    BY <2>2
  <2>3. CASE d \in Cell /\ d \notin Used
    <3>1. next[d] = Null /\ g[Null] = <<>> /\ g[d] = <<d>> /\ d # Null
      BY <2>3, <1>2 DEF Unlinked
    <3>2. <<d>> \o <<>> = <<d>>
      <4>1. <<d>> \in Seq(Cell)
        BY <2>3
      <4> QED
        BY <4>1, ConcatEmptySeq
    <3> QED
      BY <3>1, <3>2
  <2> QED
    BY <2>1, <2>2, <2>3
<1>6. g = [d \in Cell \cup {Null} |-> IF d = Null THEN <<>> ELSE <<d>> \o g[next[d]]]
  <2>1. g = [d \in Cell \cup {Null} |-> g[d]]
    OBVIOUS
  <2> HIDE DEF g
  <2> QED
    BY <1>5, <2>1
<1> HIDE DEF g
<1>7. from = [d \in Cell \cup {Null} |-> IF d = Null THEN <<>> ELSE <<d>> \o from[next[d]]]
  BY <1>6
<1> HIDE DEF from
<1>8. \A k \in 1..free : from[s[k]] = g[s[k]]
  <2> DEFINE P == {n \in Nat : free - n \in 1..free => from[s[free - n]] = g[s[free - n]]}
  <2>1. ASSUME NEW k \in 1..free, from[next[s[k]]] = g[next[s[k]]]
        PROVE  from[s[k]] = g[s[k]]
    <3>1. s[k] \in Cell \cup {Null} /\ s[k] # Null
      BY <1>2, <1>3
    <3>2. from[s[k]] = <<s[k]>> \o from[next[s[k]]]
      BY <1>7, <3>1
    <3>3. g[s[k]] = <<s[k]>> \o g[next[s[k]]]
      BY <1>6, <3>1
    <3> QED
      BY <2>1, <3>2, <3>3
  <2>2. from[Null] = g[Null]
    BY <1>6, <1>7
  <2>3. 0 \in P
    <3>1. free - 0 = free /\ next[s[free]] = Null
      BY DEF Follows, At
    <3> QED
      BY <2>1, <2>2, <3>1
  <2>4. ASSUME NEW n \in Nat, n \in P PROVE n + 1 \in P
    <3> SUFFICES ASSUME free - (n + 1) \in 1..free
                 PROVE  from[s[free - (n + 1)]] = g[s[free - (n + 1)]]
      OBVIOUS
    <3>1. free - n \in 1..free /\ (free - (n + 1)) + 1 = free - n
      OBVIOUS
    <3>2. next[s[free - (n + 1)]] = s[free - n]
      BY <3>1 DEF Follows, At
    <3>3. from[s[free - n]] = g[s[free - n]]
      BY <2>4, <3>1
    <3> QED
      BY <2>1, <3>2, <3>3
  <2> HIDE DEF P
  <2>5. Nat \subseteq P
    BY <2>3, <2>4, Induction
  <2>6. ASSUME NEW k \in 1..free PROVE from[s[k]] = g[s[k]]
    <3>1. free - k \in Nat /\ free - (free - k) = k
      OBVIOUS
    <3>2. free - k \in P
      BY <2>5, <3>1
    <3> QED
      BY <3>1, <3>2 DEF P
  <2> QED
    BY <2>6
<1>9. rest(1) = s
  <2>1. s = [k \in 1..free |-> s[k]]
    BY DEF Order
  <2>2. free - 1 + 1 = free /\ \A j \in 1..free : 1 + j - 1 = j
    OBVIOUS
  <2> QED
    BY <2>1, <2>2
<1>10. 1 \in 1..free
  OBVIOUS
<1> HIDE DEF rest
<1> QED
  BY <1>1, <1>4, <1>8, <1>9, <1>10

\* What is found is a cell of the list, or nothing.
LEMMA FindIs ==
  ASSUME NEW s, Order(s), Follows(s, 1, free), Unlinked,
         free \in Nat \ {0}, Used \subseteq Cell, list = s[1],
         NEW wanted, NEW byte
  PROVE  Find(wanted, byte) \in Used \cup {Null}
<1> DEFINE hit(c) == IF wanted >= 0 THEN idx[info[c]] = wanted ELSE data[info[c]] % 256 = byte
           from[d \in Cell \cup {Null}] ==
             IF d = Null THEN Null ELSE IF hit(d) THEN d ELSE from[next[d]]
           H(k) == {j \in k..free : hit(s[j])}
           first(k) == CHOOSE j \in H(k) : \A h \in H(k) : j <= h
           place(d) == CHOOSE k \in 1..free : s[k] = d
           answer(k) == IF H(k) = {} THEN Null ELSE s[first(k)]
           g == [d \in Cell \cup {Null} |->
                   IF d \in Used THEN answer(place(d)) ELSE IF d # Null /\ hit(d) THEN d ELSE Null]
<1>1. Find(wanted, byte) = from[s[1]]
  BY DEF Find
<1> HIDE DEF hit
<1>2. Null \notin Cell /\ Null \notin Used
  BY NullAssumption DEF Cell, Used
<1>3. \A k \in 1..free : s[k] \in Used /\ s[k] \in Cell /\ place(s[k]) = k
  BY DEF Order
<1>4. ASSUME NEW k \in 1..free, H(k) # {}
      PROVE  first(k) \in H(k) /\ \A j \in H(k) : first(k) <= j
  <2>1. H(k) \in SUBSET Nat
    OBVIOUS
  <2>2. \E j \in H(k) : \A m \in H(k) : j <= m
    BY <1>4, <2>1, LeastExists
  <2> HIDE DEF H
  <2> QED
    BY <2>2
<1>5. ASSUME NEW k \in 1..free
      PROVE  answer(k) = IF hit(s[k]) THEN s[k] ELSE IF k = free THEN Null ELSE answer(k + 1)
  <2>1. CASE hit(s[k])
    <3>1. k \in H(k) /\ \A j \in H(k) : k <= j
      BY <2>1
    <3>2. first(k) \in H(k) /\ first(k) <= k
      BY <1>4, <3>1
    <3>3. first(k) = k
      BY <3>1, <3>2
    <3> QED
      BY <2>1, <3>1, <3>3
  <2>2. CASE ~hit(s[k]) /\ k = free
    <3>1. H(k) = {}
      BY <2>2
    <3> QED
      BY <2>2, <3>1
  <2>3. CASE ~hit(s[k]) /\ k # free
    <3>1. H(k) = H(k + 1) /\ k + 1 \in 1..free
      BY <2>3
    <3>2. first(k) = first(k + 1)
      BY <3>1
    <3> HIDE DEF H, first
    <3> QED
      BY <2>3, <3>1, <3>2
  <2> QED
    BY <2>1, <2>2, <2>3
<1>6. \A k \in 1..free : g[s[k]] = answer(k)
  <2> TAKE k \in 1..free
  <2>1. g[s[k]] = answer(place(s[k])) /\ place(s[k]) = k
    BY <1>3
  <2> HIDE DEF answer, place, g
  <2> QED
    BY <2>1
<1>7. \A d \in Cell \cup {Null} : d \notin Used => g[d] = IF d # Null /\ hit(d) THEN d ELSE Null
  OBVIOUS
<1>8. g = [d \in Cell \cup {Null} |-> g[d]]
  OBVIOUS
<1> HIDE DEF answer, g, place
<1>9. ASSUME NEW d \in Cell \cup {Null}
      PROVE  g[d] = IF d = Null THEN Null ELSE IF hit(d) THEN d ELSE g[next[d]]
  <2>1. CASE d \in Used
    <3>1. PICK k \in 1..free : s[k] = d
      BY <2>1 DEF Order
    <3>2. CASE k = free
      <4>1. next[d] = Null /\ g[Null] = Null
        BY <1>2, <1>7, <3>1, <3>2 DEF Follows, At
      <4> QED
        BY <1>2, <1>3, <1>5, <1>6, <3>1, <3>2, <4>1
    <3>3. CASE k # free
      <4>1. k + 1 \in 1..free /\ next[d] = s[k + 1]
        BY <3>1, <3>3 DEF Follows, At
      <4> QED
        BY <1>2, <1>3, <1>5, <1>6, <3>1, <3>3, <4>1
    <3> QED
      BY <3>2, <3>3
  <2>2. CASE d = Null
    BY <1>2, <1>7, <2>2
  <2>3. CASE d \in Cell /\ d \notin Used
    <3>1. next[d] = Null /\ g[Null] = Null /\ d # Null
      BY <1>2, <1>7, <2>3 DEF Unlinked
    <3> QED
      BY <1>7, <2>3, <3>1
  <2> QED
    BY <2>1, <2>2, <2>3
<1>10. g = [d \in Cell \cup {Null} |-> IF d = Null THEN Null ELSE IF hit(d) THEN d ELSE g[next[d]]]
  BY <1>8, <1>9
<1>11. from = [d \in Cell \cup {Null} |->
                 IF d = Null THEN Null ELSE IF hit(d) THEN d ELSE from[next[d]]]
  BY <1>10
<1> HIDE DEF from
<1> DEFINE P == {n \in Nat : free - n \in 1..free => from[s[free - n]] \in Used \cup {Null}}
<1>12. ASSUME NEW k \in 1..free, from[next[s[k]]] \in Used \cup {Null}
       PROVE  from[s[k]] \in Used \cup {Null}
  <2>1. from[s[k]] = IF hit(s[k]) THEN s[k] ELSE from[next[s[k]]]
    BY <1>2, <1>3, <1>11
  <2> QED
    BY <1>3, <1>12, <2>1
<1>13. 0 \in P
  <2>1. free - 0 = free /\ next[s[free]] = Null
    BY DEF Follows, At
  <2>2. from[Null] = Null
    BY <1>11
  <2> QED
    BY <1>12, <2>1, <2>2
<1>14. ASSUME NEW n \in Nat, n \in P PROVE n + 1 \in P
  <2> SUFFICES ASSUME free - (n + 1) \in 1..free
               PROVE  from[s[free - (n + 1)]] \in Used \cup {Null}
    OBVIOUS
  <2>1. free - n \in 1..free /\ (free - (n + 1)) + 1 = free - n
    OBVIOUS
  <2>2. next[s[free - (n + 1)]] = s[free - n]
    BY <2>1 DEF Follows, At
  <2>3. from[s[free - n]] \in Used \cup {Null}
    BY <1>14, <2>1
  <2> QED
    BY <1>12, <2>2, <2>3
<1> HIDE DEF P
<1>15. Nat \subseteq P
  BY <1>13, <1>14, Induction
<1>16. free - 1 \in P /\ free - (free - 1) = 1
  BY <1>15
<1> QED
  BY <1>1, <1>16 DEF P

\* A split steps over the insize cells from place x + 1 on, or all there are.
LEMMA SplitIs ==
  ASSUME NEW s, Order(s), free \in Nat, NEW x \in 0..free - 1, Follows(s, x + 1, free),
         sort.p = s[x + 1], sort.insize \in Nat \ {0}, Split
  PROVE  LET m == IF sort.insize <= free - x THEN sort.insize ELSE free - x
         IN  sort' = [sort EXCEPT !.nmerges = @ + 1, !.psize = m,
                                  !.q = At(s, x + m + 1), !.qsize = sort.insize]
<1> DEFINE step[k \in Nat] ==
             IF k = 0 THEN sort.p
             ELSE LET q == step[k - 1] IN IF q = Null THEN Null ELSE next[q]
           n == sort.insize
           m == IF n <= free - x THEN n ELSE free - x
           psize == CHOOSE k \in 1..n :
                      /\ k = n \/ step[k] = Null
                      /\ \A j \in 1..k - 1 : step[j] # Null
           g == [k \in Nat |-> At(s, x + k + 1)]
<1>1. sort' = [sort EXCEPT !.nmerges = @ + 1, !.psize = psize,
                           !.q = step[psize], !.qsize = sort.insize]
  BY DEF Split
<1>2. \A k \in 1..free : s[k] \in Used /\ s[k] # Null
  BY NullAssumption DEF Order, Used
<1>3. ASSUME NEW k \in Nat
      PROVE  g[k] = IF k = 0 THEN sort.p
                    ELSE LET q == g[k - 1] IN IF q = Null THEN Null ELSE next[q]
  <2>1. CASE k = 0
    BY <2>1 DEF At
  <2>2. CASE k # 0
    <3>1. k - 1 \in Nat /\ x + (k - 1) + 1 = x + k
      BY <2>2
    <3>2. g[k - 1] = At(s, x + k) /\ g[k] = At(s, x + k + 1)
      BY <3>1
    <3>3. CASE x + k \in 1..free
      <4>1. g[k - 1] = s[x + k] /\ s[x + k] # Null /\ x + k \in x + 1..free
        BY <1>2, <2>2, <3>2, <3>3 DEF At
      <4>2. next[s[x + k]] = At(s, x + k + 1)
        BY <4>1 DEF Follows
      <4> QED
        BY <2>2, <3>2, <4>1, <4>2
    <3>4. CASE ~(x + k \in 1..free)
      <4>1. ~(x + k + 1 \in 1..free)
        BY <2>2, <3>4
      <4> QED
        BY <2>2, <3>2, <3>4, <4>1 DEF At
    <3> QED
      BY <3>3, <3>4
  <2> QED
    BY <2>1, <2>2
<1>4. g = [k \in Nat |-> IF k = 0 THEN sort.p
             ELSE LET q == g[k - 1] IN IF q = Null THEN Null ELSE next[q]]
  BY <1>3
<1>5. \A k \in Nat : g[k] = At(s, x + k + 1)
  OBVIOUS
<1> HIDE DEF g
<1>6. step = [k \in Nat |-> IF k = 0 THEN sort.p
                ELSE LET q == step[k - 1] IN IF q = Null THEN Null ELSE next[q]]
  BY <1>4
<1> HIDE DEF step
<1>7. \A k \in Nat : step[k] = At(s, x + k + 1)
  <2> DEFINE P == {k \in Nat : step[k] = g[k]}
  <2>1. 0 \in P
    BY <1>4, <1>6
  <2>2. ASSUME NEW k \in Nat, k \in P PROVE k + 1 \in P
    <3>1. k + 1 \in Nat /\ k + 1 # 0 /\ (k + 1) - 1 = k
      OBVIOUS
    <3> QED
      BY <1>4, <1>6, <2>2, <3>1
  <2> HIDE DEF P
  <2>3. Nat \subseteq P
    BY <2>1, <2>2, Induction
  <2> QED
    BY <1>5, <2>3 DEF P
<1>8. m \in 1..n /\ m <= free - x
  OBVIOUS
<1>9. \A k \in 1..free - x - 1 : step[k] # Null
  <2> TAKE k \in 1..free - x - 1
  <2>1. x + k + 1 \in 1..free
    OBVIOUS
  <2> QED
    BY <1>2, <1>7, <2>1 DEF At
<1>10. step[free - x] = Null
  BY <1>7 DEF At
<1>11. psize = m
  <2>1. m = n \/ step[m] = Null
    BY <1>10
  <2>2. \A j \in 1..m - 1 : step[j] # Null
    BY <1>8, <1>9
  <2>3. ASSUME NEW k \in 1..n, k = n \/ step[k] = Null, \A j \in 1..k - 1 : step[j] # Null
        PROVE  k = m
    <3>1. ~(k < m)
      BY <2>2, <2>3, <1>8
    <3>2. ~(m < k)
      BY <2>1, <2>3, <1>8
    <3> QED
      BY <3>1, <3>2, <1>8
  <2> HIDE DEF m
  <2> QED
    BY <1>8, <2>1, <2>2, <2>3
<1>12. m \in Nat
  BY <1>8
<1> HIDE DEF psize, m, n
<1>13. step[psize] = At(s, x + m + 1)
  BY <1>7, <1>11, <1>12
<1>14. sort' = [sort EXCEPT !.nmerges = @ + 1, !.psize = m,
                            !.q = At(s, x + m + 1), !.qsize = sort.insize]
  BY <1>1, <1>11, <1>13
<1> QED
  BY <1>14 DEF m, n

-----------------------------------------------------------------------------
(* The list in every state of the program.  s is an order of the used cells *)
(* throughout, x a place in it.                                             *)

\* The program runs one of the builds.
Input == \E b \in Builds : run = Inputs(b)

\* Each cell has the data item of its own number, and the item its idx.
Own == [c \in Cell |-> IF c < free THEN c ELSE 0]

\* The idx of cell c: 32767 of the tail, 0 of the head, its number in between.
Key(c) == IF c = 1 THEN 32767
          ELSE IF c \in 2..free - 1 THEN InitialIdx(free - c, ListSize, run.seed1) ELSE 0

Keys == [c \in Cell |-> Key(c)]

\* Sorted by idx.
Ascends(s) == \A k \in 1..free - 1 : Key(s[k]) <= Key(s[k + 1])

\* The places a to b hold ascending runs of n cells, counted from place e.
Runs(s, a, b, e, n) == \A k \in a..b - 1 : (k - e) % n # 0 => Key(s[k]) <= Key(s[k + 1])

\* The list is s.
Listed(s) == Order(s) /\ list = s[1] /\ Follows(s, 1, free)

\* Newer cells are nearer to the head.
InsertOrder == [k \in 1..free |-> IF k = 1 THEN 0 ELSE free + 1 - k]

\* A cell for every turn of the loop, as long as there are any.
Inserting ==
  /\ i \in 0..ListSize + 1
  /\ free = IF i + 1 < ListSize - 1 THEN i + 1 ELSE ListSize - 1
  /\ list = 0 /\ Follows(InsertOrder, 1, free)
  /\ idx = [d \in Cell |-> IF d \in 1..free - 1 THEN 32767 ELSE 0]

\* The x cells that are merged.
Joined(s, x) ==
  /\ x = 0 => sort.head = Null /\ sort.tail = Null
  /\ x > 0 => sort.head = s[1] /\ sort.tail = s[x]
  /\ \A k \in 1..x - 1 : next[s[k]] = s[k + 1]

\* Before a split x cells are merged, in runs of twice insize, and p goes on behind
\* them, in runs of insize.  With no merge in this pass there are none yet, with one
\* at most two runs.
Splitting(s, x) ==
  /\ Order(s) /\ x \in 0..free
  /\ Joined(s, x)
  /\ sort.p = At(s, x + 1) /\ Follows(s, x + 1, free)
  /\ sort.nmerges = 0 => x = 0
  /\ sort.nmerges <= 1 => x <= 2 * sort.insize
  /\ sort.cmp = "idx" =>
       /\ x % (2 * sort.insize) = 0 \/ x = free
       /\ Runs(s, 1, x, 0, 2 * sort.insize)
       /\ Runs(s, x + 1, free, x, sort.insize)

\* The cells of p follow the merged ones, and those of q follow p's.  The
\* two runs end at place e.
Merging(s, x) ==
  LET z == x + sort.psize + 1
      e == x + sort.psize + sort.qsize
  IN  /\ Order(s) /\ x \in 0..free /\ z - 1 <= free /\ sort.qsize <= sort.insize
      /\ Joined(s, x)
      /\ sort.psize > 0 => sort.p = s[x + 1]
      /\ \A k \in x + 1..z - 2 : next[s[k]] = s[k + 1]
      /\ sort.q = At(s, z) /\ Follows(s, z, free)
      /\ sort.nmerges >= 1
      /\ sort.nmerges = 1 => e <= 2 * sort.insize
      /\ sort.cmp = "idx" =>
           /\ e % (2 * sort.insize) = 0 \/ z - 1 = free
           /\ Runs(s, 1, x, 0, 2 * sort.insize)
           /\ \A k \in x + 1..z - 2 : Key(s[k]) <= Key(s[k + 1])
           /\ Runs(s, z, free, e, sort.insize)
           /\ x % (2 * sort.insize) # 0 =>
                /\ sort.psize > 0 => Key(s[x]) <= Key(s[x + 1])
                /\ sort.qsize > 0 /\ z <= free => Key(s[x]) <= Key(s[z])

\* The first x cells of s are still to be reversed, and lead back.
Reversing(s, x) ==
  /\ Order(s) /\ x \in 0..free
  /\ list = IF x = 0 THEN Null ELSE s[x]
  /\ \A k \in 1..x : next[s[k]] = IF k = 1 THEN Null ELSE s[k - 1]
  /\ bench.rev = At(s, x + 1) /\ Follows(s, x + 1, free)

\* The last cell of s is the removed one, and has exchanged its item.
Removed(s) ==
  /\ Order(s) /\ list = s[1] /\ bench.removed = s[free]
  /\ \A k \in 1..free : next[s[k]] = IF k < free - 1 THEN s[k + 1] ELSE Null
  /\ info = [Own EXCEPT ![s[2]] = s[free], ![s[free]] = s[2]]

\* What iterate starts from, and comes back to.
Original(s) ==
  /\ Order(s) /\ Ascends(s)
  /\ orig.list = s[1] /\ res.list = s[1]
  /\ orig.heap[1] \in [Cell -> Cell \cup {Null}]
  /\ \A k \in 1..free : orig.heap[1][s[k]] = At(s, k + 1)
  /\ \A c \in Cell \ Used : orig.heap[1][c] = Null
  /\ orig.heap[2] = Own /\ orig.heap[3] = Keys

\* What a pointer to a cell may be.
Pointer == Cell \cup {Null}

\* The locals of core_list_mergesort.
SortLocals ==
  [cmp : {"idx", "complex"}, head : Pointer, p : Pointer, q : Pointer, tail : Pointer,
   insize : Nat \ {0}, nmerges : Nat, psize : Nat, qsize : Nat]

\* The variables that a step may leave alone: their types, the items outside of the
\* removal, the sort that is called for, the hit of the last search.
Registers ==
  /\ next \in [Cell -> Pointer] /\ Unlinked
  /\ sort \in SortLocals
  /\ DOMAIN bench = {"finder", "wanted", "found", "missed", "retval", "hit", "rev", "removed"}
  /\ DOMAIN res = {"list", "crclist"}
  /\ pc # "undo" => info = Own
  /\ pc # "insert" => free = ListSize - 1 /\ idx = Keys
  /\ pc \in {"split", "merge"} =>
       <<back, sort.cmp>> \in {<<"ready", "idx">>, <<"finish", "idx">>, <<"remove", "complex">>}
  /\ pc \in {"reverse", "move"} => bench.hit \in Used \cup {Null}

\* core_bench_list has been called and has not been left.
InKernel ==
  \/ pc \in {"search", "reverse", "move", "remove", "undo", "finish", "returned"}
  \/ pc \in {"split", "merge"} /\ back # "ready"

\* The values of pc.
Places == {"insert", "split", "merge", "ready", "search", "reverse", "move", "remove", "undo",
           "finish", "returned", "verdict", "done"}

\* The order for each value of pc.
Shape ==
  /\ pc \in Places
  /\ pc = "insert" => Inserting
  /\ pc = "split" => \E s, x : Splitting(s, x)
  /\ pc = "merge" => \E s, x : Merging(s, x)
  /\ pc = "reverse" => \E s, x : Reversing(s, x)
  /\ pc = "undo" => \E s : Removed(s)
  /\ pc \in {"search", "move", "remove"} => \E s : Listed(s)
  /\ pc \in {"ready", "finish", "returned"} => \E s : Listed(s) /\ Ascends(s)
  /\ pc \in {"verdict", "done"} => \E s : Listed(s)
  /\ InKernel => \E s : Original(s)

\* The inductive invariant of the list.
ListInv == Input /\ Registers /\ Shape

-----------------------------------------------------------------------------
(* Remainders.                                                              *)

\* The first place begins a run of any length.
LEMMA ZeroRemainder == ASSUME NEW m \in Nat \ {0} PROVE 0 % m = 0
  BY SMT

\* No place within a run begins one.
LEMMA NonzeroRemainder ==
  ASSUME NEW m \in Nat \ {0}, NEW a \in Int, (0 < a /\ a < m) \/ (-m < a /\ a < 0)
  PROVE  a % m # 0
<1> DEFINE q == a \div m
<1>1. a % m = 0 => a = q * m /\ q \in Int
  BY SMT
<1> HIDE DEF q
<1>2. ASSUME q \in Int, a = q * m PROVE FALSE
  <2>1. CASE q <= -1
    <3>1. q * m <= -m
      BY <1>2, <2>1, SMT
    <3> QED
      BY <1>2, <2>1, <3>1
  <2>2. CASE q >= 1
    <3>1. q * m >= m
      BY <1>2, <2>2, SMT
    <3> QED
      BY <1>2, <2>2, <3>1
  <2>3. CASE q = 0
    BY <1>2, <2>3
  <2> QED
    BY <1>2, <2>1, <2>2, <2>3
<1> QED
  BY <1>1, <1>2

\* Two runs further on, the places lie in their runs as before.
LEMMA ShiftedRemainder ==
  ASSUME NEW m \in Nat \ {0}, NEW a \in Int
  PROVE  /\ (a - 2 * m) % m = a % m
         /\ (a + 2 * m) % (2 * m) = a % (2 * m)
<1>1. ASSUME NEW n \in Nat \ {0}, NEW c \in Int, NEW j \in Int, NEW d, d = c + j * n
      PROVE  d % n = c % n
  <2> DEFINE q == c \div n
             r == c % n
  <2>1. c = q * n + r /\ q \in Int /\ r \in Int /\ 0 <= r /\ r < n
    BY SMT
  <2> HIDE DEF q, r
  <2>2. d = (q + j) * n + r
    BY <1>1, <2>1, SMT
  <2>3. d % n = r
    BY <2>1, <2>2, SMT
  <2> QED
    BY <2>3 DEF r
<1> DEFINE l == a - 2 * m
           h == a + 2 * m
           w == 2 * m
           one == 1
           two == -2
<1>2. l = a + two * m /\ two \in Int
  BY SMT
<1>3. h = a + one * w /\ one \in Int /\ w \in Nat \ {0}
  BY SMT
<1> HIDE DEF l, h, w, one, two
<1>4. l % m = a % m
  BY <1>1, <1>2
<1>5. h % w = a % w
  BY <1>1, <1>3
<1> QED
  BY <1>4, <1>5 DEF l, h, w

-----------------------------------------------------------------------------
(* Sizes and numbers.                                                       *)

\* What the assumption about the builds says of the one that runs.
LEMMA Numbers ==
  ASSUME Input
  PROVE  /\ ListSize \in Nat /\ ListSize >= 4
         /\ run.seed3 \in Nat
         /\ \A k \in 1..ListSize - 3 : InitialIdx(k, ListSize, run.seed1) \in Nat \ {0}
<1>1. Startable(run)
  BY ListAssumption DEF Input
<1> QED
  BY <1>1 DEF Startable, ListSize

\* How many cells there are, and how many of them are in use.
LEMMA Sizes ==
  ASSUME Input, pc = "insert" => Inserting, pc # "insert" => free = ListSize - 1
  PROVE  /\ ListSize \in Nat /\ ListSize >= 4
         /\ free \in Nat \ {0} /\ free <= ListSize - 1
         /\ pc # "insert" => free >= 3
         /\ Used \subseteq Cell /\ Null \notin Cell /\ Null \notin Used /\ 0 \in Used
         /\ run.seed3 \in Nat
<1>2. ListSize \in Nat /\ ListSize >= 4 /\ run.seed3 \in Nat
  BY Numbers
<1>3. free \in Nat \ {0} /\ free <= ListSize - 1
  BY <1>2 DEF Inserting
<1>4. pc # "insert" => free >= 3
  BY <1>2
<1> QED
  BY <1>2, <1>3, <1>4, NullAssumption DEF Cell, Used

\* The head alone has idx 0.
LEMMA KeyType ==
  ASSUME Input, free = ListSize - 1
  PROVE  /\ Keys \in [Cell -> Int]
         /\ \A c \in Cell : Keys[c] = Key(c) /\ Key(c) \in Int
         /\ Key(0) = 0 /\ \A c \in Used : c # 0 => Key(c) > 0
<1> DEFINE number(k) == InitialIdx(k, ListSize, run.seed1)
<1>2. /\ ListSize \in Nat /\ ListSize >= 4
      /\ \A k \in 1..ListSize - 3 : number(k) \in Nat \ {0}
  BY Numbers, SMT
<1> HIDE DEF number
<1>3. \A c : Key(c) = IF c = 1 THEN 32767 ELSE IF c \in 2..free - 1 THEN number(free - c) ELSE 0
  BY DEF Key, number
<1>4. \A c \in 2..free - 1 : free - c \in 1..ListSize - 3
  BY <1>2
<1>5. \A c : Key(c) \in Int
  BY <1>2, <1>3, <1>4
<1>6. \A c \in 2..free - 1 : Key(c) \in Nat \ {0}
  BY <1>2, <1>3, <1>4
<1>7. Key(1) = 32767 /\ Key(0) = 0
  BY <1>3
<1>8. \A c \in Used : c # 0 => c = 1 \/ c \in 2..free - 1
  BY <1>2 DEF Used
<1>9. \A c \in Used : c # 0 => Key(c) > 0
  BY <1>6, <1>7, <1>8
<1> QED
  BY <1>5, <1>7, <1>9 DEF Keys

\* The sort by idx can tell all items apart.
LEMMA KeysDiffer ==
  ASSUME Input, free = ListSize - 1, Distinguishable(run)
  PROVE  \A c, d \in Used : Key(c) = Key(d) => c = d
<1> DEFINE number(k) == InitialIdx(k, ListSize, run.seed1)
<1>1. /\ ListSize \in Nat /\ ListSize >= 4
      /\ \A k \in 1..ListSize - 3 : number(k) \in Nat \ {0}
  BY Numbers, SMT
<1>2. /\ \A k \in 1..ListSize - 3 : number(k) < 32767
      /\ \A j, k \in 1..ListSize - 3 : number(j) = number(k) => j = k
  BY SMT DEF Distinguishable, ListSize
<1> HIDE DEF number
<1>3. \A c : Key(c) = IF c = 1 THEN 32767 ELSE IF c \in 2..free - 1 THEN number(free - c) ELSE 0
  BY DEF Key, number
<1>4. \A c \in 2..free - 1 : free - c \in 1..ListSize - 3
  BY <1>1
<1>6. \A c \in 2..free - 1 : Key(c) = number(free - c)
                                  /\ Key(c) \in Nat /\ 0 < Key(c) /\ Key(c) < 32767
  BY <1>1, <1>2, <1>3, <1>4
<1>7. Key(1) = 32767 /\ Key(0) = 0
  BY <1>3
<1>8. ASSUME NEW c \in Used, NEW d \in Used, Key(c) = Key(d) PROVE c = d
  <2>1. c \in 2..free - 1 \/ c = 0 \/ c = 1
    BY <1>1 DEF Used
  <2>2. d \in 2..free - 1 \/ d = 0 \/ d = 1
    BY <1>1 DEF Used
  <2>3. CASE c \in 2..free - 1 /\ d \in 2..free - 1
    <3>1. free - c = free - d
      BY <1>2, <1>4, <1>6, <1>8, <2>3
    <3> QED
      BY <1>1, <2>3, <3>1
  <2> QED
    BY <1>6, <1>7, <1>8, <2>1, <2>2, <2>3
<1> QED
  BY <1>8

\* What only depends on the inputs and the number of used cells.
LEMMA Same ==
  ASSUME run' = run, free' = free
  PROVE  /\ ListSize' = ListSize /\ Cell' = Cell /\ Pointer' = Pointer /\ Used' = Used
         /\ Own' = Own /\ Keys' = Keys /\ (Input' <=> Input)
         /\ \A s : (Order(s)' <=> Order(s)) /\ (Ascends(s)' <=> Ascends(s))
         /\ \A s, k : At(s, k)' = At(s, k)
         /\ \A c : Key(c)' = Key(c)
<1>1. ListSize' = ListSize /\ Used' = Used /\ (Input' <=> Input)
  BY DEF ListSize, Used, Input
<1>2. Cell' = Cell /\ Pointer' = Pointer
  BY <1>1 DEF Cell, Pointer
<1>3. \A c : Key(c)' = Key(c)
  BY <1>1 DEF Key
<1>4. Own' = Own /\ Keys' = Keys
  BY <1>2, <1>3 DEF Own, Keys
<1>5. \A s : (Order(s)' <=> Order(s)) /\ (Ascends(s)' <=> Ascends(s))
  BY <1>1, <1>3 DEF Order, Ascends
<1>6. \A s, k : At(s, k)' = At(s, k)
  BY DEF At
<1> QED
  BY <1>1, <1>2, <1>3, <1>4, <1>5, <1>6

\* What does not change with the links of the cells.
LEMMA SameChain ==
  ASSUME run' = run, free' = free, next' = next
  PROVE  /\ \A s, a, b : Follows(s, a, b)' <=> Follows(s, a, b)
         /\ Unlinked' <=> Unlinked
<1>1. /\ Cell' = Cell /\ Used' = Used
      /\ \A s, k : At(s, k)' = At(s, k)
  BY Same
<1> QED
  BY <1>1 DEF Follows, Unlinked

\* What iterate will come back to does not change while it is kept.
LEMMA SameOriginal ==
  ASSUME run' = run, free' = free, orig' = orig, res'.list = res.list
  PROVE  \A s : Original(s)' <=> Original(s)
<1>1. /\ Cell' = Cell /\ Pointer' = Pointer /\ Used' = Used /\ Own' = Own /\ Keys' = Keys
      /\ \A s : (Order(s)' <=> Order(s)) /\ (Ascends(s)' <=> Ascends(s))
      /\ \A s, k : At(s, k)' = At(s, k)
  BY Same
<1> QED
  BY <1>1 DEF Original

\* What holds wherever the list is complete.
LEMMA Facts ==
  ASSUME ListInv
  PROVE  /\ Input /\ Registers /\ Shape
         /\ ListSize \in Nat /\ ListSize >= 4
         /\ free \in Nat \ {0} /\ free <= ListSize - 1
         /\ pc # "insert" => free >= 3 /\ free = ListSize - 1 /\ idx = Keys
         /\ Used \subseteq Cell /\ Null \notin Cell /\ Null \notin Used /\ 0 \in Used
         /\ run.seed3 \in Nat
  BY Sizes DEF ListInv, Registers, Shape, Places

\* A sort starts with nothing merged.
LEMMA Begins ==
  ASSUME NEW s, Listed(s), free \in Nat \ {0}, Used \subseteq Cell,
         NEW cmp \in {"idx", "complex"}, NEW return, CallSort(list, cmp, return),
         next' = next, run' = run, free' = free
  PROVE  /\ Splitting(s, 0)' /\ sort' \in SortLocals'
         /\ pc' = "split" /\ back' = return /\ sort'.cmp = cmp
<1>1. /\ Pointer' = Pointer /\ Order(s)' /\ \A k : At(s, k)' = At(s, k)
      /\ Follows(s, 1, free)'
  BY Same, SameChain DEF Listed
<1>2. /\ sort' = [cmp |-> cmp, head |-> Null, p |-> list, q |-> Null, tail |-> Null,
                  insize |-> 1, nmerges |-> 0, psize |-> 0, qsize |-> 0]
      /\ pc' = "split" /\ back' = return
  BY DEF CallSort, SortFrom
<1>3. list = s[1] /\ list \in Cell /\ At(s, 1) = s[1]
  BY DEF Listed, Order, At
<1>4. sort' \in SortLocals'
  BY <1>1, <1>2, <1>3 DEF SortLocals, Pointer
<1>5. Joined(s, 0)'
  BY <1>2 DEF Joined
<1>6. Runs(s, 1, 0, 0, 2)' /\ 0 % 2 = 0
  BY DEF Runs
<1>7. Runs(s, 1, free, 0, 1)'
  <2>1. \A k \in Int : (k - 0) % 1 = 0
    BY SMT
  <2> QED
    BY <2>1 DEF Runs
<1>8. sort'.insize = 1 /\ 2 * 1 = 2 /\ 0 + 1 = 1
  BY <1>2
<1>9. /\ 0 \in 0..free' /\ sort'.p = At(s, 0 + 1)' /\ sort'.nmerges = 0
      /\ Follows(s, 0 + 1, free)'
  BY <1>1, <1>2, <1>3
<1>10. Splitting(s, 0)'
  BY <1>1, <1>5, <1>6, <1>7, <1>8, <1>9 DEF Splitting
<1> QED
  BY <1>2, <1>4, <1>10

-----------------------------------------------------------------------------
(* core_list_init.                                                          *)

\* The cells are inserted behind the head, each before the last one.
LEMMA InsertOrderIs ==
  ASSUME free \in Nat \ {0}
  PROVE  Order(InsertOrder) /\ InsertOrder[1] = 0
<1>1. InsertOrder \in [1..free -> Used]
  BY DEF InsertOrder, Used
<1>2. \A j, k \in 1..free : InsertOrder[j] = InsertOrder[k] => j = k
  BY DEF InsertOrder
<1>3. ASSUME NEW c \in Used PROVE \E k \in 1..free : InsertOrder[k] = c
  <2>1. CASE c = 0
    BY <2>1 DEF InsertOrder
  <2>2. CASE c # 0
    <3>1. free + 1 - c \in 1..free /\ free + 1 - c # 1 /\ free + 1 - (free + 1 - c) = c
      BY <2>2 DEF Used
    <3>2. InsertOrder[free + 1 - c] = c
      BY <3>1 DEF InsertOrder
    <3> QED
      BY <3>1, <3>2
  <2> QED
    BY <2>1, <2>2
<1>4. InsertOrder[1] = 0
  BY DEF InsertOrder
<1> QED
  BY <1>1, <1>2, <1>3, <1>4 DEF Order

\* The program starts with the head alone.
LEMMA InitShape == Init => ListInv
<1> SUFFICES ASSUME Init PROVE ListInv
  OBVIOUS
<1>1. Input
  BY DEF Init, Input
<1>2. ListSize \in Nat /\ ListSize >= 4
  BY <1>1, Numbers
<1>3. /\ next = [c \in Cell |-> Null] /\ info = [c \in Cell |-> 0]
      /\ idx  = [d \in Cell |-> 0] /\ list = 0 /\ free = 1 /\ i = 0
      /\ pc = "insert" /\ back = "ready" /\ sort = SortFrom(Null, "idx")
      /\ bench = [finder |-> 0, wanted |-> 0, found |-> 0, missed |-> 0,
                  retval |-> 0, hit |-> Null, rev |-> Null, removed |-> Null]
      /\ DOMAIN res = {"list", "crclist"}
  BY DEF Init
<1>4. info = Own
  BY <1>2, <1>3 DEF Own, Cell
<1>5. sort \in SortLocals
  BY <1>3 DEF SortFrom, SortLocals, Pointer
<1>6. next \in [Cell -> Pointer] /\ Unlinked
  BY <1>3 DEF Pointer, Unlinked
<1>7. DOMAIN bench = {"finder", "wanted", "found", "missed", "retval", "hit", "rev", "removed"}
  BY <1>3
<1>8. Registers
  BY <1>3, <1>4, <1>5, <1>6, <1>7 DEF Registers
<1>9. Inserting
  <2>1. Follows(InsertOrder, 1, free)
    BY <1>2, <1>3 DEF Follows, InsertOrder, At, Cell
  <2> QED
    BY <1>2, <1>3, <2>1 DEF Inserting
<1>10. Shape
  BY <1>3, <1>9 DEF Shape, Places, InKernel
<1> QED
  BY <1>1, <1>8, <1>10 DEF ListInv

\* A free cell is linked in behind the head, or the pool is used up.
LEMMA InsertStep ==
  ASSUME ListInv, Insert, UNCHANGED <<res, done, err, orig>>
  PROVE  ListInv'
<1>1. /\ Input /\ Registers /\ Inserting
      /\ ListSize \in Nat /\ ListSize >= 4 /\ free \in Nat \ {0} /\ free <= ListSize - 1
      /\ 0 \in Cell /\ Null \notin Cell
  BY Facts DEF Insert, Shape, Places
<1>2. /\ pc = "insert" /\ i <= ListSize /\ i' = i + 1
      /\ run' = run /\ list' = list /\ bench' = bench /\ sort' = sort
      /\ pc' = pc /\ back' = back
  BY DEF Insert
<1>3. Input' /\ ListSize' = ListSize /\ Cell' = Cell /\ Pointer' = Pointer
      /\ SortLocals' = SortLocals
  <2>1. Input' /\ ListSize' = ListSize
    BY <1>1, <1>2 DEF Input, ListSize
  <2>2. Cell' = Cell
    BY <2>1 DEF Cell
  <2>3. Pointer' = Pointer
    BY <2>2 DEF Pointer
  <2> QED
    BY <2>1, <2>2, <2>3 DEF SortLocals
<1>4. i \in 0..ListSize /\ i' \in 0..ListSize + 1
  BY <1>1, <1>2 DEF Inserting
<1>5. CASE free + 1 >= ListSize
  <2>1. /\ next' = next /\ info' = info /\ idx' = idx /\ free' = free
    BY <1>5 DEF Insert, heap
  <2>2. free' = IF i' + 1 < ListSize - 1 THEN i' + 1 ELSE ListSize - 1
    BY <1>1, <1>2, <1>4, <1>5, <2>1 DEF Inserting
  <2>3. /\ Follows(InsertOrder, 1, free)' /\ Unlinked' /\ Own' = Own
    <3>1. InsertOrder' = InsertOrder /\ Own' = Own
      BY <1>2, <2>1, Same DEF InsertOrder
    <3> QED
      BY <1>1, <1>2, <2>1, <3>1, SameChain DEF Inserting, Registers
  <2>4. idx' = [d \in Cell |-> IF d \in 1..free - 1 THEN 32767 ELSE 0] /\ list' = 0
    BY <1>1, <1>2, <2>1 DEF Inserting
  <2>5. Inserting'
    <3>1. idx' = [d \in Cell' |-> IF d \in 1..free' - 1 THEN 32767 ELSE 0]
      BY <1>3, <2>1, <2>4
    <3>2. i' \in 0..ListSize' + 1
      BY <1>3, <1>4
    <3>3. free' = IF i' + 1 < ListSize' - 1 THEN i' + 1 ELSE ListSize' - 1
      BY <1>3, <2>2
    <3>4. list' = 0 /\ Follows(InsertOrder, 1, free)'
      BY <2>3, <2>4
    <3> QED
      BY <3>1, <3>2, <3>3, <3>4 DEF Inserting
  <2>6. Registers'
    BY <1>1, <1>2, <1>3, <2>1, <2>3 DEF Registers
  <2> QED
    BY <1>2, <1>3, <2>5, <2>6 DEF ListInv, Shape, Places, InKernel
<1>6. CASE ~(free + 1 >= ListSize)
  <2>1. /\ next' = [next EXCEPT ![free] = next[0], ![0] = free]
        /\ info' = [info EXCEPT ![free] = free]
        /\ idx'  = [idx EXCEPT ![free] = ListItem.idx]
        /\ free' = free + 1
    BY <1>6 DEF Insert
  <2>2. /\ free = i + 1 /\ free \in Cell /\ free # 0
        /\ free' = IF i' + 1 < ListSize - 1 THEN i' + 1 ELSE ListSize - 1
    BY <1>1, <1>2, <1>4, <1>6, <2>1 DEF Inserting, Cell
  <2>3. /\ next \in [Cell -> Pointer] /\ info = Own
        /\ idx = [d \in Cell |-> IF d \in 1..free - 1 THEN 32767 ELSE 0]
        /\ list = 0
    BY <1>1, <1>2 DEF Registers, Inserting
  <2>4. ListItem.idx = 32767
    BY DEF ListItem
  <2>5. idx' = [d \in Cell |-> IF d \in 1..free' - 1 THEN 32767 ELSE 0]
    <3>1. idx' = [d \in Cell |-> IF d = free THEN 32767 ELSE idx[d]]
      BY <2>1, <2>3, <2>4
    <3>2. \A d \in Cell : d \in 1..free' - 1 <=> d = free \/ d \in 1..free - 1
      BY <1>1, <2>1, <2>2 DEF Cell
    <3>3. ASSUME NEW d \in Cell
          PROVE  (IF d = free THEN 32767 ELSE idx[d])
                   = IF d \in 1..free' - 1 THEN 32767 ELSE 0
      BY <2>3, <3>2
    <3> QED
      BY <3>1, <3>3
  <2>6. info' = [c \in Cell |-> IF c < free' THEN c ELSE 0]
    <3>1. info' = [c \in Cell |-> IF c = free THEN free ELSE info[c]]
      BY <2>1, <2>3 DEF Own
    <3>2. ASSUME NEW c \in Cell
          PROVE  (IF c = free THEN free ELSE info[c]) = IF c < free' THEN c ELSE 0
      <4>1. info[c] = IF c < free THEN c ELSE 0
        BY <2>3 DEF Own
      <4>2. c \in Nat
        BY <1>1 DEF Cell
      <4> QED
        BY <1>1, <2>1, <4>1, <4>2
    <3> QED
      BY <3>1, <3>2
  <2>7. /\ next' \in [Cell -> Pointer]
        /\ \A c \in Cell : next'[c] = IF c = 0 THEN free ELSE IF c = free THEN next[0] ELSE next[c]
    BY <1>1, <2>1, <2>2, <2>3 DEF Pointer
  <2>8. ASSUME NEW c \in Cell \ Used' PROVE next'[c] = Null
    <3>1. c \in Cell \ Used /\ c # 0 /\ c # free
      BY <1>1, <2>1 DEF Cell, Used
    <3> QED
      BY <1>1, <2>7, <3>1 DEF Registers, Unlinked
  <2>9. ASSUME NEW k \in 1..free + 1
        PROVE  next'[InsertOrder'[k]] = IF k + 1 \in 1..free + 1 THEN InsertOrder'[k + 1] ELSE Null
    <3>0. \A j \in 1..free + 1 : InsertOrder'[j] = IF j = 1 THEN 0 ELSE free + 2 - j
      BY <1>1, <2>1 DEF InsertOrder
    <3>1. \A j \in 1..free : InsertOrder[j] = IF j = 1 THEN 0 ELSE free + 1 - j
      BY DEF InsertOrder
    <3>2. \A j \in 1..free :
            next[InsertOrder[j]] = IF j + 1 \in 1..free THEN InsertOrder[j + 1] ELSE Null
      BY <1>1 DEF Inserting, Follows, At
    <3>3. CASE k = 1
      BY <1>1, <2>2, <2>7, <3>0, <3>3
    <3>4. CASE k = 2
      <4>1. InsertOrder'[2] = free /\ InsertOrder[1] = 0
        BY <1>1, <3>0, <3>1
      <4>2. next'[free] = IF 2 \in 1..free THEN InsertOrder[2] ELSE Null
        BY <1>1, <2>2, <2>7, <3>2, <4>1
      <4>3. 2 \in 1..free => InsertOrder[2] = free - 1 /\ InsertOrder'[3] = free - 1
        BY <1>1, <3>0, <3>1
      <4>4. 2 \in 1..free <=> 3 \in 1..free + 1
        BY <1>1
      <4> QED
        BY <3>4, <4>1, <4>2, <4>3, <4>4
    <3>5. CASE k > 2
      <4>1. k - 1 \in 1..free /\ k - 1 # 1 /\ free + 1 - (k - 1) = free + 2 - k
        BY <1>1, <3>5
      <4>2. InsertOrder'[k] = InsertOrder[k - 1] /\ InsertOrder'[k] = free + 2 - k
        BY <1>1, <3>0, <3>1, <3>5, <4>1
      <4>3. free + 2 - k \in Cell /\ free + 2 - k # 0 /\ free + 2 - k # free
        BY <1>1, <3>5 DEF Cell
      <4>4. next'[InsertOrder'[k]] = IF k \in 1..free THEN InsertOrder[k] ELSE Null
        <5>1. (k - 1) + 1 = k
          OBVIOUS
        <5> QED
          BY <2>7, <3>2, <4>1, <4>2, <4>3, <5>1
      <4>5. k \in 1..free <=> k + 1 \in 1..free + 1
        BY <1>1
      <4>6. k \in 1..free => InsertOrder[k] = InsertOrder'[k + 1]
        BY <1>1, <3>0, <3>1, <3>5
      <4> QED
        BY <4>4, <4>5, <4>6
    <3> QED
      BY <1>1, <3>3, <3>4, <3>5
  <2>10. Follows(InsertOrder, 1, free)'
    BY <2>1, <2>9 DEF Follows, At
  <2>11. Inserting'
    BY <1>2, <1>3, <1>4, <2>2, <2>3, <2>5, <2>10 DEF Inserting
  <2>12. info' = Own' /\ Unlinked'
    BY <1>3, <2>6, <2>8 DEF Own, Unlinked
  <2>13. Registers'
    BY <1>1, <1>2, <1>3, <2>7, <2>12 DEF Registers
  <2> QED
    BY <1>2, <1>3, <2>11, <2>13 DEF ListInv, Shape, Places, InKernel
<1> QED
  BY <1>5, <1>6

\* The items get their idx in list order, and the sort by idx starts.
LEMMA IndexStep ==
  ASSUME ListInv, Index, UNCHANGED <<res, done, err, orig>>
  PROVE  ListInv'
<1>0. PICK s : s = InsertOrder
  OBVIOUS
<1> DEFINE items == {info[s[k]] : k \in 2..Len(s) - 1}
           place(d) == CHOOSE k \in 1..Len(s) : info[s[k]] = d
<1>1. /\ Input /\ Registers /\ Inserting
      /\ ListSize \in Nat /\ ListSize >= 4 /\ free \in Nat \ {0} /\ free <= ListSize - 1
      /\ Used \subseteq Cell /\ Null \notin Cell
  BY Facts DEF Index, Shape, Places
<1>2. /\ pc = "insert" /\ i > ListSize
      /\ run' = run /\ next' = next /\ info' = info /\ list' = list /\ bench' = bench
      /\ free' = free /\ CallSort(list, "idx", "ready")
  BY DEF Index, loop
<1>3. free = ListSize - 1 /\ list = 0 /\ Follows(s, 1, free) /\ Unlinked /\ info = Own
  BY <1>0, <1>1, <1>2 DEF Inserting, Registers
<1>4. Order(s) /\ s[1] = 0 /\ Len(s) = free
  <2>1. s \in [1..free -> Used]
    BY <1>0, <1>1, InsertOrderIs DEF Order
  <2> QED
    BY <1>0, <1>1, <2>1, InsertOrderIs, LenProperties
<1>5. Chain(list) = s
  BY <1>1, <1>3, <1>4, ChainIs
<1>6. idx' = [d \in Cell |-> IF d \in items
                             THEN InitialIdx(place(d) - 1, ListSize, run.seed1) ELSE idx[d]]
  BY <1>5 DEF Index
<1>7. \A k \in 1..free : info[s[k]] = s[k] /\ s[k] = IF k = 1 THEN 0 ELSE free + 1 - k
  <2>1. \A k \in 1..free : s[k] = IF k = 1 THEN 0 ELSE free + 1 - k
    BY <1>0 DEF InsertOrder
  <2>2. \A c \in Used : info[c] = c
    BY <1>1, <1>3 DEF Own, Used
  <2> QED
    BY <1>4, <2>1, <2>2 DEF Order
<1>8. items = 2..free - 1
  <2>0. items = {info[s[k]] : k \in 2..free - 1}
    BY <1>4
  <2> HIDE DEF items
  <2>1. ASSUME NEW d \in 2..free - 1 PROVE d \in items
    <3>1. free + 1 - d \in 2..free - 1 /\ free + 1 - (free + 1 - d) = d
      BY <1>1
    <3>2. info[s[free + 1 - d]] = d
      BY <1>1, <1>7, <3>1
    <3> QED
      BY <2>0, <3>1, <3>2
  <2>2. ASSUME NEW k \in 2..free - 1 PROVE info[s[k]] \in 2..free - 1
    BY <1>1, <1>7
  <2> QED
    BY <2>0, <2>1, <2>2
<1>9. ASSUME NEW d \in 2..free - 1 PROVE place(d) - 1 = free - d
  <2>1. free + 1 - d \in 1..free /\ free + 1 - d # 1 /\ free + 1 - (free + 1 - d) = d
    BY <1>1
  <2>2. info[s[free + 1 - d]] = d
    BY <1>7, <2>1
  <2>3. ASSUME NEW k \in 1..free, info[s[k]] = d PROVE k = free + 1 - d
    BY <1>1, <1>7, <2>3
  <2>4. place(d) = free + 1 - d
    <3> QED
      BY <1>4, <2>1, <2>2, <2>3
  <2> HIDE DEF place
  <2> QED
    BY <1>1, <2>4
<1> HIDE DEF items, place
<1>10. idx' = Keys
  <2>1. ASSUME NEW d \in Cell PROVE idx'[d] = Key(d)
    <3>1. CASE d \in 2..free - 1
      <4>1. idx'[d] = InitialIdx(free - d, ListSize, run.seed1)
        BY <1>6, <1>8, <1>9, <3>1
      <4> QED
        BY <3>1, <4>1 DEF Key
    <3>2. CASE d \notin 2..free - 1
      <4>1. idx'[d] = idx[d]
        BY <1>6, <1>8, <3>2
      <4>2. idx[d] = IF d = 1 THEN 32767 ELSE 0
        <5>1. d \in 1..free - 1 <=> d = 1
          BY <1>1, <1>3, <3>2 DEF Cell
        <5> QED
          BY <1>1, <5>1 DEF Inserting
      <4> QED
        BY <3>2, <4>1, <4>2 DEF Key
    <3> QED
      BY <3>1, <3>2
  <2>2. idx' = [d \in Cell |-> idx'[d]]
    BY <1>6
  <2> QED
    BY <2>1, <2>2 DEF Keys
<1>11. Listed(s)
  BY <1>3, <1>4 DEF Listed
<1>12. Splitting(s, 0)' /\ sort' \in SortLocals' /\ pc' = "split" /\ back' = "ready"
       /\ sort'.cmp = "idx"
  <2> QED
    BY <1>1, <1>2, <1>11, Begins
<1>13. Keys' = Keys /\ Own' = Own /\ Input' /\ ListSize' = ListSize
       /\ Cell' = Cell /\ Pointer' = Pointer
  BY <1>1, <1>2, Same
<1>14. Registers'
  <2>1. next' \in [Cell' -> Pointer'] /\ Unlinked'
    BY <1>1, <1>2, <1>13, SameChain DEF Registers
  <2>2. /\ DOMAIN bench' =
             {"finder", "wanted", "found", "missed", "retval", "hit", "rev", "removed"}
        /\ DOMAIN res' = {"list", "crclist"}
    BY <1>1, <1>2 DEF Registers
  <2>3. info' = Own' /\ free' = ListSize' - 1 /\ idx' = Keys'
    BY <1>2, <1>3, <1>10, <1>13
  <2>4. sort' \in SortLocals' /\ pc' = "split" /\ <<back', sort'.cmp>> = <<"ready", "idx">>
    BY <1>12
  <2> QED
    BY <2>1, <2>2, <2>3, <2>4 DEF Registers
<1>15. Shape'
  BY <1>12 DEF Shape, Places, InKernel
<1> QED
  BY <1>13, <1>14, <1>15 DEF ListInv

\* Behind the initialization only next, the locals and pc change much.
LEMMA Registered ==
  ASSUME ListInv, run' = run, free' = free, idx' = idx, pc # "insert", pc' # "insert",
         next' \in [Cell -> Pointer], \A c \in Cell \ Used : next'[c] = Null,
         sort' \in SortLocals,
         DOMAIN bench' = DOMAIN bench, DOMAIN res' = DOMAIN res,
         pc' # "undo" => info' = Own,
         pc' \in {"split", "merge"} =>
           <<back', sort'.cmp>>
             \in {<<"ready", "idx">>, <<"finish", "idx">>, <<"remove", "complex">>},
         pc' \in {"reverse", "move"} => bench'.hit \in Used \cup {Null}
  PROVE  Registers' /\ Input'
<1>1. /\ ListSize' = ListSize /\ Cell' = Cell /\ Pointer' = Pointer /\ Used' = Used
      /\ Own' = Own /\ Keys' = Keys /\ (Input' <=> Input)
  BY Same
<1>2. Registers /\ free = ListSize - 1 /\ idx = Keys /\ Input
  BY Facts
<1>3. Unlinked'
  BY <1>1 DEF Unlinked
<1>4. SortLocals' = SortLocals
  BY <1>1 DEF SortLocals
<1>5. DOMAIN bench' = {"finder", "wanted", "found", "missed", "retval", "hit", "rev", "removed"}
  BY <1>2 DEF Registers
<1>6. Registers'
  BY <1>1, <1>2, <1>3, <1>4, <1>5 DEF Registers
<1> QED
  BY <1>1, <1>2, <1>6

\* Runs do not change with the links.
LEMMA SameRuns ==
  ASSUME run' = run, free' = free
  PROVE  \A s, a, b, e, n : Runs(s, a, b, e, n)' <=> Runs(s, a, b, e, n)
  BY Same DEF Runs

\* iterate keeps what it will come back to.
LEMMA OriginalKept ==
  ASSUME ListInv, run' = run, free' = free, orig' = orig, res'.list = res.list,
         InKernel' => InKernel
  PROVE  InKernel' => \E s : Original(s)'
<1>1. InKernel => \E s : Original(s)
  BY DEF ListInv, Shape, Places
<1> QED
  BY <1>1, SameOriginal

-----------------------------------------------------------------------------
(* core_list_mergesort.                                                     *)

\* q steps over a run without touching a link.
LEMMA SplitMerges ==
  ASSUME ListInv, Split, NEW s, NEW x, Splitting(s, x)
  PROVE  /\ Merging(s, x)'
         /\ sort' \in SortLocals /\ sort'.cmp = sort.cmp
         /\ sort'.insize = sort.insize /\ sort'.qsize = sort.insize
         /\ sort'.psize = IF sort.insize <= free - x THEN sort.insize ELSE free - x
<1>1. /\ Input /\ Registers /\ Shape
      /\ free \in Nat \ {0} /\ Used \subseteq Cell /\ Null \notin Cell
  BY Facts
<1>2. /\ pc = "split" /\ sort.p # Null /\ pc' = "merge"
      /\ run' = run /\ next' = next /\ info' = info /\ idx' = idx /\ list' = list
      /\ bench' = bench /\ free' = free /\ back' = back
  BY DEF Split, heap, loop
<1>n. PICK n : n = sort.insize
  OBVIOUS
<1>m. PICK m : m = IF n <= free - x THEN n ELSE free - x
  OBVIOUS
<1>4. /\ Order(s) /\ x \in 0..free - 1 /\ sort.p = s[x + 1] /\ Follows(s, x + 1, free)
  BY <1>1, <1>2 DEF Splitting, At
<1>5. sort \in SortLocals /\ n \in Nat \ {0}
  BY <1>1, <1>n DEF Registers, SortLocals
<1>6. sort' = [sort EXCEPT !.nmerges = @ + 1, !.psize = m,
                           !.q = At(s, x + m + 1), !.qsize = sort.insize]
  BY <1>1, <1>4, <1>5, <1>n, <1>m, SplitIs
<1>7. m \in 1..n /\ m <= free - x /\ (m < n => m = free - x)
  BY <1>1, <1>4, <1>5, <1>m
<1>8. /\ sort'.cmp = sort.cmp /\ sort'.head = sort.head /\ sort'.p = sort.p
      /\ sort'.tail = sort.tail /\ sort'.insize = n /\ sort'.nmerges = sort.nmerges + 1
      /\ sort'.psize = m /\ sort'.q = At(s, x + m + 1) /\ sort'.qsize = n
      /\ sort.nmerges \in Nat
  BY <1>5, <1>6, <1>n DEF SortLocals
<1>9. /\ \A k : At(s, k)' = At(s, k)
      /\ \A a, b : Follows(s, a, b)' <=> Follows(s, a, b)
      /\ Order(s)'
  BY <1>2, <1>4, Same, SameChain
<1>10. sort' \in SortLocals
  <2>1. At(s, x + m + 1) \in Pointer
    BY <1>1, <1>4 DEF At, Order, Pointer
  <2>2. m \in Nat /\ sort.nmerges + 1 \in Nat /\ sort.insize \in Nat
    BY <1>5, <1>7, <1>8, <1>n
  <2> QED
    BY <1>5, <1>6, <2>1, <2>2 DEF SortLocals
<1>11. Merging(s, x)'
  <2> DEFINE z == x + m + 1
             e == x + m + n
  <2>1. z - 1 <= free /\ z \in 1..free + 1
    BY <1>1, <1>4, <1>7
  <2>2. Joined(s, x)'
    BY <1>2, <1>8 DEF Splitting, Joined
  <2>3. \A k \in x + 1..z - 2 : next'[s[k]] = s[k + 1]
    <3> TAKE k \in x + 1..z - 2
    <3>1. k \in x + 1..free /\ k + 1 \in 1..free
      BY <1>1, <1>4, <1>7
    <3> QED
      BY <1>2, <1>4, <3>1 DEF Follows, At
  <2>4. Follows(s, z, free)'
    <3>1. \A k \in z..free : k \in x + 1..free
      BY <1>1, <1>4, <1>7
    <3>2. Follows(s, z, free)
      BY <1>4, <3>1 DEF Follows
    <3> QED
      BY <1>2, <1>9, <3>2 DEF Follows
  <2>5. sort.nmerges + 1 = 1 => e <= 2 * n
    BY <1>5, <1>7, <1>8, <1>n DEF Splitting
  <2>6. ASSUME sort.cmp = "idx"
        PROVE  /\ e % (2 * n) = 0 \/ z - 1 = free
               /\ Runs(s, 1, x, 0, 2 * n)'
               /\ \A k \in x + 1..z - 2 : Key(s[k])' <= Key(s[k + 1])'
               /\ Runs(s, z, free, e, n)'
               /\ x % (2 * n) = 0
    <3>1. x % (2 * n) = 0 /\ Runs(s, 1, x, 0, 2 * n) /\ Runs(s, x + 1, free, x, n)
      BY <1>4, <1>n, <2>6 DEF Splitting
    <3>2. m = n => e % (2 * n) = 0
      <4>1. (x + 2 * n) % (2 * n) = x % (2 * n)
        <5>1. x \in Int /\ n \in Nat \ {0}
          BY <1>1, <1>4, <1>5
        <5> QED
          BY <5>1, ShiftedRemainder
      <4>2. m = n => e = x + 2 * n
        BY <1>4, <1>5
      <4> HIDE DEF e
      <4> QED
        BY <3>1, <4>1, <4>2
    <3>3. e % (2 * n) = 0 \/ z - 1 = free
      BY <1>1, <1>4, <1>5, <1>7, <3>2
    <3>4. \A k \in x + 1..z - 2 : Key(s[k]) <= Key(s[k + 1])
      <4> TAKE k \in x + 1..z - 2
      <4>1. k \in x + 1..free - 1 /\ k - x \in Int /\ 0 < k - x /\ k - x < n
        BY <1>1, <1>4, <1>5, <1>7
      <4>2. (k - x) % n # 0
        BY <1>5, <4>1, NonzeroRemainder
      <4> QED
        BY <3>1, <4>1, <4>2 DEF Runs
    <3>5. Runs(s, z, free, e, n)
      <4> SUFFICES ASSUME NEW k \in z..free - 1, (k - e) % n # 0
                   PROVE  Key(s[k]) <= Key(s[k + 1])
        BY DEF Runs
      <4>1. m = n /\ k \in x + 1..free - 1 /\ k - x \in Int
        BY <1>1, <1>4, <1>5, <1>7
      <4>2. k - e = (k - x) - 2 * n
        BY <1>1, <1>4, <1>5, <4>1
      <4>3. ((k - x) - 2 * n) % n = (k - x) % n
        BY <1>5, <4>1, ShiftedRemainder
      <4>4. (k - x) % n # 0
        <5> HIDE DEF e
        <5> QED
          BY <4>2, <4>3
      <4> QED
        BY <3>1, <4>1, <4>4 DEF Runs
    <3> HIDE DEF z, e
    <3> QED
      BY <1>2, <3>1, <3>3, <3>4, <3>5, Same, SameRuns
  <2>7. x \in 0..free' /\ n <= n /\ (m > 0 => sort'.p = s[x + 1])
    BY <1>1, <1>2, <1>4, <1>5, <1>8
  <2>8. sort.nmerges + 1 >= 1
    BY <1>8
  <2>9. (x + m + 1 = z) /\ (x + m + n = e)
    OBVIOUS
  <2> HIDE DEF z, e
  <2> QED
    BY <1>2, <1>8, <1>9, <2>1, <2>2, <2>3, <2>4, <2>5, <2>6, <2>7, <2>8, <2>9 DEF Merging
<1> QED
  BY <1>8, <1>10, <1>11, <1>m, <1>n

\* A split makes a merge of the two runs behind the merged cells.
LEMMA SplitStep ==
  ASSUME ListInv, Split, UNCHANGED <<res, done, err, orig>>
  PROVE  ListInv'
<1>1. /\ Input /\ Registers /\ Shape
      /\ pc = "split" /\ pc' = "merge"
      /\ run' = run /\ next' = next /\ info' = info /\ idx' = idx /\ list' = list
      /\ bench' = bench /\ free' = free /\ back' = back
  BY Facts DEF Split, heap, loop
<1>2. PICK s, x : Splitting(s, x)
  BY <1>1 DEF Shape, Places
<1>3. Merging(s, x)' /\ sort' \in SortLocals /\ sort'.cmp = sort.cmp
  BY <1>2, SplitMerges
<1>12. Registers' /\ Input'
  <2>1. <<back, sort.cmp>> \in {<<"ready", "idx">>, <<"finish", "idx">>, <<"remove", "complex">>}
    BY <1>1 DEF Registers
  <2>2. next \in [Cell -> Pointer] /\ (\A c \in Cell \ Used : next[c] = Null) /\ info = Own
    BY <1>1 DEF Registers, Unlinked
  <2> QED
    BY <1>1, <1>3, <2>1, <2>2, Registered
<1>13. InKernel' => \E t : Original(t)'
  <2>1. InKernel' => InKernel
    BY <1>1 DEF InKernel
  <2> QED
    BY <1>1, <2>1, OriginalKept
<1>14. Shape'
  BY <1>1, <1>3, <1>13 DEF Shape, Places
<1> QED
  BY <1>12, <1>14 DEF ListInv

\* Linking the cell e behind the x merged ones.
LEMMA LinkIs ==
  ASSUME ListInv, NEW s, NEW x \in 0..free, Order(s), Joined(s, x), NEW e \in Used, Link(e)
  PROVE  /\ (sort.tail = Null <=> x = 0)
         /\ next' \in [Cell -> Pointer]
         /\ \A c \in Cell \ Used : next'[c] = Null
         /\ \A k \in 1..free : next'[s[k]] = IF k = x THEN e ELSE next[s[k]]
<1>1. /\ free \in Nat \ {0} /\ Used \subseteq Cell /\ Null \notin Used
      /\ next \in [Cell -> Pointer] /\ \A c \in Cell \ Used : next[c] = Null
  BY Facts DEF Registers, Unlinked
<1>2. \A k \in 1..free : s[k] \in Used
  BY DEF Order
<1>3. CASE x = 0
  <2>1. sort.tail = Null /\ next' = next
    BY <1>3 DEF Joined, Link
  <2> QED
    BY <1>1, <1>2, <1>3, <2>1
<1>4. CASE x # 0
  <2>1. x \in 1..free /\ sort.tail = s[x] /\ s[x] \in Used
    BY <1>1, <1>2, <1>4 DEF Joined
  <2>2. sort.tail # Null /\ next' = [next EXCEPT ![s[x]] = e]
    BY <1>1, <2>1 DEF Link
  <2>3. \A k \in 1..free : s[k] = s[x] => k = x
    BY <2>1 DEF Order
  <2>4. next' \in [Cell -> Pointer]
    BY <1>1, <2>2 DEF Pointer
  <2>5. \A k \in 1..free : next'[s[k]] = IF k = x THEN e ELSE next[s[k]]
    BY <1>1, <1>2, <2>1, <2>2, <2>3
  <2>6. \A c \in Cell \ Used : next'[c] = Null
    BY <1>1, <2>1, <2>2
  <2> QED
    BY <1>4, <2>2, <2>4, <2>5, <2>6
<1> QED
  BY <1>3, <1>4

\* The first cell of p joins the merged ones.
LEMMA TakePMerges ==
  ASSUME ListInv, NEW s, NEW x, Merging(s, x), sort.psize > 0, TakeP,
         run' = run, free' = free,
         LET z == x + sort.psize + 1
         IN  sort.cmp = "idx" /\ sort.qsize > 0 /\ z <= free => Key(s[x + 1]) <= Key(s[z])
  PROVE  /\ Merging(s, x + 1)'
         /\ sort' \in SortLocals /\ sort'.cmp = sort.cmp
         /\ next' \in [Cell -> Pointer] /\ \A c \in Cell \ Used : next'[c] = Null
<1>1. /\ free \in Nat \ {0} /\ Used \subseteq Cell /\ Null \notin Used
      /\ sort \in SortLocals /\ next \in [Cell -> Pointer]
  BY Facts DEF Registers
<1>2. PICK n : n = sort.insize
  OBVIOUS
<1>3. PICK m : m = sort.psize
  OBVIOUS
<1>4. PICK r : r = sort.qsize
  OBVIOUS
<1> DEFINE z == x + m + 1
           e == x + m + r
<1>5. n \in Nat \ {0} /\ m \in Nat \ {0} /\ r \in Nat
  BY <1>1, <1>2, <1>3, <1>4 DEF SortLocals
<1>6. /\ Order(s) /\ x \in 0..free /\ z - 1 <= free /\ r <= n
      /\ Joined(s, x)
      /\ sort.p = s[x + 1]
      /\ \A k \in x + 1..z - 2 : next[s[k]] = s[k + 1]
      /\ sort.q = At(s, z) /\ Follows(s, z, free)
      /\ sort.nmerges >= 1
      /\ sort.nmerges = 1 => e <= 2 * n
  BY <1>2, <1>3, <1>4, <1>5 DEF Merging
<1>7. x + 1 \in 1..free /\ x \in Nat /\ z \in Nat
  BY <1>1, <1>5, <1>6
<1>8. s[x + 1] \in Used /\ s[x + 1] \in Cell
  BY <1>1, <1>6, <1>7 DEF Order
<1>9. /\ (sort.tail = Null <=> x = 0)
      /\ next' \in [Cell -> Pointer]
      /\ \A c \in Cell \ Used : next'[c] = Null
      /\ \A k \in 1..free : next'[s[k]] = IF k = x THEN s[x + 1] ELSE next[s[k]]
  <2>1. Link(s[x + 1])
    BY <1>6 DEF TakeP
  <2> QED
    BY <1>6, <1>8, <2>1, LinkIs
<1>10. sort' = [cmp |-> sort.cmp, head |-> IF x = 0 THEN s[x + 1] ELSE sort.head,
                p |-> next[s[x + 1]], q |-> sort.q, tail |-> s[x + 1], insize |-> n,
                nmerges |-> sort.nmerges, psize |-> m - 1, qsize |-> r]
  BY <1>1, <1>2, <1>3, <1>4, <1>6, <1>9 DEF TakeP, Linked, SortLocals
<1>11. sort' \in SortLocals
  <2>1. next[s[x + 1]] \in Pointer /\ s[x + 1] \in Pointer
    BY <1>1, <1>8 DEF Pointer
  <2>2. m - 1 \in Nat
    BY <1>5
  <2> QED
    BY <1>1, <1>5, <1>10, <2>1, <2>2 DEF SortLocals
<1>12. Joined(s, x + 1)'
  <2>1. sort'.head = s[1]
    <3>1. x = 0 \/ sort.head = s[1]
      BY <1>6, <1>7 DEF Joined
    <3> QED
      BY <1>10, <3>1
  <2>2. ASSUME NEW k \in 1..(x + 1) - 1 PROVE next'[s[k]] = s[k + 1]
    <3>1. k \in 1..free /\ (k = x \/ k \in 1..x - 1)
      BY <1>1, <1>6, <1>7
    <3> QED
      BY <1>6, <1>9, <3>1 DEF Joined
  <2>3. sort'.tail = s[x + 1] /\ x + 1 # 0
    BY <1>7, <1>10
  <2> QED
    BY <2>1, <2>2, <2>3 DEF Joined
<1>13. m - 1 > 0 => sort'.p = s[(x + 1) + 1]
  <2> SUFFICES ASSUME m - 1 > 0 PROVE sort'.p = s[(x + 1) + 1]
    OBVIOUS
  <2>1. x + 1 \in x + 1..z - 2
    BY <1>5, <1>7
  <2> HIDE DEF z
  <2> QED
    BY <1>6, <1>10, <2>1
<1>14. \A k \in (x + 1) + 1..z - 2 : next'[s[k]] = s[k + 1]
  <2> TAKE k \in (x + 1) + 1..z - 2
  <2>1. k \in x + 1..z - 2 /\ k \in 1..free /\ k # x
    BY <1>1, <1>5, <1>6, <1>7
  <2> QED
    BY <1>6, <1>9, <2>1
<1>15. sort'.q = At(s, z) /\ Follows(s, z, free)'
  <2>1. sort'.q = At(s, z)
    BY <1>6, <1>10
  <2>2. ASSUME NEW k \in z..free PROVE next'[s[k]] = At(s, k + 1)
    <3>1. k \in 1..free /\ k # x
      BY <1>1, <1>5, <1>6, <1>7
    <3> HIDE DEF z
    <3> QED
      BY <1>6, <1>9, <3>1 DEF Follows
  <2>3. \A k : At(s, k)' = At(s, k)
    BY Same
  <2> HIDE DEF z
  <2> QED
    BY <2>1, <2>2, <2>3 DEF Follows
<1>16. ASSUME sort.cmp = "idx"
       PROVE  /\ e % (2 * n) = 0 \/ z - 1 = free
              /\ Runs(s, 1, x + 1, 0, 2 * n)'
              /\ \A k \in (x + 1) + 1..z - 2 : Key(s[k])' <= Key(s[k + 1])'
              /\ Runs(s, z, free, e, n)'
              /\ m - 1 > 0 => Key(s[x + 1])' <= Key(s[(x + 1) + 1])'
              /\ r > 0 /\ z <= free => Key(s[x + 1])' <= Key(s[z])'
  <2>1. /\ e % (2 * n) = 0 \/ z - 1 = free
        /\ Runs(s, 1, x, 0, 2 * n)
        /\ \A k \in x + 1..z - 2 : Key(s[k]) <= Key(s[k + 1])
        /\ Runs(s, z, free, e, n)
        /\ x % (2 * n) # 0 => Key(s[x]) <= Key(s[x + 1])
    BY <1>2, <1>3, <1>4, <1>5, <1>16 DEF Merging
  <2>2. Runs(s, 1, x + 1, 0, 2 * n)
    <3> SUFFICES ASSUME NEW k \in 1..(x + 1) - 1, (k - 0) % (2 * n) # 0
                 PROVE  Key(s[k]) <= Key(s[k + 1])
      BY DEF Runs
    <3>1. k = x \/ k \in 1..x - 1
      BY <1>7
    <3>2. k - 0 = k
      BY <1>7
    <3> QED
      BY <2>1, <3>1, <3>2 DEF Runs
  <2>3. \A k \in (x + 1) + 1..z - 2 : k \in x + 1..z - 2
    BY <1>7
  <2>4. m - 1 > 0 => x + 1 \in x + 1..z - 2
    BY <1>5, <1>7
  <2>5. r > 0 /\ z <= free => Key(s[x + 1]) <= Key(s[z])
    BY <1>3, <1>4, <1>16
  <2> HIDE DEF z, e
  <2> QED
    BY <2>1, <2>2, <2>3, <2>4, <2>5, Same, SameRuns DEF Runs
<1>17. Merging(s, x + 1)'
  <2>1. (x + 1) + (m - 1) + 1 = z /\ (x + 1) + (m - 1) + r = e
    BY <1>5, <1>7
  <2>2. /\ sort'.psize = m - 1 /\ sort'.qsize = r /\ sort'.insize = n
        /\ sort'.nmerges = sort.nmerges /\ sort'.cmp = sort.cmp
    BY <1>10
  <2>3. x + 1 \in 0..free' /\ z - 1 <= free' /\ Order(s)' /\ At(s, z)' = At(s, z)
    BY <1>6, <1>7, Same
  <2> HIDE DEF z, e
  <2> QED
    BY <1>6, <1>12, <1>13, <1>14, <1>15, <1>16, <2>1, <2>2, <2>3 DEF Merging
<1> QED
  BY <1>9, <1>10, <1>11, <1>17

\* The first cell of q joins the merged ones, and moves before those of p.
LEMMA TakeQMerges ==
  ASSUME ListInv, NEW s, NEW x, Merging(s, x), ~QEmpty, TakeQ,
         run' = run, free' = free,
         LET z == x + sort.psize + 1
         IN  sort.cmp = "idx" /\ sort.psize > 0 => Key(s[z]) <= Key(s[x + 1])
  PROVE  /\ \E t : t = Forward(s, x + 1, x + sort.psize + 1) /\ Merging(t, x + 1)'
         /\ sort' \in SortLocals /\ sort'.cmp = sort.cmp
         /\ next' \in [Cell -> Pointer] /\ \A c \in Cell \ Used : next'[c] = Null
<1>1. /\ free \in Nat \ {0} /\ Used \subseteq Cell /\ Null \notin Used
      /\ sort \in SortLocals /\ next \in [Cell -> Pointer]
  BY Facts DEF Registers
<1>2. PICK n : n = sort.insize
  OBVIOUS
<1>3. PICK m : m = sort.psize
  OBVIOUS
<1>4. PICK r : r = sort.qsize
  OBVIOUS
<1>5. PICK z : z = x + m + 1
  OBVIOUS
<1>6. PICK e : e = x + m + r
  OBVIOUS
<1>7. n \in Nat \ {0} /\ m \in Nat /\ r \in Nat \ {0}
  BY <1>1, <1>2, <1>3, <1>4 DEF SortLocals, QEmpty
<1>8. /\ Order(s) /\ x \in 0..free /\ z - 1 <= free /\ r <= n
      /\ Joined(s, x)
      /\ m > 0 => sort.p = s[x + 1]
      /\ \A k \in x + 1..z - 2 : next[s[k]] = s[k + 1]
      /\ sort.q = At(s, z) /\ Follows(s, z, free)
      /\ sort.nmerges >= 1
      /\ sort.nmerges = 1 => e <= 2 * n
  BY <1>2, <1>3, <1>4, <1>5, <1>6, <1>7 DEF Merging
<1>9. /\ z \in x + 1..free /\ x + 1 \in 1..free /\ x \in Nat /\ z \in 1..free /\ sort.q = s[z]
  <2>1. sort.q # Null
    BY DEF QEmpty
  <2>2. z \in 1..free /\ sort.q = s[z]
    BY <1>8, <2>1 DEF At
  <2> QED
    BY <1>1, <1>5, <1>7, <1>8, <2>2
<1>10. s[z] \in Used /\ s[z] \in Cell
  BY <1>1, <1>8, <1>9 DEF Order
<1>11. /\ (sort.tail = Null <=> x = 0)
       /\ next' \in [Cell -> Pointer]
       /\ \A c \in Cell \ Used : next'[c] = Null
       /\ \A k \in 1..free : next'[s[k]] = IF k = x THEN s[z] ELSE next[s[k]]
  <2>1. Link(s[z])
    BY <1>9 DEF TakeQ
  <2> QED
    BY <1>8, <1>10, <2>1, LinkIs
<1>12. PICK t : t = Forward(s, x + 1, z)
  OBVIOUS
<1>13. Order(t)
  BY <1>1, <1>8, <1>9, <1>12, ForwardOrder
<1>14. \A k \in 1..free :
         t[k] = IF k < x + 1 \/ k > z THEN s[k] ELSE IF k = x + 1 THEN s[z] ELSE s[k - 1]
  BY <1>12 DEF Forward
<1>15. /\ \A k \in 1..x : t[k] = s[k]
       /\ t[x + 1] = s[z]
       /\ \A k \in x + 2..z : t[k] = s[k - 1]
       /\ \A k \in z + 1..free : t[k] = s[k]
  BY <1>1, <1>9, <1>14
<1>16. next[s[z]] = At(s, z + 1) /\ At(s, z + 1) = At(t, z + 1)
  <2>1. next[s[z]] = At(s, z + 1)
    BY <1>1, <1>8, <1>9 DEF Follows
  <2>2. z + 1 \in 1..free => z + 1 \in z + 1..free
    BY <1>1, <1>9
  <2> QED
    BY <1>15, <2>1, <2>2 DEF At
<1>17. sort' = [cmp |-> sort.cmp, head |-> IF x = 0 THEN s[z] ELSE sort.head,
                p |-> sort.p, q |-> At(t, z + 1), tail |-> s[z], insize |-> n,
                nmerges |-> sort.nmerges, psize |-> m, qsize |-> r - 1]
  BY <1>1, <1>2, <1>3, <1>4, <1>9, <1>11, <1>16 DEF TakeQ, Linked, SortLocals
<1>18. sort' \in SortLocals
  <2>1. At(t, z + 1) \in Pointer /\ s[z] \in Pointer
    BY <1>1, <1>10, <1>16 DEF Pointer
  <2>2. r - 1 \in Nat
    BY <1>7
  <2> QED
    BY <1>1, <1>7, <1>17, <2>1, <2>2 DEF SortLocals
<1>19. Joined(t, x + 1)'
  <2>1. sort'.head = t[1]
    <3>1. CASE x = 0
      BY <1>15, <1>17, <3>1
    <3>2. CASE x # 0
      <4>1. x > 0 /\ 1 \in 1..x
        BY <1>9, <3>2
      <4> QED
        BY <1>8, <1>15, <1>17, <3>2, <4>1 DEF Joined
    <3> QED
      BY <3>1, <3>2
  <2>2. ASSUME NEW k \in 1..(x + 1) - 1 PROVE next'[t[k]] = t[k + 1]
    <3>1. k \in 1..free /\ k \in 1..x /\ (k = x \/ (k \in 1..x - 1 /\ k + 1 \in 1..x /\ k # x))
      BY <1>1, <1>8, <1>9
    <3> QED
      BY <1>8, <1>11, <1>15, <3>1 DEF Joined
  <2>3. sort'.tail = t[x + 1] /\ x + 1 # 0
    BY <1>9, <1>15, <1>17
  <2> QED
    BY <2>1, <2>2, <2>3 DEF Joined
<1>20. m > 0 => sort'.p = t[(x + 1) + 1]
  <2> SUFFICES ASSUME m > 0 PROVE sort'.p = t[(x + 1) + 1]
    OBVIOUS
  <2>1. x + 2 \in x + 2..z /\ (x + 1) + 1 = x + 2 /\ (x + 2) - 1 = x + 1
    BY <1>5, <1>7, <1>9
  <2> QED
    BY <1>8, <1>15, <1>17, <2>1
<1>21. \A k \in (x + 1) + 1..(z + 1) - 2 : next'[t[k]] = t[k + 1]
  <2> TAKE k \in (x + 1) + 1..(z + 1) - 2
  <2>1. /\ k \in x + 2..z /\ k + 1 \in x + 2..z /\ k - 1 \in x + 1..z - 2
        /\ k - 1 \in 1..free /\ k - 1 # x /\ (k + 1) - 1 = (k - 1) + 1
    BY <1>1, <1>9
  <2>2. t[k] = s[k - 1] /\ t[k + 1] = s[(k - 1) + 1]
    BY <1>15, <2>1
  <2> QED
    BY <1>8, <1>11, <2>1, <2>2
<1>22. sort'.q = At(t, z + 1) /\ Follows(t, z + 1, free)'
  <2>1. ASSUME NEW k \in z + 1..free PROVE next'[t[k]] = At(t, k + 1)
    <3>1. k \in 1..free /\ k # x /\ k \in z..free /\ t[k] = s[k]
      BY <1>1, <1>9, <1>15
    <3>2. next'[t[k]] = At(s, k + 1)
      BY <1>8, <1>11, <3>1 DEF Follows
    <3>3. k + 1 \in 1..free => t[k + 1] = s[k + 1]
      BY <1>1, <1>9, <1>15
    <3> QED
      BY <3>2, <3>3 DEF At
  <2>2. \A k : At(t, k)' = At(t, k)
    BY Same
  <2> QED
    BY <1>17, <2>1, <2>2 DEF Follows
<1>23. ASSUME sort.cmp = "idx"
       PROVE  /\ e % (2 * n) = 0
              /\ Runs(t, 1, x + 1, 0, 2 * n)'
              /\ \A k \in (x + 1) + 1..(z + 1) - 2 : Key(t[k])' <= Key(t[k + 1])'
              /\ Runs(t, z + 1, free, e, n)'
              /\ m > 0 => Key(t[x + 1])' <= Key(t[(x + 1) + 1])'
              /\ r - 1 > 0 /\ z + 1 <= free => Key(t[x + 1])' <= Key(t[z + 1])'
  <2>1. /\ e % (2 * n) = 0 \/ z - 1 = free
        /\ Runs(s, 1, x, 0, 2 * n)
        /\ \A k \in x + 1..z - 2 : Key(s[k]) <= Key(s[k + 1])
        /\ Runs(s, z, free, e, n)
        /\ x % (2 * n) # 0 /\ r > 0 /\ z <= free => Key(s[x]) <= Key(s[z])
    BY <1>2, <1>3, <1>4, <1>5, <1>6, <1>7, <1>23 DEF Merging
  <2>2. e % (2 * n) = 0
    BY <1>1, <1>9, <2>1
  <2>3. Runs(t, 1, x + 1, 0, 2 * n)
    <3> SUFFICES ASSUME NEW k \in 1..(x + 1) - 1, (k - 0) % (2 * n) # 0
                 PROVE  Key(t[k]) <= Key(t[k + 1])
      BY DEF Runs
    <3>1. /\ k - 0 = k /\ k \in 1..x
          /\ k = x \/ (k \in 1..x - 1 /\ k + 1 \in 1..x)
          /\ r > 0 /\ z <= free
      BY <1>7, <1>9
    <3> QED
      BY <1>15, <2>1, <3>1 DEF Runs
  <2>4. \A k \in (x + 1) + 1..(z + 1) - 2 : Key(t[k]) <= Key(t[k + 1])
    <3> TAKE k \in (x + 1) + 1..(z + 1) - 2
    <3>1. /\ k \in x + 2..z /\ k + 1 \in x + 2..z /\ k - 1 \in x + 1..z - 2
          /\ (k + 1) - 1 = (k - 1) + 1
      BY <1>1, <1>9
    <3>2. t[k] = s[k - 1] /\ t[k + 1] = s[(k - 1) + 1]
      BY <1>15, <3>1
    <3> QED
      BY <2>1, <3>1, <3>2
  <2>5. Runs(t, z + 1, free, e, n)
    <3> SUFFICES ASSUME NEW k \in z + 1..free - 1, (k - e) % n # 0
                 PROVE  Key(t[k]) <= Key(t[k + 1])
      BY DEF Runs
    <3>1. k \in z + 1..free /\ k + 1 \in z + 1..free /\ k \in z..free - 1
      BY <1>1, <1>9
    <3> QED
      BY <1>15, <2>1, <3>1 DEF Runs
  <2>6. m > 0 => Key(t[x + 1]) <= Key(t[(x + 1) + 1])
    <3> SUFFICES ASSUME m > 0 PROVE Key(t[x + 1]) <= Key(t[(x + 1) + 1])
      OBVIOUS
    <3>1. x + 2 \in x + 2..z /\ (x + 1) + 1 = x + 2 /\ (x + 2) - 1 = x + 1
      BY <1>5, <1>7, <1>9
    <3>2. t[(x + 1) + 1] = s[x + 1]
      BY <1>15, <3>1
    <3> QED
      BY <1>3, <1>5, <1>15, <1>23, <3>2
  <2>7. r - 1 > 0 /\ z + 1 <= free => Key(t[x + 1]) <= Key(t[z + 1])
    <3> SUFFICES ASSUME r - 1 > 0, z + 1 <= free PROVE Key(t[x + 1]) <= Key(t[z + 1])
      OBVIOUS
    <3>1. z \in z..free - 1 /\ z + 1 \in z + 1..free
      BY <1>1, <1>9
    <3>2. z - e \in Int /\ -n < z - e /\ z - e < 0
      BY <1>5, <1>6, <1>7, <1>8, <1>9
    <3>3. (z - e) % n # 0
      BY <1>7, <3>2, NonzeroRemainder
    <3> QED
      BY <1>15, <2>1, <3>1, <3>3 DEF Runs
  <2> QED
    BY <2>2, <2>3, <2>4, <2>5, <2>6, <2>7, Same, SameRuns DEF Runs
<1>24. Merging(t, x + 1)'
  <2>1. (x + 1) + m + 1 = z + 1 /\ (x + 1) + m + (r - 1) = e
    BY <1>5, <1>6, <1>7, <1>9
  <2>2. /\ sort'.psize = m /\ sort'.qsize = r - 1 /\ sort'.insize = n
        /\ sort'.nmerges = sort.nmerges /\ sort'.cmp = sort.cmp
    BY <1>17
  <2>3. x + 1 \in 0..free' /\ (z + 1) - 1 <= free' /\ r - 1 <= n
    BY <1>1, <1>7, <1>8, <1>9
  <2>4. Order(t)' /\ At(t, z + 1)' = At(t, z + 1)
    BY <1>13, Same
  <2> QED
    BY <1>8, <1>19, <1>20, <1>21, <1>22, <1>23, <2>1, <2>2, <2>3, <2>4 DEF Merging
<1> QED
  BY <1>3, <1>5, <1>11, <1>12, <1>17, <1>18, <1>24

\* One cell of the two runs, whichever the comparison chooses, joins the merged ones.
LEMMA MergeMerges ==
  ASSUME ListInv, Merge, NEW s, NEW x, Merging(s, x)
  PROVE  LET z == x + sort.psize + 1
         IN  /\ \/ sort.psize > 0 /\ TakeP /\ Merging(s, x + 1)'
                \/ ~QEmpty /\ TakeQ
                   /\ \E t : t = Forward(s, x + 1, z) /\ Merging(t, x + 1)'
             /\ QEmpty <=> sort.qsize = 0 \/ ~(z <= free)
             /\ sort' \in SortLocals /\ sort'.cmp = sort.cmp
             /\ next' \in [Cell -> Pointer] /\ \A c \in Cell \ Used : next'[c] = Null
<1>1. /\ Input /\ Registers /\ Shape
      /\ free \in Nat \ {0} /\ Used \subseteq Cell /\ Null \notin Used
      /\ pc = "merge" /\ pc' = pc /\ back' = back
      /\ run' = run /\ info' = info /\ idx' = idx /\ list' = list
      /\ bench' = bench /\ free' = free
  BY Facts DEF Merge, loop
<1>3. sort \in SortLocals /\ info = Own /\ idx = Keys /\ free = ListSize - 1
  BY <1>1 DEF Registers
<1> DEFINE z == x + sort.psize + 1
           leq == Compare(sort.cmp, info[sort.p], info[sort.q], Work).leq
<1>4. \/ sort.psize > 0 /\ TakeP /\ (QEmpty \/ leq)
      \/ ~QEmpty /\ TakeQ /\ (sort.psize = 0 \/ ~leq)
  <2>1. PEmpty <=> ~(sort.psize > 0)
    BY <1>3 DEF PEmpty, SortLocals
  <2> HIDE DEF leq
  <2>2. Take(Compare(sort.cmp, info[sort.p], info[sort.q], Work))
          => (leq /\ TakeP) \/ (~leq /\ TakeQ)
    BY DEF Take, leq
  <2> QED
    BY <2>1, <2>2 DEF Merge, PEmpty
<1>5. sort.cmp = "idx" => (leq <=> idx[info[sort.p]] <= idx[info[sort.q]])
  BY DEF Compare
<1> HIDE DEF leq
<1>6. ASSUME sort.cmp = "idx", sort.psize > 0, z <= free
      PROVE  /\ leq <=> Key(s[x + 1]) <= Key(s[z])
             /\ Key(s[x + 1]) \in Int /\ Key(s[z]) \in Int
  <2>1. /\ Order(s) /\ x \in 0..free /\ sort.p = s[x + 1] /\ sort.q = At(s, z)
        /\ sort.psize \in Nat
    BY <1>3, <1>6 DEF Merging, SortLocals
  <2>2. z \in 1..free /\ x + 1 \in 1..free
    BY <1>1, <1>6, <2>1
  <2>3. sort.q = s[z] /\ s[z] \in Used /\ s[x + 1] \in Used
    BY <2>1, <2>2 DEF At, Order
  <2>4. \A c \in Used : info[c] = c /\ idx[c] = Key(c) /\ Key(c) \in Int
    <3>1. \A c \in Used : info[c] = c
      BY <1>1, <1>3 DEF Own, Used
    <3> QED
      BY <1>1, <1>3, <3>1, KeyType
  <2> HIDE DEF z
  <2> QED
    BY <1>5, <1>6, <2>1, <2>3, <2>4
<1>7. QEmpty <=> sort.qsize = 0 \/ ~(z <= free)
  <2>1. sort.q = At(s, z) /\ Order(s) /\ x \in 0..free /\ sort.psize \in Nat
    BY <1>3 DEF Merging, SortLocals
  <2>2. z <= free <=> z \in 1..free
    BY <1>1, <2>1
  <2> HIDE DEF z
  <2> QED
    BY <1>1, <2>1, <2>2 DEF QEmpty, At, Order
<1>8. CASE sort.psize > 0 /\ TakeP /\ (QEmpty \/ leq)
  <2>1. sort.cmp = "idx" /\ sort.qsize > 0 /\ z <= free => Key(s[x + 1]) <= Key(s[z])
    BY <1>6, <1>7, <1>8
  <2> QED
    BY <1>1, <1>7, <1>8, <2>1, TakePMerges
<1>9. CASE ~QEmpty /\ TakeQ /\ (sort.psize = 0 \/ ~leq)
  <2>1. sort.cmp = "idx" /\ sort.psize > 0 => Key(s[z]) <= Key(s[x + 1])
    BY <1>6, <1>7, <1>9
  <2> QED
    BY <1>1, <1>7, <1>9, <2>1, TakeQMerges
<1> QED
  BY <1>4, <1>8, <1>9

\* So does a step of a merge.
LEMMA MergeStep ==
  ASSUME ListInv, Merge, UNCHANGED <<res, done, err, orig>>
  PROVE  ListInv'
<1>1. /\ Input /\ Registers /\ Shape
      /\ pc = "merge" /\ pc' = pc /\ back' = back
      /\ run' = run /\ info' = info /\ idx' = idx /\ list' = list
      /\ bench' = bench /\ free' = free
  BY Facts DEF Merge, loop
<1>2. PICK s, x : Merging(s, x)
  BY <1>1 DEF Shape, Places
<1>3. info = Own
  BY <1>1 DEF Registers
<1>8. /\ \E t, y : Merging(t, y)'
      /\ sort' \in SortLocals /\ sort'.cmp = sort.cmp
      /\ next' \in [Cell -> Pointer] /\ \A c \in Cell \ Used : next'[c] = Null
  BY <1>2, MergeMerges
<1>9. Registers' /\ Input'
  <2>1. <<back, sort.cmp>> \in {<<"ready", "idx">>, <<"finish", "idx">>, <<"remove", "complex">>}
    BY <1>1 DEF Registers
  <2> QED
    BY <1>1, <1>3, <1>8, <2>1, Registered
<1>10. InKernel' => \E t : Original(t)'
  <2>1. InKernel' => InKernel
    BY <1>1 DEF InKernel
  <2> QED
    BY <1>1, <2>1, OriginalKept
<1>11. Shape'
  BY <1>1, <1>8, <1>10 DEF Shape, Places
<1> QED
  BY <1>9, <1>11 DEF ListInv

\* A merge is over when both runs are used up, and the next begins behind them.
LEMMA MergedSplits ==
  ASSUME ListInv, Merged, NEW s, NEW x, Merging(s, x)
  PROVE  /\ Splitting(s, x)'
         /\ sort' \in SortLocals /\ sort'.cmp = sort.cmp /\ sort'.insize = sort.insize
         /\ sort.psize = 0 /\ (sort.qsize = 0 \/ x = free)
<1>1. /\ Input /\ Registers /\ Shape
      /\ free \in Nat \ {0} /\ Used \subseteq Cell /\ Null \notin Used
      /\ pc = "merge" /\ pc' = "split" /\ back' = back /\ PEmpty /\ QEmpty
      /\ run' = run /\ info' = info /\ idx' = idx /\ next' = next /\ list' = list
      /\ bench' = bench /\ free' = free
  BY Facts DEF Merged, loop, heap
<1>3. sort \in SortLocals /\ sort' = [sort EXCEPT !.p = sort.q]
  BY <1>1 DEF Registers, Merged
<1>4. PICK n : n = sort.insize
  OBVIOUS
<1>5. PICK r : r = sort.qsize
  OBVIOUS
<1>6. sort.psize = 0 /\ n \in Nat \ {0} /\ r \in Nat /\ sort.nmerges \in Nat
  BY <1>1, <1>3, <1>4, <1>5 DEF PEmpty, SortLocals
<1>7. /\ Order(s) /\ x \in 0..free /\ Joined(s, x) /\ r <= n
      /\ sort.q = At(s, x + 1) /\ Follows(s, x + 1, free)
      /\ sort.nmerges >= 1
      /\ sort.nmerges = 1 => x + r <= 2 * n
      /\ sort.cmp = "idx" =>
           /\ (x + r) % (2 * n) = 0 \/ x = free
           /\ Runs(s, 1, x, 0, 2 * n)
           /\ Runs(s, x + 1, free, x + r, n)
  <2>1. x \in 0..free
    BY DEF Merging
  <2>2. x + sort.psize + 1 = x + 1 /\ x + sort.psize + sort.qsize = x + r /\ (x + 1) - 1 = x
    BY <1>1, <1>5, <1>6, <2>1
  <2> QED
    BY <1>4, <1>5, <2>2 DEF Merging
<1>8. r = 0 \/ x = free
  <2>1. CASE sort.q = Null
    <3>1. x + 1 \notin 1..free
      BY <1>1, <1>7, <2>1 DEF At, Order
    <3> QED
      BY <1>1, <1>7, <3>1
  <2> QED
    BY <1>1, <1>5, <2>1 DEF QEmpty
<1>9. /\ sort'.p = At(s, x + 1) /\ sort'.head = sort.head /\ sort'.tail = sort.tail
      /\ sort'.nmerges = sort.nmerges /\ sort'.insize = n /\ sort'.cmp = sort.cmp
      /\ sort' \in SortLocals
  BY <1>3, <1>4, <1>7 DEF SortLocals
<1>10. Splitting(s, x)'
  <2>1. Joined(s, x)'
    BY <1>1, <1>7, <1>9 DEF Joined
  <2>2. Follows(s, x + 1, free)' /\ Order(s)' /\ At(s, x + 1)' = At(s, x + 1)
    BY <1>1, <1>7, Same DEF Follows
  <2>3. sort.nmerges <= 1 => x <= 2 * n
    BY <1>1, <1>6, <1>7
  <2>4. x \in 0..free' /\ sort.nmerges # 0
    BY <1>1, <1>6, <1>7
  <2>5. ASSUME sort.cmp = "idx"
        PROVE  /\ x % (2 * n) = 0 \/ x = free
               /\ Runs(s, 1, x, 0, 2 * n)' /\ Runs(s, x + 1, free, x, n)'
    <3>1. x # free => r = 0 /\ x + r = x
      BY <1>1, <1>7, <1>8
    <3>2. x = free => Runs(s, x + 1, free, x, n)
      BY <1>1 DEF Runs
    <3>3. Runs(s, x + 1, free, x, n)
      BY <1>7, <2>5, <3>1, <3>2
    <3> QED
      BY <1>1, <1>7, <2>5, <3>1, <3>3, SameRuns DEF Runs
  <2> QED
    BY <1>1, <1>9, <2>1, <2>2, <2>3, <2>4, <2>5 DEF Splitting
<1> QED
  BY <1>4, <1>5, <1>6, <1>8, <1>9, <1>10

\* After a merge comes the next split.
LEMMA MergedStep ==
  ASSUME ListInv, Merged, UNCHANGED <<res, done, err, orig>>
  PROVE  ListInv'
<1>1. /\ Input /\ Registers /\ Shape
      /\ pc = "merge" /\ pc' = "split" /\ back' = back
      /\ run' = run /\ info' = info /\ idx' = idx /\ next' = next /\ list' = list
      /\ bench' = bench /\ free' = free
  BY Facts DEF Merged, loop, heap
<1>2. PICK s, x : Merging(s, x)
  BY <1>1 DEF Shape, Places
<1>3. Splitting(s, x)' /\ sort' \in SortLocals /\ sort'.cmp = sort.cmp
  BY <1>2, MergedSplits
<1>11. Registers' /\ Input'
  <2>1. <<back, sort.cmp>> \in {<<"ready", "idx">>, <<"finish", "idx">>, <<"remove", "complex">>}
    BY <1>1 DEF Registers
  <2>2. next \in [Cell -> Pointer] /\ (\A c \in Cell \ Used : next[c] = Null) /\ info = Own
    BY <1>1 DEF Registers, Unlinked
  <2> QED
    BY <1>1, <1>3, <2>1, <2>2, Registered
<1>12. InKernel' => \E t : Original(t)'
  <2>1. InKernel' => InKernel
    BY <1>1 DEF InKernel
  <2> QED
    BY <1>1, <2>1, OriginalKept
<1>13. Shape'
  BY <1>1, <1>3, <1>12 DEF Shape, Places
<1> QED
  BY <1>11, <1>13 DEF ListInv

\* A pass ends with runs twice as long, and the last pass with one run.
LEMMA EndPassRuns ==
  ASSUME ListInv, EndPass, NEW s, NEW x, Splitting(s, x)
  PROVE  /\ x = free
         /\ next' \in [Cell -> Pointer] /\ \A c \in Cell \ Used : next'[c] = Null
         /\ sort' \in SortLocals /\ sort'.cmp = sort.cmp
         /\ sort.nmerges <= 1 =>
              /\ sort' = sort /\ pc' = back /\ free <= 2 * sort.insize
              /\ Listed(s)' /\ (sort.cmp = "idx" => Ascends(s)')
         /\ ~(sort.nmerges <= 1) =>
              pc' = pc /\ list' = list /\ Splitting(s, 0)' /\ sort'.insize = 2 * sort.insize
<1>1. /\ Input /\ Registers /\ Shape
      /\ free \in Nat \ {0} /\ Used \subseteq Cell /\ Null \notin Used
      /\ pc = "split" /\ back' = back /\ sort.p = Null
      /\ run' = run /\ info' = info /\ idx' = idx
      /\ bench' = bench /\ free' = free
      /\ next' = [next EXCEPT ![sort.tail] = Null]
  BY Facts DEF EndPass, loop, heap
<1>3. /\ sort \in SortLocals /\ info = Own /\ next \in [Cell -> Pointer]
      /\ \A c \in Cell \ Used : next[c] = Null
      /\ <<back, sort.cmp>> \in {<<"ready", "idx">>, <<"finish", "idx">>, <<"remove", "complex">>}
  BY <1>1 DEF Registers, Unlinked
<1>4. PICK n : n = sort.insize
  OBVIOUS
<1>5. n \in Nat \ {0} /\ sort.nmerges \in Nat
  BY <1>3, <1>4 DEF SortLocals
<1>6. Order(s) /\ x = free
  <2>1. x \in 0..free /\ At(s, x + 1) = Null /\ Order(s)
    BY <1>1 DEF Splitting
  <2>2. x + 1 \notin 1..free
    BY <1>1, <2>1 DEF At, Order
  <2> QED
    BY <1>1, <2>1, <2>2
<1>7. /\ sort.head = s[1] /\ sort.tail = s[free]
      /\ \A k \in 1..free - 1 : next[s[k]] = s[k + 1]
      /\ sort.nmerges <= 1 => free <= 2 * n
      /\ sort.cmp = "idx" => Runs(s, 1, free, 0, 2 * n)
  BY <1>1, <1>4, <1>6 DEF Splitting, Joined
<1>8. /\ next' \in [Cell -> Pointer] /\ \A c \in Cell \ Used : next'[c] = Null
      /\ \A k \in 1..free : next'[s[k]] = At(s, k + 1)
  <2>1. s[free] \in Used /\ \A k \in 1..free : s[k] \in Used /\ (s[k] = s[free] => k = free)
    BY <1>1, <1>6 DEF Order
  <2>2. next' \in [Cell -> Pointer] /\ \A c \in Cell \ Used : next'[c] = Null
    BY <1>1, <1>3, <1>7, <2>1 DEF Pointer
  <2>3. ASSUME NEW k \in 1..free PROVE next'[s[k]] = At(s, k + 1)
    <3>1. CASE k = free
      <4>1. next'[s[k]] = Null /\ k + 1 \notin 1..free
        BY <1>1, <1>3, <1>7, <2>1, <3>1
      <4> QED
        BY <4>1 DEF At
    <3>2. CASE k # free
      <4>1. k \in 1..free - 1 /\ k + 1 \in 1..free /\ s[k] # s[free] /\ s[k] \in Cell
        BY <1>1, <2>1, <3>2
      <4>2. next'[s[k]] = next[s[k]]
        BY <1>1, <1>3, <1>7, <4>1
      <4> QED
        BY <1>7, <4>1, <4>2 DEF At
    <3> QED
      BY <3>1, <3>2
  <2> QED
    BY <2>2, <2>3
<1>9. /\ Order(s)' /\ \A k : At(s, k)' = At(s, k)
      /\ Follows(s, 1, free)'
  <2>1. Order(s)' /\ \A k : At(s, k)' = At(s, k)
    BY <1>1, <1>6, Same
  <2> QED
    BY <1>1, <1>8, <2>1 DEF Follows
<1>10. CASE sort.nmerges <= 1
  <2>1. list' = s[1] /\ pc' = back /\ sort' = sort
    BY <1>7, <1>10 DEF EndPass
  <2>2. Listed(s)'
    BY <1>9, <2>1 DEF Listed
  <2>3. sort.cmp = "idx" => Ascends(s)'
    <3> SUFFICES ASSUME sort.cmp = "idx" PROVE Ascends(s)
      BY <1>1, Same
    <3> SUFFICES ASSUME NEW k \in 1..free - 1 PROVE Key(s[k]) <= Key(s[k + 1])
      BY DEF Ascends
    <3>1. k \in Int /\ 0 < k /\ k < 2 * n /\ k - 0 = k /\ 2 * n \in Nat \ {0}
      BY <1>1, <1>5, <1>7, <1>10
    <3>2. k % (2 * n) # 0
      <4>1. PICK w : w = 2 * n
        OBVIOUS
      <4>2. k % w # 0
        BY <3>1, <4>1, NonzeroRemainder
      <4> QED
        BY <4>1, <4>2
    <3> QED
      BY <1>7, <3>1, <3>2 DEF Runs
  <2> QED
    BY <1>4, <1>6, <1>7, <1>8, <1>10, <1>3, <2>1, <2>2, <2>3
<1>11. CASE ~(sort.nmerges <= 1)
  <2>1. /\ sort' = [SortFrom(sort.head, sort.cmp) EXCEPT !.insize = 2 * sort.insize]
        /\ list' = list /\ pc' = pc
    BY <1>11 DEF EndPass
  <2>2. sort' = [cmp |-> sort.cmp, head |-> Null, p |-> s[1], q |-> Null, tail |-> Null,
                 insize |-> 2 * n, nmerges |-> 0, psize |-> 0, qsize |-> 0]
    BY <1>4, <1>7, <2>1 DEF SortFrom
  <2>3. s[1] \in Used /\ s[1] = At(s, 1)
    BY <1>1, <1>6 DEF Order, At
  <2>4. sort' \in SortLocals /\ 2 * n \in Nat \ {0}
    <3>1. sort.cmp \in {"idx", "complex"}
      BY <1>3 DEF SortLocals
    <3>2. s[1] \in Pointer /\ Null \in Pointer
      BY <1>1, <2>3 DEF Pointer
    <3>3. 2 * n \in Nat \ {0}
      BY <1>5
    <3> QED
      BY <2>2, <3>1, <3>2, <3>3 DEF SortLocals
  <2>5. Splitting(s, 0)'
    <3>1. Joined(s, 0)'
      BY <2>2 DEF Joined
    <3>2. /\ sort'.p = At(s, 0 + 1)' /\ Follows(s, 0 + 1, free)'
          /\ 0 \in 0..free' /\ sort'.insize = 2 * n /\ sort'.cmp = sort.cmp
      BY <1>1, <1>9, <2>2, <2>3
    <3>3. 0 <= 2 * (2 * n) /\ 2 * (2 * n) \in Nat \ {0}
      BY <1>5
    <3>4. 0 % (2 * (2 * n)) = 0
      <4>1. PICK w : w = 2 * (2 * n)
        OBVIOUS
      <4>2. 0 % w = 0
        BY <3>3, <4>1, ZeroRemainder
      <4> QED
        BY <4>1, <4>2
    <3>5. Runs(s, 1, 0, 0, 2 * (2 * n))'
      BY DEF Runs
    <3>6. sort.cmp = "idx" => Runs(s, 0 + 1, free, 0, 2 * n)'
      <4>1. PICK w : w = 2 * n
        OBVIOUS
      <4>2. PICK f : f = free
        OBVIOUS
      <4>3. sort.cmp = "idx" => Runs(s, 1, f, 0, w)
        BY <1>7, <4>1, <4>2
      <4>4. sort.cmp = "idx" => Runs(s, 1, f, 0, w)'
        BY <1>1, <4>3, SameRuns
      <4> QED
        BY <1>1, <4>1, <4>2, <4>4
    <3> QED
      BY <1>9, <3>1, <3>2, <3>3, <3>4, <3>5, <3>6 DEF Splitting
  <2>6. sort'.cmp = sort.cmp /\ sort'.insize = 2 * sort.insize
    BY <1>4, <2>2
  <2> QED
    BY <1>6, <1>8, <1>11, <2>1, <2>4, <2>5, <2>6
<1> QED
  BY <1>5, <1>10, <1>11

\* The pass is over, and with it the sort or not.
LEMMA EndPassStep ==
  ASSUME ListInv, EndPass, UNCHANGED <<res, done, err, orig>>
  PROVE  ListInv'
<1>1. /\ Input /\ Registers /\ Shape
      /\ pc = "split" /\ back' = back /\ run' = run /\ info' = info /\ idx' = idx
      /\ bench' = bench /\ free' = free
  BY Facts DEF EndPass, loop
<1>2. PICK s, x : Splitting(s, x)
  BY <1>1 DEF Shape, Places
<1>3. /\ sort \in SortLocals /\ info = Own
      /\ <<back, sort.cmp>> \in {<<"ready", "idx">>, <<"finish", "idx">>, <<"remove", "complex">>}
  BY <1>1 DEF Registers
<1>4. /\ next' \in [Cell -> Pointer] /\ \A c \in Cell \ Used : next'[c] = Null
      /\ sort' \in SortLocals /\ sort'.cmp = sort.cmp
      /\ \/ pc' = back /\ Listed(s)' /\ (sort.cmp = "idx" => Ascends(s)')
         \/ pc' = pc /\ Splitting(s, 0)'
  BY <1>2, EndPassRuns
<1>5. Registers' /\ Input'
  BY <1>1, <1>3, <1>4, Registered
<1>6. InKernel' => \E t : Original(t)'
  <2>1. InKernel' => InKernel
    BY <1>1, <1>3, <1>4 DEF InKernel
  <2> QED
    BY <1>1, <2>1, OriginalKept
<1>7. back \in {"ready", "finish", "remove"} /\ (back # "remove" => sort.cmp = "idx")
  BY <1>3
<1>8. Shape'
  BY <1>1, <1>4, <1>6, <1>7 DEF Shape, Places
<1> QED
  BY <1>5, <1>8 DEF ListInv

\* What every step behind the initialization finds.
LEMMA Settled ==
  ASSUME ListInv, pc # "insert"
  PROVE  /\ free \in Nat \ {0} /\ free >= 3 /\ free = ListSize - 1 /\ idx = Keys
         /\ Used \subseteq Cell /\ Null \notin Used /\ Null \notin Cell
         /\ sort \in SortLocals /\ next \in [Cell -> Pointer]
         /\ \A c \in Cell \ Used : next[c] = Null
         /\ pc # "undo" => info = Own
  BY Facts DEF Registers, Unlinked

\* A call of core_bench_list.
LEMMA CallFields ==
  ASSUME NEW head, NEW finder, CallBench(head, finder), ListInv
  PROVE  DOMAIN bench' = DOMAIN bench /\ list' = head /\ pc' = "search"
<1>1. DOMAIN bench = {"finder", "wanted", "found", "missed", "retval", "hit", "rev", "removed"}
  BY Facts DEF Registers
<1>2. DOMAIN bench' = {"finder", "wanted", "found", "missed", "retval", "hit", "rev", "removed"}
  BY DEF CallBench
<1> QED
  BY <1>1, <1>2 DEF CallBench

\* The snapshot is taken of a sorted list.
LEMMA StartStep ==
  ASSUME ListInv, Start
  PROVE  ListInv'
<1>1. /\ pc = "ready" /\ run' = run /\ next' = next /\ info' = info /\ idx' = idx
      /\ free' = free /\ sort' = sort /\ res' = [list |-> list, crclist |-> 0]
      /\ orig' = [heap |-> <<next, info, idx, data>>, list |-> list, blocks |-> blocks]
      /\ CallBench(list, 1)
  BY DEF Start, heap
<1>2. DOMAIN bench' = DOMAIN bench /\ list' = list /\ pc' = "search"
  BY <1>1, CallFields
<1>3. PICK s : Listed(s) /\ Ascends(s)
  BY <1>1 DEF ListInv, Shape, Places
<1>4. /\ \A t : (Order(t)' <=> Order(t)) /\ (Ascends(t)' <=> Ascends(t))
      /\ \A t, k : At(t, k)' = At(t, k)
      /\ Cell' = Cell /\ Pointer' = Pointer /\ Used' = Used /\ Own' = Own /\ Keys' = Keys
  BY <1>1, Same
<1>5. Listed(s)'
  BY <1>1, <1>2, <1>3, <1>4 DEF Listed, Follows
<1>6. Original(s)'
  <2>1. /\ orig'.list = list /\ orig'.heap[1] = next /\ orig'.heap[2] = info
        /\ orig'.heap[3] = idx
    BY <1>1
  <2>2. \A k \in 1..free : next[s[k]] = At(s, k + 1)
    BY <1>3 DEF Listed, Follows
  <2> QED
    BY <1>1, <1>3, <1>4, <2>1, <2>2, Settled DEF Original, Listed, Pointer
<1>7. Registers' /\ Input'
  <2>1. DOMAIN res' = DOMAIN res
    BY <1>1, Facts DEF Registers
  <2> QED
    BY <1>1, <1>2, <2>1, Settled, Registered
<1>8. Shape'
  BY <1>2, <1>5, <1>6 DEF Shape, Places
<1> QED
  BY <1>7, <1>8 DEF ListInv

\* A search only looks at the list, which is reversed next.
LEMMA SearchStep ==
  ASSUME ListInv, Search, UNCHANGED <<res, done, err, orig>>
  PROVE  ListInv'
<1>1. /\ pc = "search" /\ pc' = "reverse" /\ run' = run /\ next' = next /\ info' = info
      /\ idx' = idx /\ free' = free /\ sort' = sort /\ list' = list
      /\ bench' = [bench EXCEPT !.hit = Find(bench.wanted, i % 256), !.rev = Null]
  BY DEF Search, heap, loop
<1>2. PICK s : Listed(s)
  BY <1>1 DEF ListInv, Shape, Places
<1>3. /\ free \in Nat \ {0} /\ Used \subseteq Cell /\ Unlinked
      /\ DOMAIN bench = {"finder", "wanted", "found", "missed", "retval", "hit", "rev", "removed"}
  BY Facts DEF Registers
<1>4. Find(bench.wanted, i % 256) \in Used \cup {Null}
  BY <1>2, <1>3, FindIs DEF Listed
<1>5. DOMAIN bench' = DOMAIN bench /\ bench'.hit \in Used \cup {Null} /\ bench'.rev = Null
  <2> DEFINE found == Find(bench.wanted, i % 256)
  <2>1. bench' = [bench EXCEPT !.hit = found, !.rev = Null]
    BY <1>1
  <2>2. found \in Used \cup {Null}
    BY <1>4
  <2> HIDE DEF found
  <2> QED
    BY <1>3, <2>1, <2>2
<1>6. PICK t : t = [k \in 1..free |-> s[free + 1 - k]]
  OBVIOUS
<1>7. \A k \in 1..free : free + 1 - k \in 1..free /\ free + 1 - (free + 1 - k) = k
  BY <1>3
<1>8. Order(t)
  <2>1. t \in [1..free -> Used]
    BY <1>2, <1>6, <1>7 DEF Listed, Order
  <2>2. ASSUME NEW j \in 1..free, NEW k \in 1..free, t[j] = t[k] PROVE j = k
    <3>1. free + 1 - j = free + 1 - k
      BY <1>2, <1>6, <1>7, <2>2 DEF Listed, Order
    <3> QED
      BY <1>3, <3>1
  <2>3. ASSUME NEW c \in Used PROVE \E k \in 1..free : t[k] = c
    <3>1. PICK k \in 1..free : s[k] = c
      BY <1>2 DEF Listed, Order
    <3>2. t[free + 1 - k] = c
      BY <1>6, <1>7, <3>1
    <3> QED
      BY <1>7, <3>2
  <2> QED
    BY <2>1, <2>2, <2>3 DEF Order
<1>9. Reversing(t, free)'
  <2>1. list = t[free] /\ free # 0
    <3>1. free + 1 - free = 1 /\ free \in 1..free
      BY <1>3
    <3> QED
      BY <1>2, <1>6, <3>1 DEF Listed
  <2>2. ASSUME NEW k \in 1..free PROVE next[t[k]] = IF k = 1 THEN Null ELSE t[k - 1]
    <3>1. next[s[free + 1 - k]] = At(s, (free + 1 - k) + 1)
      BY <1>2, <1>7 DEF Listed, Follows
    <3>2. t[k] = s[free + 1 - k]
      BY <1>6
    <3>3. CASE k = 1
      <4>1. (free + 1 - k) + 1 \notin 1..free
        BY <1>3, <3>3
      <4> QED
        BY <3>1, <3>2, <3>3, <4>1 DEF At
    <3>4. CASE k # 1
      <4>1. /\ (free + 1 - k) + 1 \in 1..free /\ k - 1 \in 1..free
            /\ (free + 1 - k) + 1 = free + 1 - (k - 1)
        BY <1>3, <3>4
      <4> QED
        BY <1>6, <3>1, <3>2, <3>4, <4>1 DEF At
    <3> QED
      BY <3>3, <3>4
  <2>3. bench'.rev = At(t, free + 1)' /\ Follows(t, free + 1, free)'
    <3>1. free + 1 \notin 1..free /\ \A k \in free + 1..free : FALSE
      BY <1>3
    <3> QED
      BY <1>1, <1>5, <3>1 DEF At, Follows
  <2>4. Order(t)' /\ free \in 0..free
    BY <1>1, <1>3, <1>8, Same
  <2> QED
    BY <1>1, <2>1, <2>2, <2>3, <2>4 DEF Reversing
<1>10. Registers' /\ Input'
  BY <1>1, <1>5, Settled, Registered
<1>11. InKernel' => \E u : Original(u)'
  <2>1. InKernel' => InKernel
    BY <1>1 DEF InKernel
  <2> QED
    BY <1>1, <2>1, OriginalKept
<1>12. Shape'
  BY <1>1, <1>9, <1>11 DEF Shape, Places
<1> QED
  BY <1>10, <1>12 DEF ListInv

\* Each turn of the reversal puts the first cell that is left before the reversed ones.
LEMMA ReverseTurns ==
  ASSUME ListInv, Reverse, NEW s, NEW x, Reversing(s, x)
  PROVE  /\ list = Null <=> x = 0
         /\ x # 0 => Reversing(s, x - 1)' /\ next' \in [Cell -> Pointer]
                    /\ \A c \in Cell \ Used : next'[c] = Null
<1>1. /\ pc = "reverse" /\ run' = run /\ info' = info /\ idx' = idx /\ free' = free
      /\ sort' = sort
  BY DEF Reverse, loop
<1>2. Reversing(s, x)
  OBVIOUS
<1>3. /\ free \in Nat \ {0} /\ Used \subseteq Cell /\ Null \notin Used
      /\ next \in [Cell -> Pointer] /\ \A c \in Cell \ Used : next[c] = Null
      /\ DOMAIN bench = {"finder", "wanted", "found", "missed", "retval", "hit", "rev", "removed"}
      /\ bench.hit \in Used \cup {Null} /\ sort \in SortLocals /\ info = Own
  BY <1>1, Settled, Facts DEF Registers
<1>4. Order(s) /\ x \in 0..free /\ \A k \in 1..free : s[k] \in Used
  BY <1>2 DEF Reversing, Order
<1>5. list = Null <=> x = 0
  <2>1. x # 0 => list = s[x] /\ x \in 1..free
    BY <1>2, <1>3, <1>4 DEF Reversing
  <2>2. x = 0 => list = Null
    BY <1>2 DEF Reversing
  <2> QED
    BY <1>3, <1>4, <2>1, <2>2
<1>6. Order(s)' /\ \A k : At(s, k)' = At(s, k)
  BY <1>1, <1>4, Same
<1>7. CASE x = 0
  BY <1>5, <1>7
<1>8. CASE x # 0
  <2>1. /\ next' = [next EXCEPT ![list] = bench.rev]
        /\ bench' = [bench EXCEPT !.rev = list]
        /\ list' = next[list] /\ pc' = pc
    BY <1>5, <1>8 DEF Reverse
  <2>2. /\ x \in 1..free /\ x - 1 \in 0..free /\ x \in Nat
        /\ list = s[x] /\ s[x] \in Used /\ s[x] \in Cell /\ bench.rev = At(s, x + 1)
        /\ \A k \in 1..x : next[s[k]] = IF k = 1 THEN Null ELSE s[k - 1]
        /\ Follows(s, x + 1, free)
    <3>1. x \in 1..free /\ x - 1 \in 0..free /\ x \in Nat
      BY <1>3, <1>4, <1>8
    <3> QED
      BY <1>2, <1>3, <1>4, <1>8, <3>1 DEF Reversing
  <2>3. \A k \in 1..free : s[k] \in Cell /\ (s[k] = s[x] => k = x)
    BY <1>3, <1>4, <2>2 DEF Order
  <2>4. \A k \in 1..free : next'[s[k]] = IF k = x THEN At(s, x + 1) ELSE next[s[k]]
    BY <1>3, <2>1, <2>2, <2>3
  <2>5. next' \in [Cell -> Pointer] /\ \A c \in Cell \ Used : next'[c] = Null
    <3>1. At(s, x + 1) \in Pointer
      BY <1>3, <1>4 DEF At, Pointer
    <3> QED
      BY <1>3, <2>1, <2>2, <3>1
  <2>6. DOMAIN bench' = DOMAIN bench /\ bench'.rev = s[x] /\ bench'.hit = bench.hit
    BY <1>3, <2>1, <2>2
  <2>7. list' = IF x - 1 = 0 THEN Null ELSE s[x - 1]
    <3>1. x \in 1..x /\ (x = 1 <=> x - 1 = 0)
      BY <2>2
    <3> QED
      BY <2>1, <2>2, <3>1
  <2>8. Reversing(s, x - 1)'
    <3>1. ASSUME NEW k \in 1..x - 1 PROVE next'[s[k]] = IF k = 1 THEN Null ELSE s[k - 1]
      <4>1. k \in 1..x /\ k # x /\ k \in 1..free
        BY <1>3, <2>2
      <4> QED
        BY <2>2, <2>4, <4>1
    <3>2. ASSUME NEW k \in x..free PROVE next'[s[k]] = At(s, k + 1)
      <4>1. k \in 1..free /\ (k = x \/ k \in x + 1..free)
        BY <1>3, <2>2
      <4> QED
        BY <2>2, <2>4, <4>1 DEF Follows
    <3>3. (x - 1) + 1 = x /\ At(s, x) = s[x]
      BY <2>2 DEF At
    <3> QED
      BY <1>1, <1>6, <2>2, <2>6, <2>7, <3>1, <3>2, <3>3 DEF Reversing, Follows
  <2> QED
    BY <1>5, <1>8, <2>5, <2>8
<1> QED
  BY <1>7, <1>8

\* A step of the reversal keeps the invariant.
LEMMA ReverseStep ==
  ASSUME ListInv, Reverse, UNCHANGED <<res, done, err, orig>>
  PROVE  ListInv'
<1>1. /\ pc = "reverse" /\ run' = run /\ info' = info /\ idx' = idx /\ free' = free
      /\ sort' = sort
  BY DEF Reverse, loop
<1>2. PICK s, x : Reversing(s, x)
  BY <1>1 DEF ListInv, Shape, Places
<1>3. /\ free \in Nat \ {0} /\ Used \subseteq Cell /\ Null \notin Used
      /\ next \in [Cell -> Pointer] /\ \A c \in Cell \ Used : next[c] = Null
      /\ DOMAIN bench = {"finder", "wanted", "found", "missed", "retval", "hit", "rev", "removed"}
      /\ bench.hit \in Used \cup {Null} /\ sort \in SortLocals /\ info = Own
  BY <1>1, Settled, Facts DEF Registers
<1>4. Order(s) /\ x \in 0..free /\ \A k \in 1..free : s[k] \in Used
  BY <1>2 DEF Reversing, Order
<1>5. list = Null <=> x = 0
  BY <1>2, ReverseTurns
<1>6. Order(s)' /\ \A k : At(s, k)' = At(s, k)
  BY <1>1, <1>4, Same
<1>7. CASE x = 0
  <2>1. list' = bench.rev /\ pc' = "move" /\ next' = next /\ bench' = bench
    BY <1>5, <1>7 DEF Reverse
  <2>2. Listed(s)'
    <3>1. bench.rev = s[1] /\ Follows(s, 1, free)
      <4>1. 0 + 1 \in 1..free /\ 0 + 1 = 1
        BY <1>3
      <4> QED
        BY <1>2, <1>7, <4>1 DEF Reversing, At
    <3> QED
      BY <1>1, <1>6, <2>1, <3>1 DEF Listed, Follows
  <2>3. Registers' /\ Input'
    BY <1>1, <1>3, <2>1, Registered
  <2>4. InKernel' => \E u : Original(u)'
    <3>1. InKernel' => InKernel
      BY <1>1 DEF InKernel
    <3> QED
      BY <1>1, <3>1, OriginalKept
  <2>5. Shape'
    BY <2>1, <2>2, <2>4 DEF Shape, Places
  <2> QED
    BY <2>3, <2>5 DEF ListInv
<1>8. CASE x # 0
  <2>1. /\ next' = [next EXCEPT ![list] = bench.rev]
        /\ bench' = [bench EXCEPT !.rev = list]
        /\ list' = next[list] /\ pc' = pc
    BY <1>5, <1>8 DEF Reverse
  <2>5. /\ Reversing(s, x - 1)' /\ next' \in [Cell -> Pointer]
        /\ \A c \in Cell \ Used : next'[c] = Null
    BY <1>2, <1>8, ReverseTurns
  <2>6. DOMAIN bench' = DOMAIN bench /\ bench'.hit = bench.hit
    BY <1>3, <2>1
  <2>9. Registers' /\ Input'
    BY <1>1, <1>3, <2>1, <2>5, <2>6, Registered
  <2>10. InKernel' => \E u : Original(u)'
    <3>1. InKernel' => InKernel
      BY <1>1 DEF InKernel
    <3> QED
      BY <1>1, <3>1, OriginalKept
  <2>11. Shape'
    BY <1>1, <2>1, <2>5, <2>10 DEF Shape, Places
  <2> QED
    BY <2>9, <2>11 DEF ListInv
<1> QED
  BY <1>7, <1>8

\* The cell behind the hit moves to the second place, and its neighbours close up.
LEMMA MoveStep ==
  ASSUME ListInv, Move, UNCHANGED <<res, done, err, orig>>
  PROVE  ListInv'
<1> DEFINE hit == bench.hit
           moved == next[hit]
<1>1. /\ pc = "move" /\ pc' = "search" /\ run' = run /\ info' = info /\ idx' = idx
      /\ free' = free /\ sort' = sort /\ list' = list
      /\ next' = IF hit = Null \/ moved = Null THEN next
                 ELSE LET n == [next EXCEPT ![hit] = next[moved]]
                      IN  [n EXCEPT ![moved] = n[list], ![list] = moved]
  BY DEF Move
<1>2. PICK s : Listed(s)
  BY <1>1 DEF ListInv, Shape, Places
<1>3. /\ free \in Nat \ {0} /\ free >= 3 /\ Used \subseteq Cell /\ Null \notin Used
      /\ next \in [Cell -> Pointer] /\ \A c \in Cell \ Used : next[c] = Null
      /\ DOMAIN bench = {"finder", "wanted", "found", "missed", "retval", "hit", "rev", "removed"}
      /\ hit \in Used \cup {Null} /\ sort \in SortLocals /\ info = Own
  BY <1>1, Settled, Facts DEF Registers
<1>4. DOMAIN bench' = DOMAIN bench
  BY <1>3 DEF Move
<1>5. /\ Order(s) /\ list = s[1] /\ \A k \in 1..free : s[k] \in Used /\ s[k] \in Cell
      /\ \A k \in 1..free : next[s[k]] = At(s, k + 1)
      /\ \A j, k \in 1..free : s[j] = s[k] => j = k
  BY <1>2, <1>3 DEF Listed, Follows, Order
<1>6. \A t, k : (Order(t)' <=> Order(t)) /\ At(t, k)' = At(t, k)
  BY <1>1, Same
<1>7. /\ next' \in [Cell -> Pointer] /\ \A c \in Cell \ Used : next'[c] = Null
      /\ \E t : Listed(t)'
  <2>1. CASE hit = Null \/ moved = Null
    <3>1. next' = next
      BY <1>1, <2>1
    <3>2. Listed(s)'
      BY <1>1, <1>5, <1>6, <3>1 DEF Listed, Follows
    <3> QED
      BY <1>3, <3>1, <3>2
  <2>2. CASE ~(hit = Null \/ moved = Null)
    <3>1. PICK h \in 1..free : s[h] = hit
      BY <1>3, <1>5, <2>2 DEF Order
    <3>2. h + 1 \in 1..free /\ moved = s[h + 1]
      BY <1>5, <2>2, <3>1 DEF At
    <3>3. h \in 1..free - 1 /\ 1 \in 1..free /\ 2 \in 1..free /\ 1 + 1 = 2
      BY <1>3, <3>2
    <3>4. PICK n : n = [next EXCEPT ![s[h]] = next[s[h + 1]]]
      OBVIOUS
    <3>5. next' = [n EXCEPT ![s[h + 1]] = n[s[1]], ![s[1]] = s[h + 1]]
      BY <1>1, <1>5, <2>2, <3>1, <3>2, <3>4
    <3>6. /\ n \in [Cell -> Pointer]
          /\ \A k \in 1..free : n[s[k]] = IF k = h THEN At(s, h + 2) ELSE At(s, k + 1)
      <4>1. next[s[h + 1]] = At(s, h + 2) /\ next[s[h + 1]] \in Pointer
        <5>1. (h + 1) + 1 = h + 2
          BY <3>1
        <5> QED
          BY <1>3, <1>5, <3>2, <5>1
      <4> QED
        BY <1>3, <1>5, <3>1, <3>4, <4>1
    <3>7. n[s[1]] = IF h = 1 THEN At(s, 3) ELSE s[2]
      <4>1. At(s, 2) = s[2]
        BY <3>3 DEF At
      <4> QED
        BY <3>3, <3>6, <4>1
    <3>8. /\ next' \in [Cell -> Pointer] /\ \A c \in Cell \ Used : next'[c] = Null
          /\ \A k \in 1..free : next'[s[k]] = IF k = 1 THEN s[h + 1]
                                              ELSE IF k = h + 1 THEN n[s[1]] ELSE n[s[k]]
      <4>1. next' \in [Cell -> Pointer]
        <5>1. s[h + 1] \in Pointer /\ n[s[1]] \in Pointer
          BY <1>5, <3>2, <3>3, <3>6 DEF Pointer
        <5> QED
          BY <3>5, <3>6, <5>1
      <4>2. \A c \in Cell \ Used : next'[c] = Null
        BY <1>3, <1>5, <3>1, <3>2, <3>3, <3>4, <3>5
      <4>3. ASSUME NEW k \in 1..free
            PROVE  next'[s[k]] = IF k = 1 THEN s[h + 1]
                                 ELSE IF k = h + 1 THEN n[s[1]] ELSE n[s[k]]
        BY <1>5, <3>2, <3>3, <3>5, <3>6
      <4> QED
        BY <4>1, <4>2, <4>3
    <3>9. PICK t : t = Forward(s, 2, h + 1)
      OBVIOUS
    <3>10. Order(t)
      <4>1. h + 1 \in 2..free
        BY <3>1, <3>2
      <4> QED
        BY <1>3, <1>5, <3>3, <3>9, <4>1, ForwardOrder
    <3>11. /\ t[1] = s[1] /\ t[2] = s[h + 1]
           /\ \A k \in 3..h + 1 : t[k] = s[k - 1]
           /\ \A k \in h + 2..free : t[k] = s[k]
      BY <1>3, <3>2, <3>3, <3>9 DEF Forward
    <3>12. ASSUME NEW k \in 1..free PROVE next'[t[k]] = At(t, k + 1)
      <4>1. CASE k = 1
        <5>1. next'[t[1]] = s[h + 1]
          BY <3>3, <3>8, <3>11
        <5>2. At(t, 2) = s[h + 1]
          BY <3>3, <3>11 DEF At
        <5> QED
          BY <3>3, <4>1, <5>1, <5>2
      <4>2. CASE k = 2
        <5>1. next'[t[2]] = n[s[1]]
          BY <3>1, <3>2, <3>8, <3>11
        <5>2. h = 1 => At(t, 3) = At(s, 3)
          BY <1>3, <3>11 DEF At
        <5>3. h # 1 => At(t, 3) = s[2]
          <6>1. h # 1 => 3 \in 3..h + 1 /\ 3 \in 1..free /\ 3 - 1 = 2
            BY <1>3, <3>1, <3>2
          <6> QED
            BY <3>11, <6>1 DEF At
        <5> QED
          BY <3>7, <4>2, <5>1, <5>2, <5>3
      <4>3. CASE k > 2 /\ k <= h
        <5>1. /\ k \in 3..h + 1 /\ k + 1 \in 3..h + 1 /\ k - 1 \in 1..free /\ k + 1 \in 1..free
              /\ k - 1 # 1 /\ k - 1 # h + 1 /\ k - 1 # h /\ (k - 1) + 1 = k /\ (k + 1) - 1 = k
          BY <1>3, <3>1, <3>2, <4>3
        <5>2. next'[s[k - 1]] = n[s[k - 1]]
          BY <3>8, <5>1
        <5>3. n[s[k - 1]] = At(s, k)
          BY <3>6, <5>1
        <5>4. t[k] = s[k - 1] /\ t[k + 1] = s[k]
          BY <3>11, <5>1
        <5>5. At(s, k) = s[k] /\ At(t, k + 1) = t[k + 1]
          BY <5>1 DEF At
        <5> QED
          BY <5>2, <5>3, <5>4, <5>5
      <4>4. CASE k > 2 /\ k = h + 1
        <5>1. k \in 3..h + 1 /\ k - 1 = h /\ h # 1 /\ h # h + 1 /\ k + 1 = h + 2
          BY <3>1, <4>4
        <5>2. next'[t[k]] = At(s, h + 2)
          BY <3>1, <3>6, <3>8, <3>11, <5>1
        <5>3. At(s, h + 2) = At(t, h + 2)
          <6>1. h + 2 \in 1..free => h + 2 \in h + 2..free
            BY <3>1
          <6> QED
            BY <3>11, <6>1 DEF At
        <5> QED
          BY <5>1, <5>2, <5>3
      <4>5. CASE k > 2 /\ k > h + 1
        <5>1. k \in h + 2..free /\ k # 1 /\ k # h + 1 /\ k # h
          BY <3>1, <4>5
        <5>2. next'[t[k]] = At(s, k + 1)
          BY <3>6, <3>8, <3>11, <5>1
        <5>3. At(s, k + 1) = At(t, k + 1)
          <6>1. k + 1 \in 1..free => k + 1 \in h + 2..free
            BY <3>1, <5>1
          <6> QED
            BY <3>11, <6>1 DEF At
        <5> QED
          BY <5>2, <5>3
      <4> QED
        BY <3>1, <4>1, <4>2, <4>3, <4>4, <4>5
    <3>13. Listed(t)'
      BY <1>1, <1>5, <1>6, <3>10, <3>11, <3>12 DEF Listed, Follows
    <3> QED
      BY <3>8, <3>13
  <2> QED
    BY <2>1, <2>2
<1> HIDE DEF hit, moved
<1>8. Registers' /\ Input'
  BY <1>1, <1>3, <1>4, <1>7, Registered
<1>9. InKernel' => \E u : Original(u)'
  <2>1. InKernel' => InKernel
    BY <1>1 DEF InKernel
  <2> QED
    BY <1>1, <2>1, OriginalKept
<1>10. Shape'
  BY <1>1, <1>7, <1>9 DEF Shape, Places
<1> QED
  BY <1>8, <1>10 DEF ListInv

\* After the searches the list is sorted by data, or goes on as it is.
LEMMA FoundStep ==
  ASSUME ListInv, Found, UNCHANGED <<res, done, err, orig>>
  PROVE  ListInv'
<1>1. /\ pc = "search" /\ run' = run /\ next' = next /\ info' = info /\ idx' = idx
      /\ free' = free /\ list' = list
      /\ bench' = [bench EXCEPT !.retval = (@ + 4 * bench.found - bench.missed) % 2^16]
      /\ \/ CallSort(list, "complex", "remove")
         \/ pc' = "remove" /\ sort' = sort
  BY DEF Found, heap, loop
<1>2. PICK s : Listed(s)
  BY <1>1 DEF ListInv, Shape, Places
<1>3. /\ free \in Nat \ {0} /\ Used \subseteq Cell
      /\ next \in [Cell -> Pointer] /\ \A c \in Cell \ Used : next[c] = Null
      /\ sort \in SortLocals /\ info = Own
      /\ DOMAIN bench = {"finder", "wanted", "found", "missed", "retval", "hit", "rev", "removed"}
  BY <1>1, Settled, Facts DEF Registers
<1>4. DOMAIN bench' = DOMAIN bench
  BY <1>1, <1>3
<1>5. InKernel
  BY <1>1 DEF InKernel
<1>6. InKernel' => \E u : Original(u)'
  BY <1>1, <1>5, OriginalKept
<1>7. CASE CallSort(list, "complex", "remove")
  <2>1. /\ Splitting(s, 0)' /\ sort' \in SortLocals' /\ pc' = "split"
        /\ back' = "remove" /\ sort'.cmp = "complex"
    BY <1>1, <1>2, <1>3, <1>7, Begins
  <2>2. SortLocals' = SortLocals
    BY <1>1, Same DEF SortLocals
  <2>3. Registers' /\ Input'
    BY <1>1, <1>3, <1>4, <2>1, <2>2, Registered
  <2>4. Shape'
    BY <1>6, <2>1 DEF Shape, Places
  <2> QED
    BY <2>3, <2>4 DEF ListInv
<1>8. CASE pc' = "remove" /\ sort' = sort
  <2>1. Listed(s)'
    BY <1>1, <1>2, Same DEF Listed, Follows
  <2>2. Registers' /\ Input'
    BY <1>1, <1>3, <1>4, <1>8, Registered
  <2>3. Shape'
    BY <1>6, <1>8, <2>1 DEF Shape, Places
  <2> QED
    BY <2>2, <2>3 DEF ListInv
<1> QED
  BY <1>1, <1>7, <1>8

\* The third cell is unlinked, after it has exchanged its item with the second.
LEMMA RemoveStep ==
  ASSUME ListInv, Remove, UNCHANGED <<res, done, err, orig>>
  PROVE  ListInv'
<1>1. /\ pc = "remove" /\ pc' = "undo" /\ run' = run /\ idx' = idx /\ free' = free
      /\ list' = list /\ sort' = sort
  BY DEF Remove, loop
<1>2. PICK s : Listed(s)
  BY <1>1 DEF ListInv, Shape, Places
<1>3. /\ free \in Nat \ {0} /\ free >= 3 /\ Used \subseteq Cell
      /\ next \in [Cell -> Pointer] /\ \A c \in Cell \ Used : next[c] = Null
      /\ sort \in SortLocals /\ info = Own
      /\ DOMAIN bench = {"finder", "wanted", "found", "missed", "retval", "hit", "rev", "removed"}
  BY <1>1, Settled, Facts DEF Registers
<1>4. /\ Order(s) /\ list = s[1] /\ \A k \in 1..free : s[k] \in Used /\ s[k] \in Cell
      /\ \A k \in 1..free : next[s[k]] = At(s, k + 1)
      /\ \A j, k \in 1..free : s[j] = s[k] => j = k
  BY <1>2, <1>3 DEF Listed, Follows, Order
<1>5. next[list] = s[2] /\ next[s[2]] = s[3] /\ next[s[3]] = At(s, 4)
      /\ 1 \in 1..free /\ 2 \in 1..free /\ 3 \in 1..free
  BY <1>3, <1>4 DEF At
<1>6. /\ info' = [info EXCEPT ![s[2]] = info[s[3]], ![s[3]] = info[s[2]]]
      /\ next' = [next EXCEPT ![s[2]] = At(s, 4), ![s[3]] = Null]
      /\ bench' = [bench EXCEPT !.removed = s[3]]
  BY <1>5 DEF Remove
<1>7. DOMAIN bench' = DOMAIN bench /\ bench'.removed = s[3]
  BY <1>3, <1>6
<1>8. PICK t : t = Backward(s, 3, free)
  OBVIOUS
<1>9. Order(t)
  BY <1>3, <1>4, <1>5, <1>8, BackwardOrder
<1>10. /\ t[1] = s[1] /\ t[2] = s[2] /\ t[free] = s[3]
       /\ \A k \in 3..free - 1 : t[k] = s[k + 1]
  BY <1>3, <1>8 DEF Backward
<1>11. /\ next' \in [Cell -> Pointer] /\ \A c \in Cell \ Used : next'[c] = Null
       /\ \A k \in 1..free : next'[s[k]] = IF k = 2 THEN At(s, 4) ELSE IF k = 3 THEN Null
                                           ELSE At(s, k + 1)
  <2>1. At(s, 4) \in Pointer /\ Null \in Pointer
    BY <1>4 DEF At, Pointer
  <2>2. next' \in [Cell -> Pointer]
    BY <1>3, <1>6, <2>1
  <2>3. \A c \in Cell \ Used : next'[c] = Null
    BY <1>3, <1>4, <1>5, <1>6
  <2>4. ASSUME NEW k \in 1..free
        PROVE  next'[s[k]] = IF k = 2 THEN At(s, 4) ELSE IF k = 3 THEN Null ELSE At(s, k + 1)
    BY <1>3, <1>4, <1>5, <1>6
  <2> QED
    BY <2>2, <2>3, <2>4
<1>12. ASSUME NEW k \in 1..free
       PROVE  next'[t[k]] = IF k < free - 1 THEN t[k + 1] ELSE Null
  <2>1. CASE k = 1
    <3>1. At(s, 2) = s[2] /\ 1 < free - 1
      BY <1>3, <1>5 DEF At
    <3> QED
      BY <1>5, <1>10, <1>11, <2>1, <3>1
  <2>2. CASE k = 2
    <3>1. next'[t[2]] = At(s, 4)
      BY <1>5, <1>10, <1>11
    <3>2. CASE free = 3
      BY <2>2, <3>1, <3>2 DEF At
    <3>3. CASE free # 3
      <4>1. 3 \in 3..free - 1 /\ 4 \in 1..free /\ 2 < free - 1
        BY <1>3, <3>3
      <4>2. At(s, 4) = s[4] /\ t[3] = s[4]
        BY <1>10, <4>1 DEF At
      <4> QED
        BY <2>2, <3>1, <4>1, <4>2
    <3> QED
      BY <3>2, <3>3
  <2>3. CASE k \in 3..free - 1
    <3>1. k + 1 \in 1..free /\ k + 1 # 2 /\ k + 1 # 3 /\ (k + 1) + 1 = k + 2
      BY <1>3, <2>3
    <3>2. next'[t[k]] = At(s, k + 2)
      BY <1>10, <1>11, <2>3, <3>1
    <3>3. CASE k < free - 1
      <4>1. k + 1 \in 3..free - 1 /\ k + 2 \in 1..free
        BY <1>3, <2>3, <3>3
      <4>2. At(s, k + 2) = s[k + 2] /\ t[k + 1] = s[k + 2]
        BY <1>10, <3>1, <4>1 DEF At
      <4> QED
        BY <3>2, <3>3, <4>2
    <3>4. CASE ~(k < free - 1)
      <4>1. k + 2 \notin 1..free
        BY <1>3, <2>3, <3>4
      <4> QED
        BY <3>2, <3>4, <4>1 DEF At
    <3> QED
      BY <3>3, <3>4
  <2>4. CASE k = free
    <3>1. ~(k < free - 1)
      BY <1>3, <2>4
    <3> QED
      BY <1>5, <1>10, <1>11, <2>4, <3>1
  <2> QED
    BY <1>3, <2>1, <2>2, <2>3, <2>4
<1>13. info' = [Own EXCEPT ![t[2]] = t[free], ![t[free]] = t[2]]
  <2>1. Own[s[2]] = s[2] /\ Own[s[3]] = s[3]
    BY <1>3, <1>4, <1>5 DEF Own, Used
  <2> QED
    BY <1>3, <1>6, <1>10, <2>1
<1>14. Removed(t)'
  <2>1. Own' = Own /\ Order(t)'
    BY <1>1, <1>9, Same
  <2> QED
    BY <1>1, <1>4, <1>7, <1>10, <1>12, <1>13, <2>1 DEF Removed
<1>15. Registers' /\ Input'
  BY <1>1, <1>3, <1>7, <1>11, Registered
<1>16. InKernel' => \E u : Original(u)'
  <2>1. InKernel' => InKernel
    BY <1>1 DEF InKernel
  <2> QED
    BY <1>1, <2>1, OriginalKept
<1>17. Shape'
  BY <1>1, <1>14, <1>16 DEF Shape, Places
<1> QED
  BY <1>15, <1>17 DEF ListInv

\* It comes back behind the second, with the items exchanged again, and the sort by
\* idx starts.
LEMMA UndoRemoveStep ==
  ASSUME ListInv, UndoRemove, UNCHANGED <<res, done, err, orig>>
  PROVE  ListInv'
<1>1. /\ pc = "undo" /\ run' = run /\ idx' = idx /\ free' = free /\ list' = list
      /\ CallSort(list, "idx", "finish")
  BY DEF UndoRemove, loop
<1>2. PICK s : Removed(s)
  BY <1>1 DEF ListInv, Shape, Places
<1>3. /\ free \in Nat \ {0} /\ free >= 3 /\ Used \subseteq Cell
      /\ next \in [Cell -> Pointer] /\ \A c \in Cell \ Used : next[c] = Null
      /\ DOMAIN bench = {"finder", "wanted", "found", "missed", "retval", "hit", "rev", "removed"}
  BY <1>1, Settled, Facts DEF Registers
<1>4. /\ Order(s) /\ list = s[1] /\ bench.removed = s[free]
      /\ \A k \in 1..free : s[k] \in Used /\ s[k] \in Cell
      /\ \A k \in 1..free : next[s[k]] = IF k < free - 1 THEN s[k + 1] ELSE Null
      /\ info = [Own EXCEPT ![s[2]] = s[free], ![s[free]] = s[2]]
      /\ \A j, k \in 1..free : s[j] = s[k] => j = k
  BY <1>2, <1>3 DEF Removed, Order
<1>5. /\ next[list] = s[2]
      /\ 1 \in 1..free /\ 2 \in 1..free /\ free \in 1..free /\ free # 2 /\ free # 1
  BY <1>3, <1>4
<1>6. /\ info' = [info EXCEPT ![s[2]] = info[s[free]], ![s[free]] = info[s[2]]]
      /\ next' = [next EXCEPT ![s[free]] = next[s[2]], ![s[2]] = s[free]]
  BY <1>4, <1>5 DEF UndoRemove
<1>7. DOMAIN bench' = DOMAIN bench
  <2>1. \E v : bench' = [bench EXCEPT !.retval = v, !.removed = Null]
    BY DEF UndoRemove
  <2> QED
    BY <1>3, <2>1
<1>8. PICK t : t = Forward(s, 3, free)
  OBVIOUS
<1>9. Order(t)
  <2>1. 3 \in 1..free /\ free \in 3..free
    BY <1>3
  <2> QED
    BY <1>3, <1>4, <1>8, <2>1, ForwardOrder
<1>10. /\ t[1] = s[1] /\ t[2] = s[2] /\ t[3] = s[free]
       /\ \A k \in 4..free : t[k] = s[k - 1]
  BY <1>3, <1>8 DEF Forward
<1>11. s[2] # s[free]
  BY <1>4, <1>5
<1>12. info' = Own
  <2>1. Own[s[2]] = s[2] /\ Own[s[free]] = s[free]
    BY <1>3, <1>4, <1>5 DEF Own, Used
  <2>2. info[s[2]] = s[free] /\ info[s[free]] = s[2]
    BY <1>4, <1>5, <1>11 DEF Own
  <2>3. \A c \in Cell : info[c] = IF c = s[free] THEN s[2] ELSE IF c = s[2] THEN s[free] ELSE Own[c]
    BY <1>4, <1>5 DEF Own
  <2>4. info' = [c \in Cell |-> IF c = s[free] THEN s[free] ELSE IF c = s[2] THEN s[2] ELSE info[c]]
    BY <1>4, <1>5, <1>6, <1>11, <2>2 DEF Own
  <2>5. \A c \in Cell : info'[c] = Own[c]
    BY <2>1, <2>3, <2>4
  <2> QED
    BY <2>4, <2>5 DEF Own
<1>13. /\ next' \in [Cell -> Pointer] /\ \A c \in Cell \ Used : next'[c] = Null
       /\ \A k \in 1..free : next'[s[k]] = IF k = 2 THEN s[free] ELSE IF k = free THEN next[s[2]]
                                           ELSE next[s[k]]
  <2>1. next[s[2]] \in Pointer /\ s[free] \in Pointer
    BY <1>3, <1>4, <1>5 DEF Pointer
  <2>2. next' \in [Cell -> Pointer]
    BY <1>3, <1>6, <2>1
  <2>3. \A c \in Cell \ Used : next'[c] = Null
    BY <1>3, <1>4, <1>5, <1>6
  <2>4. ASSUME NEW k \in 1..free
        PROVE  next'[s[k]] = IF k = 2 THEN s[free] ELSE IF k = free THEN next[s[2]] ELSE next[s[k]]
    BY <1>3, <1>4, <1>5, <1>6
  <2> QED
    BY <2>2, <2>3, <2>4
<1>14. ASSUME NEW k \in 1..free PROVE next'[t[k]] = At(t, k + 1)
  <2>1. CASE k = 1
    <3>1. At(t, 2) = s[2]
      BY <1>5, <1>10 DEF At
    <3>2. 1 # 2 /\ 1 # free /\ 1 < free - 1
      BY <1>3
    <3> QED
      BY <1>4, <1>5, <1>10, <1>13, <2>1, <3>1, <3>2
  <2>2. CASE k = 2
    <3>1. At(t, 3) = s[free]
      BY <1>3, <1>10 DEF At
    <3> QED
      BY <1>5, <1>10, <1>13, <2>2, <3>1
  <2>3. CASE k = 3
    <3>1. next'[t[3]] = IF 2 < free - 1 THEN s[3] ELSE Null
      BY <1>4, <1>5, <1>10, <1>13
    <3>2. At(t, 4) = IF 2 < free - 1 THEN s[3] ELSE Null
      BY <1>3, <1>10 DEF At
    <3> QED
      BY <2>3, <3>1, <3>2
  <2>4. CASE k \in 4..free
    <3>1. k - 1 \in 1..free /\ k - 1 # 2 /\ k - 1 # free /\ (k - 1) + 1 = k /\ (k + 1) - 1 = k
      BY <1>3, <2>4
    <3>2. next'[t[k]] = IF k - 1 < free - 1 THEN s[k] ELSE Null
      BY <1>4, <1>10, <1>13, <2>4, <3>1
    <3>3. k + 1 \in 1..free <=> k - 1 < free - 1
      BY <1>3, <2>4
    <3>4. k + 1 \in 1..free => t[k + 1] = s[k]
      BY <1>3, <1>10, <2>4, <3>1
    <3> QED
      BY <3>2, <3>3, <3>4 DEF At
  <2> QED
    BY <1>3, <2>1, <2>2, <2>3, <2>4
<1>15. PICK head : head = list
  OBVIOUS
<1>16. Splitting(t, 0)' /\ sort' \in SortLocals /\ pc' = "split" /\ back' = "finish"
       /\ sort'.cmp = "idx"
  <2>1. /\ sort' = [cmp |-> "idx", head |-> Null, p |-> list, q |-> Null, tail |-> Null,
                    insize |-> 1, nmerges |-> 0, psize |-> 0, qsize |-> 0]
        /\ pc' = "split" /\ back' = "finish"
    BY <1>1 DEF CallSort, SortFrom
  <2>2. list = t[1] /\ list \in Pointer /\ At(t, 1) = t[1]
    BY <1>4, <1>5, <1>10 DEF Pointer, At
  <2>3. sort' \in SortLocals
    BY <2>1, <2>2 DEF SortLocals, Pointer
  <2>4. Order(t)' /\ \A k : At(t, k)' = At(t, k)
    BY <1>1, <1>9, Same
  <2>5. Follows(t, 1, free)'
    BY <1>1, <1>14, <2>4 DEF Follows
  <2>6. Joined(t, 0)'
    BY <2>1 DEF Joined
  <2>7. Runs(t, 1, 0, 0, 2)' /\ 0 % 2 = 0
    BY DEF Runs
  <2>8. Runs(t, 1, free, 0, 1)'
    <3>1. \A k \in Int : (k - 0) % 1 = 0
      BY SMT
    <3> QED
      BY <3>1 DEF Runs
  <2>9. /\ sort'.insize = 1 /\ 2 * 1 = 2 /\ 0 + 1 = 1 /\ 0 \in 0..free'
        /\ sort'.p = At(t, 0 + 1)' /\ sort'.nmerges = 0
    BY <1>1, <1>3, <2>1, <2>2, <2>4
  <2>10. Splitting(t, 0)'
    BY <2>4, <2>5, <2>6, <2>7, <2>8, <2>9 DEF Splitting
  <2> QED
    BY <2>1, <2>3, <2>10
<1>17. Registers' /\ Input'
  BY <1>1, <1>7, <1>12, <1>13, <1>16, Registered
<1>18. InKernel' => \E u : Original(u)'
  <2>1. InKernel' => InKernel
    BY <1>1 DEF InKernel
  <2> QED
    BY <1>1, <2>1, OriginalKept
<1>19. Shape'
  BY <1>16, <1>18 DEF Shape, Places
<1> QED
  BY <1>17, <1>19 DEF ListInv

\* The steps that leave the list alone.
LEMMA Idle ==
  ASSUME ListInv, pc # "insert", pc # "undo",
         run' = run, next' = next, info' = info, idx' = idx, free' = free, list' = list,
         sort' = sort, DOMAIN bench' = DOMAIN bench,
         pc' \in {"ready", "search", "remove", "finish", "returned", "verdict", "done"},
         orig' = orig, DOMAIN res' = DOMAIN res, res'.list = res.list, InKernel' => InKernel,
         NEW s, Listed(s), pc' \in {"ready", "finish", "returned"} => Ascends(s)
  PROVE  ListInv'
<1>1. Listed(s)' /\ (Ascends(s)' <=> Ascends(s))
  BY Same DEF Listed, Follows
<1>2. Registers' /\ Input'
  BY Settled, Registered
<1>3. InKernel' => \E t : Original(t)'
  BY OriginalKept
<1>4. Shape'
  BY <1>1, <1>3 DEF Shape, Places
<1> QED
  BY <1>2, <1>4 DEF ListInv

\* The last checksum does not touch the list.
LEMMA FinishStep ==
  ASSUME ListInv, Finish, UNCHANGED <<res, done, err, orig>>
  PROVE  ListInv'
<1>1. /\ pc = "finish" /\ pc' = "returned" /\ run' = run /\ next' = next /\ info' = info
      /\ idx' = idx /\ free' = free /\ list' = list /\ sort' = sort
  BY DEF Finish, heap, loop
<1>2. PICK s : Listed(s) /\ Ascends(s)
  BY <1>1 DEF ListInv, Shape, Places
<1>3. DOMAIN bench' = DOMAIN bench
  BY Facts DEF Finish, Registers
<1>4. InKernel' => InKernel
  BY <1>1 DEF InKernel
<1> QED
  BY <1>1, <1>2, <1>3, <1>4, Idle

\* What the sort by idx sorts by, as a function.
LEMMA Ascending ==
  ASSUME ListInv, pc # "insert", NEW key, key = [c \in Used |-> Key(c)]
  PROVE  /\ key \in [Used -> Int]
         /\ \A u : Order(u) /\ Ascends(u) => \A k \in 1..free - 1 : key[u[k]] <= key[u[k + 1]]
<1>1. /\ free \in Nat /\ free = ListSize - 1 /\ Used \subseteq Cell /\ Input
  BY Facts
<1>2. key \in [Used -> Int]
  BY <1>1, KeyType
<1>3. ASSUME NEW u, Order(u), Ascends(u) PROVE \A k \in 1..free - 1 : key[u[k]] <= key[u[k + 1]]
  <2> TAKE k \in 1..free - 1
  <2>1. u[k] \in Used /\ u[k + 1] \in Used
    <3>1. k \in 1..free /\ k + 1 \in 1..free /\ u \in [1..free -> Used]
      BY <1>1, <1>3 DEF Order
    <3> QED
      BY <3>1
  <2> QED
    BY <1>3, <2>1 DEF Ascends
<1> QED
  BY <1>2, <1>3

\* Cell 0 comes first in an ascending list.
LEMMA HeadFirst ==
  ASSUME ListInv, pc # "insert", NEW s, Order(s), Ascends(s)
  PROVE  s[1] = 0
<1>1. /\ free \in Nat \ {0} /\ free = ListSize - 1 /\ 0 \in Used /\ Input
  BY Facts
<1>2. PICK key : key = [c \in Used |-> Key(c)]
  OBVIOUS
<1>3. PICK k \in 1..free : s[k] = 0
  BY <1>1 DEF Order
<1>4. 1 \in 1..free /\ k \in 1..free /\ s[1] \in Used
  BY <1>1 DEF Order
<1>5. key[s[1]] <= key[s[k]]
  <2>1. key \in [Used -> Int] /\ \A n \in 1..free - 1 : key[s[n]] <= key[s[n + 1]]
    BY <1>2, Ascending
  <2> QED
    BY <1>1, <1>4, <2>1, Monotone
<1>6. Key(s[1]) <= Key(0)
  BY <1>1, <1>2, <1>3, <1>4, <1>5
<1>7. /\ Key(0) = 0 /\ Key(s[1]) \in Int
      /\ s[1] # 0 => Key(s[1]) > 0
  BY <1>1, <1>4, KeyType, Facts
<1> QED
  BY <1>6, <1>7

\* If no two items have the same idx, there is one ascending list.
LEMMA Recovered ==
  ASSUME ListInv, pc # "insert", Distinguishable(run),
         NEW s, Order(s), Ascends(s), NEW t, Order(t), Ascends(t)
  PROVE  s = t
<1>1. free \in Nat /\ free = ListSize - 1 /\ Input
  BY Facts
<1>2. PICK key : key = [c \in Used |-> Key(c)]
  OBVIOUS
<1>3. \A c, d \in Used : key[c] = key[d] => c = d
  BY <1>1, <1>2, KeysDiffer
<1>4. /\ key \in [Used -> Int]
      /\ \A u : Order(u) /\ Ascends(u) => \A k \in 1..free - 1 : key[u[k]] <= key[u[k + 1]]
  BY <1>2, Ascending
<1> QED
  BY <1>1, <1>3, <1>4, SortedOnce

\* iterate calls the kernel with the head that it has from before.
LEMMA ReturnedStep ==
  ASSUME ListInv, Returned
  PROVE  ListInv'
<1>1. /\ pc = "returned" /\ run' = run /\ next' = next /\ info' = info /\ idx' = idx
      /\ free' = free /\ sort' = sort /\ orig' = orig
  BY DEF Returned, heap
<1>2. PICK s : Listed(s) /\ Ascends(s)
  BY <1>1 DEF ListInv, Shape, Places
<1>3. InKernel
  BY <1>1 DEF InKernel
<1>4. PICK t : Original(t)
  BY <1>3 DEF ListInv, Shape, Places
<1>5. s[1] = 0 /\ t[1] = 0
  BY <1>1, <1>2, <1>4, HeadFirst DEF Listed, Original
<1>6. res.list = list
  BY <1>2, <1>4, <1>5 DEF Listed, Original
<1>7. res'.list = res.list /\ DOMAIN res' = DOMAIN res
  <2>1. DOMAIN res = {"list", "crclist"}
    BY Facts DEF Registers
  <2>2. res' = res \/ res' = [res EXCEPT !.crclist = crc']
    BY DEF Returned
  <2> QED
    BY <2>1, <2>2
<1>8. \/ pc' = "search" /\ list' = list /\ DOMAIN bench' = DOMAIN bench
      \/ pc' = "verdict" /\ list' = list /\ bench' = bench
  <2>1. \/ CallBench(res.list, -1) \/ CallBench(res.list, 1)
        \/ pc' = "verdict" /\ UNCHANGED <<list, i, bench>>
    BY DEF Returned
  <2>2. \A f : CallBench(res.list, f) =>
                 DOMAIN bench' = DOMAIN bench /\ list' = res.list /\ pc' = "search"
    BY CallFields
  <2> QED
    BY <1>6, <2>1, <2>2
<1> QED
  BY <1>1, <1>2, <1>3, <1>7, <1>8, Idle

\* The verdict does not touch the list.
LEMMA VerdictStep ==
  ASSUME ListInv, Verdict
  PROVE  ListInv'
<1>1. /\ pc = "verdict" /\ pc' = "done" /\ run' = run /\ next' = next /\ info' = info
      /\ idx' = idx /\ free' = free /\ list' = list /\ sort' = sort /\ bench' = bench
      /\ orig' = orig /\ res' = res
  BY DEF Verdict, heap, loop
<1>2. PICK s : Listed(s)
  BY <1>1 DEF ListInv, Shape, Places
<1>3. InKernel' => InKernel
  BY <1>1 DEF InKernel
<1> QED
  BY <1>1, <1>2, <1>3, Idle

-----------------------------------------------------------------------------
(* Nothing changes when nothing happens.                                    *)

\* The pieces of a sort stay what they are.
LEMMA SamePieces ==
  ASSUME UNCHANGED vars
  PROVE  \A s, x : (Splitting(s, x)' <=> Splitting(s, x)) /\ (Merging(s, x)' <=> Merging(s, x))
<1>1. run' = run /\ next' = next /\ free' = free /\ sort' = sort
  BY DEF vars, coreVars
<1>2. /\ \A s : Order(s)' <=> Order(s)
      /\ \A s, k : At(s, k)' = At(s, k)
      /\ \A c : Key(c)' = Key(c)
  BY <1>1, Same
<1>3. \A s, a, b : Follows(s, a, b)' <=> Follows(s, a, b)
  BY <1>1, SameChain
<1>5. \A s, x : Joined(s, x)' <=> Joined(s, x)
  BY <1>1 DEF Joined
<1>6. \A s, a, b, e, n : Runs(s, a, b, e, n)' <=> Runs(s, a, b, e, n)
  BY <1>1, SameRuns
<1>7. \A s, x : Splitting(s, x)' <=> Splitting(s, x)
  BY <1>1, <1>2, <1>3, <1>5, <1>6 DEF Splitting, Follows, Runs
<1>8. \A s, x : Merging(s, x)' <=> Merging(s, x)
  BY <1>1, <1>2, <1>3, <1>5, <1>6 DEF Merging, Follows, Runs
<1> QED
  BY <1>7, <1>8

\* Nor does the rest of the list.
LEMMA Stutter ==
  ASSUME ListInv, UNCHANGED vars
  PROVE  ListInv'
<1>1. /\ run' = run /\ next' = next /\ info' = info /\ idx' = idx /\ list' = list
      /\ free' = free /\ i' = i /\ bench' = bench /\ sort' = sort /\ pc' = pc /\ back' = back
      /\ res' = res /\ orig' = orig
  BY DEF vars, coreVars
<1>2. /\ ListSize' = ListSize /\ Cell' = Cell /\ Pointer' = Pointer /\ Used' = Used
      /\ Own' = Own /\ Keys' = Keys /\ (Input' <=> Input)
      /\ \A s : (Order(s)' <=> Order(s)) /\ (Ascends(s)' <=> Ascends(s))
      /\ \A s, k : At(s, k)' = At(s, k)
      /\ \A c : Key(c)' = Key(c)
  BY <1>1, Same
<1>3. \A s, a, b : Follows(s, a, b)' <=> Follows(s, a, b)
  BY <1>1, SameChain
<1>4. Inserting' <=> Inserting
  <2>1. InsertOrder' = InsertOrder
    BY <1>1 DEF InsertOrder
  <2>2. Follows(InsertOrder, 1, free)' <=> Follows(InsertOrder, 1, free)
    BY <1>1, <1>2, <2>1 DEF Follows
  <2> QED
    BY <1>1, <1>2, <2>2 DEF Inserting
<1>7. \A s, x : (Splitting(s, x)' <=> Splitting(s, x)) /\ (Merging(s, x)' <=> Merging(s, x))
  BY SamePieces
<1>9. \A s, x : Reversing(s, x)' <=> Reversing(s, x)
  BY <1>1, <1>2, <1>3 DEF Reversing, Follows
<1>10. \A s : (Removed(s)' <=> Removed(s)) /\ (Listed(s)' <=> Listed(s))
  BY <1>1, <1>2, <1>3 DEF Removed, Listed, Follows
<1>11. \A s : Original(s)' <=> Original(s)
  BY <1>1, SameOriginal
<1>12. Registers' <=> Registers
  <2>1. SortLocals' = SortLocals /\ (Unlinked' <=> Unlinked)
    BY <1>1, <1>2 DEF SortLocals, Unlinked
  <2> QED
    BY <1>1, <1>2, <2>1 DEF Registers
<1>13. Shape' <=> Shape
  <2>1. InKernel' <=> InKernel
    BY <1>1 DEF InKernel
  <2> QED
    BY <1>1, <1>2, <1>4, <1>7, <1>9, <1>10, <1>11, <2>1 DEF Shape, Places
<1> QED
  BY <1>2, <1>12, <1>13 DEF ListInv

\* In every state there is an order of all the cells in use that the pointers of
\* the running function spell out, and after a sort by idx it ascends.
THEOREM ListIsWhole == Spec => []ListInv
<1>1. ListInv /\ [Next]_vars => ListInv'
  <2> SUFFICES ASSUME ListInv, [Next]_vars PROVE ListInv'
    OBVIOUS
  <2>1. CASE (Insert \/ Index \/ Sort \/ BenchList) /\ UNCHANGED <<res, done, err, orig>>
    BY <2>1, InsertStep, IndexStep, SplitStep, MergeStep, MergedStep, EndPassStep,
       SearchStep, ReverseStep, MoveStep, FoundStep, RemoveStep, UndoRemoveStep, FinishStep
    DEF Sort, BenchList
  <2>2. CASE Start \/ Returned \/ Verdict
    BY <2>2, StartStep, ReturnedStep, VerdictStep
  <2>3. CASE UNCHANGED vars
    BY <2>3, Stutter
  <2> QED
    BY <2>1, <2>2, <2>3 DEF Next
<1> QED
  BY <1>1, InitShape, PTL DEF Spec

\* A part of an order is a sequence of used cells.
LEMMA PartIs ==
  ASSUME free \in Nat, NEW s, Order(s), NEW a \in Nat \ {0}, NEW m \in Nat, a + m - 1 <= free
  PROVE  Part(s, a, m) \in Seq(Used) /\ Len(Part(s, a, m)) = m
<1> DEFINE t == Part(s, a, m)
<1>1. \A k \in 1..m : a + k - 1 \in 1..free
  OBVIOUS
<1>2. t \in [1..m -> Used]
  BY <1>1 DEF Part, Order
<1> HIDE DEF t
<1>3. t \in Seq(Used)
  BY <1>2, ElementOfSeq
<1>4. Len(t) = m
  BY <1>2, <1>3, LenProperties
<1> QED
  BY <1>3, <1>4 DEF t

\* Two parts of s that lie side by side, as one.
Adjoin(s, a, m, n) == Part(s, a, m) \o Part(s, a + m, n) = Part(s, a, m + n)

\* Parts of an order that lie side by side make a part.
LEMMA PartsJoin ==
  ASSUME free \in Nat, NEW s, Order(s), NEW a \in Nat \ {0}, NEW m \in Nat, NEW n \in Nat,
         a + m + n <= free + 1
  PROVE  Adjoin(s, a, m, n)
<1> DEFINE t == Part(s, a, m)
           u == Part(s, a + m, n)
           v == Part(s, a, m + n)
<1>1. /\ t \in Seq(Used) /\ Len(t) = m
      /\ u \in Seq(Used) /\ Len(u) = n
      /\ v \in Seq(Used) /\ Len(v) = m + n
  <2>1. PICK b, l : b = a + m /\ l = m + n
    OBVIOUS
  <2>2. /\ b \in Nat \ {0} /\ l \in Nat /\ a + m - 1 <= free /\ b + n - 1 <= free
        /\ a + l - 1 <= free
    BY <2>1
  <2> QED
    BY <2>1, <2>2, PartIs
<1>2. /\ \A k \in 1..m : t[k] = s[a + k - 1]
      /\ \A k \in 1..n : u[k] = s[(a + m) + k - 1]
      /\ \A k \in 1..m + n : v[k] = s[a + k - 1]
  BY DEF Part
<1> HIDE DEF t, u, v
<1>3. /\ t \o u \in Seq(Used)
      /\ Len(t \o u) = m + n
      /\ \A k \in 1..m + n : (t \o u)[k] = IF k <= m THEN t[k] ELSE u[k - m]
  BY <1>1, ConcatProperties
<1>4. ASSUME NEW k \in 1..m + n PROVE (t \o u)[k] = v[k]
  <2>1. CASE k <= m
    <3>1. k \in 1..m
      BY <2>1
    <3> QED
      BY <1>2, <1>3, <2>1, <3>1
  <2>2. CASE ~(k <= m)
    <3>1. k - m \in 1..n /\ (a + m) + (k - m) - 1 = a + k - 1
      BY <2>2
    <3> QED
      BY <1>2, <1>3, <2>2, <3>1
  <2> QED
    BY <2>1, <2>2
<1>5. t \o u = v
  BY <1>1, <1>3, <1>4, SeqEqual
<1> QED
  BY <1>5 DEF Adjoin, t, u, v

\* An order is the whole of itself.
LEMMA PartWhole ==
  ASSUME free \in Nat, NEW s, Order(s)
  PROVE  Part(s, 1, free) = s /\ s \in Seq(Used) /\ Len(s) = free
<1>1. \A k \in 1..free : 1 + k - 1 = k
  OBVIOUS
<1>2. s = [k \in 1..free |-> s[k]]
  BY DEF Order
<1>3. Part(s, 1, free) = s
  BY <1>1, <1>2 DEF Part
<1> QED
  BY <1>3, PartIs

\* An order holds each used cell once.
LEMMA OrderDistinct ==
  ASSUME free \in Nat \ {0}, NEW s, Order(s)
  PROVE  Distinct(s)
<1>1. Len(s) = free
  BY PartWhole
<1>2. {s[n] : n \in 1..free} = Used
  BY DEF Order
<1>3. Cardinality(Used) = free
  <2>1. Cardinality(0..free - 1) = IF 0 > free - 1 THEN 0 ELSE free - 1 - 0 + 1
    BY FS_Interval
  <2> QED
    BY <2>1 DEF Used
<1> QED
  BY <1>1, <1>2, <1>3 DEF Distinct

\* From c on hang m cells of s from place a on, and no others if m < n.
Strung(c, s, a, m, n) ==
  /\ m > 0 => c = s[a]
  /\ \A k \in a..a + m - 2 : next[s[k]] = s[k + 1]
  /\ m < n => IF m = 0 THEN c = Null ELSE next[s[a + m - 1]] = Null

\* The walk over a part of an order.
LEMMA WalkPart ==
  ASSUME free \in Nat \ {0}, Null \notin Used, NEW s, Order(s),
         NEW c, NEW a \in Nat \ {0}, NEW m \in Nat, NEW n \in Nat, m <= n,
         a + m <= free + 1, Strung(c, s, a, m, n)
  PROVE  Walk(c, n) = Part(s, a, m)
<1>1. \A k \in a..a + m - 1 : s[k] # Null
  <2> TAKE k \in a..a + m - 1
  <2>1. k \in 1..free
    OBVIOUS
  <2> QED
    BY <2>1 DEF Order
<1> QED
  BY <1>1, WalkIs DEF Strung

\* The walk to the end of a list.
LEMMA WalkOn ==
  ASSUME free \in Nat \ {0}, Null \notin Used, NEW s, Order(s), NEW c, NEW a \in 1..free + 1,
         c = At(s, a), Follows(s, a, free)
  PROVE  Walk(c, free) = Part(s, a, free - a + 1)
<1>0. PICK m : m = free - a + 1
  OBVIOUS
<1>1. /\ m \in Nat /\ m <= free /\ a \in Nat \ {0} /\ free \in Nat
      /\ a + m <= free + 1 /\ a + m - 1 = free /\ a + m - 2 = free - 1
  BY <1>0
<1>2. m > 0 => c = s[a]
  BY <1>1 DEF At
<1>3. \A k \in a..free - 1 : next[s[k]] = s[k + 1]
  BY DEF Follows, At
<1>4. m = 0 => c = Null
  BY <1>1 DEF At
<1>5. m # 0 => next[s[free]] = Null
  BY <1>1 DEF Follows, At
<1>6. Strung(c, s, a, m, free)
  BY <1>1, <1>2, <1>3, <1>4, <1>5 DEF Strung
<1>7. Walk(c, free) = Part(s, a, m)
  BY <1>1, <1>6, WalkPart
<1> QED
  BY <1>0, <1>7

-----------------------------------------------------------------------------
\* NoCellLost, with the order as a witness.
Whole ==
  \E s : /\ Order(s) /\ MergedCells \o Ahead = s
         /\ MergedCells # <<>> => MergedCells[Len(MergedCells)] = sort.tail

\* During a sort: the merged cells are the first of the order, the others the rest.
LEMMA MergedWhole ==
  ASSUME free \in Nat \ {0}, Null \notin Used, pc \in {"split", "merge"},
         NEW s, Order(s), NEW x \in 0..free, Joined(s, x), Ahead = Part(s, x + 1, free - x)
  PROVE  Whole
<1>0. PICK one, b, m : one = 1 /\ b = x + 1 /\ m = free - x
  OBVIOUS
<1>1. /\ one \in Nat \ {0} /\ b \in Nat \ {0} /\ m \in Nat /\ x \in Nat /\ b \in Nat /\ free \in Nat
      /\ b + m - 1 <= free /\ b = one + x /\ free = x + m /\ one + free - 1 <= free
      /\ x = one + x - 1 /\ x <= free /\ x <= x
  BY <1>0
<1>2. MergedCells = Walk(sort.head, x)
  <2>1. Len(Ahead) = m
    BY <1>0, <1>1, PartIs
  <2>2. free - m = x
    BY <1>0
  <2> QED
    BY <2>1, <2>2 DEF MergedCells
<1>3. Walk(sort.head, x) = Part(s, one, x)
  <2>1. x > 0 => sort.head = s[one]
    BY <1>0 DEF Joined
  <2>2. \A k \in one..x - 1 : next[s[k]] = s[k + 1]
    BY <1>0 DEF Joined
  <2>3. ~(x < x) /\ one + x - 2 = x - 1 /\ one + x <= free + 1
    BY <1>0, <1>1
  <2>4. Strung(sort.head, s, one, x, x)
    BY <2>1, <2>2, <2>3 DEF Strung
  <2> QED
    BY <1>1, <2>3, <2>4, WalkPart
<1>4. MergedCells \o Ahead = s
  <2>1. Part(s, one, x) \o Part(s, b, m) = Part(s, one, free)
    <3>1. one + x + m <= free + 1
      BY <1>0
    <3>2. Adjoin(s, one, x, m)
      BY <1>1, <3>1, PartsJoin
    <3> QED
      BY <1>1, <3>2 DEF Adjoin
  <2> QED
    BY <1>0, <1>2, <1>3, <2>1, PartWhole
<1>5. MergedCells # <<>> => MergedCells[Len(MergedCells)] = sort.tail
  <2>1. MergedCells \in Seq(Used) /\ Len(MergedCells) = x
    BY <1>1, <1>2, <1>3, PartIs
  <2>2. CASE x = 0
    BY <2>1, <2>2, EmptySeq
  <2>3. CASE x # 0
    <3>1. x \in 1..x /\ 1 + x - 1 = x /\ x > 0
      BY <2>3
    <3>2. MergedCells[x] = s[x]
      BY <1>0, <1>2, <1>3, <3>1 DEF Part
    <3> QED
      BY <2>1, <3>1, <3>2 DEF Joined
  <2> QED
    BY <2>2, <2>3
<1> QED
  BY <1>4, <1>5 DEF Whole

\* Elsewhere nothing is half merged.
LEMMA OthersWhole ==
  ASSUME pc \notin {"split", "merge"}, NEW s, Order(s), free \in Nat, Ahead = s
  PROVE  Whole
<1>1. MergedCells = <<>>
  BY DEF MergedCells
<1>2. <<>> \o s = s
  BY PartWhole, ConcatEmptySeq
<1> QED
  BY <1>1, <1>2 DEF Whole

\* The walks of NoCellLost find the order that the invariant is about.
LEMMA ListWhole == ListInv => Whole
<1> SUFFICES ASSUME ListInv PROVE Whole
  OBVIOUS
<1>1. free \in Nat \ {0} /\ Null \notin Used /\ Shape /\ Registers /\ (pc # "insert" => free >= 3)
  BY Facts
<1>2. ASSUME pc = "split" PROVE Whole
  <2>1. PICK s, x : Splitting(s, x)
    BY <1>1, <1>2 DEF Shape, Places
  <2>2. /\ Order(s) /\ x \in 0..free /\ Joined(s, x)
        /\ sort.p = At(s, x + 1) /\ Follows(s, x + 1, free)
    BY <2>1 DEF Splitting
  <2>3. Walk(sort.p, free) = Part(s, x + 1, free - (x + 1) + 1)
    <3>1. x + 1 \in 1..free + 1
      BY <1>1, <2>2
    <3> QED
      BY <1>1, <2>2, <3>1, WalkOn
  <2>4. free - (x + 1) + 1 = free - x
    BY <1>1, <2>2
  <2>5. Ahead = Part(s, x + 1, free - x)
    BY <1>2, <2>3, <2>4 DEF Ahead
  <2> QED
    BY <1>1, <1>2, <2>2, <2>5, MergedWhole
<1>3. ASSUME pc = "merge" PROVE Whole
  <2>1. PICK s, x : Merging(s, x)
    BY <1>1, <1>3 DEF Shape, Places
  <2>2. PICK m : m = sort.psize
    OBVIOUS
  <2>3. PICK z : z = x + m + 1
    OBVIOUS
  <2>4. /\ Order(s) /\ x \in 0..free /\ z - 1 <= free /\ Joined(s, x) /\ m \in Nat
        /\ m > 0 => sort.p = s[x + 1]
        /\ \A k \in x + 1..z - 2 : next[s[k]] = s[k + 1]
        /\ sort.q = At(s, z) /\ Follows(s, z, free)
    BY <1>1, <2>1, <2>2, <2>3 DEF Merging, Registers, SortLocals
  <2>0. PICK b, n, l : b = x + 1 /\ n = free - z + 1 /\ l = free - x
    OBVIOUS
  <2>5. Walk(sort.p, m) = Part(s, b, m)
    <3>1. /\ b \in Nat \ {0} /\ b + m - 2 = z - 2 /\ b + m <= free + 1
          /\ m <= m /\ ~(m < m)
      BY <1>1, <2>0, <2>3, <2>4
    <3>2. Strung(sort.p, s, b, m, m)
      BY <2>0, <2>4, <3>1 DEF Strung
    <3>3. Order(s) /\ m \in Nat
      BY <2>4
    <3> QED
      BY <1>1, <3>1, <3>2, <3>3, WalkPart
  <2>6. Walk(sort.q, free) = Part(s, z, free - z + 1)
    <3>1. z \in 1..free + 1
      BY <1>1, <2>3, <2>4
    <3> QED
      BY <1>1, <2>4, <3>1, WalkOn
  <2>7. Part(s, b, m) \o Part(s, z, n) = Part(s, b, l)
    <3>1. b \in Nat \ {0} /\ n \in Nat /\ z = b + m /\ l = m + n /\ b + m + n <= free + 1
      BY <1>1, <2>0, <2>3, <2>4
    <3>2. Order(s) /\ m \in Nat
      BY <2>4
    <3>3. Adjoin(s, b, m, n)
      BY <1>1, <3>1, <3>2, PartsJoin
    <3> QED
      BY <3>1, <3>3 DEF Adjoin
  <2>8. Ahead = Part(s, x + 1, free - x)
    BY <1>3, <2>0, <2>2, <2>5, <2>6, <2>7 DEF Ahead
  <2> QED
    BY <1>1, <1>3, <2>4, <2>8, MergedWhole
<1>4. ASSUME pc = "reverse" PROVE Whole
  <2>1. PICK s, x : Reversing(s, x)
    BY <1>1, <1>4 DEF Shape, Places
  <2>2. /\ Order(s) /\ x \in 0..free
        /\ list = IF x = 0 THEN Null ELSE s[x]
        /\ \A k \in 1..x : next[s[k]] = IF k = 1 THEN Null ELSE s[k - 1]
        /\ bench.rev = At(s, x + 1) /\ Follows(s, x + 1, free)
    BY <2>1 DEF Reversing
  <2>3. PICK u : u = [k \in 1..free |-> IF k <= x THEN s[x + 1 - k] ELSE s[k]]
    OBVIOUS
  <2>4. Order(u)
    <3> DEFINE turn == [k \in 1..free |-> IF k <= x THEN x + 1 - k ELSE k]
    <3>1. turn \in [1..free -> 1..free] /\ \A k \in 1..free : turn[turn[k]] = k
      BY <1>1, <2>2
    <3>2. u = Placed(s, turn)
      BY <2>3 DEF Placed
    <3> HIDE DEF turn
    <3> QED
      BY <1>1, <2>2, <3>1, <3>2, Permuted
  <2>0. PICK one, b, m : one = 1 /\ b = x + 1 /\ m = free - x
    OBVIOUS
  <2>5. Walk(list, free) = Part(u, one, x)
    <3>1. /\ x \in Nat /\ x <= free /\ one \in Nat \ {0} /\ free \in Nat
          /\ one + x - 1 = x /\ one + x - 2 = x - 1 /\ one + x <= free + 1
      BY <1>1, <2>0, <2>2
    <3>2. x > 0 => list = u[one]
      BY <1>1, <2>0, <2>2, <2>3
    <3>3. ASSUME NEW k \in one..x - 1 PROVE next[u[k]] = u[k + 1]
      <4>1. /\ k \in 1..free /\ k + 1 \in 1..free /\ k <= x /\ k + 1 <= x
            /\ x + 1 - k \in 1..x /\ x + 1 - k # 1 /\ (x + 1 - k) - 1 = x + 1 - (k + 1)
        BY <1>1, <2>0, <2>2
      <4>2. u[k] = s[x + 1 - k] /\ u[k + 1] = s[x + 1 - (k + 1)]
        BY <2>3, <4>1
      <4> QED
        BY <2>2, <4>1, <4>2
    <3>4. x # 0 => next[u[x]] = Null
      <4>1. x # 0 => x \in 1..free /\ 1 \in 1..x /\ x + 1 - x = 1
        BY <1>1, <2>2
      <4> QED
        BY <2>2, <2>3, <4>1
    <3>5. x < free => IF x = 0 THEN list = Null ELSE next[u[x]] = Null
      BY <2>2, <3>1, <3>4
    <3>6. Strung(list, u, one, x, free)
      BY <3>1, <3>2, <3>3, <3>5 DEF Strung
    <3> QED
      BY <1>1, <2>4, <3>1, <3>6, WalkPart
  <2>6. Walk(bench.rev, free) = Part(u, x + 1, free - x)
    <3>1. \A k \in x + 1..free : u[k] = s[k]
      BY <1>1, <2>2, <2>3
    <3>2. x + 1 \in 1..free + 1 /\ free - (x + 1) + 1 = free - x
      BY <1>1, <2>2
    <3>3. bench.rev = At(u, x + 1)
      BY <1>1, <2>2, <3>1 DEF At
    <3>4. Follows(u, x + 1, free)
      <4>1. ASSUME NEW k \in x + 1..free PROVE next[u[k]] = At(u, k + 1)
        <5>1. next[s[k]] = At(s, k + 1) /\ u[k] = s[k]
          BY <2>2, <3>1 DEF Follows
        <5>2. k + 1 \in 1..free => k + 1 \in x + 1..free
          BY <1>1, <2>2
        <5> QED
          BY <3>1, <5>1, <5>2 DEF At
      <4> QED
        BY <4>1 DEF Follows
    <3>5. Walk(bench.rev, free) = Part(u, x + 1, free - (x + 1) + 1)
      BY <1>1, <2>4, <3>2, <3>3, <3>4, WalkOn
    <3> QED
      BY <3>2, <3>5
  <2>7. Ahead = u
    <3>1. /\ x \in Nat /\ m \in Nat /\ one \in Nat \ {0} /\ b = one + x /\ free = x + m
          /\ one + x + m <= free + 1
      BY <1>1, <2>0, <2>2
    <3>2. Part(u, one, x) \o Part(u, b, m) = Part(u, one, free)
      <4>1. Adjoin(u, one, x, m)
        BY <1>1, <2>4, <3>1, PartsJoin
      <4> QED
        BY <3>1, <4>1 DEF Adjoin
    <3>3. Ahead = Walk(list, free) \o Walk(bench.rev, free)
      BY <1>4 DEF Ahead
    <3> QED
      BY <1>1, <2>0, <2>4, <2>5, <2>6, <3>2, <3>3, PartWhole
  <2> QED
    BY <1>1, <1>4, <2>4, <2>7, OthersWhole
<1>5. ASSUME pc = "undo" PROVE Whole
  <2>1. PICK s : Removed(s)
    BY <1>1, <1>5 DEF Shape, Places
  <2>2. /\ Order(s) /\ list = s[1] /\ bench.removed = s[free]
        /\ \A k \in 1..free : next[s[k]] = IF k < free - 1 THEN s[k + 1] ELSE Null
    BY <2>1 DEF Removed
  <2>0. PICK one, m : one = 1 /\ m = free - 1
    OBVIOUS
  <2>9. /\ m \in Nat /\ one \in Nat \ {0} /\ m <= free /\ m # 0 /\ free \in Nat
        /\ free = one + m /\ free = m + one /\ one + m <= free + 1
        /\ one + m - 1 = m /\ one + m - 2 = m - 1
    BY <1>1, <1>5, <2>0
  <2>3. Walk(list, free) = Part(s, one, m)
    <3>1. list = s[one] /\ \A k \in one..m - 1 : next[s[k]] = s[k + 1]
      BY <1>1, <2>0, <2>2
    <3>2. next[s[m]] = Null
      BY <1>1, <1>5, <2>0, <2>2
    <3>3. Strung(list, s, one, m, free)
      BY <2>9, <3>1, <3>2 DEF Strung
    <3> QED
      BY <1>1, <2>2, <2>9, <3>3, WalkPart
  <2>4. <<bench.removed>> = Part(s, free, one)
    <3>1. \A k \in 1..1 : s[free + k - 1] = s[free]
      BY <1>1
    <3> QED
      BY <2>0, <2>2, <3>1 DEF Part
  <2>5. Ahead = s
    <3>1. Part(s, one, m) \o Part(s, free, one) = Part(s, one, free)
      <4>1. Order(s) /\ one \in Nat /\ one + m + one <= free + 1
        BY <1>1, <2>0, <2>2
      <4>2. Adjoin(s, one, m, one)
        BY <1>1, <2>9, <4>1, PartsJoin
      <4> QED
        BY <2>9, <4>2 DEF Adjoin
    <3>2. Ahead = Walk(list, free) \o <<bench.removed>>
      BY <1>5 DEF Ahead
    <3> QED
      BY <1>1, <2>0, <2>2, <2>3, <2>4, <3>1, <3>2, PartWhole
  <2> QED
    BY <1>1, <1>5, <2>2, <2>5, OthersWhole
<1>6. ASSUME pc \notin {"split", "merge", "reverse", "undo"}, NEW s, Listed(s) PROVE Whole
  <2>1. /\ Order(s) /\ list = At(s, 1) /\ Follows(s, 1, free)
        /\ 1 \in 1..free + 1 /\ free - 1 + 1 = free
    BY <1>1, <1>6 DEF Listed, At
  <2>2. Walk(list, free) = Part(s, 1, free - 1 + 1)
    BY <1>1, <2>1, WalkOn
  <2>3. Ahead = s
    BY <1>1, <1>6, <2>1, <2>2, PartWhole DEF Ahead
  <2> QED
    BY <1>1, <1>6, <2>1, <2>3, OthersWhole
<1>7. ASSUME pc \notin {"split", "merge", "reverse", "undo"} PROVE Whole
  <2>1. CASE pc = "insert"
    <3>1. PICK s : s = InsertOrder
      OBVIOUS
    <3>2. Listed(s)
      BY <1>1, <2>1, <3>1, InsertOrderIs DEF Shape, Places, Inserting, Listed
    <3> QED
      BY <1>6, <1>7, <3>2
  <2>2. CASE pc # "insert"
    <3>1. \E s : Listed(s)
      BY <1>1, <1>7, <2>2 DEF Shape, Places
    <3> QED
      BY <1>6, <1>7, <3>1
  <2> QED
    BY <2>1, <2>2
<1> QED
  BY <1>2, <1>3, <1>4, <1>5, <1>7

-----------------------------------------------------------------------------
(* Each cell is in the list once.                                           *)
LEMMA WholeKeeps == ListInv /\ Whole => NoCellLost
<1> SUFFICES ASSUME ListInv, Whole PROVE NoCellLost
  OBVIOUS
<1>1. /\ free \in Nat \ {0} /\ Null \notin Used /\ Shape /\ Registers
      /\ (pc # "insert" => free >= 3)
      /\ Used \subseteq Cell
  BY Facts
<1>2. PICK s : /\ Order(s) /\ MergedCells \o Ahead = s
               /\ MergedCells # <<>> => MergedCells[Len(MergedCells)] = sort.tail
  BY DEF Whole
<1>3. s \in Seq(Used) /\ Len(s) = free /\ Distinct(s)
  BY <1>1, <1>2, PartWhole, OrderDistinct
<1>4. ASSUME NEW c \in Used, NEW d \in Used, info[c] = info[d] PROVE c = d
  <2>1. Own[c] = c /\ Own[d] = d
    BY <1>1 DEF Own, Used
  <2>2. CASE pc # "undo"
    BY <1>1, <1>4, <2>1, <2>2 DEF Registers
  <2>3. CASE pc = "undo"
    <3>1. PICK t : Removed(t)
      BY <1>1, <2>3 DEF Shape, Places
    <3>2. PICK one, last : one = t[2] /\ last = t[free]
      OBVIOUS
    <3>3. one \in Used /\ last \in Used /\ info = [Own EXCEPT ![one] = last, ![last] = one]
      <4>1. t \in [1..free -> Used] /\ 2 \in 1..free /\ free \in 1..free
        BY <1>1, <2>3, <3>1 DEF Removed, Order
      <4> QED
        BY <3>1, <3>2, <4>1 DEF Removed
    <3>4. DOMAIN Own = Cell /\ c \in Cell /\ d \in Cell /\ one \in Cell /\ last \in Cell
      BY <1>1, <3>3 DEF Own
    <3> HIDE DEF Own
    <3>5. \A e \in Cell : info[e] = IF e = last THEN one ELSE IF e = one THEN last ELSE Own[e]
      BY <3>3, <3>4
    <3> QED
      BY <1>4, <2>1, <3>3, <3>4, <3>5
  <2> QED
    BY <2>2, <2>3
<1>5. Distinct(MergedCells \o Ahead) /\ Len(MergedCells \o Ahead) = free
  BY <1>2, <1>3
<1>6. \A c, d \in 0..free - 1 : info[c] = info[d] => c = d
  BY <1>4 DEF Used
<1> QED
  BY <1>2, <1>5, <1>6 DEF NoCellLost

\* No step of the kernel loses a cell of the list or an item of it, and
\* none takes one twice.
THEOREM NoCellsLost == Spec => []NoCellLost
<1>1. ListInv => NoCellLost
  BY ListWhole, WholeKeeps
<1> QED
  BY <1>1, ListIsWhole, PTL

-----------------------------------------------------------------------------
(* The data of the items.  A 16-bit item has its original low byte also as *)
(* its high byte; calc_func overwrites the low one.                         *)

Word == {x \in Int : 0 <= x /\ x <= 65535}

\* The low byte is the original one.
Plain(x) == x = 257 * (x \div 256)

\* A turn of the CRC makes a number out of a number.
LEMMA CrcBitType == ASSUME NEW bit, NEW c \in Int PROVE CrcBit(bit, c) \in Int
<1>1. c \div 2 \in Int
  OBVIOUS
<1>2. \A x, w \in Int : FlipBit(x, w) \in Int
  BY DEF FlipBit
<1>3. FlipBit(FlipBit(c \div 2, 8192), 1) \in Int
  BY <1>1, <1>2
<1> QED
  BY <1>1, <1>3 DEF CrcBit

\* So do eight.
LEMMA CrcByteType == ASSUME NEW d, NEW c \in Int PROVE crcu8(d)[c] \in Int
<1> DEFINE turn(k, e) == CrcBit(Bit(d, k), e)
<1>1. \A k : \A e \in Int : turn(k, e) \in Int
  BY CrcBitType
<1>2. crcu8(d)[c] = turn(7, turn(6, turn(5, turn(4, turn(3, turn(2, turn(1, turn(0, c))))))))
  BY DEF crcu8
<1> HIDE DEF turn
<1>3. turn(3, turn(2, turn(1, turn(0, c)))) \in Int
  BY <1>1
<1> QED
  BY <1>1, <1>2, <1>3

\* And so do the functions over longer words.
LEMMA CrcType == ASSUME NEW d, NEW c \in Int PROVE Crcu16(d, c) \in Int /\ Crcu32(d, c) \in Int
<1>1. \A e : \A f \in Int : Crcu16(e, f) \in Int
  BY CrcByteType DEF Crcu16
<1> QED
  BY <1>1 DEF Crcu32

\* The CRC of the counters of a scan.
LEMMA StateCrcType == ASSUME NEW counts, NEW c \in Int PROVE StateCrc(counts, c) \in Int
<1> DEFINE turn(k, e) == Crcu32(counts.track[States[k]], Crcu32(counts.final[States[k]], e))
           after[k \in 0..Len(States)] == IF k = 0 THEN c ELSE turn(k, after[k - 1])
<1>1. \A k : \A e \in Int : turn(k, e) \in Int
  BY CrcType
<1>2. StateCrc(counts, c) = after[Len(States)]
  BY DEF StateCrc
<1>3. Len(States) = 8
  BY DEF States
<1> HIDE DEF turn
<1>4. PICK c1, c2, c3, c4 : c1 = turn(1, c) /\ c2 = turn(2, c1) /\ c3 = turn(3, c2) /\ c4 = turn(4, c3)
  OBVIOUS
<1>5. PICK c5, c6, c7, c8 : c5 = turn(5, c4) /\ c6 = turn(6, c5) /\ c7 = turn(7, c6) /\ c8 = turn(8, c7)
  OBVIOUS
<1> DEFINE g == [k \in 0..8 |-> IF k = 0 THEN c ELSE IF k = 1 THEN c1 ELSE IF k = 2 THEN c2
                                ELSE IF k = 3 THEN c3 ELSE IF k = 4 THEN c4 ELSE IF k = 5 THEN c5
                                ELSE IF k = 6 THEN c6 ELSE IF k = 7 THEN c7 ELSE c8]
<1>6. g = [k \in 0..8 |-> IF k = 0 THEN c ELSE turn(k, g[k - 1])]
  <2>1. ASSUME NEW k \in 0..8 PROVE g[k] = IF k = 0 THEN c ELSE turn(k, g[k - 1])
    <3>1. k \in {0, 1, 2, 3, 4, 5, 6, 7, 8}
      OBVIOUS
    <3> QED
      BY <1>4, <1>5, <3>1
  <2> QED
    BY <2>1
<1> HIDE DEF g
<1>7. after = [k \in 0..8 |-> IF k = 0 THEN c ELSE turn(k, after[k - 1])]
  BY <1>3, <1>6
<1> HIDE DEF after
<1>8. /\ after[0] = c
      /\ \A k \in 1..8 : after[k] = turn(k, after[k - 1])
  BY <1>7
<1>9. after[1] \in Int /\ after[2] \in Int /\ after[3] \in Int /\ after[4] \in Int
  BY <1>1, <1>8
<1>10. after[5] \in Int /\ after[6] \in Int /\ after[7] \in Int /\ after[8] \in Int
  BY <1>1, <1>8, <1>9
<1> QED
  BY <1>2, <1>3, <1>10

\* A cached result takes the low byte only.
LEMMA CachedByte ==
  ASSUME NEW x \in Word, NEW c \in Int
  PROVE  LET y == 256 * (x \div 256) + 128 + (c % 128)
         IN  y \in Word /\ y \div 256 = x \div 256
BY DEF Word

\* Regeneration takes it back.
LEMMA PlainByte ==
  ASSUME NEW x \in Word
  PROVE  LET y == 256 * (x \div 256) + x \div 256
         IN  y \in Word /\ y \div 256 = x \div 256 /\ Plain(y)
BY DEF Word, Plain

\* What a comparison works on: items and a CRC.
Items(w) == w.data \in [Cell -> Word] /\ w.crc \in Int

\* A step of work leaves the high bytes of the items.
HighKept(w, v) == Items(v) /\ \A c \in Cell : v.data[c] \div 256 = w.data[c] \div 256

\* The operation that an item asks for does not touch the items.
LEMMA ComputeItems ==
  ASSUME NEW w, IsWork(w), Items(w), NEW value \in Int
  PROVE  LET v == Compute(value, w) IN v.data = w.data /\ v.crc \in Int
<1> DEFINE dtype == 17 * Nibble(value)
           flag  == value % 8
           state == BenchState(w.mem, run.seed1, run.seed2, Period(dtype), w.crc)
           mat   == BenchMatrix(Dimension(run.size), w.A, B, dtype, w.crc)
<1>1. state.crc \in Int
  BY StateCrcType DEF BenchState, Items
<1>2. mat.crc \in Int
  BY CrcType DEF BenchMatrix, Items
<1> HIDE DEF dtype, state, mat
<1>3. CASE flag = 0
  <2>1. Compute(value, w) = [w EXCEPT !.mem = state.mem, !.crc = state.crc,
                                      !.crcstate = IF @ = 0 THEN state.crc ELSE @]
    BY <1>3 DEF Compute, AfterState, state, dtype
  <2> QED BY <1>1, <2>1 DEF IsWork
<1>4. CASE flag = 1
  <2>1. Compute(value, w) = [w EXCEPT !.A = mat.A, !.crc = mat.crc,
                                      !.crcmatrix = IF @ = 0 THEN mat.crc ELSE @]
    BY <1>4 DEF Compute, AfterMatrix, mat, dtype
  <2> QED BY <1>2, <2>1 DEF IsWork
<1>5. CASE flag # 0 /\ flag # 1
  <2>1. Compute(value, w) = [w EXCEPT !.crc = value]
    BY <1>5 DEF Compute
  <2> QED BY <2>1 DEF IsWork
<1> QED BY <1>3, <1>4, <1>5

\* calc_func keeps the high bytes, and the other items.
LEMMA CalcFuncItems ==
  ASSUME SeedsOK, NEW w, IsWork(w), Items(w), NEW d \in Cell
  PROVE  /\ HighKept(w, CalcFunc(d, w))
         /\ \A c \in Cell \ {d} : CalcFunc(d, w).data[c] = w.data[c]
<1>1. CASE Cached(w.data[d])
  BY <1>1 DEF CalcFunc, HighKept
<1>2. CASE ~Cached(w.data[d])
  <2> DEFINE v == Compute(w.data[d], w)
             y == 256 * (w.data[d] \div 256) + 128 + (v.crc % 128)
             u == Cache(d, w, v)
  <2>1. w.data[d] \in Word /\ w.data[d] \in Int
    BY DEF Items, Word
  <2>2. v.data = w.data /\ v.crc \in Int
    BY <2>1, ComputeItems
  <2>3. Kept(w, v)
    BY ComputeKept
  <2>4. CalcFunc(d, w) = u
    BY <1>2 DEF CalcFunc
  <2> HIDE DEF v
  <2>5. y \in Word /\ y \div 256 = w.data[d] \div 256
    BY <2>1, <2>2, CachedByte
  <2>6. u.data = [w.data EXCEPT ![d] = y] /\ u.crc = Crcu16(v.crc, w.crc)
    BY <2>2, <2>3 DEF Cache, Kept
  <2>7. u.crc \in Int
    BY <2>6, CrcType DEF Items
  <2> HIDE DEF u, y
  <2>8. u.data \in [Cell -> Word] /\ \A c \in Cell : u.data[c] = IF c = d THEN y ELSE w.data[c]
    BY <2>5, <2>6 DEF Items
  <2> QED
    BY <2>4, <2>5, <2>7, <2>8 DEF HighKept, Items
<1> QED
  BY <1>1, <1>2

\* The regeneration makes one item plain, and changes no other.
LEMMA RegenerateItems ==
  ASSUME NEW w, IsWork(w), Items(w), NEW d \in Cell
  PROVE  LET v == Regenerate(d, w)
         IN  /\ HighKept(w, v) /\ Plain(v.data[d])
             /\ \A c \in Cell \ {d} : v.data[c] = w.data[c]
<1> DEFINE v == Regenerate(d, w)
           y == 256 * (w.data[d] \div 256) + w.data[d] \div 256
<1>1. w.data[d] \in Word
  BY DEF Items
<1>2. y \in Word /\ y \div 256 = w.data[d] \div 256 /\ Plain(y)
  BY <1>1, PlainByte
<1>3. v.data = [w.data EXCEPT ![d] = y] /\ v.crc = w.crc
  BY DEF Regenerate, IsWork
<1> HIDE DEF v, y
<1>4. v.data \in [Cell -> Word] /\ \A c \in Cell : v.data[c] = IF c = d THEN y ELSE w.data[c]
  BY <1>2, <1>3 DEF Items
<1>5. HighKept(w, v) /\ Plain(v.data[d]) /\ \A c \in Cell \ {d} : v.data[c] = w.data[c]
  BY <1>2, <1>3, <1>4 DEF HighKept, Items
<1> QED
  BY <1>5 DEF v

\* Both comparisons keep the high bytes, and the one by idx makes both items plain
\* and leaves the plain ones so.
LEMMA CompareItems ==
  ASSUME SeedsOK, NEW w, IsWork(w), Items(w), NEW cmp, NEW a \in Cell, NEW b \in Cell
  PROVE  LET v == Compare(cmp, a, b, w).w
         IN  /\ HighKept(w, v)
             /\ \A c \in Cell \ {a, b} : v.data[c] = w.data[c]
             /\ cmp # "complex" =>
                  \A c \in Cell : c = a \/ c = b \/ Plain(w.data[c]) => Plain(v.data[c])
<1>1. CASE cmp = "complex"
  <2> DEFINE v == CalcFunc(a, w)
  <2>1. Compare(cmp, a, b, w).w = CalcFunc(b, v)
    BY <1>1 DEF Compare, Ranked
  <2>2. IsWork(v)
    BY CalcFuncKept DEF IsWork, Kept
  <2>3. HighKept(w, v) /\ \A c \in Cell \ {a} : v.data[c] = w.data[c]
    BY CalcFuncItems
  <2> HIDE DEF v
  <2>4. /\ HighKept(v, CalcFunc(b, v))
        /\ \A c \in Cell \ {b} : CalcFunc(b, v).data[c] = v.data[c]
    BY <2>2, <2>3, CalcFuncItems DEF HighKept
  <2> QED BY <1>1, <2>1, <2>3, <2>4 DEF HighKept
<1>2. CASE cmp # "complex"
  <2> DEFINE v == Regenerate(a, w)
             u == Regenerate(b, v)
  <2>1. Compare(cmp, a, b, w).w = u
    BY <1>2 DEF Compare
  <2>2. IsWork(v)
    BY RegenerateKept DEF IsWork, Kept
  <2>3. HighKept(w, v) /\ Plain(v.data[a]) /\ \A c \in Cell \ {a} : v.data[c] = w.data[c]
    BY RegenerateItems
  <2> HIDE DEF v
  <2>4. HighKept(v, u) /\ Plain(u.data[b]) /\ \A c \in Cell \ {b} : u.data[c] = v.data[c]
    BY <2>2, <2>3, RegenerateItems DEF HighKept
  <2> HIDE DEF u
  <2>5. HighKept(w, u)
    BY <2>3, <2>4 DEF HighKept
  <2>6. \A c \in Cell : c = a \/ c = b \/ Plain(w.data[c]) => Plain(u.data[c])
    BY <2>3, <2>4
  <2> QED BY <2>1, <2>3, <2>4, <2>5, <2>6
<1> QED BY <1>1, <1>2

-----------------------------------------------------------------------------
(* Which items a sort by idx has made plain.                                *)

\* The places a to b hold runs of n cells, counted from place e; every item that
\* was in a run with another has been compared, and is plain.
Tidy(s, a, b, e, n) ==
  n > 1 => \A k \in a..b : k < free \/ (k - 1 - e) % n # 0 => Plain(data[s[k]])

\* Before a split.
SplitTidy(s, x) ==
  Tidy(s, 1, x, 0, 2 * sort.insize) /\ Tidy(s, x + 1, free, x, sort.insize)

\* In a merge; once it has begun, all items of the two runs are plain.
MergeTidy(s, x) ==
  LET e == x + sort.psize + sort.qsize
  IN  /\ sort.psize <= sort.insize
      /\ Tidy(s, 1, x, 0, 2 * sort.insize)
      /\ Tidy(s, e + 1, free, e, sort.insize)
      /\ IF x % (2 * sort.insize) = 0 THEN Tidy(s, x + 1, free, x, sort.insize)
         ELSE \A k \in x + 1..free : k <= e => Plain(data[s[k]])

\* The item of every used cell is as it was made.
AllPlain == \A c \in Used : Plain(data[c])

\* The inductive invariant of the data.
DataInv ==
  /\ data \in [Cell -> Word] /\ crc \in Int
  /\ \A c \in Cell \ Used : data[c] = 0
  /\ pc = "split" /\ sort.cmp = "idx" => \E s, x : Splitting(s, x) /\ SplitTidy(s, x)
  /\ pc = "merge" /\ sort.cmp = "idx" => \E s, x : Merging(s, x) /\ MergeTidy(s, x)
  /\ pc \in {"ready", "finish", "returned"} => AllPlain
  /\ InKernel => orig.heap = <<orig.heap[1], orig.heap[2], orig.heap[3],
                               [c \in Cell |-> 257 * (data[c] \div 256)]>>

\* What a step of a merge does to the data.
LEMMA MergeItems ==
  ASSUME ListInv, IInv, data \in [Cell -> Word], crc \in Int, Merge
  PROVE  /\ data' \in [Cell -> Word] /\ crc' \in Int
         /\ \A c \in Cell : data'[c] \div 256 = data[c] \div 256
         /\ \A c \in Cell \ Used : data'[c] = data[c]
         /\ sort.cmp = "idx" =>
              /\ \A c \in Cell : Plain(data[c]) => Plain(data'[c])
              /\ ~PEmpty /\ ~QEmpty => Plain(data'[sort.p]) /\ Plain(data'[sort.q])
<1>1. /\ Registers /\ Shape /\ free \in Nat \ {0} /\ Used \subseteq Cell /\ Null \notin Used
      /\ pc = "merge" /\ sort \in SortLocals /\ info = Own
  BY Facts DEF Merge, Registers
<1>2. IsWork(Work) /\ Items(Work) /\ Work.data = data /\ Work.crc = crc /\ SeedsOK
  BY DEF IInv, IsWork, Work, Items
<1>3. CASE PEmpty \/ QEmpty
  <2>1. data' = data /\ crc' = crc
    BY <1>2, <1>3 DEF Merge, Apply
  <2> QED
    BY <1>3, <2>1
<1>4. CASE ~PEmpty /\ ~QEmpty
  <2>1. PICK s, x : Merging(s, x)
    BY <1>1 DEF Shape, Places
  <2>2. sort.p \in Used /\ sort.q \in Used
    <3>1. /\ Order(s) /\ x \in 0..free /\ sort.psize \in Nat /\ sort.psize > 0
          /\ x + sort.psize + 1 - 1 <= free
          /\ sort.p = s[x + 1] /\ sort.q = At(s, x + sort.psize + 1) /\ sort.q # Null
      BY <1>1, <1>4, <2>1 DEF Merging, PEmpty, QEmpty, SortLocals
    <3>2. x + 1 \in 1..free
      BY <1>1, <3>1
    <3> QED
      BY <3>1, <3>2 DEF Order, At
  <2>3. info[sort.p] = sort.p /\ info[sort.q] = sort.q /\ sort.p \in Cell /\ sort.q \in Cell
    BY <1>1, <2>2 DEF Own, Used
  <2>4. PICK v : v = Compare(sort.cmp, sort.p, sort.q, Work).w
    OBVIOUS
  <2>5. Apply(v)
    BY <1>4, <2>3, <2>4 DEF Merge, Take
  <2>6. PICK w, cmp, p, q : w = Work /\ cmp = sort.cmp /\ p = sort.p /\ q = sort.q
    OBVIOUS
  <2>8. /\ HighKept(w, v)
        /\ \A c \in Cell \ {p, q} : v.data[c] = w.data[c]
        /\ cmp # "complex" =>
             \A c \in Cell : c = p \/ c = q \/ Plain(w.data[c]) => Plain(v.data[c])
    <3>1. IsWork(w) /\ Items(w) /\ p \in Cell /\ q \in Cell /\ v = Compare(cmp, p, q, w).w
      BY <1>2, <2>3, <2>4, <2>6
    <3> QED
      BY <1>2, <3>1, CompareItems
  <2>7. data' = v.data /\ crc' = v.crc
    BY <2>5 DEF Apply
  <2> QED
    BY <1>2, <2>2, <2>3, <2>6, <2>7, <2>8 DEF HighKept, Items
<1> QED
  BY <1>3, <1>4

\* Two multiples that are at most one apart.
LEMMA MultiplesApart ==
  ASSUME NEW d \in Nat \ {0}, NEW a \in Int, NEW b \in Int, a % d = 0, b % d = 0,
         a < b, b - a <= d
  PROVE  b - a = d
<1> DEFINE p == a \div d
           q == b \div d
<1>1. a = p * d /\ b = q * d /\ p \in Int /\ q \in Int
  BY SMT
<1> HIDE DEF p, q
<1>2. CASE q <= p
  <2>1. q * d <= p * d
    BY <1>1, <1>2, SMT
  <2> QED
    BY <1>1, <2>1
<1>3. CASE q = p + 1
  BY <1>1, <1>3, SMT
<1>4. CASE q >= p + 2
  <2>1. q * d >= (p + 2) * d
    BY <1>1, <1>4, SMT
  <2> QED
    BY <1>1, <2>1, SMT
<1> QED
  BY <1>1, <1>2, <1>3, <1>4

\* Tidy places stay so as long as plain items do.
LEMMA TidyStays ==
  ASSUME free \in Nat, free' = free, NEW s, Order(s), NEW a \in Nat \ {0}, NEW b \in 0..free,
         \A k \in a..b : Plain(data[s[k]]) => Plain(data'[s[k]]),
         NEW e, NEW n, Tidy(s, a, b, e, n)
  PROVE  Tidy(s, a, b, e, n)'
  BY DEF Tidy

\* A split leaves the runs as they are.
LEMMA SplitTidies ==
  ASSUME ListInv, Split, sort.cmp = "idx", NEW s, NEW x, Splitting(s, x), SplitTidy(s, x)
  PROVE  MergeTidy(s, x)'
<1>1. /\ free \in Nat \ {0} /\ Null \notin Used /\ sort \in SortLocals
      /\ free' = free /\ data' = data /\ sort.p # Null
  BY Facts DEF Registers, Split, heap, loop
<1>2. /\ sort'.insize = sort.insize /\ sort'.qsize = sort.insize
      /\ sort'.psize = IF sort.insize <= free - x THEN sort.insize ELSE free - x
  BY SplitMerges
<1>3. PICK n, m : n = sort.insize /\ m = IF n <= free - x THEN n ELSE free - x
  OBVIOUS
<1>4. n \in Nat \ {0} /\ x \in 0..free /\ m <= n
  BY <1>1, <1>3 DEF SortLocals, Splitting
<1>5. x % (2 * n) = 0
  <2>1. x # free
    BY <1>1 DEF Splitting, At
  <2> QED
    BY <1>3, <2>1 DEF Splitting
<1>6. Tidy(s, 1, x, 0, 2 * n) /\ Tidy(s, x + 1, free, x, n)
  BY <1>3 DEF SplitTidy
<1>7. PICK e : e = x + m + n
  OBVIOUS
<1>8. Tidy(s, 1, x, 0, 2 * n)' /\ Tidy(s, x + 1, free, x, n)'
  BY <1>1, <1>6 DEF Tidy
<1>9. Tidy(s, e + 1, free, e, n)'
  <2> SUFFICES ASSUME n > 1, NEW k \in e + 1..free, k < free \/ (k - 1 - e) % n # 0
               PROVE  Plain(data[s[k]])
    BY <1>1 DEF Tidy
  <2>1. m = n /\ k \in x + 1..free /\ k - 1 - x \in Int
    BY <1>1, <1>3, <1>4, <1>7
  <2>2. k - 1 - e = (k - 1 - x) - 2 * n
    BY <1>1, <1>4, <1>7, <2>1
  <2>3. ((k - 1 - x) - 2 * n) % n = (k - 1 - x) % n
    BY <1>4, <2>1, ShiftedRemainder
  <2>4. k < free \/ (k - 1 - x) % n # 0
    BY <2>2, <2>3
  <2> QED
    BY <1>6, <2>1, <2>4 DEF Tidy
<1> QED
  BY <1>1, <1>2, <1>3, <1>4, <1>5, <1>7, <1>8, <1>9 DEF MergeTidy

\* Between two merges nothing moves.
LEMMA MergedTidies ==
  ASSUME ListInv, Merged, NEW s, NEW x, Merging(s, x), MergeTidy(s, x)
  PROVE  SplitTidy(s, x)'
<1>1. /\ free \in Nat \ {0} /\ free' = free /\ data' = data
  BY Facts DEF Merged, heap, loop
<1>2. /\ sort'.insize = sort.insize /\ sort.psize = 0 /\ (sort.qsize = 0 \/ x = free)
  BY MergedSplits
<1>3. PICK n, r, e : n = sort.insize /\ r = sort.qsize /\ e = x + sort.psize + r
  OBVIOUS
<1>4. x \in 0..free /\ e = x + r /\ (r = 0 \/ x = free)
  BY <1>1, <1>2, <1>3 DEF Merging
<1>5. Tidy(s, 1, x, 0, 2 * n) /\ Tidy(s, e + 1, free, e, n)
  BY <1>3 DEF MergeTidy
<1>6. Tidy(s, x + 1, free, x, n)
  <2>1. CASE r = 0
    <3>1. e = x
      BY <1>1, <1>4, <2>1
    <3> QED
      BY <1>5, <3>1
  <2>2. CASE x = free
    BY <1>1, <2>2 DEF Tidy
  <2> QED
    BY <1>4, <2>1, <2>2
<1>7. Tidy(s, 1, x, 0, 2 * n)' /\ Tidy(s, x + 1, free, x, n)'
  BY <1>1, <1>5, <1>6 DEF Tidy
<1> QED
  BY <1>2, <1>3, <1>7 DEF SplitTidy

\* After the last pass every item has been compared.
LEMMA EndPassTidies ==
  ASSUME ListInv, EndPass, sort.cmp = "idx", NEW s, NEW x, Splitting(s, x), SplitTidy(s, x)
  PROVE  IF sort.nmerges <= 1 THEN AllPlain' ELSE SplitTidy(s, 0)'
<1>1. /\ free \in Nat /\ free >= 3 /\ sort \in SortLocals
      /\ free' = free /\ data' = data
  BY Facts DEF Registers, EndPass, loop
<1>2. /\ x = free /\ Order(s)
      /\ sort.nmerges <= 1 => free <= 2 * sort.insize
      /\ ~(sort.nmerges <= 1) => sort'.insize = 2 * sort.insize
  BY EndPassRuns DEF Splitting
<1>3. PICK n, w : n = sort.insize /\ w = 2 * n
  OBVIOUS
<1>4. n \in Nat \ {0} /\ w \in Nat \ {0} /\ w > 1
  BY <1>1, <1>3 DEF SortLocals
<1>5. \A k \in 1..free : k < free \/ (k - 1 - 0) % w # 0 => Plain(data[s[k]])
  BY <1>2, <1>3, <1>4 DEF SplitTidy, Tidy
<1>6. CASE sort.nmerges <= 1
  <2>1. (free - 1) % w # 0
    <3>1. free - 1 \in Int /\ 0 < free - 1 /\ free - 1 < w
      BY <1>1, <1>2, <1>3, <1>6
    <3> QED
      BY <1>4, <3>1, NonzeroRemainder
  <2>2. ASSUME NEW k \in 1..free PROVE Plain(data[s[k]])
    <3>1. k < free \/ k - 1 - 0 = free - 1
      BY <1>1
    <3>2. k < free \/ (k - 1 - 0) % w # 0
      BY <2>1, <3>1
    <3> QED
      BY <1>5, <3>2
  <2>3. \A c \in Used : Plain(data[c])
    BY <1>2, <2>2 DEF Order
  <2> QED
    BY <1>1, <1>6, <2>3 DEF AllPlain, Used
<1>7. CASE ~(sort.nmerges <= 1)
  <2>1. Tidy(s, 1, 0, 0, 2 * (2 * n))'
    BY DEF Tidy
  <2>2. Tidy(s, 0 + 1, free, 0, w)'
    BY <1>1, <1>5 DEF Tidy
  <2> QED
    BY <1>2, <1>3, <1>7, <2>1, <2>2 DEF SplitTidy
<1> QED
  BY <1>6, <1>7

\* What is left of the two runs of a merge will be plain.
RestPlain(s, x) ==
  \A k \in x + 1..free : k <= x + sort.psize + sort.qsize => Plain(data'[s[k]])

\* The first step of a merge compares two items, and with that all of its items are
\* plain; but for a last run of one item, which is compared in no merge of the pass.
LEMMA MergePlain ==
  ASSUME ListInv, IInv, data \in [Cell -> Word], crc \in Int, Merge, sort.cmp = "idx",
         NEW s, NEW x, Merging(s, x), MergeTidy(s, x)
  PROVE  RestPlain(s, x) \/ (x % (2 * sort.insize) = 0 /\ x + 1 = free)
<1>1. /\ free \in Nat \ {0} /\ Null \notin Used /\ Used \subseteq Cell /\ sort \in SortLocals
      /\ pc = "merge"
  BY Facts DEF Registers, Merge
<1>2. PICK n, m, r : n = sort.insize /\ m = sort.psize /\ r = sort.qsize
  OBVIOUS
<1>3. PICK z, e : z = x + m + 1 /\ e = x + m + r
  OBVIOUS
<1>4. n \in Nat \ {0} /\ m \in Nat /\ r \in Nat
  BY <1>1, <1>2 DEF SortLocals
<1>5. /\ Order(s) /\ x \in 0..free /\ z - 1 <= free /\ r <= n /\ m <= n
      /\ m > 0 => sort.p = s[x + 1]
      /\ sort.q = At(s, z)
      /\ e % (2 * n) = 0 \/ z - 1 = free
  BY <1>2, <1>3 DEF Merging, MergeTidy
<1>6. x \in Int /\ z \in Int /\ e \in Int
  BY <1>3, <1>4, <1>5
<1>7. /\ \A c \in Cell : Plain(data[c]) => Plain(data'[c])
      /\ ~PEmpty /\ ~QEmpty => Plain(data'[sort.p]) /\ Plain(data'[sort.q])
  BY MergeItems
<1>8. \A k \in 1..free : s[k] \in Cell
  BY <1>1, <1>5 DEF Order
<1>9. (PEmpty <=> m = 0) /\ (QEmpty <=> r = 0 \/ ~(z <= free))
  BY <1>2, <1>3, MergeMerges DEF PEmpty
<1>10. ~PEmpty \/ ~QEmpty
  BY DEF Merge
<1>11. SUFFICES (\A k \in x + 1..free : k <= e => Plain(data'[s[k]]))
                 \/ (x % (2 * n) = 0 /\ x + 1 = free)
  BY <1>2, <1>3 DEF RestPlain
<1>12. CASE x % (2 * n) # 0
  <2>1. \A k \in x + 1..free : k <= e => Plain(data[s[k]])
    BY <1>2, <1>3, <1>12 DEF MergeTidy
  <2> QED
    BY <1>1, <1>5, <1>7, <1>8, <2>1
<1>13. CASE x % (2 * n) = 0
  <2>1. Tidy(s, x + 1, free, x, n)
    BY <1>2, <1>3, <1>13 DEF MergeTidy
  <2>2. 2 * n \in Nat \ {0}
    BY <1>4
  <2>3. CASE z <= free /\ r = 0
    <3>0. e % (2 * n) = 0
      BY <1>1, <1>5, <1>6, <2>3
    <3>4. m # 0 /\ e = x + m
      BY <1>3, <1>4, <1>5, <1>9, <1>10, <2>3
    <3>1. x < e /\ e - x <= n /\ e % (2 * n) = 0
      BY <1>4, <1>5, <1>6, <3>0, <3>4
    <3>2. e - x <= 2 * n
      BY <1>4, <1>6, <3>1
    <3>3. e - x = 2 * n
      BY <1>6, <1>13, <2>2, <3>1, <3>2, MultiplesApart
    <3> QED
      BY <1>4, <1>6, <3>1, <3>3
  <2>4. CASE ~(z <= free)
    <3>1. x + m = free /\ m # 0
      BY <1>1, <1>3, <1>4, <1>5, <1>9, <1>10, <2>4
    <3>2. CASE m = 1
      BY <1>13, <3>1, <3>2
    <3>3. CASE m # 1
      <4>1. n > 1
        BY <1>4, <1>5, <3>1, <3>3
      <4>2. ASSUME NEW k \in x + 1..free PROVE Plain(data[s[k]])
        <5>1. k < free \/ (k - 1 - x \in Int /\ 0 < k - 1 - x /\ k - 1 - x < n)
          BY <1>1, <1>4, <1>5, <3>1, <3>3
        <5>2. k < free \/ (k - 1 - x) % n # 0
          BY <1>4, <5>1, NonzeroRemainder
        <5> QED
          BY <2>1, <4>1, <5>2 DEF Tidy
      <4>3. \A k \in x + 1..free : k \in 1..free
        BY <1>1, <1>5
      <4> QED
        BY <1>7, <1>8, <4>2, <4>3
    <3> QED
      BY <3>2, <3>3
  <2>5. CASE z <= free /\ r # 0
    <3>1. e % (2 * n) = 0 /\ x < e /\ e - x <= 2 * n
      BY <1>1, <1>3, <1>4, <1>5, <2>5
    <3>2. e - x = 2 * n
      BY <1>6, <1>13, <2>2, <3>1, MultiplesApart
    <3>3. m = n /\ r = n /\ z = x + n + 1 /\ e = x + 2 * n
      BY <1>3, <1>4, <1>5, <1>6, <3>2
    <3>4. Plain(data'[s[x + 1]]) /\ Plain(data'[s[z]])
      <4>1. z \in 1..free
        BY <1>1, <1>3, <1>4, <1>5, <2>5
      <4> QED
        BY <1>4, <1>5, <1>7, <1>9, <2>5, <3>3, <4>1 DEF At
    <3>5. ASSUME NEW k \in x + 1..free, k <= e PROVE Plain(data'[s[k]])
      <4>1. k = x + 1 \/ k = z \/ (n > 1 /\ (k - 1 - x) % n # 0)
        <5>1. PICK a : a = k - 1 - x
          OBVIOUS
        <5>2. a \in Int
          BY <1>1, <1>6, <5>1
        <5>3. CASE k # x + 1 /\ k # z /\ k < z
          <6>1. 0 < a /\ a < n
            BY <1>1, <1>4, <1>6, <3>3, <5>1, <5>3
          <6>2. a % n # 0
            BY <1>4, <5>2, <6>1, NonzeroRemainder
          <6> QED
            BY <1>4, <5>1, <5>2, <6>1, <6>2
        <5>4. CASE k # x + 1 /\ k # z /\ ~(k < z)
          <6>1. a - 2 * n \in Int /\ -n < a - 2 * n /\ a - 2 * n < 0 /\ n > 1
            BY <1>1, <1>4, <1>6, <3>3, <3>5, <5>1, <5>4
          <6>2. (a - 2 * n) % n # 0
            BY <1>4, <6>1, NonzeroRemainder
          <6>3. (a - 2 * n) % n = a % n
            BY <1>4, <5>2, ShiftedRemainder
          <6> QED
            BY <5>1, <6>1, <6>2, <6>3
        <5> QED
          BY <5>3, <5>4
      <4>2. k \in 1..free
        BY <1>1, <1>5
      <4>3. n > 1 /\ (k - 1 - x) % n # 0 => Plain(data[s[k]])
        BY <2>1 DEF Tidy
      <4> QED
        BY <1>7, <1>8, <3>4, <4>1, <4>2, <4>3
    <3> QED
      BY <3>5
  <2> QED
    BY <1>4, <2>3, <2>4, <2>5
<1> QED
  BY <1>12, <1>13

\* So a step of a merge leaves a merge.
LEMMA MergeTidies ==
  ASSUME ListInv, IInv, data \in [Cell -> Word], crc \in Int, Merge, sort.cmp = "idx",
         NEW s, NEW x, Merging(s, x), MergeTidy(s, x)
  PROVE  \E t : Merging(t, x + 1)' /\ MergeTidy(t, x + 1)'
<1>1. /\ free \in Nat \ {0} /\ Null \notin Used /\ Used \subseteq Cell /\ sort \in SortLocals
      /\ free' = free
  BY Facts DEF Registers, Merge, loop
<1>2. PICK n, m, r : n = sort.insize /\ m = sort.psize /\ r = sort.qsize
  OBVIOUS
<1>3. PICK z, e : z = x + m + 1 /\ e = x + m + r
  OBVIOUS
<1>4. n \in Nat \ {0} /\ m \in Nat /\ r \in Nat
  BY <1>1, <1>2 DEF SortLocals
<1>5. /\ Order(s) /\ x \in 0..free /\ z - 1 <= free /\ r <= n /\ m <= n
      /\ e % (2 * n) = 0 \/ z - 1 = free
      /\ Tidy(s, 1, x, 0, 2 * n) /\ Tidy(s, e + 1, free, e, n)
  BY <1>2, <1>3 DEF Merging, MergeTidy
<1>6. x \in Int /\ z \in Int /\ e \in Int
  BY <1>3, <1>4, <1>5
<1>7. \A k \in 1..free : Plain(data[s[k]]) => Plain(data'[s[k]])
  BY <1>1, <1>5, MergeItems DEF Order
<1>8. \/ \A k \in x + 1..free : k <= e => Plain(data'[s[k]])
      \/ x % (2 * n) = 0 /\ x + 1 = free
  BY <1>2, <1>3, MergePlain DEF RestPlain
<1>9. /\ \/ m > 0 /\ TakeP /\ Merging(s, x + 1)'
         \/ ~QEmpty /\ TakeQ /\ \E t : t = Forward(s, x + 1, z) /\ Merging(t, x + 1)'
      /\ QEmpty <=> r = 0 \/ ~(z <= free)
  BY <1>2, <1>3, MergeMerges
<1>10. ASSUME NEW t, Merging(t, x + 1)', sort'.insize = n, sort'.psize <= n,
              x + 1 + sort'.psize + sort'.qsize = e, x + 1 <= e, x + 1 <= free,
              \A k \in 1..free : k <= x \/ k > e => t[k] = s[k],
              \A k \in x + 1..free : k <= e => \E j \in x + 1..free : j <= e /\ t[k] = s[j]
       PROVE  MergeTidy(t, x + 1)'
  <2>1. \/ \A k \in x + 1..free : k <= e => Plain(data'[t[k]])
        \/ x % (2 * n) = 0 /\ x + 1 = free
    BY <1>8, <1>10
  <2>2. Tidy(t, 1, x + 1, 0, 2 * n)'
    <3> SUFFICES ASSUME NEW k \in 1..x + 1, k < free \/ (k - 1 - 0) % (2 * n) # 0
                 PROVE  Plain(data'[t[k]])
      BY <1>1 DEF Tidy
    <3>1. CASE k = x + 1
      <4>1. k - 1 - 0 = x /\ k \in x + 1..free /\ k <= e
        BY <1>1, <1>5, <1>6, <1>10, <3>1
      <4>2. k < free \/ x % (2 * n) # 0
        BY <4>1
      <4>3. ~(x % (2 * n) = 0 /\ x + 1 = free)
        BY <1>1, <1>5, <3>1, <4>2
      <4> QED
        BY <2>1, <4>1, <4>3
    <3>2. CASE k # x + 1
      <4>1. k \in 1..x /\ k \in 1..free /\ 2 * n > 1
        BY <1>1, <1>4, <1>5, <3>2
      <4>2. Plain(data[s[k]])
        BY <1>5, <4>1 DEF Tidy
      <4> QED
        BY <1>7, <1>10, <4>1, <4>2
    <3> QED
      BY <3>1, <3>2
  <2>3. Tidy(t, e + 1, free, e, n)'
    <3> SUFFICES ASSUME n > 1, NEW k \in e + 1..free, k < free \/ (k - 1 - e) % n # 0
                 PROVE  Plain(data'[t[k]])
      BY <1>1 DEF Tidy
    <3>1. k \in 1..free /\ k > e
      BY <1>1, <1>5, <1>6, <1>10
    <3>2. Plain(data[s[k]])
      BY <1>5 DEF Tidy
    <3> QED
      BY <1>7, <1>10, <3>1, <3>2
  <2>4. \A k \in (x + 1) + 1..free : k <= e => Plain(data'[t[k]])
    BY <1>1, <1>5, <2>1
  <2>5. ASSUME (x + 1) % (2 * n) = 0 PROVE Tidy(t, (x + 1) + 1, free, x + 1, n)'
    <3>1. CASE z - 1 = free
      <4>1. e >= free
        BY <1>1, <1>3, <1>4, <1>5, <1>6, <3>1
      <4>2. \A k \in (x + 1) + 1..free : k <= e
        BY <1>1, <1>6, <4>1
      <4> QED
        BY <1>1, <2>4, <4>2 DEF Tidy
    <3>2. CASE z - 1 # free
      <4>1. e % (2 * n) = 0 /\ e - (x + 1) < 2 * n
        BY <1>3, <1>4, <1>5, <1>6, <3>2
      <4>2. e = x + 1
        <5>1. 2 * n \in Nat \ {0} /\ x + 1 \in Int
          BY <1>4, <1>6
        <5>2. x + 1 < e => e - (x + 1) = 2 * n
          BY <1>6, <2>5, <4>1, <5>1, MultiplesApart
        <5> QED
          BY <1>4, <1>6, <1>10, <4>1, <5>2
      <4> QED
        BY <2>3, <4>2
    <3> QED
      BY <3>1, <3>2
  <2>6. PICK y : y = x + 1
    OBVIOUS
  <2>7. /\ sort'.insize = n /\ sort'.psize <= n /\ y + sort'.psize + sort'.qsize = e
        /\ Tidy(t, 1, y, 0, 2 * n)' /\ Tidy(t, e + 1, free, e, n)'
        /\ y % (2 * n) = 0 => Tidy(t, y + 1, free, y, n)'
        /\ \A k \in y + 1..free' : k <= e => Plain(data'[t[k]])
    BY <1>1, <1>10, <2>2, <2>3, <2>4, <2>5, <2>6
  <2>8. MergeTidy(t, y)'
    BY <2>7 DEF MergeTidy
  <2> QED
    BY <2>6, <2>8
<1>11. CASE m > 0 /\ TakeP /\ Merging(s, x + 1)'
  <2>1. sort'.insize = n /\ sort'.psize = m - 1 /\ sort'.qsize = r
    BY <1>1, <1>2, <1>11 DEF TakeP, Linked, SortLocals
  <2>2. /\ sort'.psize <= n /\ x + 1 + sort'.psize + sort'.qsize = e /\ x + 1 <= e
        /\ x + 1 <= free
    BY <1>1, <1>3, <1>4, <1>5, <1>6, <1>11, <2>1
  <2> QED
    BY <1>10, <1>11, <2>1, <2>2
<1>12. CASE ~QEmpty /\ TakeQ /\ \E t : t = Forward(s, x + 1, z) /\ Merging(t, x + 1)'
  <2>1. PICK t : t = Forward(s, x + 1, z) /\ Merging(t, x + 1)'
    BY <1>12
  <2>2. sort'.insize = n /\ sort'.psize = m /\ sort'.qsize = r - 1
    BY <1>1, <1>2, <1>12 DEF TakeQ, Linked, SortLocals
  <2>3. r # 0 /\ z <= free /\ z <= e
    BY <1>3, <1>4, <1>6, <1>9, <1>12
  <2>4. /\ sort'.psize <= n /\ x + 1 + sort'.psize + sort'.qsize = e /\ x + 1 <= e
        /\ x + 1 <= free
    BY <1>1, <1>3, <1>4, <1>5, <1>6, <2>2, <2>3
  <2>5. \A k \in 1..free : k <= x \/ k > e => t[k] = s[k]
    BY <1>1, <1>5, <1>6, <2>1, <2>3 DEF Forward
  <2>6. ASSUME NEW k \in x + 1..free, k <= e
        PROVE  \E j \in x + 1..free : j <= e /\ t[k] = s[j]
    <3>0. k \in 1..free
      BY <1>1, <1>5
    <3>1. CASE k > z
      BY <1>1, <1>6, <2>1, <2>6, <3>0, <3>1 DEF Forward
    <3>2. CASE k = x + 1
      <4>1. t[k] = s[z] /\ z \in x + 1..free
        BY <1>1, <1>3, <1>4, <1>6, <2>1, <2>3, <3>0, <3>2 DEF Forward
      <4> QED
        BY <2>3, <4>1
    <3>3. CASE k # x + 1 /\ ~(k > z)
      <4>1. t[k] = s[k - 1] /\ k - 1 \in x + 1..free /\ k - 1 <= e
        BY <1>1, <1>6, <2>1, <2>6, <3>0, <3>3 DEF Forward
      <4> QED
        BY <4>1
    <3> QED
      BY <3>1, <3>2, <3>3
  <2> QED
    BY <1>10, <2>1, <2>2, <2>4, <2>5, <2>6
<1> QED
  BY <1>9, <1>11, <1>12

-----------------------------------------------------------------------------
(* The data from the first item to the return.                              *)

\* Only the head is in use, and its item has 128 in both bytes.
LEMMA InitData == Init => DataInv
<1> SUFFICES ASSUME Init PROVE DataInv
  OBVIOUS
<1>1. /\ data = [d \in Cell |-> IF d = 0 THEN 32896 ELSE 0] /\ crc = 0 /\ free = 1
      /\ pc = "insert"
  BY DEF Init
<1>2. data \in [Cell -> Word]
  BY <1>1 DEF Word
<1>3. \A c \in Cell \ Used : data[c] = 0
  BY <1>1 DEF Used
<1> QED
  BY <1>1, <1>2, <1>3 DEF DataInv, InKernel

\* A step that leaves the items alone.
LEMMA DataStays ==
  ASSUME DataInv, run' = run, free' = free, data' = data, crc' \in Int, orig' = orig,
         InKernel' => InKernel,
         pc' \in {"ready", "finish", "returned"} => AllPlain,
         pc' = "split" /\ sort'.cmp = "idx" => \E s, x : Splitting(s, x)' /\ SplitTidy(s, x)',
         pc' = "merge" /\ sort'.cmp = "idx" => \E s, x : Merging(s, x)' /\ MergeTidy(s, x)'
  PROVE  DataInv'
<1>1. Cell' = Cell /\ Used' = Used /\ (AllPlain' <=> AllPlain)
  BY Same DEF AllPlain
<1> QED
  BY <1>1 DEF DataInv

\* A sort begins with runs of one item.
LEMMA CallTidy ==
  ASSUME ListInv', pc' = "split", sort'.nmerges = 0, sort'.insize = 1
  PROVE  \E s, x : Splitting(s, x)' /\ SplitTidy(s, x)'
<1>1. PICK s, x : Splitting(s, x)'
  BY DEF ListInv, Shape, Places
<1>2. x = 0
  BY <1>1 DEF Splitting
<1>3. Tidy(s, 1, 0, 0, 2 * 1)' /\ Tidy(s, 0 + 1, free, 0, 1)'
  BY DEF Tidy
<1> QED
  BY <1>1, <1>2, <1>3 DEF SplitTidy

\* A new item is a number of 16 bits.
LEMMA InsertData ==
  ASSUME ListInv, DataInv, Insert, UNCHANGED <<res, done, err, orig>>
  PROVE  DataInv'
<1>1. /\ Input /\ Inserting /\ pc = "insert" /\ pc' = pc /\ run' = run /\ crc' = crc
      /\ ListSize \in Nat /\ free \in Nat \ {0} /\ i <= ListSize
  BY Facts DEF Insert, Shape, Places, sums
<1>2. ListItem.data \in Word
  <2>1. CASE i = 0
    BY <2>1 DEF ListItem, Word
  <2>2. CASE i # 0
    <3>1. i - 1 \in 0..run.size \div 20
      <4>1. PICK w : w = run.size \div 20
        OBVIOUS
      <4>2. ListSize = w - 2 /\ w - 2 \in Nat /\ i \in 0..w
        BY <1>1, <4>1 DEF Inserting, ListSize
      <4>3. w \in Int => i - 1 \in 0..w
        BY <2>2, <4>2
      <4>4. w \in Int
        <5>1. PICK b \in Builds : run = Inputs(b)
          BY <1>1 DEF Input
        <5>2. run.size = b.total \div 3
          BY <5>1 DEF Inputs
        <5> QED
          BY <4>1, <5>1, <5>2, BuildsAssumption
      <4> QED
        BY <4>1, <4>3, <4>4
    <3>2. BitXor(run.seed1, i - 1) \in Int
      BY <1>1, <3>1, DataAssumption DEF Input
    <3>3. PICK y : y = BitXor(run.seed1, i - 1)
      OBVIOUS
    <3> DEFINE dat == 8 * (y % 16) + ((i - 1) % 8)
    <3>4. dat \in Int /\ 0 <= dat /\ dat <= 127
      BY <3>1, <3>2, <3>3
    <3>5. ListItem.data = 257 * dat
      BY <2>2, <3>3 DEF ListItem
    <3> HIDE DEF dat
    <3> QED
      BY <3>4, <3>5 DEF Word
  <2> QED
    BY <2>1, <2>2
<1>3. Cell' = Cell /\ (free' = free \/ free' = free + 1)
  BY <1>1 DEF Cell, ListSize, Insert, heap
<1>4. data' \in [Cell -> Word] /\ \A c \in Cell : c # free \/ free' = free => data'[c] = data[c]
  <2>1. data' = data \/ (free' = free + 1 /\ data' = [data EXCEPT ![free] = ListItem.data])
    BY DEF Insert, heap
  <2> QED
    BY <1>1, <1>2, <2>1 DEF DataInv
<1>5. \A c \in Cell \ Used' : data'[c] = 0
  <2>1. \A c \in Cell : c \notin Used' => c \notin Used /\ (c # free \/ free' = free)
    BY <1>1, <1>3 DEF Used, Cell
  <2> QED
    BY <1>4, <2>1 DEF DataInv
<1>6. ~InKernel'
  BY <1>1 DEF InKernel
<1> QED
  BY <1>1, <1>3, <1>4, <1>5, <1>6 DEF DataInv

\* A comparison changes low bytes only, the ones of used items.
LEMMA MergeData ==
  ASSUME ListInv, IInv, DataInv, Merge, UNCHANGED <<res, done, err, orig>>
  PROVE  DataInv'
<1>1. /\ pc = "merge" /\ pc' = pc /\ back' = back /\ run' = run /\ free' = free
      /\ sort \in SortLocals
  BY Facts DEF Merge, loop, Registers
<1>2. Cell' = Cell /\ Used' = Used
  BY <1>1, Same
<1>3. /\ data' \in [Cell -> Word] /\ crc' \in Int
      /\ \A c \in Cell : data'[c] \div 256 = data[c] \div 256
      /\ \A c \in Cell \ Used : data'[c] = data[c]
  BY MergeItems DEF DataInv
<1>4. sort'.cmp = sort.cmp
  BY <1>1, MergeMerges DEF ListInv, Shape, Places
<1>5. ASSUME sort.cmp = "idx" PROVE \E s, x : Merging(s, x)' /\ MergeTidy(s, x)'
  <2>1. PICK s, x : Merging(s, x) /\ MergeTidy(s, x)
    BY <1>1, <1>5 DEF DataInv
  <2> QED
    BY <1>5, <2>1, MergeTidies DEF DataInv
<1>6. InKernel' => InKernel
  BY <1>1 DEF InKernel
<1>7. [c \in Cell |-> 257 * (data'[c] \div 256)] = [c \in Cell |-> 257 * (data[c] \div 256)]
  BY <1>3
<1> QED
  BY <1>1, <1>2, <1>3, <1>4, <1>5, <1>6, <1>7 DEF DataInv

\* The other steps of a sort.
LEMMA SortData ==
  ASSUME ListInv, DataInv, Split \/ Merged \/ EndPass, UNCHANGED <<res, done, err, orig>>
  PROVE  DataInv'
<1>1. /\ pc \in {"split", "merge"} /\ run' = run /\ free' = free /\ data' = data /\ crc' = crc
      /\ back' = back
      /\ <<back, sort.cmp>> \in {<<"ready", "idx">>, <<"finish", "idx">>, <<"remove", "complex">>}
  BY Facts DEF Split, Merged, EndPass, heap, loop, sums, Registers
<1>2. crc' \in Int
  BY <1>1 DEF DataInv
<1>3. CASE Split
  <2>1. PICK s, x : Splitting(s, x) /\ (sort.cmp = "idx" => SplitTidy(s, x))
    BY <1>3 DEF Split, ListInv, Shape, Places, DataInv
  <2>2. sort'.cmp = sort.cmp /\ Merging(s, x)' /\ (sort.cmp = "idx" => MergeTidy(s, x)')
    BY <1>3, <2>1, SplitMerges, SplitTidies
  <2>3. pc = "split" /\ pc' = "merge"
    BY <1>3 DEF Split
  <2> QED
    BY <1>1, <1>2, <2>2, <2>3, DataStays DEF InKernel
<1>4. CASE Merged
  <2>1. PICK s, x : Merging(s, x) /\ (sort.cmp = "idx" => MergeTidy(s, x))
    BY <1>4 DEF Merged, ListInv, Shape, Places, DataInv
  <2>2. sort'.cmp = sort.cmp /\ Splitting(s, x)' /\ (sort.cmp = "idx" => SplitTidy(s, x)')
    BY <1>4, <2>1, MergedSplits, MergedTidies
  <2>3. pc = "merge" /\ pc' = "split"
    BY <1>4 DEF Merged
  <2> QED
    BY <1>1, <1>2, <2>2, <2>3, DataStays DEF InKernel
<1>5. CASE EndPass
  <2>1. PICK s, x : Splitting(s, x) /\ (sort.cmp = "idx" => SplitTidy(s, x))
    BY <1>5 DEF EndPass, ListInv, Shape, Places, DataInv
  <2>2. /\ sort'.cmp = sort.cmp
        /\ sort.nmerges <= 1 => pc' = back
        /\ ~(sort.nmerges <= 1) => pc' = "split" /\ Splitting(s, 0)'
    BY <1>5, <2>1, EndPassRuns DEF EndPass
  <2>3. /\ sort.cmp = "idx" /\ sort.nmerges <= 1 => AllPlain
        /\ sort.cmp = "idx" /\ ~(sort.nmerges <= 1) => SplitTidy(s, 0)'
    <3>1. AllPlain' <=> AllPlain
      BY <1>1 DEF AllPlain, Used
    <3> QED
      BY <1>5, <2>1, <3>1, EndPassTidies
  <2>4. InKernel' => InKernel
    BY <1>1, <1>5, <2>2 DEF InKernel, EndPass
  <2> QED
    BY <1>1, <1>2, <2>2, <2>3, <2>4, DataStays
<1> QED
  BY <1>3, <1>4, <1>5

\* The calls of a sort by idx.
LEMMA CallData ==
  ASSUME ListInv, ListInv', DataInv, Index \/ UndoRemove, UNCHANGED <<res, done, err, orig>>
  PROVE  DataInv'
<1>1. /\ run' = run /\ free' = free /\ data' = data /\ crc' = crc /\ pc' = "split"
      /\ sort' = SortFrom(list, "idx")
      /\ (pc = "insert" /\ back' = "ready") \/ pc = "undo"
  BY DEF Index, UndoRemove, CallSort, loop, sums
<1>2. crc' \in Int /\ sort'.nmerges = 0 /\ sort'.insize = 1
  BY <1>1 DEF DataInv, SortFrom
<1>3. InKernel' => InKernel
  BY <1>1 DEF InKernel
<1> QED
  BY <1>1, <1>2, <1>3, CallTidy, DataStays

\* The steps of core_bench_list between the sorts.
LEMMA BenchData ==
  ASSUME DataInv, Search \/ Reverse \/ Move \/ Found \/ Remove \/ Finish,
         UNCHANGED <<res, done, err, orig>>
  PROVE  DataInv'
<1>1. /\ run' = run /\ free' = free /\ data' = data /\ crc' = crc /\ InKernel
      /\ \/ pc' \in {"search", "reverse", "move", "remove", "undo"}
         \/ pc = "finish" /\ pc' = "returned"
         \/ pc' = "split" /\ sort'.cmp # "idx"
  BY DEF Search, Reverse, Move, Found, Remove, Finish, CallSort, SortFrom, heap, loop, sums, InKernel
<1>2. crc' \in Int /\ (pc' \in {"ready", "finish", "returned"} => AllPlain)
  BY <1>1 DEF DataInv
<1> QED
  BY <1>1, <1>2, DataStays

\* The snapshot is taken of plain items.
LEMMA StartData ==
  ASSUME ListInv, DataInv, Start
  PROVE  DataInv'
<1>1. /\ pc = "ready" /\ pc' = "search" /\ run' = run /\ free' = free /\ data' = data
      /\ crc' = 0 /\ orig'.heap = <<next, info, idx, data>>
  BY DEF Start, CallBench, heap
<1>2. Cell' = Cell /\ Used' = Used
  BY <1>1, Same
<1>3. data = [c \in Cell |-> 257 * (data[c] \div 256)]
  <2>1. AllPlain /\ data \in [Cell -> Word] /\ \A c \in Cell \ Used : data[c] = 0
    BY <1>1 DEF DataInv
  <2>2. \A c \in Cell : data[c] = 257 * (data[c] \div 256)
    BY <2>1 DEF AllPlain, Plain
  <2> QED
    BY <2>1, <2>2
<1>4. orig'.heap = <<orig'.heap[1], orig'.heap[2], orig'.heap[3],
                     [c \in Cell |-> 257 * (data'[c] \div 256)]>>
  BY <1>1, <1>3
<1> QED
  BY <1>1, <1>2, <1>4 DEF DataInv

\* The other steps of the main program.
LEMMA MainData ==
  ASSUME ListInv, DataInv, Returned \/ Verdict \/ UNCHANGED vars
  PROVE  DataInv'
<1>1. CASE Returned
  <2>1. /\ pc = "returned" /\ pc' \in {"search", "verdict"} /\ run' = run /\ free' = free
        /\ data' = data /\ crc' = Crcu16(bench.retval, crc) /\ orig' = orig
    BY <1>1 DEF Returned, CallBench, heap
  <2>2. crc' \in Int
    BY <2>1, CrcType DEF DataInv
  <2> QED
    BY <2>1, <2>2, DataStays DEF InKernel
<1>2. CASE Verdict
  <2>1. /\ pc = "verdict" /\ pc' = "done" /\ run' = run /\ free' = free
        /\ data' = data /\ crc' = crc /\ orig' = orig
    BY <1>2 DEF Verdict, heap, loop, sums
  <2> QED
    BY <2>1, DataStays DEF InKernel, DataInv
<1>3. CASE UNCHANGED vars
  <2>1. /\ run' = run /\ free' = free /\ data' = data /\ crc' = crc /\ orig' = orig
        /\ sort' = sort /\ pc' = pc /\ back' = back
    BY <1>3 DEF vars, coreVars
  <2>2. \A s, x : (SplitTidy(s, x)' <=> SplitTidy(s, x)) /\ (MergeTidy(s, x)' <=> MergeTidy(s, x))
    BY <2>1 DEF SplitTidy, MergeTidy, Tidy
  <2>3. \A s, x : (Splitting(s, x)' <=> Splitting(s, x)) /\ (Merging(s, x)' <=> Merging(s, x))
    BY <1>3, SamePieces
  <2>4. InKernel' <=> InKernel
    BY <2>1 DEF InKernel
  <2> QED
    BY <2>1, <2>2, <2>3, <2>4, DataStays DEF DataInv
<1> QED
  BY <1>1, <1>2, <1>3

\* The items keep their data in the high bytes, and a sort by idx brings it back.
THEOREM DataIsKept == Spec => []DataInv
<1>1. ListInv /\ ListInv' /\ IInv /\ DataInv /\ [Next]_vars => DataInv'
  <2> SUFFICES ASSUME ListInv, ListInv', IInv, DataInv, [Next]_vars PROVE DataInv'
    OBVIOUS
  <2>1. CASE (Insert \/ Index \/ Sort \/ BenchList) /\ UNCHANGED <<res, done, err, orig>>
    BY <2>1, InsertData, CallData, SortData, MergeData, BenchData DEF Sort, BenchList
  <2>2. CASE Start
    BY <2>2, StartData
  <2>3. CASE Returned \/ Verdict \/ UNCHANGED vars
    BY <2>3, MainData
  <2> QED
    BY <2>1, <2>2, <2>3 DEF Next
<1> QED
  BY <1>1, InitData, ListIsWhole, Invariance, PTL DEF Spec

-----------------------------------------------------------------------------
(* Two orders that ascend by idx are the same, so the list is the one it was.*)
LEMMA LinksReturn ==
  ASSUME ListInv, \A b \in Builds : Distinguishable(Inputs(b)), pc = "returned"
  PROVE  list = orig.list /\ <<next, info, idx>> = <<orig.heap[1], orig.heap[2], orig.heap[3]>>
<1>1. /\ free \in Nat \ {0} /\ Null \notin Used /\ Shape /\ Registers /\ free >= 3
      /\ info = Own /\ idx = Keys /\ Used \subseteq Cell /\ next \in [Cell -> Pointer] /\ Unlinked
  BY Facts DEF Registers
<1>2. PICK s : Listed(s) /\ Ascends(s)
  BY <1>1 DEF Shape, Places
<1>3. PICK t : Original(t)
  BY <1>1 DEF Shape, Places, InKernel
<1>4. s = t
  <2>1. Order(s) /\ Order(t) /\ Ascends(t)
    BY <1>2, <1>3 DEF Listed, Original
  <2>2. Distinguishable(run)
    BY DEF ListInv, Input
  <2> QED
    BY <1>2, <2>1, <2>2, Recovered
<1>5. list = orig.list
  BY <1>2, <1>3, <1>4 DEF Listed, Original
<1>6. next = orig.heap[1]
  <2>1. PICK was : was = orig.heap[1]
    OBVIOUS
  <2>2. /\ was \in [Cell -> Pointer]
        /\ \A k \in 1..free : was[s[k]] = At(s, k + 1)
        /\ \A c \in Cell \ Used : was[c] = Null
    BY <1>3, <1>4, <2>1 DEF Original, Pointer
  <2>3. ASSUME NEW c \in Cell PROVE next[c] = was[c]
    <3>1. CASE c \in Used
      <4>1. PICK k \in 1..free : s[k] = c
        BY <1>2, <3>1 DEF Listed, Order
      <4>2. next[s[k]] = At(s, k + 1)
        BY <1>2 DEF Listed, Follows
      <4> QED
        BY <2>2, <4>1, <4>2
    <3>2. CASE c \notin Used
      BY <1>1, <2>2, <3>2 DEF Unlinked
    <3> QED
      BY <3>1, <3>2
  <2> QED
    BY <1>1, <2>1, <2>2, <2>3
<1>7. info = orig.heap[2] /\ idx = orig.heap[3]
  BY <1>1, <1>3 DEF Original
<1> QED
  BY <1>5, <1>6, <1>7

\* After every iteration the list is as it was before it: sorting by idx brings back
\* the cells, their links and their items, and the data of every item, whatever the
\* sort by value, the reversals and the removal did, if it can tell the items apart.
THEOREM ListComesBack ==
  ASSUME \A b \in Builds : Distinguishable(Inputs(b))
  PROVE  Spec => []BackToOriginal
<1>1. ListInv /\ DataInv => BackToOriginal
  <2> SUFFICES ASSUME ListInv, DataInv, pc = "returned"
               PROVE  heap = orig.heap /\ list = orig.list
    BY DEF BackToOriginal
  <2>1. AllPlain /\ data \in [Cell -> Word] /\ \A c \in Cell \ Used : data[c] = 0
    BY DEF DataInv
  <2>2. \A c \in Cell : data[c] = 257 * (data[c] \div 256)
    BY <2>1 DEF AllPlain, Plain
  <2>3. data = [c \in Cell |-> 257 * (data[c] \div 256)]
    BY <2>1, <2>2
  <2>4. orig.heap = <<orig.heap[1], orig.heap[2], orig.heap[3], data>>
    BY <2>3 DEF DataInv, InKernel
  <2> QED
    BY <2>4, LinksReturn DEF heap
<1> QED
  BY <1>1, ListIsWhole, DataIsKept, PTL

-----------------------------------------------------------------------------
(* Every step of the program lowers a measure, the first of whose parts     *)
(* that changes goes down: what is behind Terminates.                       *)

\* The cells that the running pass of the sort has not merged.
Unmerged == IF pc = "split" THEN Len(Walk(sort.p, free))
            ELSE sort.psize + Len(Walk(sort.q, free))

\* The cells that still wait for the reversal.
Unreversed == free - Len(Walk(bench.rev, free))

\* The inits and their sort, two calls of the kernel in each iteration, and
\* the verdict.
CallsLeft ==
  CASE pc = "insert"  -> 2 * Iterations + 4
    [] pc \in {"split", "merge"} /\ ~InKernel -> 2 * Iterations + 3
    [] pc = "ready"   -> 2 * Iterations + 2
    [] InKernel       -> 2 * (Iterations - done) + (IF bench.finder = 1 THEN 1 ELSE 0)
    [] pc = "verdict" -> 1
    [] OTHER          -> 0

\* The loops and straight pieces of a call.
LoopsLeft ==
  CASE pc \in {"search", "reverse", "move"} -> 6
    [] pc \in {"split", "merge"} -> IF back = "remove" THEN 5 ELSE 2
    [] pc = "remove" -> 4
    [] pc = "undo"   -> 3
    [] pc = "finish" -> 1
    [] OTHER         -> 0

\* The turns of a loop.  A pass of a sort doubles insize, and another follows
\* only if insize is less than the list is long.
TurnsLeft ==
  CASE pc = "insert" -> ListSize + 1 - i
    [] pc \in {"search", "reverse", "move"} -> run.seed3 - i
    [] pc \in {"split", "merge"} -> IF sort.insize < free THEN free - sort.insize ELSE 0
    [] OTHER -> 0

\* The steps of a turn, as an upper bound: a merge takes a cell at least.
StepsLeft ==
  CASE pc = "search"  -> free + 2
    [] pc = "reverse" -> Unreversed + 1
    [] pc = "split"   -> 3 * Unmerged + 1
    [] pc = "merge"   -> 3 * Unmerged + (IF PEmpty /\ QEmpty THEN 2 ELSE 0)
    [] OTHER          -> 0

\* A step lowers the first of the four that it changes.
Fewer ==
  \/ CallsLeft' < CallsLeft
  \/ CallsLeft' = CallsLeft /\ LoopsLeft' < LoopsLeft
  \/ CallsLeft' = CallsLeft /\ LoopsLeft' = LoopsLeft /\ TurnsLeft' < TurnsLeft
  \/ CallsLeft' = CallsLeft /\ LoopsLeft' = LoopsLeft /\ TurnsLeft' = TurnsLeft
       /\ StepsLeft' < StepsLeft

\* The counters of the loops.  A second run in a pass begins behind insize cells,
\* so after two merges, or with a rest, the list is longer than insize.
Turns ==
  /\ pc = "search" => i \in 0..run.seed3
  /\ pc \in {"reverse", "move"} => i \in 0..run.seed3 - 1
  /\ InKernel => bench.finder \in {1, -1} /\ done \in 0..Iterations - 1
  /\ ~InKernel /\ pc \notin {"verdict", "done"} => done = 0
  /\ pc = "split" /\ sort.nmerges >= 1 /\ sort.p # Null => sort.insize < free
  /\ pc = "merge" /\ sort.q # Null => sort.insize < free
  /\ pc \in {"split", "merge"} /\ sort.nmerges >= 2 => sort.insize < free

\* The walks count the cells behind the place that the invariant names.
CellsCounted ==
  /\ pc = "split" => \A s, x : Splitting(s, x) => Unmerged = free - x
  /\ pc = "merge" => \A s, x : Merging(s, x) => Unmerged = free - x
  /\ pc = "reverse" => \A s, x : Reversing(s, x) => Unreversed = x

LEMMA WalkLength ==
  ASSUME free \in Nat \ {0}, Null \notin Used, NEW s, Order(s), NEW c, NEW a \in 1..free + 1,
         c = At(s, a), Follows(s, a, free)
  PROVE  Len(Walk(c, free)) = free - a + 1
<1>1. PICK m : m = free - a + 1
  OBVIOUS
<1>2. m \in Nat /\ free \in Nat /\ a \in Nat \ {0} /\ a + m - 1 <= free
  BY <1>1
<1>3. Walk(c, free) = Part(s, a, m)
  BY <1>1, WalkOn
<1> QED
  BY <1>1, <1>2, <1>3, PartIs

LEMMA ListCounted == ListInv => CellsCounted
<1> SUFFICES ASSUME ListInv PROVE CellsCounted
  OBVIOUS
<1>1. free \in Nat \ {0} /\ Null \notin Used /\ Registers
  BY Facts
<1>2. ASSUME pc = "split", NEW s, NEW x, Splitting(s, x) PROVE Unmerged = free - x
  <2>1. /\ Order(s) /\ x \in 0..free
        /\ sort.p = At(s, x + 1) /\ Follows(s, x + 1, free)
    BY <1>2 DEF Splitting
  <2>2. PICK a : a = x + 1
    OBVIOUS
  <2>3. a \in 1..free + 1 /\ free - a + 1 = free - x
    BY <1>1, <2>1, <2>2
  <2>4. Len(Walk(sort.p, free)) = free - a + 1
    BY <1>1, <2>1, <2>2, <2>3, WalkLength
  <2> QED
    BY <1>2, <2>3, <2>4 DEF Unmerged
<1>3. ASSUME pc = "merge", NEW s, NEW x, Merging(s, x) PROVE Unmerged = free - x
  <2>1. PICK m, z : m = sort.psize /\ z = x + sort.psize + 1
    OBVIOUS
  <2>2. /\ Order(s) /\ x \in 0..free /\ m \in Nat /\ z = x + m + 1 /\ z - 1 <= free
        /\ sort.q = At(s, z) /\ Follows(s, z, free)
    BY <1>1, <1>3, <2>1 DEF Merging, Registers, SortLocals
  <2>3. z \in 1..free + 1 /\ m + (free - z + 1) = free - x
    BY <1>1, <2>2
  <2>4. Len(Walk(sort.q, free)) = free - z + 1
    BY <1>1, <2>2, <2>3, WalkLength
  <2> QED
    BY <1>3, <2>1, <2>3, <2>4 DEF Unmerged
<1>4. ASSUME pc = "reverse", NEW s, NEW x, Reversing(s, x) PROVE Unreversed = x
  <2>1. /\ Order(s) /\ x \in 0..free
        /\ bench.rev = At(s, x + 1) /\ Follows(s, x + 1, free)
    BY <1>4 DEF Reversing
  <2>2. PICK a : a = x + 1
    OBVIOUS
  <2>3. a \in 1..free + 1 /\ free - (free - a + 1) = x
    BY <1>1, <2>1, <2>2
  <2>4. Len(Walk(bench.rev, free)) = free - a + 1
    BY <1>1, <2>1, <2>2, <2>3, WalkLength
  <2> QED
    BY <2>3, <2>4 DEF Unreversed
<1> QED
  BY <1>2, <1>3, <1>4 DEF CellsCounted

\* Steps of the program, beside which nothing else changes.
LEMMA InsertFewer ==
  ASSUME ListInv, Turns, Insert, done' = done
  PROVE  Turns' /\ Fewer
<1>1. /\ pc = "insert" /\ pc' = "insert" /\ i' = i + 1 /\ run' = run /\ i \in Int /\ ListSize \in Nat
  BY Facts DEF Insert, Shape, Places, Inserting
<1>2. ~InKernel /\ ~InKernel' /\ ListSize' = ListSize
  BY <1>1 DEF InKernel, ListSize
<1>3. Turns'
  BY <1>1, <1>2 DEF Turns
<1>4. CallsLeft' = CallsLeft /\ LoopsLeft' = LoopsLeft
  BY <1>1, <1>2 DEF CallsLeft, LoopsLeft
<1>5. TurnsLeft = ListSize + 1 - i /\ TurnsLeft' = ListSize + 1 - (i + 1)
  BY <1>1, <1>2 DEF TurnsLeft
<1>6. TurnsLeft' < TurnsLeft
  BY <1>1, <1>5
<1> QED
  BY <1>3, <1>4, <1>6 DEF Fewer

LEMMA IndexFewer ==
  ASSUME ListInv, Turns, Index, done' = done
  PROVE  Turns' /\ Fewer
<1>1. pc = "insert" /\ pc' = "split" /\ back' = "ready" /\ sort' = SortFrom(list, "idx")
  BY DEF Index, CallSort
<1>2. ~InKernel /\ ~InKernel'
  BY <1>1 DEF InKernel
<1>3. sort'.nmerges = 0
  BY <1>1 DEF SortFrom
<1>4. Turns'
  BY <1>1, <1>2, <1>3 DEF Turns
<1>5. CallsLeft = 2 * Iterations + 4 /\ CallsLeft' = 2 * Iterations + 3
  BY <1>1, <1>2 DEF CallsLeft
<1> QED
  BY <1>4, <1>5, IterationsAssumption DEF Fewer

\* During a sort the call and the loop stay the same.
LEMMA SortCounts ==
  ASSUME pc \in {"split", "merge"}, pc' \in {"split", "merge"}, back' = back,
         bench' = bench, done' = done
  PROVE  (InKernel' <=> InKernel) /\ CallsLeft' = CallsLeft /\ LoopsLeft' = LoopsLeft
<1>1. InKernel' <=> InKernel
  BY DEF InKernel
<1> QED
  BY <1>1 DEF CallsLeft, LoopsLeft

LEMMA SplitFewer ==
  ASSUME ListInv, Turns, CellsCounted, CellsCounted', Split, done' = done
  PROVE  Turns' /\ Fewer
<1>1. /\ free \in Nat \ {0} /\ sort \in SortLocals /\ Null \notin Used
      /\ pc = "split" /\ pc' = "merge" /\ back' = back /\ bench' = bench /\ free' = free
      /\ sort.p # Null
  BY Facts DEF Split, loop, Registers
<1>2. PICK s, x : Splitting(s, x)
  BY <1>1 DEF ListInv, Shape, Places
<1>3. /\ Merging(s, x)' /\ sort' \in SortLocals /\ sort'.insize = sort.insize
      /\ sort'.psize = IF sort.insize <= free - x THEN sort.insize ELSE free - x
  BY <1>2, SplitMerges
<1>4. sort'.nmerges = sort.nmerges + 1
  BY <1>1 DEF Split, SortLocals
<1>5. PICK n, m : n = sort.insize /\ m = sort'.psize
  OBVIOUS
<1>6. x \in 0..free - 1 /\ n \in Nat \ {0} /\ m = IF n <= free - x THEN n ELSE free - x
  <2>1. x \in 0..free /\ sort.p = At(s, x + 1)
    BY <1>2 DEF Splitting
  <2>2. x + 1 \in 1..free
    BY <1>1, <2>1 DEF At
  <2> QED
    BY <1>1, <1>3, <1>5, <2>1, <2>2 DEF SortLocals
<1>7. sort'.q # Null => n < free
  <2>1. sort'.q = At(s, x + m + 1)
    BY <1>1, <1>3, <1>5, Same DEF Merging, At
  <2>2. sort'.q # Null => x + m + 1 \in 1..free
    BY <2>1 DEF At
  <2> QED
    BY <1>1, <1>6, <2>2
<1>8. InKernel' <=> InKernel
  BY <1>1, SortCounts
<1>9. Turns'
  <2>1. sort'.nmerges >= 2 => sort.nmerges >= 1
    BY <1>1, <1>4 DEF SortLocals
  <2>2. sort'.nmerges >= 2 => sort'.insize < free'
    BY <1>1, <1>3, <2>1 DEF Turns
  <2>3. sort'.q # Null => sort'.insize < free'
    BY <1>1, <1>3, <1>5, <1>7
  <2> QED
    BY <1>1, <1>8, <2>2, <2>3 DEF Turns
<1>10. CallsLeft' = CallsLeft /\ LoopsLeft' = LoopsLeft /\ TurnsLeft' = TurnsLeft
  <2>1. TurnsLeft' = TurnsLeft
    BY <1>1, <1>3 DEF TurnsLeft
  <2> QED
    BY <1>1, <2>1, SortCounts
<1>11. StepsLeft' < StepsLeft
  <2>1. PICK u : u = free - x
    OBVIOUS
  <2>2. Unmerged = u /\ Unmerged' = u /\ u \in Nat
    BY <1>1, <1>2, <1>3, <1>6, <2>1 DEF CellsCounted
  <2>3. ~PEmpty'
    BY <1>1, <1>5, <1>6 DEF PEmpty
  <2>4. StepsLeft = 3 * u + 1 /\ StepsLeft' = 3 * u + 0
    BY <1>1, <2>2, <2>3 DEF StepsLeft
  <2> QED
    BY <2>2, <2>4
<1> QED
  BY <1>9, <1>10, <1>11 DEF Fewer

LEMMA MergeFewer ==
  ASSUME ListInv, Turns, CellsCounted, CellsCounted', Merge, done' = done
  PROVE  Turns' /\ Fewer
<1>1. /\ free \in Nat \ {0} /\ sort \in SortLocals
      /\ pc = "merge" /\ pc' = "merge" /\ back' = back /\ bench' = bench /\ free' = free
      /\ ~(PEmpty /\ QEmpty)
  BY Facts DEF Merge, loop, Registers
<1>2. PICK s, x : Merging(s, x)
  BY <1>1 DEF ListInv, Shape, Places
<1>3. \/ TakeP /\ Merging(s, x + 1)'
      \/ ~QEmpty /\ TakeQ /\ \E t : Merging(t, x + 1)'
  BY <1>2, MergeMerges
<1>4. PICK y, t : y = x + 1 /\ Merging(t, y)'
  BY <1>3
<1>5. /\ sort'.insize = sort.insize /\ sort'.nmerges = sort.nmerges
      /\ sort'.q # Null => sort.q # Null
  <2>1. CASE TakeP
    BY <1>1, <2>1 DEF TakeP, Linked, SortLocals
  <2>2. CASE ~QEmpty /\ TakeQ
    BY <1>1, <2>2 DEF TakeQ, Linked, SortLocals, QEmpty
  <2> QED
    BY <1>3, <2>1, <2>2
<1>6. InKernel' <=> InKernel
  BY <1>1, SortCounts
<1>7. Turns'
  BY <1>1, <1>5, <1>6 DEF Turns
<1>8. CallsLeft' = CallsLeft /\ LoopsLeft' = LoopsLeft /\ TurnsLeft' = TurnsLeft
  <2>1. TurnsLeft' = TurnsLeft
    BY <1>1, <1>5 DEF TurnsLeft
  <2> QED
    BY <1>1, <2>1, SortCounts
<1>9. StepsLeft' < StepsLeft
  <2>1. x \in 0..free /\ y \in 0..free
    <3>1. (y \in 0..free)'
      BY <1>4 DEF Merging
    <3> QED
      BY <1>1, <1>2, <3>1 DEF Merging
  <2>2. PICK u, v : u = free - x /\ v = free - y
    OBVIOUS
  <2>3. Unmerged = u /\ Unmerged' = v /\ u \in Nat /\ v \in Nat /\ v = u - 1
    BY <1>1, <1>2, <1>4, <2>1, <2>2 DEF CellsCounted
  <2>4. StepsLeft = 3 * u + 0 /\ (StepsLeft' = 3 * v + 2 \/ StepsLeft' = 3 * v + 0)
    BY <1>1, <2>3 DEF StepsLeft
  <2> QED
    BY <2>3, <2>4
<1> QED
  BY <1>7, <1>8, <1>9 DEF Fewer

LEMMA MergedFewer ==
  ASSUME ListInv, Turns, CellsCounted, CellsCounted', Merged, done' = done
  PROVE  Turns' /\ Fewer
<1>1. /\ free \in Nat \ {0} /\ sort \in SortLocals
      /\ pc = "merge" /\ pc' = "split" /\ back' = back /\ bench' = bench /\ free' = free
      /\ PEmpty /\ QEmpty
  BY Facts DEF Merged, loop, Registers
<1>2. PICK s, x : Merging(s, x)
  BY <1>1 DEF ListInv, Shape, Places
<1>3. Splitting(s, x)'
  BY <1>2, MergedSplits
<1>4. sort'.insize = sort.insize /\ sort'.nmerges = sort.nmerges /\ sort'.p = sort.q
  BY <1>1 DEF Merged, SortLocals
<1>5. InKernel' <=> InKernel
  BY <1>1, SortCounts
<1>6. Turns'
  BY <1>1, <1>4, <1>5 DEF Turns
<1>7. CallsLeft' = CallsLeft /\ LoopsLeft' = LoopsLeft /\ TurnsLeft' = TurnsLeft
  <2>1. TurnsLeft' = TurnsLeft
    BY <1>1, <1>4 DEF TurnsLeft
  <2> QED
    BY <1>1, <2>1, SortCounts
<1>8. StepsLeft' < StepsLeft
  <2>1. PICK u : u = free - x
    OBVIOUS
  <2>2. Unmerged = u /\ Unmerged' = u /\ u \in Nat
    BY <1>1, <1>2, <1>3, <2>1 DEF CellsCounted, Merging
  <2>3. StepsLeft = 3 * u + 2 /\ StepsLeft' = 3 * u + 1
    BY <1>1, <2>2 DEF StepsLeft
  <2> QED
    BY <2>2, <2>3
<1> QED
  BY <1>6, <1>7, <1>8 DEF Fewer

LEMMA EndPassFewer ==
  ASSUME ListInv, Turns, EndPass, done' = done
  PROVE  Turns' /\ Fewer
<1>1. /\ free \in Nat \ {0} /\ sort \in SortLocals
      /\ pc = "split" /\ back' = back /\ bench' = bench /\ free' = free
      /\ <<back, sort.cmp>> \in {<<"ready", "idx">>, <<"finish", "idx">>, <<"remove", "complex">>}
  BY Facts DEF EndPass, loop, Registers
<1>2. PICK s, x : Splitting(s, x)
  BY <1>1 DEF ListInv, Shape, Places
<1>3. back \in {"ready", "finish", "remove"}
  BY <1>1
<1>4. CASE sort.nmerges <= 1
  <2>1. pc' = back
    BY <1>2, <1>4, EndPassRuns
  <2>2. InKernel' <=> InKernel
    BY <1>1, <1>3, <2>1 DEF InKernel
  <2>3. Turns'
    BY <1>1, <1>3, <2>1, <2>2 DEF Turns
  <2>4. CASE back = "ready"
    <3>1. ~InKernel
      BY <1>1, <2>4 DEF InKernel
    <3>2. CallsLeft = 2 * Iterations + 3 /\ CallsLeft' = 2 * Iterations + 2
      BY <1>1, <2>1, <2>2, <2>4, <3>1 DEF CallsLeft
    <3> QED
      BY <2>3, <3>2, IterationsAssumption DEF Fewer
  <2>5. CASE back # "ready"
    <3>1. InKernel
      BY <1>1, <2>5 DEF InKernel
    <3>2. CallsLeft' = CallsLeft
      BY <1>1, <1>3, <2>1, <2>2, <2>5, <3>1 DEF CallsLeft
    <3>3. LoopsLeft' < LoopsLeft
      BY <1>1, <1>3, <2>1, <2>5 DEF LoopsLeft
    <3> QED
      BY <2>3, <3>2, <3>3 DEF Fewer
  <2> QED
    BY <2>4, <2>5
<1>5. CASE ~(sort.nmerges <= 1)
  <2>1. pc' = "split" /\ sort'.insize = 2 * sort.insize
    BY <1>1, <1>2, <1>5, EndPassRuns
  <2>2. sort'.nmerges = 0
    BY <1>5 DEF EndPass, SortFrom
  <2>3. InKernel' <=> InKernel
    BY <1>1, <2>1, SortCounts
  <2>4. Turns'
    BY <1>1, <2>1, <2>2, <2>3 DEF Turns
  <2>5. TurnsLeft' < TurnsLeft
    <3>1. PICK n : n = sort.insize
      OBVIOUS
    <3>2. n \in Nat \ {0} /\ n < free
      <4>1. sort.nmerges >= 2
        BY <1>1, <1>5 DEF SortLocals
      <4> QED
        BY <1>1, <3>1, <4>1 DEF Turns, SortLocals
    <3>3. /\ TurnsLeft = IF n < free THEN free - n ELSE 0
          /\ TurnsLeft' = IF 2 * n < free THEN free - 2 * n ELSE 0
      BY <1>1, <2>1, <3>1 DEF TurnsLeft
    <3> QED
      BY <1>1, <3>2, <3>3
  <2> QED
    BY <1>1, <2>1, <2>4, <2>5, SortCounts DEF Fewer
<1> QED
  BY <1>4, <1>5

\* In core_bench_list nothing but a sort or a return leaves the loop.
LEMMA SearchFewer ==
  ASSUME ListInv, Turns, ListInv', CellsCounted', Search, done' = done
  PROVE  Turns' /\ Fewer
<1>1. /\ free \in Nat \ {0} /\ pc = "search" /\ pc' = "reverse" /\ free' = free
      /\ i' = i /\ run' = run /\ i < run.seed3 /\ run.seed3 \in Nat
  BY Facts DEF Search, loop
<1>2. bench'.finder = bench.finder
  BY <1>1, Facts DEF Search, Registers
<1>3. InKernel /\ InKernel'
  BY <1>1 DEF InKernel
<1>4. i \in 0..run.seed3 /\ bench.finder \in {1, -1} /\ done \in 0..Iterations - 1
  BY <1>1, <1>3 DEF Turns
<1>5. Turns'
  <2>1. i' \in 0..run'.seed3 - 1
    BY <1>1, <1>4
  <2> QED
    BY <1>1, <1>2, <1>3, <1>4, <2>1 DEF Turns
<1>6. CallsLeft' = CallsLeft /\ LoopsLeft' = LoopsLeft /\ TurnsLeft' = TurnsLeft
  BY <1>1, <1>2, <1>3 DEF CallsLeft, LoopsLeft, TurnsLeft
<1>7. StepsLeft' < StepsLeft
  <2>1. \E s, x : Reversing(s, x)'
    BY <1>1 DEF ListInv, Shape, Places
  <2>2. PICK s, x : Reversing(s, x)'
    BY <2>1
  <2>3. x \in 0..free /\ Unreversed' = x
    BY <1>1, <2>2 DEF CellsCounted, Reversing
  <2>4. StepsLeft = free + 2 /\ StepsLeft' = x + 1
    BY <1>1, <2>3 DEF StepsLeft
  <2> QED
    BY <1>1, <2>3, <2>4
<1> QED
  BY <1>5, <1>6, <1>7 DEF Fewer

LEMMA ReverseFewer ==
  ASSUME ListInv, Turns, CellsCounted, CellsCounted', Reverse, done' = done
  PROVE  Turns' /\ Fewer
<1>1. /\ free \in Nat \ {0} /\ pc = "reverse" /\ pc' \in {"reverse", "move"} /\ free' = free
      /\ i' = i /\ run' = run
      /\ list = Null => pc' = "move"
      /\ list # Null => pc' = "reverse"
  BY Facts DEF Reverse, loop
<1>2. bench'.finder = bench.finder
  BY <1>1, Facts DEF Reverse, Registers
<1>3. InKernel /\ InKernel'
  BY <1>1 DEF InKernel
<1>4. Turns'
  BY <1>1, <1>2, <1>3 DEF Turns
<1>5. CallsLeft' = CallsLeft /\ LoopsLeft' = LoopsLeft /\ TurnsLeft' = TurnsLeft
  BY <1>1, <1>2, <1>3 DEF CallsLeft, LoopsLeft, TurnsLeft
<1>6. StepsLeft' < StepsLeft
  <2>1. PICK s, x : Reversing(s, x)
    BY <1>1 DEF ListInv, Shape, Places
  <2>2. x \in 0..free /\ (list = Null <=> x = 0) /\ (x # 0 => Reversing(s, x - 1)')
    BY <2>1, ReverseTurns DEF Reversing
  <2>3. StepsLeft = x + 1
    BY <1>1, <2>1 DEF StepsLeft, CellsCounted
  <2>4. CASE x = 0
    BY <1>1, <2>2, <2>3, <2>4 DEF StepsLeft
  <2>5. CASE x # 0
    <3>1. StepsLeft' = (x - 1) + 1
      BY <1>1, <2>2, <2>5 DEF StepsLeft, CellsCounted
    <3> QED
      BY <2>2, <2>3, <3>1
  <2> QED
    BY <2>4, <2>5
<1> QED
  BY <1>4, <1>5, <1>6 DEF Fewer

LEMMA MoveFewer ==
  ASSUME ListInv, Turns, Move, done' = done
  PROVE  Turns' /\ Fewer
<1>1. /\ pc = "move" /\ pc' = "search" /\ i' = i + 1 /\ run' = run /\ run.seed3 \in Nat
  BY Facts DEF Move
<1>2. bench'.finder = bench.finder
  BY <1>1, Facts DEF Move, Registers
<1>3. InKernel /\ InKernel'
  BY <1>1 DEF InKernel
<1>4. i \in 0..run.seed3 - 1 /\ bench.finder \in {1, -1} /\ done \in 0..Iterations - 1
  BY <1>1, <1>3 DEF Turns
<1>5. Turns'
  <2>1. i' \in 0..run'.seed3
    BY <1>1, <1>4
  <2> QED
    BY <1>1, <1>2, <1>3, <1>4, <2>1 DEF Turns
<1>6. CallsLeft' = CallsLeft /\ LoopsLeft' = LoopsLeft
  BY <1>1, <1>2, <1>3 DEF CallsLeft, LoopsLeft
<1>7. TurnsLeft = run.seed3 - i /\ TurnsLeft' = run.seed3 - (i + 1)
  BY <1>1 DEF TurnsLeft
<1>8. TurnsLeft' < TurnsLeft
  BY <1>1, <1>4, <1>7
<1> QED
  BY <1>5, <1>6, <1>8 DEF Fewer

\* The pieces of straight code between the loops.
LEMMA PieceFewer ==
  ASSUME ListInv, Turns, Found \/ Remove \/ UndoRemove \/ Finish, done' = done
  PROVE  Turns' /\ Fewer
<1>1. /\ pc \in {"search", "remove", "undo", "finish"}
      /\ pc' \in {"split", "remove", "undo", "returned"}
      /\ pc' = "split" => back' \in {"remove", "finish"} /\ sort'.nmerges = 0
  BY DEF Found, Remove, UndoRemove, Finish, CallSort, SortFrom
<1>2. bench'.finder = bench.finder
  BY Facts DEF Found, Remove, UndoRemove, Finish, Registers
<1>3. InKernel /\ InKernel'
  BY <1>1 DEF InKernel
<1>4. Turns'
  BY <1>1, <1>2, <1>3 DEF Turns
<1>5. CallsLeft' = CallsLeft
  BY <1>1, <1>2, <1>3 DEF CallsLeft
<1>6. LoopsLeft' < LoopsLeft
  <2>1. CASE Found
    BY <2>1 DEF Found, CallSort, LoopsLeft
  <2>2. CASE Remove
    BY <2>2 DEF Remove, LoopsLeft
  <2>3. CASE UndoRemove
    BY <2>3 DEF UndoRemove, CallSort, LoopsLeft
  <2>4. CASE Finish
    BY <2>4 DEF Finish, LoopsLeft
  <2> QED
    BY <2>1, <2>2, <2>3, <2>4
<1> QED
  BY <1>4, <1>5, <1>6 DEF Fewer

\* A call of core_bench_list is at its beginning.
LEMMA CallCounts ==
  ASSUME NEW head, NEW f \in {1, -1}, CallBench(head, f), run' = run, run.seed3 \in Nat,
         done' \in 0..Iterations - 1
  PROVE  /\ Turns'
         /\ CallsLeft' = 2 * (Iterations - done') + (IF f = 1 THEN 1 ELSE 0)
<1>1. pc' = "search" /\ i' = 0 /\ bench'.finder = f
  BY DEF CallBench
<1>2. InKernel'
  BY <1>1 DEF InKernel
<1>3. i' \in 0..run'.seed3
  BY <1>1
<1>4. Turns'
  BY <1>1, <1>2, <1>3 DEF Turns
<1> QED
  BY <1>1, <1>2, <1>4 DEF CallsLeft

LEMMA StartFewer ==
  ASSUME ListInv, Turns, Start
  PROVE  Turns' /\ Fewer
<1>1. /\ pc = "ready" /\ CallBench(list, 1) /\ run' = run /\ run.seed3 \in Nat /\ done' = done
  BY Facts DEF Start
<1>2. ~InKernel
  BY <1>1 DEF InKernel
<1>3. done' = 0 /\ done' \in 0..Iterations - 1
  BY <1>1, <1>2, IterationsAssumption DEF Turns
<1>4. Turns' /\ CallsLeft' = 2 * (Iterations - 0) + 1
  BY <1>1, <1>3, CallCounts
<1>5. CallsLeft = 2 * Iterations + 2
  BY <1>1, <1>2 DEF CallsLeft
<1>6. CallsLeft' < CallsLeft
  BY <1>4, <1>5, IterationsAssumption
<1> QED
  BY <1>4, <1>6 DEF Fewer

LEMMA ReturnedFewer ==
  ASSUME ListInv, Turns, Returned
  PROVE  Turns' /\ Fewer
<1>1. pc = "returned" /\ run' = run /\ run.seed3 \in Nat
  BY Facts DEF Returned
<1>2. InKernel
  BY <1>1 DEF InKernel
<1>3. bench.finder \in {1, -1} /\ done \in 0..Iterations - 1 /\ Iterations \in Nat
  BY <1>2, IterationsAssumption DEF Turns
<1>4. CallsLeft = 2 * (Iterations - done) + (IF bench.finder = 1 THEN 1 ELSE 0)
  BY <1>1, <1>2 DEF CallsLeft
<1>5. CASE bench.finder = 1
  <2>1. CallBench(res.list, -1) /\ done' = done
    BY <1>5 DEF Returned
  <2>2. Turns' /\ CallsLeft' = 2 * (Iterations - done) + 0
    BY <1>1, <1>3, <2>1, CallCounts
  <2>3. CallsLeft' < CallsLeft
    BY <1>3, <1>4, <1>5, <2>2
  <2> QED
    BY <2>2, <2>3 DEF Fewer
<1>6. CASE bench.finder = -1 /\ done + 1 < Iterations
  <2>1. CallBench(res.list, 1) /\ done' = done + 1
    BY <1>6 DEF Returned
  <2>2. done' \in 0..Iterations - 1
    BY <1>3, <1>6, <2>1
  <2>3. Turns' /\ CallsLeft' = 2 * (Iterations - (done + 1)) + 1
    BY <1>1, <2>1, <2>2, CallCounts
  <2>4. CallsLeft' < CallsLeft
    BY <1>3, <1>4, <1>6, <2>3
  <2> QED
    BY <2>3, <2>4 DEF Fewer
<1>7. CASE bench.finder = -1 /\ ~(done + 1 < Iterations)
  <2>1. pc' = "verdict"
    BY <1>7 DEF Returned
  <2>2. ~InKernel'
    BY <2>1 DEF InKernel
  <2>3. Turns'
    BY <2>1, <2>2 DEF Turns
  <2>4. CallsLeft' = 1
    BY <2>1, <2>2 DEF CallsLeft
  <2>5. CallsLeft' < CallsLeft
    BY <1>3, <1>4, <1>7, <2>4
  <2> QED
    BY <2>3, <2>5 DEF Fewer
<1> QED
  BY <1>3, <1>5, <1>6, <1>7

LEMMA VerdictFewer ==
  ASSUME Turns, Verdict
  PROVE  Turns' /\ Fewer
<1>1. pc = "verdict" /\ pc' = "done"
  BY DEF Verdict
<1>2. ~InKernel /\ ~InKernel'
  BY <1>1 DEF InKernel
<1>3. Turns'
  BY <1>1, <1>2 DEF Turns
<1>4. CallsLeft = 1 /\ CallsLeft' = 0
  BY <1>1, <1>2 DEF CallsLeft
<1> QED
  BY <1>3, <1>4 DEF Fewer

LEMMA NextFewer ==
  ASSUME ListInv, ListInv', CellsCounted, CellsCounted', Turns, Next
  PROVE  Turns' /\ Fewer
<1>1. CASE (Insert \/ Index \/ Sort \/ BenchList) /\ UNCHANGED <<res, done, err, orig>>
  BY <1>1, InsertFewer, IndexFewer, SplitFewer, MergeFewer, MergedFewer, EndPassFewer,
     SearchFewer, ReverseFewer, MoveFewer, PieceFewer
  DEF Sort, BenchList
<1>2. CASE Start \/ Returned \/ Verdict
  BY <1>2, StartFewer, ReturnedFewer, VerdictFewer
<1> QED
  BY <1>1, <1>2 DEF Next

LEMMA TurnsHold == Spec => [](ListInv /\ CellsCounted /\ Turns)
<1>1. Init => Turns
  <2> SUFFICES ASSUME Init PROVE Turns
    OBVIOUS
  <2>1. pc = "insert" /\ done = 0
    BY DEF Init
  <2> QED
    BY <2>1 DEF Turns, InKernel
<1>2. ListInv /\ ListInv' /\ CellsCounted /\ CellsCounted' /\ Turns /\ [Next]_vars => Turns'
  <2>1. UNCHANGED vars /\ Turns => Turns'
    BY DEF vars, coreVars, Turns, InKernel
  <2> QED
    BY <2>1, NextFewer
<1> QED
  BY <1>1, <1>2, ListIsWhole, ListCounted, PTL DEF Spec

\* Every step leaves fewer calls, or as many and fewer loops, or as many of these
\* and fewer turns, or as many of all three and fewer steps: no sort goes through
\* more passes than its list allows, and no reversal or merge runs in a circle.
THEOREM EveryStepCounts == Spec => [][Fewer]_vars
<1>1. ListInv /\ ListInv' /\ CellsCounted /\ CellsCounted' /\ Turns /\ [Next]_vars
        => [Fewer]_vars
  BY NextFewer
<1> QED
  BY <1>1, TurnsHold, PTL DEF Spec

\* What the steps lower are natural numbers, so that only finitely many steps can
\* follow each other.
THEOREM CountsAreNumbers ==
  Spec => []({CallsLeft, LoopsLeft, TurnsLeft, StepsLeft} \subseteq Nat)
<1>1. ListInv /\ CellsCounted /\ Turns
        => {CallsLeft, LoopsLeft, TurnsLeft, StepsLeft} \subseteq Nat
  <2> SUFFICES ASSUME ListInv, CellsCounted, Turns
               PROVE  {CallsLeft, LoopsLeft, TurnsLeft, StepsLeft} \subseteq Nat
    OBVIOUS
  <2>1. /\ Shape /\ Registers /\ ListSize \in Nat /\ free \in Nat \ {0} /\ run.seed3 \in Nat
        /\ Iterations \in Nat
    BY Facts, IterationsAssumption
  <2>2. CallsLeft \in Nat
    BY <2>1 DEF CallsLeft, Turns
  <2>3. LoopsLeft \in Nat
    BY DEF LoopsLeft
  <2>4. TurnsLeft \in Nat
    <3>1. pc = "insert" => i \in 0..ListSize + 1
      BY <2>1 DEF Shape, Inserting
    <3>2. pc \in {"search", "reverse", "move"} => i \in 0..run.seed3
      BY <2>1 DEF Turns
    <3>3. sort.insize \in Nat
      BY <2>1 DEF Registers, SortLocals
    <3> QED
      BY <2>1, <3>1, <3>2, <3>3 DEF TurnsLeft
  <2>5. StepsLeft \in Nat
    <3>1. pc \in {"split", "merge"} => Unmerged \in Nat
      <4>1. ASSUME pc = "split" PROVE Unmerged \in Nat
        <5>1. PICK s, x : Splitting(s, x)
          BY <2>1, <4>1 DEF Shape
        <5> QED
          BY <2>1, <4>1, <5>1 DEF CellsCounted, Splitting
      <4>2. ASSUME pc = "merge" PROVE Unmerged \in Nat
        <5>1. PICK s, x : Merging(s, x)
          BY <2>1, <4>2 DEF Shape
        <5> QED
          BY <2>1, <4>2, <5>1 DEF CellsCounted, Merging
      <4> QED
        BY <4>1, <4>2
    <3>2. pc = "reverse" => Unreversed \in Nat
      <4>1. ASSUME pc = "reverse" PROVE Unreversed \in Nat
        <5>1. PICK s, x : Reversing(s, x)
          BY <2>1, <4>1 DEF Shape
        <5> QED
          BY <2>1, <4>1, <5>1 DEF CellsCounted, Reversing
      <4> QED
        BY <4>1
    <3> QED
      BY <2>1, <3>1, <3>2 DEF StepsLeft
  <2> QED
    BY <2>2, <2>3, <2>4, <2>5
<1> QED
  BY <1>1, TurnsHold, PTL
=============================================================================
