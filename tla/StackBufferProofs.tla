------------------------- MODULE StackBufferProofs --------------------------
(***************************************************************************)
(* Proofs about StackBuffer: the buffer is coherent with memory, provided  *)
(* software reaches a word through the stack window only, and a hit found  *)
(* in ID still holds when EX uses it, unless the store ahead evicts.       *)
(***************************************************************************)
EXTENDS StackBuffer, TLAPS

(* Rows hold their own words, valid or not. *)
Placed == \A r \in Rows : Row[line[r].cell] = r

IInv == TypeOK /\ Placed /\ Coherent

LEMMA RowType == ASSUME NEW c \in Cell PROVE Row[c] \in Rows
  BY DEF Rows

LEMMA InitIInv == Init => IInv
<1> SUFFICES ASSUME Init PROVE IInv
  OBVIOUS
<1>1. TypeOK
  BY DEF Init, TypeOK
<1>2. Placed /\ Coherent
  BY DEF Init, Placed, Coherent
<1> QED
  BY <1>1, <1>2 DEF IInv

(* What the snoop does to the row of the store, and to no other. *)
LEMMA SnoopFacts ==
  ASSUME TypeOK, NEW es_flush \in BOOLEAN, NEW word \in Value,
         SnoopEdge(es_flush, word)
  PROVE  /\ line' \in [Rows -> Line]
         /\ Filled(es_flush) =>
              /\ ex \in Access
              /\ line' = [line EXCEPT ![Row[ex.cell]] =
                            [valid |-> TRUE, cell |-> ex.cell, data |-> word]]
         /\ ~Filled(es_flush) => \A r \in Rows :
              /\ line'[r].valid => line[r].valid
              /\ line'[r].cell = line[r].cell /\ line'[r].data = line[r].data
         /\ ~Filled(es_flush) /\ ~Invalidated(es_flush) => line' = line
         /\ Invalidated(es_flush) => ex \in Access /\ ~line'[Row[ex.cell]].valid
<1>1. line \in [Rows -> Line] /\ ex \in Access \cup {NoAccess}
  BY DEF TypeOK
<1>2. StackStoreValid(es_flush) => ex \in Access /\ Row[ex.cell] \in Rows
  BY <1>1 DEF StackStoreValid, StoreAccepted, IsStore, Access, Rows
<1>3. CASE Filled(es_flush)
  <2>1. ex \in Access /\ Row[ex.cell] \in Rows /\ ~Invalidated(es_flush)
    BY <1>2, <1>3 DEF Filled, Invalidated
  <2>2. line' = [line EXCEPT ![Row[ex.cell]] =
                   [valid |-> TRUE, cell |-> ex.cell, data |-> word]]
    BY <1>3, <2>1 DEF SnoopEdge
  <2> QED
    BY <1>1, <1>3, <2>1, <2>2 DEF Line, Access
<1>4. CASE Invalidated(es_flush)
  <2>1. ex \in Access /\ Row[ex.cell] \in Rows /\ ~Filled(es_flush)
    BY <1>2, <1>4 DEF Filled, Invalidated
  <2>2. line' = [line EXCEPT ![Row[ex.cell]].valid = FALSE]
    BY <1>4, <2>1 DEF SnoopEdge
  <2>3. \A r \in Rows :
          line'[r] = IF r = Row[ex.cell] THEN [line[r] EXCEPT !.valid = FALSE]
                                         ELSE line[r]
    BY <1>1, <2>1, <2>2
  <2>4. line' \in [Rows -> Line]
    BY <1>1, <2>1, <2>2 DEF Line
  <2>5. \A r \in Rows :
          /\ line'[r].valid => line[r].valid
          /\ line'[r].cell = line[r].cell /\ line'[r].data = line[r].data
    <3> TAKE r \in Rows
    <3>1. PICK old \in Line : old = line[r]
      BY <1>1
    <3>2. LET new == [old EXCEPT !.valid = FALSE]
          IN  ~new.valid /\ new.cell = old.cell /\ new.data = old.data
      BY DEF Line
    <3> QED
      BY <2>3, <3>1, <3>2
  <2>6. ~line'[Row[ex.cell]].valid
    BY <1>1, <2>1, <2>3 DEF Line
  <2> QED
    BY <1>4, <2>1, <2>4, <2>5, <2>6
<1>5. CASE ~Filled(es_flush) /\ ~Invalidated(es_flush)
  BY <1>1, <1>5 DEF SnoopEdge
<1> QED
  BY <1>3, <1>4, <1>5

LEMMA StepTypes ==
  ASSUME TypeOK, [Next]_vars
  PROVE  TypeOK'
<1>1. ASSUME NEW next \in Access \cup {NoAccess}, NEW base_ready \in BOOLEAN,
             NEW es_flush \in BOOLEAN, NEW word \in Value,
             Clock(next, base_ready, es_flush, word)
      PROVE  TypeOK'
  <2>1. line' \in [Rows -> Line]
    BY <1>1, SnoopFacts DEF Clock
  <2>2. ram' \in [Cell -> Value] /\ rdata' \in Value
    BY <1>1 DEF Clock, MemoryEdge, TypeOK, IsLoad, Access
  <2>3. captured' \in Value \cup {NoValue}
    BY <1>1, RowType DEF Clock, CaptureEdge, TypeOK, ExeStackLwHit, IsLoad, Access, Line
  <2>4. ex' \in Access \cup {NoAccess} /\ load_hit' \in BOOLEAN
    BY <1>1 DEF Clock, DecodeEdge
  <2> QED
    BY <2>1, <2>2, <2>3, <2>4 DEF TypeOK
<1>2. CASE UNCHANGED vars
  BY <1>2 DEF vars, TypeOK
<1> QED
  BY <1>1, <1>2 DEF Next

LEMMA ClockIInv ==
  ASSUME Window = {StackWindow}, IInv,
         NEW next \in Access \cup {NoAccess}, NEW base_ready \in BOOLEAN,
         NEW es_flush \in BOOLEAN, NEW word \in Value,
         Clock(next, base_ready, es_flush, word)
  PROVE  Placed' /\ Coherent'
<1>1. /\ line \in [Rows -> Line] /\ ram \in [Cell -> Value]
      /\ ex \in Access \cup {NoAccess}
  BY DEF IInv, TypeOK
<1>2. /\ line' \in [Rows -> Line]
      /\ Filled(es_flush) =>
           /\ ex \in Access
           /\ line' = [line EXCEPT ![Row[ex.cell]] =
                         [valid |-> TRUE, cell |-> ex.cell, data |-> word]]
      /\ ~Filled(es_flush) => \A r \in Rows :
           /\ line'[r].valid => line[r].valid
           /\ line'[r].cell = line[r].cell /\ line'[r].data = line[r].data
      /\ Invalidated(es_flush) => ex \in Access /\ ~line'[Row[ex.cell]].valid
  BY SnoopFacts DEF IInv, Clock
<1>3. StoreAccepted(es_flush) =>
        /\ ex \in Access
        /\ StackStoreValid(es_flush)
        /\ ram' = [ram EXCEPT ![ex.cell] = word]
  BY <1>1 DEF StoreAccepted, StackStoreValid, IsStore, Access, Clock, MemoryEdge
<1>4. ~StoreAccepted(es_flush) => ram' = ram
  BY DEF Clock, MemoryEdge
<1>5. Placed'
  <2>1. CASE Filled(es_flush)
    BY <1>1, <1>2, <2>1, RowType DEF IInv, Placed, Access
  <2>2. CASE ~Filled(es_flush)
    BY <1>2, <2>2 DEF IInv, Placed
  <2> QED
    BY <2>1, <2>2
<1>6. ASSUME NEW r \in Rows, line'[r].valid
      PROVE  line'[r].data = ram'[line'[r].cell]
  <2>1. CASE Filled(es_flush)
    <3>1. /\ StoreAccepted(es_flush) /\ ex.cell \in Cell /\ Row[ex.cell] \in Rows
      BY <1>2, <2>1, RowType DEF Filled, StackStoreValid, Access
    <3>2. CASE r = Row[ex.cell]
      BY <1>1, <1>2, <1>3, <2>1, <3>1, <3>2
    <3>3. CASE r # Row[ex.cell]
      <4>1. line'[r] = line[r]
        BY <1>1, <1>2, <2>1, <3>1, <3>3
      <4>2. line[r].cell # ex.cell /\ line[r].cell \in Cell
        BY <1>1, <3>3 DEF IInv, Placed, Line
      <4> QED
        BY <1>1, <1>3, <1>6, <3>1, <4>1, <4>2 DEF IInv, Coherent
    <3> QED
      BY <3>2, <3>3
  <2>2. CASE ~Filled(es_flush) /\ StoreAccepted(es_flush)
    <3>1. /\ line[r].valid /\ line[r].cell \in Cell
          /\ line'[r].cell = line[r].cell /\ line'[r].data = line[r].data
      BY <1>1, <1>2, <1>6, <2>2 DEF Line
    <3>2. ex \in Access /\ ex.cell \in Cell /\ ex.op \in {"sw", "part"}
      BY <1>3, <2>2 DEF Access, StoreAccepted, IsStore
    <3>3. line[r].cell # ex.cell
      <4>1. SUFFICES ASSUME line[r].cell = ex.cell PROVE FALSE
        OBVIOUS
      <4>2. r = Row[ex.cell] /\ Holds(ex.cell)
        BY <3>1, <4>1 DEF IInv, Placed, Holds
      <4>3. Invalidated(es_flush)
        BY <1>3, <2>2, <3>2, <4>2 DEF Filled, Invalidated
      <4> QED
        BY <1>2, <1>6, <4>2, <4>3
    <3> QED
      BY <1>1, <1>3, <2>2, <3>1, <3>2, <3>3 DEF IInv, Coherent
  <2>3. CASE ~StoreAccepted(es_flush)
    <3>1. ~Filled(es_flush)
      BY <2>3 DEF Filled, StackStoreValid
    <3> QED
      BY <1>2, <1>4, <1>6, <2>3, <3>1 DEF IInv, Coherent
  <2> QED
    BY <2>1, <2>2, <2>3
<1> QED
  BY <1>5, <1>6 DEF Placed, Coherent

LEMMA StepIInv ==
  ASSUME Window = {StackWindow}, IInv, [Next]_vars
  PROVE  IInv'
<1>1. TypeOK'
  BY StepTypes DEF IInv
<1>2. CASE Next
  BY <1>1, <1>2, ClockIInv DEF Next, IInv
<1>3. CASE UNCHANGED vars
  BY <1>1, <1>3 DEF vars, IInv, Placed, Coherent
<1> QED
  BY <1>2, <1>3

-----------------------------------------------------------------------------
(* The registers keep their types. *)
THEOREM TypeCorrect == Spec => []TypeOK
<1>1. Init => TypeOK
  BY InitIInv DEF IInv
<1>2. TypeOK /\ [Next]_vars => TypeOK'
  BY StepTypes
<1> QED
  BY <1>1, <1>2, PTL DEF Spec

(* Coherence, for any number of words, rows and values, when one window    *)
(* of addresses leads to the memory.                                       *)
THEOREM BufferIsCoherent ==
  ASSUME Window = {StackWindow}
  PROVE  Spec => []Coherent
<1>1. Init => IInv
  BY InitIInv
<1>2. IInv /\ [Next]_vars => IInv'
  BY StepIInv
<1>3. IInv => Coherent
  BY DEF IInv
<1> QED
  BY <1>1, <1>2, <1>3, PTL DEF Spec

(* The hit bit outlives the edge, except across an evicting store. *)
THEOREM HitSurvives ==
  ASSUME Window = {StackWindow}
  PROVE  Spec => HitSurvivesUnlessEvicted
<1> DEFINE Kept == \/ Evicts(FALSE, ex'.cell)
                   \/ line'[Row[ex'.cell]] =
                        [valid |-> TRUE, cell |-> ex'.cell, data |-> ram'[ex'.cell]]
<1>1. ASSUME IInv, [Next]_vars, ~UNCHANGED vars, IsLoad(ex'), load_hit'
      PROVE  Kept
  <2>1. PICK next \in Access \cup {NoAccess}, base_ready, es_flush \in BOOLEAN,
             word \in Value : Clock(next, base_ready, es_flush, word)
    BY <1>1 DEF Next
  <2>2. /\ es_flush = FALSE /\ ex' = next
        /\ StackLoadHit(next, base_ready, FALSE)
    BY <1>1, <2>1 DEF Clock, DecodeEdge
  <2>3. /\ next \in Access /\ next.cell \in Cell
        /\ ~ExeStorePending(FALSE) /\ Holds(next.cell)
    BY <2>2 DEF StackLoadHit, StackQueryValid, IsLoad, Access
  <2>4. IInv'
    BY <1>1, StepIInv
  <2>5. ~Invalidated(FALSE)
    BY <2>3 DEF Invalidated, ExeStorePending, StackStoreValid
  <2>6. /\ line' \in [Rows -> Line]
        /\ Filled(FALSE) =>
             /\ ex \in Access
             /\ line' = [line EXCEPT ![Row[ex.cell]] =
                           [valid |-> TRUE, cell |-> ex.cell, data |-> word]]
        /\ ~Filled(FALSE) /\ ~Invalidated(FALSE) => line' = line
    BY <1>1, <2>1, <2>2, SnoopFacts DEF Clock, IInv
  <2>7. Row[next.cell] \in Rows
    BY <2>3, RowType
  <2>8. \/ Evicts(FALSE, next.cell)
        \/ line'[Row[next.cell]].valid /\ line'[Row[next.cell]].cell = next.cell
    <3>1. CASE Filled(FALSE) /\ Row[ex.cell] = Row[next.cell]
      <4>1. line'[Row[next.cell]] = [valid |-> TRUE, cell |-> ex.cell, data |-> word]
        BY <1>1, <2>6, <2>7, <3>1 DEF IInv, TypeOK
      <4>2. CASE ex.cell = next.cell
        BY <4>1, <4>2
      <4>3. CASE ex.cell # next.cell
        BY <2>3, <3>1, <4>3 DEF Filled, Holds, Evicts
      <4> QED
        BY <4>2, <4>3
    <3>2. CASE Filled(FALSE) /\ Row[ex.cell] # Row[next.cell]
      BY <1>1, <2>3, <2>6, <2>7, <3>2 DEF Holds, IInv, TypeOK
    <3>3. CASE ~Filled(FALSE)
      BY <2>3, <2>5, <2>6, <3>3 DEF Holds
    <3> QED
      BY <3>1, <3>2, <3>3
  <2>9. line'[Row[next.cell]].valid => line'[Row[next.cell]].data
                                         = ram'[line'[Row[next.cell]].cell]
    BY <2>4, <2>7 DEF IInv, Coherent
  <2>10. line'[Row[next.cell]] \in Line
    BY <2>6, <2>7
  <2> QED
    BY <2>2, <2>8, <2>9, <2>10 DEF Line
<1>2. IInv /\ [Next]_vars => [(IsLoad(ex') /\ load_hit') => Kept]_vars
  BY <1>1
<1>3. Init => IInv
  BY InitIInv
<1>4. IInv /\ [Next]_vars => IInv'
  BY StepIInv
<1> QED
  BY <1>2, <1>3, <1>4, PTL DEF Spec, HitSurvivesUnlessEvicted
=============================================================================
