--------------------------- MODULE OperandsProofs ---------------------------
(***************************************************************************)
(* Proofs about Operands: whatever registers, values and instructions      *)
(* there are, EX computes with the operand of the program order and the    *)
(* registers change by what MEM holds.                                     *)
(*                                                                         *)
(* ReadsNewest alone is not inductive: an instruction may wait in EX's     *)
(* skid register while its operand grows old.  The invariant adds why it   *)
(* does not: the skid register is occupied only while a multi-cycle        *)
(* operation holds EX, MEM is empty then, so nothing but what is already   *)
(* counted reaches the registers; and an instruction that depends on the   *)
(* multi-cycle operation is never let into the skid register.              *)
(***************************************************************************)
EXTENDS Operands, TLAPS

(* EX is closed only while a multi-cycle operation waits in it. *)
ClosedWaits ==
  ~allowin => /\ ex # Bubble /\ ~ex.flush /\ ex.inst.kind = "multi"
              /\ mem = Bubble

SkidKept ==
  skid # Bubble =>
    /\ ~allowin
    /\ ~skid.flush => /\ skid.operand = Newest(skid.inst.rs)
                      /\ skid.inst.rs = Zero \/ skid.inst.rs # ex.inst.rd

IInv == TypeOK /\ ReadsNewest /\ ClosedWaits /\ SkidKept

LEMMA InstFields ==
  ASSUME NEW inst \in Inst
  PROVE  inst.kind \in Kind /\ inst.rd \in Reg /\ inst.rs \in Reg
  BY OperandAssumption

LEMMA InitIInv == Init => IInv
<1> SUFFICES ASSUME Init PROVE IInv
  OBVIOUS
<1>1. TypeOK
  BY OperandAssumption DEF Init, TypeOK
<1>2. ReadsNewest /\ ClosedWaits /\ SkidKept
  BY DEF Init, ReadsNewest, ClosedWaits, SkidKept
<1> QED
  BY <1>1, <1>2 DEF IInv

-----------------------------------------------------------------------------
(* A period, with its inputs named. *)
LEMMA StepIsClock ==
  ASSUME Next
  PROVE  \E in \in Inputs : \E next \in Offers(in) : Clock(in, next)
  BY DEF Next

(* What ID reads is a value. *)
LEMMA SrcType ==
  ASSUME TypeOK, NEW r \in Reg
  PROVE  Src(r) \in Value
<1>1. regs[r] \in Value /\ Nil \in Value
  BY OperandAssumption DEF TypeOK
<1>2. wb # Bubble => wb.value \in Value
  BY DEF TypeOK, InWrite
<1> QED
  BY <1>1, <1>2 DEF Src

LEMMA ToExecuteType ==
  ASSUME TypeOK, NEW in \in Inputs, id # Bubble
  PROVE  /\ ToExecute(in) \in InExecute
         /\ ToExecute(in).inst = id.inst
         /\ ToExecute(in).flush = (id.flush \/ PipeFlush(in))
         /\ ToExecute(in).operand = Operand(in)
<1>1. id.inst \in Inst /\ id.flush \in BOOLEAN
  BY DEF TypeOK, InDecode
<1>2. in.trap \in BOOLEAN /\ in.redirect \in BOOLEAN
      /\ in.loaded \in Value /\ in.result \in Value
  BY DEF Inputs
<1>3. Src(id.inst.rs) \in Value
  BY <1>1, InstFields, SrcType
<1>4. MemRegfileWen(in) => mem.value \in Value
  BY DEF MemRegfileWen, TypeOK, InMemory
<1>5. Operand(in) \in Value
  BY <1>2, <1>3, <1>4 DEF Operand
<1>6. (id.flush \/ PipeFlush(in)) \in BOOLEAN
  BY <1>1, <1>2 DEF PipeFlush
<1> QED
  BY <1>1, <1>5, <1>6 DEF ToExecute, InExecute

LEMMA ToMemoryType ==
  ASSUME TypeOK, NEW in \in Inputs, ex # Bubble
  PROVE  /\ ToMemory(in) \in InMemory
         /\ ToMemory(in) # Bubble
<1>1. ex.inst \in Inst /\ ex.flush \in BOOLEAN
  BY DEF TypeOK, InExecute
<1>2. ex.inst.rd \in Reg
  BY <1>1, InstFields
<1>3. in.trap \in BOOLEAN /\ in.loaded \in Value /\ in.result \in Value
  BY DEF Inputs
<1>4. Writes(ex.inst) \in BOOLEAN
  BY DEF Writes
<1>5. ToMemory(in) \in InMemory
  BY <1>1, <1>2, <1>3, <1>4 DEF ToMemory, InMemory
<1> QED
  BY <1>5, OperandAssumption

LEMMA StepTypes ==
  ASSUME TypeOK, NEW in \in Inputs, NEW next \in Offers(in), Clock(in, next)
  PROVE  TypeOK'
<1>1. id' \in InDecode \cup {Bubble}
  <2>1. next \in InDecode \cup {Bubble}
    BY DEF Offers, InDecode
  <2>2. id # Bubble => [id EXCEPT !.flush = id.flush \/ PipeFlush(in)] \in InDecode
    BY DEF TypeOK, InDecode
  <2> QED
    BY <2>1, <2>2 DEF Clock, DecodeEdge
<1>2. /\ ex' \in InExecute \cup {Bubble}
      /\ skid' \in InExecute \cup {Bubble}
      /\ allowin' \in BOOLEAN
  <2>1. EsInFire(in) => id # Bubble
    BY DEF EsInFire, DsToEsValid
  <2>2. EsInFire(in) => ToExecute(in) \in InExecute
    BY <2>1, ToExecuteType
  <2>3. CASE ExecuteAdvances(in)
    BY <2>2, <2>3 DEF ExecuteAdvances, TypeOK
  <2>4. CASE ExecuteStops(in)
    BY <2>2, <2>4 DEF ExecuteStops, TypeOK
  <2> QED
    BY <2>3, <2>4 DEF Clock
<1>3. mem' \in InMemory \cup {Bubble}
  BY ToMemoryType DEF Clock, MemoryEdge
<1>4. wb' \in InWrite \cup {Bubble}
  <2>1. MemRegfileWen(in) => mem.rd \in Reg /\ mem.value \in Value
    BY DEF MemRegfileWen, TypeOK, InMemory
  <2> QED
    BY <2>1 DEF Clock, WriteBackEdge, InWrite
<1>5. regs' \in [Reg -> Value] /\ regs'[Zero] = Nil
  <2>1. wb # Bubble => wb.rd \in Reg /\ wb.value \in Value
    BY DEF TypeOK, InWrite
  <2> QED
    BY <2>1, OperandAssumption DEF Clock, RegfileEdge, TypeOK
<1> QED
  BY <1>1, <1>2, <1>3, <1>4, <1>5 DEF TypeOK

-----------------------------------------------------------------------------
(* What the edge does to the registers. *)

(* Without a trap, what MEM holds becomes what the registers hold. *)
LEMMA CommitStep ==
  ASSUME TypeOK, NEW in \in Inputs, NEW next \in Offers(in), Clock(in, next),
         ~in.trap, NEW r \in Reg
  PROVE  Committed(r)' = Newest(r)
<1>1. /\ regs' = IF wb # Bubble /\ wb.rd # Zero
                 THEN [regs EXCEPT ![wb.rd] = wb.value] ELSE regs
      /\ wb' = IF MemRegfileWen(in) THEN [rd |-> mem.rd, value |-> mem.value]
               ELSE Bubble
  BY DEF Clock, RegfileEdge, WriteBackEdge
<1>2. wb # Bubble => wb.rd \in Reg
  BY DEF TypeOK, InWrite
<1>3. MemRegfileWen(in) <=> mem # Bubble /\ mem.wen /\ ~mem.flush
  BY DEF MemRegfileWen
<1>4. MemRegfileWen(in) => wb' # Bubble /\ wb'.rd = mem.rd /\ wb'.value = mem.value
  <2>1. MemRegfileWen(in) => [rd |-> mem.rd, value |-> mem.value] \in InWrite
    BY DEF MemRegfileWen, TypeOK, InMemory, InWrite
  <2> QED
    BY <1>1, <2>1, OperandAssumption
<1>5. Src(r) = IF r = Zero THEN Nil
               ELSE IF wb # Bubble /\ wb.rd = r THEN wb.value ELSE regs[r]
  BY DEF Src
<1>6. Src(r)' = IF r = Zero THEN Nil
                ELSE IF wb' # Bubble /\ wb'.rd = r THEN wb'.value ELSE regs'[r]
  BY DEF Src
<1>7. r # Zero => regs'[r] = IF wb # Bubble /\ wb.rd = r THEN wb.value ELSE regs[r]
  BY <1>1, <1>2 DEF TypeOK
<1> QED
  BY <1>1, <1>3, <1>4, <1>5, <1>6, <1>7 DEF Committed, Newest

(* With a trap, the registers keep what WB leaves. *)
LEMMA TrapStep ==
  ASSUME TypeOK, NEW in \in Inputs, NEW next \in Offers(in), Clock(in, next),
         in.trap, NEW r \in Reg
  PROVE  Committed(r)' = Committed(r)
<1>1. /\ regs' = IF wb # Bubble /\ wb.rd # Zero
                 THEN [regs EXCEPT ![wb.rd] = wb.value] ELSE regs
      /\ wb' = Bubble
  BY DEF Clock, RegfileEdge, WriteBackEdge, MemRegfileWen
<1>2. wb # Bubble => wb.rd \in Reg
  BY DEF TypeOK, InWrite
<1>3. r # Zero => regs'[r] = IF wb # Bubble /\ wb.rd = r THEN wb.value ELSE regs[r]
  BY <1>1, <1>2 DEF TypeOK
<1> QED
  BY <1>1, <1>3 DEF Committed, Src

-----------------------------------------------------------------------------
(* A trap finds the skid register empty and flushes EX, and a stopped EX   *)
(* meets neither a trap nor a redirect.                                    *)
LEMMA TrapFindsRoom ==
  ASSUME IInv, NEW in \in Inputs, Possible(in), in.trap
  PROVE  skid = Bubble /\ allowin /\ mem # Bubble /\ ~mem.flush /\ EsCoreAllowin(in)
  BY DEF IInv, ClosedWaits, SkidKept, Possible, EsCoreAllowin, MulStall, InEffect

LEMMA StopMeetsNoFlush ==
  ASSUME NEW in \in Inputs, Possible(in), ~EsCoreAllowin(in)
  PROVE  /\ ex # Bubble /\ ~ex.flush /\ ex.inst.kind = "multi"
         /\ MulStall(in) /\ ~in.trap /\ ~in.redirect
  BY DEF EsCoreAllowin, MulStall, InEffect, Holds, Possible

(* Entering EX or its skid register, an instruction brings the value its   *)
(* source will have once MEM and what is in EX now have written.           *)
LEMMA OperandIsNewest ==
  ASSUME TypeOK, NEW in \in Inputs, EsInFire(in), ~in.trap
  PROVE  \/ /\ ExeRsHazard(in) /\ ~MulStall(in)
            /\ Operand(in) = ToMemory(in).value
         \/ ~ExeRsHazard(in) /\ Operand(in) = Newest(id.inst.rs)
<1>1. id # Bubble /\ id.inst.rs \in Reg
  BY InstFields DEF EsInFire, DsToEsValid, TypeOK, InDecode
<1>2. CASE ExeRsHazard(in)
  <2>1. ~ForwardPending(in) \/ StackLw(in)
    BY <1>2 DEF EsInFire, DsToEsValid, LoadUseHazard
  <2>2. InEffect(in)
    BY <1>2 DEF ExeRsHazard, ExeRegfileWen
  <2>3. ~MulStall(in)
    BY <2>1 DEF ForwardPending, StackLw, MulStall, Holds, InEffect
  <2>4. Operand(in) = IF ex.inst.kind = "load" THEN in.loaded ELSE in.result
    BY <1>2, <2>1, <2>2
    DEF Operand, StackLw, ForwardPending, Holds, InEffect
  <2> QED
    BY <1>2, <2>3, <2>4 DEF ToMemory
<1>3. CASE ~ExeRsHazard(in)
  <2>1. ~StackLw(in)
    BY <1>3 DEF StackLw
  <2>2. Operand(in) = IF MemRegfileWen(in) /\ id.inst.rs # Zero /\ mem.rd = id.inst.rs
                      THEN mem.value ELSE Src(id.inst.rs)
    BY <1>3, <2>1 DEF Operand
  <2> QED
    BY <1>3, <2>2 DEF MemRegfileWen, Newest, Committed
<1> QED
  BY <1>2, <1>3

-----------------------------------------------------------------------------
(* The step, one case per way EX may move. *)

(* How a register reads after the edge, without a trap. *)
LEMMA NewestAfter ==
  ASSUME TypeOK, NEW in \in Inputs, NEW next \in Offers(in), Clock(in, next),
         ~in.trap, NEW r \in Reg
  PROVE  Newest(r)' =
           IF r # Zero /\ ex # Bubble /\ ~MulStall(in) /\ Writes(ex.inst)
                /\ ~ex.flush /\ ex.inst.rd = r
           THEN ToMemory(in).value ELSE Newest(r)
<1>1. Committed(r)' = Newest(r)
  BY CommitStep
<1>2. Newest(r)' = IF r # Zero /\ mem' # Bubble /\ mem'.wen /\ ~mem'.flush /\ mem'.rd = r
                   THEN mem'.value ELSE Committed(r)'
  BY DEF Newest
<1>3. CASE ex # Bubble /\ ~MulStall(in)
  <2>1. mem' = ToMemory(in) /\ mem' # Bubble
    BY <1>3, ToMemoryType DEF Clock, MemoryEdge
  <2>2. /\ ToMemory(in).rd = ex.inst.rd
        /\ ToMemory(in).wen = Writes(ex.inst)
        /\ ToMemory(in).flush = (ex.flush \/ in.trap)
    BY DEF ToMemory
  <2> QED
    BY <1>1, <1>2, <1>3, <2>1, <2>2
<1>4. CASE ~(ex # Bubble /\ ~MulStall(in))
  BY <1>1, <1>2, <1>4 DEF Clock, MemoryEdge
<1> QED
  BY <1>3, <1>4

LEMMA AdvanceKeeps ==
  ASSUME IInv, NEW in \in Inputs, NEW next \in Offers(in), Clock(in, next),
         ExecuteAdvances(in)
  PROVE  ReadsNewest' /\ ClosedWaits' /\ SkidKept'
<1> USE DEF IInv
<1>1. ClosedWaits' /\ SkidKept'
  BY DEF ExecuteAdvances, ClosedWaits, SkidKept
<1>2. CASE skid # Bubble
  <2>1. ex' = skid /\ ~allowin /\ mem = Bubble
    BY <1>2 DEF ExecuteAdvances, SkidKept, ClosedWaits
  <2>2. ~in.trap
    BY <2>1 DEF Clock, Possible
  <2>3. skid.inst.rs \in Reg
    BY <1>2, InstFields DEF TypeOK, InExecute
  <2>4. SUFFICES ASSUME ~skid.flush, NEW r \in Reg, r = skid.inst.rs
                 PROVE  skid.operand = Newest(r)'
    BY <1>1, <2>1, <2>3 DEF ReadsNewest
  <2>5. /\ skid.operand = Newest(r)
        /\ r = Zero \/ r # ex.inst.rd
    BY <1>2, <2>4 DEF SkidKept
  <2> QED
    BY <2>2, <2>5, NewestAfter
<1>3. CASE skid = Bubble /\ EsInFire(in)
  <2>1. ex' = ToExecute(in) /\ id # Bubble
    BY <1>3 DEF ExecuteAdvances, EsInFire, DsToEsValid
  <2>2. id.inst.rs \in Reg
    BY <2>1, InstFields DEF TypeOK, InDecode
  <2>3. SUFFICES ASSUME ~id.flush, ~PipeFlush(in), NEW r \in Reg, r = id.inst.rs
                 PROVE  Operand(in) = Newest(r)'
    BY <1>1, <2>1, <2>2, ToExecuteType DEF ReadsNewest
  <2>4. ~in.trap
    BY <2>3 DEF PipeFlush
  <2>5. CASE ExeRsHazard(in)
    <3>1. /\ r # Zero /\ ex # Bubble /\ ~ex.flush /\ Writes(ex.inst)
          /\ ex.inst.rd = r
      BY <2>3, <2>5 DEF ExeRsHazard, ExeRegfileWen, InEffect
    <3> QED
      BY <1>3, <2>3, <2>4, <2>5, <3>1, OperandIsNewest, NewestAfter
  <2>6. CASE ~ExeRsHazard(in)
    <3>1. ~(/\ r # Zero /\ ex # Bubble /\ ~ex.flush /\ Writes(ex.inst)
            /\ ex.inst.rd = r)
      BY <2>3, <2>4, <2>6 DEF ExeRsHazard, ExeRegfileWen, InEffect
    <3> QED
      BY <1>3, <2>3, <2>4, <2>6, <3>1, OperandIsNewest, NewestAfter
  <2> QED
    BY <2>5, <2>6
<1>4. CASE skid = Bubble /\ ~EsInFire(in)
  <2>1. ex' = Bubble
    BY <1>4 DEF ExecuteAdvances
  <2> QED
    BY <1>1, <2>1 DEF ReadsNewest
<1> QED
  BY <1>1, <1>2, <1>3, <1>4

LEMMA StopKeeps ==
  ASSUME IInv, NEW in \in Inputs, NEW next \in Offers(in), Clock(in, next),
         ExecuteStops(in)
  PROVE  ReadsNewest' /\ ClosedWaits' /\ SkidKept'
<1> USE DEF IInv
<1>1. /\ ex # Bubble /\ ~ex.flush /\ ex.inst.kind = "multi"
      /\ MulStall(in) /\ ~in.trap /\ ~in.redirect
  BY StopMeetsNoFlush DEF Clock, ExecuteStops
<1>2. ex' = ex /\ mem' = Bubble /\ ~allowin'
  BY <1>1 DEF ExecuteStops, Clock, MemoryEdge
<1>3. ClosedWaits'
  BY <1>1, <1>2 DEF ClosedWaits
<1>4. \A r \in Reg : Newest(r)' = Newest(r)
  BY <1>1, NewestAfter
<1>5. ReadsNewest'
  BY <1>1, <1>2, <1>4, InstFields DEF ReadsNewest, TypeOK, InExecute
<1>6. CASE EsInFire(in) /\ skid = Bubble
  <2>1. skid' = ToExecute(in) /\ id # Bubble /\ id.inst \in Inst
    BY <1>1, <1>6 DEF ExecuteStops, EsInFire, DsToEsValid, TypeOK, InDecode
  <2>2. ~ExeRsHazard(in) /\ Operand(in) = Newest(id.inst.rs)
    BY <1>1, <1>6, OperandIsNewest
  <2>3. id.inst.rs = Zero \/ id.inst.rs # ex.inst.rd
    BY <1>1, <2>2 DEF ExeRsHazard, ExeRegfileWen, InEffect, Writes
  <2>4. id.inst.rs \in Reg
    BY <2>1, InstFields
  <2>5. skid'.inst = id.inst /\ skid'.operand = Operand(in)
    BY <2>1, ToExecuteType
  <2> QED
    BY <1>2, <1>3, <1>4, <1>5, <2>2, <2>3, <2>4, <2>5 DEF SkidKept
<1>7. CASE ~(EsInFire(in) /\ skid = Bubble)
  <2>1. skid' = skid
    BY <1>1, <1>7 DEF ExecuteStops
  <2>2. skid # Bubble => skid.inst.rs \in Reg
    BY InstFields DEF TypeOK, InExecute
  <2> QED
    BY <1>2, <1>3, <1>4, <1>5, <2>1, <2>2 DEF SkidKept
<1> QED
  BY <1>6, <1>7

LEMMA StepIInv == IInv /\ [Next]_vars => IInv'
<1> SUFFICES ASSUME IInv, [Next]_vars PROVE IInv'
  OBVIOUS
<1>1. CASE UNCHANGED vars
  BY <1>1 DEF vars, IInv, TypeOK, ReadsNewest, ClosedWaits, SkidKept,
              Newest, Committed, Src
<1>2. CASE Next
  <2> PICK in \in Inputs : \E next \in Offers(in) : Clock(in, next)
    BY <1>2, StepIsClock
  <2> PICK next \in Offers(in) : Clock(in, next)
    OBVIOUS
  <2>1. TypeOK'
    BY StepTypes DEF IInv
  <2>2. ExecuteAdvances(in) \/ ExecuteStops(in)
    BY DEF Clock
  <2> QED
    BY <2>1, <2>2, AdvanceKeeps, StopKeeps DEF IInv
<1> QED
  BY <1>1, <1>2

LEMMA Invariant == Spec => []IInv
<1> QED
  BY InitIInv, StepIInv, PTL DEF Spec

-----------------------------------------------------------------------------
(* The stage registers have their types and x0 is zero: no sequence of     *)
(* writes in wb_stage.sv and regfiles.sv changes it.                       *)
THEOREM TypeCorrect == Spec => []TypeOK
<1>1. IInv => TypeOK
  BY DEF IInv
<1> QED
  BY <1>1, Invariant, PTL

(* The operand chosen in ID (id_stage.sv, bypass and load-use stall) is    *)
(* the one the program order gives, also after a stay in the skid register *)
(* of exe_stage.sv.                                                        *)
THEOREM OperandsAreNewest == Spec => []ReadsNewest
<1>1. IInv => ReadsNewest
  BY DEF IInv
<1> QED
  BY <1>1, Invariant, PTL

(* The registers change by what MEM holds; if it does not take effect, all *)
(* that is behind it is flushed at the same edge (mem_stage.sv,            *)
(* regfile_csr.sv exception_flag).                                         *)
THEOREM PreciseCommit == Spec => CommitsOrTraps
<1> DEFINE Commits ==
      \/ \A r \in Reg : Committed(r)' = Newest(r)
      \/ /\ mem # Bubble /\ ~mem.flush
         /\ \A r \in Reg : Committed(r)' = Committed(r)
         /\ Discarded(id') /\ Discarded(ex') /\ Discarded(skid')
         /\ Discarded(mem')
<1>1. IInv /\ [Next]_vars => [Commits]_vars
  <2> SUFFICES ASSUME IInv, Next PROVE Commits
    OBVIOUS
  <2> PICK in \in Inputs : \E next \in Offers(in) : Clock(in, next)
    BY StepIsClock
  <2> PICK next \in Offers(in) : Clock(in, next)
    OBVIOUS
  <2>1. CASE ~in.trap
    BY <2>1, CommitStep DEF IInv
  <2>2. CASE in.trap
    <3>1. skid = Bubble /\ allowin /\ mem # Bubble /\ ~mem.flush /\ EsCoreAllowin(in)
      BY <2>2, TrapFindsRoom DEF Clock
    <3>2. PipeFlush(in)
      BY <2>2 DEF PipeFlush
    <3>3. \A r \in Reg : Committed(r)' = Committed(r)
      BY <2>2, TrapStep DEF IInv
    <3>4. Discarded(id')
      BY <3>2 DEF Clock, DecodeEdge, Offers, Discarded, IInv, TypeOK, InDecode
    <3>5. Discarded(ex') /\ Discarded(skid')
      <4>1. ExecuteAdvances(in)
        BY <3>1 DEF Clock, ExecuteStops
      <4>2. EsInFire(in) => ToExecute(in).flush
        BY <3>2, ToExecuteType DEF EsInFire, DsToEsValid, IInv
      <4> QED
        BY <3>1, <4>1, <4>2 DEF ExecuteAdvances, Discarded
    <3>6. Discarded(mem')
      BY <2>2 DEF Clock, MemoryEdge, ToMemory, Discarded
    <3> QED
      BY <3>1, <3>3, <3>4, <3>5, <3>6
  <2> QED
    BY <2>1, <2>2
<1> QED
  BY <1>1, Invariant, PTL DEF Spec, CommitsOrTraps
=============================================================================
