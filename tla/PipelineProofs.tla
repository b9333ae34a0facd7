--------------------------- MODULE PipelineProofs ---------------------------
(***************************************************************************)
(* Proofs about the control of the pipeline, for every set of instructions *)
(* and every classification of them: types, the three facts that keep      *)
(* stale register contents from acting a second time, the boundaries as    *)
(* skid buffers, and the pipeline as a queue in program order.             *)
(***************************************************************************)
EXTENDS Pipeline, SequenceTheorems, TLAPS

(* MEM and WB never stop: their allow-in stays high and MEM's skid register *)
(* is never used.                                                           *)
BackEndFlows ==
  /\ wb.allowin
  /\ mem.allowin
  /\ ~mem.skid_valid

(* The handshake of the ID and EX boundaries, as for SkidBuffer.           *)
Handshake ==
  /\ id.allowin => ~id.skid_valid
  /\ ~id.allowin => id.valid
  /\ exe.allowin => ~exe.skid_valid
  /\ ~exe.allowin => exe.valid

(* Behind an unflushed instruction in ID its successor is already there:   *)
(* in the skid register, or waiting in IF with ID's invitation standing.   *)
SuccessorBehindId ==
  /\ id.valid /\ ~id.flush => req_valid
  /\ id.skid_valid /\ ~id.skid_flush => req_valid
  /\ id.valid /\ ~id.flush /\ ~id.skid_valid => id.allowin
  /\ id.skid_valid /\ id.skid_flush => id.flush

(* Behind an unflushed instruction in EX there is one in ID, on the same   *)
(* path.  Only an unfinished multiplication or division closes EX, and MEM *)
(* is then empty.                                                          *)
SuccessorBehindExe ==
  /\ exe.valid /\ ~exe.flush => id.valid /\ ~id.flush
  /\ ~exe.allowin => exe.inst \in Multis /\ ~exe.flush /\ ~mem.valid
  /\ exe.skid_valid => ~exe.skid_flush

(* Behind a trapping instruction or an mret in MEM, EX is occupied.        *)
SuccessorBehindMem ==
  mem.valid /\ ~mem.flush /\ mem.inst \in Traps \cup Mrets => exe.valid

(* What a departed instruction leaves behind in EX and MEM is harmless.    *)
HarmlessLeftovers ==
  /\ ~exe.flush /\ exe.inst \in Jumps => exe.valid
  /\ ~mem.flush /\ mem.inst \in Traps => mem.valid
  /\ ~mem.flush /\ mem.inst \in Mrets /\ ~mem.valid => ~prev_exception
  /\ ~if_active => ~req_valid

IInv ==
  /\ TypeOK
  /\ BackEndFlows
  /\ Handshake
  /\ SuccessorBehindId
  /\ SuccessorBehindExe
  /\ SuccessorBehindMem
  /\ HarmlessLeftovers

-----------------------------------------------------------------------------
(* What an edge does to the fields of an EX or MEM register pair.          *)
EdgeFacts(n, s, ca, fire, x, f, e) ==
  /\ n \in Stage
  /\ n.allowin <=> ca
  /\ ca => /\ n.valid <=> (s.skid_valid \/ fire)
           /\ ~n.skid_valid
  /\ ca /\ s.skid_valid => n.inst = s.skid /\ n.flush = s.skid_flush
  /\ ca /\ ~s.skid_valid /\ fire => n.inst = x /\ n.flush = f
  /\ ca /\ ~s.skid_valid /\ ~fire => n.inst = s.inst /\ n.flush = s.flush
  /\ ~ca => /\ n.valid = s.valid /\ n.inst = s.inst /\ n.flush = s.flush
            /\ n.skid_valid <=> ((s.skid_valid \/ fire) /\ ~e)
  /\ ~ca /\ fire /\ ~s.skid_valid => n.skid_flush = f
  /\ ~ca /\ (~fire \/ s.skid_valid) => n.skid_flush = s.skid_flush

LEMMA StageFields ==
  ASSUME NEW s \in Stage, NEW ca \in BOOLEAN, NEW fire \in BOOLEAN,
         NEW x \in Bus, NEW f \in BOOLEAN, NEW e \in BOOLEAN
  PROVE  EdgeFacts(StageEdge(s, ca, fire, x, f, e), s, ca, fire, x, f, e)
<1>1. CASE ca
  BY <1>1 DEF EdgeFacts, StageEdge, StageAdvances, Registers, Stage
<1>2. CASE ~ca
  BY <1>2 DEF EdgeFacts, StageEdge, StageStops, Registers, Stage
<1>3. QED
  BY <1>1, <1>2

(* What an edge does to the fields of the ID register pair.                *)
LEMMA DecodeFields ==
  ASSUME TypeOK, NEW in \in Inputs, DecodeEdge(in)
  PROVE  LET fire == FsInFire(in)
             go   == DsCoreAllowin(in)
         IN  /\ id' \in Stage
             /\ id'.allowin <=> go
             /\ go /\ id.skid_valid =>
                  /\ id'.valid
                  /\ ~id'.skid_valid
                  /\ id'.inst = id.skid
                  /\ id'.flush <=> (id.skid_flush \/ PipeFlush(in))
             /\ go /\ ~id.skid_valid =>
                  /\ id'.valid <=> fire
                  /\ ~id'.skid_valid
                  /\ id'.flush <=> (fire /\ PipeFlush(in))
                  /\ fire => id'.inst = req
             /\ ~go =>
                  /\ id'.valid = id.valid
                  /\ id'.inst = id.inst
                  /\ id'.skid_valid <=> (fire \/ id.skid_valid)
             /\ ~go /\ fire /\ ~id.skid_valid =>
                  /\ id'.flush <=> (id.flush \/ PipeFlush(in))
                  /\ id'.skid_flush <=> PipeFlush(in)
             /\ ~go /\ ~(fire /\ ~id.skid_valid) =>
                  /\ id'.flush <=> (id.flush \/ (PipeFlush(in) /\ id.valid))
                  /\ id'.skid_flush <=>
                       (id.skid_flush \/ (PipeFlush(in) /\ id.skid_valid))
<1> USE DEF TypeOK, DecodeEdge, FsInFire
<1>0. id \in Stage /\ req \in Bus /\ PipeFlush(in) \in BOOLEAN
  BY DEF PipeFlush, ExceptionFlag, BrRedirect, EsFlush, TrapTaken, MretJump
<1>1. CASE DsCoreAllowin(in)
  BY <1>0, <1>1 DEF IdAdvances, Registers, Stage
<1>2. CASE ~DsCoreAllowin(in)
  BY <1>0, <1>2 DEF IdStops, Registers, Stage
<1>3. QED
  BY <1>1, <1>2

(* A clock edge keeps the types. *)
LEMMA CombTypes ==
  ASSUME TypeOK, NEW in \in Inputs
  PROVE  /\ in.irq \in BOOLEAN /\ in.collide \in BOOLEAN /\ in.mul_done \in BOOLEAN
         /\ ExceptionFlag(in) \in BOOLEAN
         /\ PipeFlush(in) \in BOOLEAN
         /\ EsFlush(in) \in BOOLEAN
         /\ DsFlush(in) \in BOOLEAN
         /\ MulStall(in) \in BOOLEAN
         /\ EsCoreAllowin(in) \in BOOLEAN
         /\ EsToMsValid(in) \in BOOLEAN
         /\ DsToEsValid(in) \in BOOLEAN
         /\ MsCoreAllowin \in BOOLEAN
         /\ RequestFire(in) \in BOOLEAN
  BY DEF TypeOK, Inputs, Stage, ExceptionFlag, PipeFlush, EsFlush, DsFlush, MulStall,
         EsCoreAllowin, EsToMsValid, DsToEsValid, MsCoreAllowin, RequestFire,
         TrapTaken, MretJump, BrRedirect, EsReadyGo

LEMMA ClockTypes ==
  ASSUME TypeOK, NEW in \in Inputs, NEW fetched \in Response(in), Clock(in, fetched)
  PROVE  TypeOK'
<1> USE CombTypes
<1>1. id' \in Stage
  BY DecodeFields DEF Clock
<1>2. exe' \in Stage
  <2>1. exe \in Stage /\ id.inst \in Bus /\ exe.allowin \in BOOLEAN
    BY DEF TypeOK, Stage
  <2>2. exe' = StageEdge(exe, EsCoreAllowin(in), DsToEsValid(in) /\ exe.allowin,
                         id.inst, DsFlush(in), ExceptionFlag(in))
    BY DEF Clock, ExecuteEdge
  <2>3. PICK s \in Stage, x \in Bus, ca \in BOOLEAN, fire \in BOOLEAN,
             f \in BOOLEAN, e \in BOOLEAN :
          /\ s = exe
          /\ x = id.inst
          /\ ca = EsCoreAllowin(in)
          /\ fire = (DsToEsValid(in) /\ exe.allowin)
          /\ f = DsFlush(in)
          /\ e = ExceptionFlag(in)
    BY <2>1
  <2>4. EdgeFacts(StageEdge(s, ca, fire, x, f, e), s, ca, fire, x, f, e)
    BY StageFields
  <2>5. StageEdge(s, ca, fire, x, f, e) \in Stage
    BY <2>4 DEF EdgeFacts
  <2>6. QED
    BY <2>2, <2>3, <2>5
<1>3. mem' \in Stage
  <2>1. mem \in Stage /\ exe.inst \in Bus /\ mem.allowin \in BOOLEAN
    BY DEF TypeOK, Stage
  <2>2. mem' = StageEdge(mem, MsCoreAllowin, EsToMsValid(in) /\ mem.allowin,
                         exe.inst, EsFlush(in), ExceptionFlag(in))
    BY DEF Clock, MemoryEdge
  <2>3. PICK s \in Stage, x \in Bus, ca \in BOOLEAN, fire \in BOOLEAN,
             f \in BOOLEAN, e \in BOOLEAN :
          /\ s = mem
          /\ x = exe.inst
          /\ ca = MsCoreAllowin
          /\ fire = (EsToMsValid(in) /\ mem.allowin)
          /\ f = EsFlush(in)
          /\ e = ExceptionFlag(in)
    BY <2>1
  <2>4. EdgeFacts(StageEdge(s, ca, fire, x, f, e), s, ca, fire, x, f, e)
    BY StageFields
  <2>5. StageEdge(s, ca, fire, x, f, e) \in Stage
    BY <2>4 DEF EdgeFacts
  <2>6. QED
    BY <2>2, <2>3, <2>5
<1>4. /\ if_active' \in BOOLEAN
      /\ req_valid' \in BOOLEAN
      /\ redirect_pending' \in BOOLEAN
      /\ req' \in Bus
  BY DEF Clock, FetchEdge, Response, TypeOK, Bus
<1>5. wb' \in [valid : BOOLEAN, allowin : BOOLEAN]
  BY DEF Clock, WriteBackEdge, TypeOK, Stage
<1>6. prev_exception' \in BOOLEAN
  BY DEF Clock, TrapEdge
<1>7. QED
  BY <1>1, <1>2, <1>3, <1>4, <1>5, <1>6 DEF TypeOK

(* The edge of EX and of MEM, in terms of the combinational signals.       *)
LEMMA ExecuteFields ==
  ASSUME IInv, NEW in \in Inputs, ExecuteEdge(in)
  PROVE  /\ exe' \in Stage
         /\ exe'.allowin <=> ~MulStall(in)
         /\ ~MulStall(in) =>
              /\ exe'.valid <=> (exe.skid_valid \/ (DsToEsValid(in) /\ exe.allowin))
              /\ ~exe'.skid_valid
         /\ ~MulStall(in) /\ exe.skid_valid =>
              exe'.inst = exe.skid /\ exe'.flush = exe.skid_flush
         /\ ~MulStall(in) /\ ~exe.skid_valid /\ DsToEsValid(in) /\ exe.allowin =>
              exe'.inst = id.inst /\ exe'.flush = DsFlush(in)
         /\ ~MulStall(in) /\ ~exe.skid_valid /\ ~(DsToEsValid(in) /\ exe.allowin) =>
              exe'.inst = exe.inst /\ exe'.flush = exe.flush
         /\ MulStall(in) =>
              /\ exe'.valid /\ exe'.inst = exe.inst /\ exe'.flush = exe.flush
              /\ exe'.skid_valid <=>
                   (exe.skid_valid \/ (DsToEsValid(in) /\ exe.allowin))
         /\ MulStall(in) /\ DsToEsValid(in) /\ exe.allowin /\ ~exe.skid_valid =>
              exe'.skid_flush = DsFlush(in)
         /\ MulStall(in) /\ ~(DsToEsValid(in) /\ exe.allowin) =>
              exe'.skid_flush = exe.skid_flush
<1> DEFINE ca   == EsCoreAllowin(in)
           fire == DsToEsValid(in) /\ exe.allowin
<1>1. /\ exe \in Stage /\ id.inst \in Bus /\ fire \in BOOLEAN
      /\ ca \in BOOLEAN /\ DsFlush(in) \in BOOLEAN /\ ExceptionFlag(in) \in BOOLEAN
  BY CombTypes DEF IInv, TypeOK, Stage
<1>2. ca <=> ~MulStall(in)
  BY DEF IInv, BackEndFlows, EsCoreAllowin, EsReadyGo, MulStall
<1>3. MulStall(in) => ~ExceptionFlag(in) /\ exe.valid
  BY DEF MulStall, EsFlush
<1>4. exe' = StageEdge(exe, ca, fire, id.inst, DsFlush(in), ExceptionFlag(in))
  BY DEF ExecuteEdge
<1> HIDE DEF ca, fire
<1>5. EdgeFacts(exe', exe, ca, fire, id.inst, DsFlush(in), ExceptionFlag(in))
  BY <1>1, <1>4, StageFields
<1>6. QED
  BY <1>1, <1>2, <1>3, <1>5 DEF fire, EdgeFacts, Stage

LEMMA MemoryFields ==
  ASSUME IInv, NEW in \in Inputs, MemoryEdge(in)
  PROVE  /\ mem' \in Stage
         /\ mem'.allowin
         /\ ~mem'.skid_valid
         /\ mem'.valid <=> EsToMsValid(in)
         /\ EsToMsValid(in) => mem'.inst = exe.inst /\ mem'.flush = EsFlush(in)
         /\ ~EsToMsValid(in) => mem'.inst = mem.inst /\ mem'.flush = mem.flush
<1>1. /\ mem \in Stage /\ exe.inst \in Bus /\ EsToMsValid(in) \in BOOLEAN
      /\ EsFlush(in) \in BOOLEAN /\ ExceptionFlag(in) \in BOOLEAN
      /\ mem.allowin /\ ~mem.skid_valid
  BY CombTypes DEF IInv, TypeOK, Stage, BackEndFlows
<1>2. MsCoreAllowin
  BY DEF IInv, BackEndFlows, MsCoreAllowin
<1>3. mem' = StageEdge(mem, TRUE, EsToMsValid(in), exe.inst, EsFlush(in),
                       ExceptionFlag(in))
  BY <1>1, <1>2 DEF MemoryEdge, StageEdge
<1>4. EdgeFacts(mem', mem, TRUE, EsToMsValid(in), exe.inst, EsFlush(in),
                ExceptionFlag(in))
  BY <1>1, <1>3, StageFields
<1>5. QED
  BY <1>1, <1>4 DEF EdgeFacts

-----------------------------------------------------------------------------
LEMMA InitIInv == Init => IInv
<1> SUFFICES ASSUME Init PROVE IInv
  OBVIOUS
<1>1. /\ ResetStage \in Stage
      /\ ~ResetStage.valid /\ ~ResetStage.flush /\ ResetStage.allowin
      /\ ~ResetStage.skid_valid /\ ~ResetStage.skid_flush
      /\ ResetStage.inst = NoInst
  BY DEF ResetStage, Registers, Stage, Bus
<1>2. TypeOK
  BY <1>1 DEF Init, TypeOK, Bus
<1>3. NoInst \notin Jumps \cup Traps \cup Mrets
  BY ClassAssumption
<1>4. wb.allowin
  BY DEF Init
<1>5. QED
  BY <1>1, <1>2, <1>3, <1>4
     DEF Init, IInv, BackEndFlows, Handshake, SuccessorBehindId,
         SuccessorBehindExe, SuccessorBehindMem, HarmlessLeftovers

(* While EX is stopped nothing is flushed; otherwise an occupied EX hands  *)
(* its instruction to MEM.                                                 *)
LEMMA StallFacts ==
  ASSUME IInv, NEW in \in Inputs
  PROVE  /\ MulStall(in) => /\ exe.valid /\ ~exe.flush /\ exe.inst \in Multis
                            /\ ~ExceptionFlag(in) /\ ~PipeFlush(in)
         /\ EsToMsValid(in) <=> (exe.valid /\ ~MulStall(in))
         /\ FsInFire(in) => ~PipeFlush(in)
         /\ PipeFlush(in) <=> (ExceptionFlag(in) \/ BrRedirect(in))
         /\ BrRedirect(in) <=> (~EsFlush(in) /\ exe.inst \in Jumps)
         /\ EsFlush(in) <=> (exe.flush \/ ExceptionFlag(in))
         /\ DsFlush(in) <=> (PipeFlush(in) \/ id.flush)
  BY ClassAssumption
     DEF MulStall, EsFlush, PipeFlush, BrRedirect, FsInFire, DsFlush,
         EsToMsValid, EsReadyGo, IInv, TypeOK, Stage

(* An instruction in EX that is neither a load nor a stopped operation     *)
(* lets ID proceed.                                                        *)
LEMMA IdProceeds ==
  ASSUME IInv, NEW in \in Inputs, ~MulStall(in),
         exe.inst \notin Loads \/ ~exe.valid \/ EsFlush(in)
  PROVE  /\ DsToEsValid(in) <=> id.valid
         /\ DsCoreAllowin(in) <=> (~id.valid \/ exe.allowin)
  BY DEF DsToEsValid, DsCoreAllowin, DsReadyGo, LoadUseHazard, IInv, TypeOK, Stage

(* Unless there is a redirect, an unflushed instruction in ID is followed   *)
(* there by an unflushed one, itself or its successor.                     *)
LEMMA IdStaysLive ==
  ASSUME IInv, NEW in \in Inputs, DecodeEdge(in),
         id.valid, ~id.flush, ~PipeFlush(in)
  PROVE  id'.valid /\ ~id'.flush
<1>1. req_valid /\ (id.skid_valid \/ (id.allowin /\ FsInFire(in)))
  BY DEF IInv, SuccessorBehindId, FsInFire
<1>2. id.skid_valid => ~id.skid_flush
  BY DEF IInv, SuccessorBehindId
<1>3. QED
  BY <1>1, <1>2, DecodeFields DEF IInv

(* Without an instruction in MEM the trap unit is silent.                  *)
LEMMA SilentWithoutMem ==
  ASSUME IInv, NEW in \in Inputs, ExceptionFlag(in)
  PROVE  mem.valid
  BY DEF IInv, HarmlessLeftovers, ExceptionFlag, TrapTaken, MretJump, MretFlag,
         SyncException, MisalignedFault, TakeIrq

(* Every clock edge preserves the inductive invariant.                     *)
LEMMA ClockIInv ==
  ASSUME IInv, NEW in \in Inputs, NEW fetched \in Response(in), Clock(in, fetched)
  PROVE  IInv'
<1>1. TypeOK'
  BY ClockTypes DEF IInv
<1>2. BackEndFlows'
  BY MemoryFields DEF Clock, WriteBackEdge, BackEndFlows, IInv
<1>3. Handshake'
  <2>1. id'.allowin => ~id'.skid_valid
    BY DecodeFields DEF Clock, IInv
  <2>2. ~id'.allowin => id'.valid
    BY DecodeFields DEF Clock, IInv, DsCoreAllowin
  <2>3. exe'.allowin => ~exe'.skid_valid
    BY ExecuteFields DEF Clock
  <2>4. ~exe'.allowin => exe'.valid
    BY ExecuteFields DEF Clock
  <2>5. QED
    BY <2>1, <2>2, <2>3, <2>4 DEF Handshake
<1>4. req_valid' <=> (~PipeFlush(in) /\ (RequestFire(in) \/ (req_valid /\ ~ResponseFire(in))))
  BY DEF Clock, FetchEdge
<1>5. FsInFire(in) => req_valid'
  BY <1>4 DEF FsInFire, ResponseFire, RequestFire, IInv, HarmlessLeftovers, TypeOK
<1>6. req_valid /\ ~PipeFlush(in) => req_valid'
  BY <1>4, <1>5 DEF FsInFire, ResponseFire
<1>7. SuccessorBehindId'
  <2>1. id'.valid /\ ~id'.flush => req_valid'
    BY <1>5, <1>6, DecodeFields, StallFacts DEF Clock, IInv, SuccessorBehindId, Handshake
  <2>2. id'.skid_valid /\ ~id'.skid_flush => req_valid'
    BY <1>5, <1>6, DecodeFields, StallFacts DEF Clock, IInv, SuccessorBehindId, Handshake
  <2>3. id'.valid /\ ~id'.flush /\ ~id'.skid_valid => id'.allowin
    BY DecodeFields, StallFacts
       DEF Clock, IInv, SuccessorBehindId, Handshake, FsInFire
  <2>4. id'.skid_valid /\ id'.skid_flush => id'.flush
    BY DecodeFields, StallFacts DEF Clock, IInv, SuccessorBehindId, Handshake
  <2>5. QED
    BY <2>1, <2>2, <2>3, <2>4 DEF SuccessorBehindId
<1>8. SuccessorBehindExe'
  <2>1. exe'.valid /\ ~exe'.flush => id'.valid /\ ~id'.flush
    <3> SUFFICES ASSUME exe'.valid, ~exe'.flush PROVE id'.valid /\ ~id'.flush
      OBVIOUS
    <3>1. CASE MulStall(in)
      BY <3>1, StallFacts, IdStaysLive DEF Clock, IInv, SuccessorBehindExe
    <3>2. CASE ~MulStall(in) /\ exe.skid_valid
      <4>1. /\ ~exe.allowin /\ exe.valid /\ ~exe.flush
            /\ exe.inst \in Multis /\ ~mem.valid
        BY <3>2 DEF IInv, Handshake, SuccessorBehindExe
      <4>2. ~PipeFlush(in)
        BY <4>1, SilentWithoutMem, StallFacts, ClassAssumption
      <4>3. id.valid /\ ~id.flush
        BY <4>1 DEF IInv, SuccessorBehindExe
      <4>4. QED
        BY <4>2, <4>3, IdStaysLive DEF Clock
    <3>3. CASE ~MulStall(in) /\ ~exe.skid_valid
      <4>1. DsToEsValid(in) /\ exe.allowin /\ exe'.flush = DsFlush(in)
        BY <3>3, ExecuteFields DEF Clock
      <4>2. id.valid /\ ~id.flush /\ ~PipeFlush(in)
        BY <4>1, StallFacts DEF DsToEsValid
      <4>3. QED
        BY <4>2, IdStaysLive DEF Clock
    <3>4. QED
      BY <3>1, <3>2, <3>3
  <2>2. ~exe'.allowin => exe'.inst \in Multis /\ ~exe'.flush /\ ~mem'.valid
    BY ExecuteFields, MemoryFields, StallFacts DEF Clock
  <2>3. exe'.skid_valid => ~exe'.skid_flush
    BY ExecuteFields, StallFacts DEF Clock, IInv, SuccessorBehindExe, Handshake
  <2>4. QED
    BY <2>1, <2>2, <2>3 DEF SuccessorBehindExe
<1>9. ASSUME exe.valid, ~exe.flush, exe.inst \in Jumps \cup Traps \cup Mrets
      PROVE  exe'.valid /\ ~MulStall(in)
  <2>1. exe.inst \notin Multis \cup Loads /\ ~MulStall(in)
    BY <1>9, ClassAssumption DEF MulStall
  <2>2. exe.allowin /\ id.valid /\ DsToEsValid(in)
    BY <1>9, <2>1, IdProceeds DEF IInv, SuccessorBehindExe
  <2>3. QED
    BY <2>1, <2>2, ExecuteFields DEF Clock
<1>10. SuccessorBehindMem'
  BY <1>9, MemoryFields, StallFacts DEF Clock, SuccessorBehindMem
<1>11. HarmlessLeftovers'
  <2>1. ~exe'.flush /\ exe'.inst \in Jumps => exe'.valid
    BY <1>9, ExecuteFields DEF Clock, IInv, HarmlessLeftovers
  <2>2. ~mem'.flush /\ mem'.inst \in Traps => mem'.valid
    <3> SUFFICES ASSUME ~mem'.flush, mem'.inst \in Traps, ~mem'.valid PROVE FALSE
      OBVIOUS
    <3>1. ~EsToMsValid(in) /\ ~mem.flush /\ mem.inst \in Traps
      BY MemoryFields DEF Clock
    <3>2. exe.valid
      BY <3>1 DEF IInv, HarmlessLeftovers, SuccessorBehindMem
    <3>3. ExceptionFlag(in)
      BY <3>1 DEF ExceptionFlag, TrapTaken, SyncException
    <3>4. QED
      BY <3>1, <3>2, <3>3, StallFacts
  <2>3. ~mem'.flush /\ mem'.inst \in Mrets /\ ~mem'.valid => ~prev_exception'
    <3> SUFFICES ASSUME ~mem'.flush, mem'.inst \in Mrets, ~mem'.valid
                 PROVE  ~prev_exception'
      OBVIOUS
    <3>1. ~EsToMsValid(in) /\ ~mem.flush /\ mem.inst \in Mrets
      BY MemoryFields DEF Clock
    <3>2. CASE mem.valid
      <4>1. exe.valid
        BY <3>1, <3>2 DEF IInv, SuccessorBehindMem
      <4>2. ~ExceptionFlag(in)
        BY <3>1, <4>1, StallFacts
      <4>3. MretFlag(in) /\ ~TrapTaken(in)
        BY <3>1, <4>2 DEF ExceptionFlag, MretFlag, TrapTaken, SyncException
      <4>4. QED
        BY <4>3 DEF Clock, TrapEdge
    <3>3. CASE ~mem.valid
      <4>1. ~prev_exception
        BY <3>1, <3>3 DEF IInv, HarmlessLeftovers
      <4>2. ~TrapTaken(in)
        BY <3>3, SilentWithoutMem DEF ExceptionFlag
      <4>3. QED
        BY <4>1, <4>2 DEF Clock, TrapEdge
    <3>4. QED
      BY <3>2, <3>3
  <2>4. if_active'
    BY DEF Clock, FetchEdge
  <2>5. QED
    BY <2>1, <2>2, <2>3, <2>4 DEF HarmlessLeftovers
<1>12. QED
  BY <1>1, <1>2, <1>3, <1>7, <1>8, <1>10, <1>11 DEF IInv

LEMMA NextIInv == IInv /\ [Next]_vars => IInv'
<1> SUFFICES ASSUME IInv, [Next]_vars PROVE IInv'
  OBVIOUS
<1>1. CASE Next
  BY <1>1, ClockIInv DEF Next
<1>2. CASE UNCHANGED vars
  BY <1>2 DEF vars, IInv, TypeOK, BackEndFlows, Handshake, SuccessorBehindId,
              SuccessorBehindExe, SuccessorBehindMem, HarmlessLeftovers
<1>3. QED
  BY <1>1, <1>2

LEMMA Invariant == Spec => []IInv
  BY InitIInv, NextIInv, PTL DEF Spec

-----------------------------------------------------------------------------
(* The pipeline registers stay within their types. *)
THEOREM TypeCorrect == Spec => []TypeOK
  BY Invariant, PTL DEF IInv

(* br_redirect, which ignores es_valid, never fires from the register of a *)
(* jump that has left EX.                                                  *)
THEOREM RedirectOnce == Spec => []RedirectActsOnce
<1>1. IInv => RedirectActsOnce
  BY DEF IInv, HarmlessLeftovers, RedirectActsOnce, BrRedirect, EsFlush
<1>2. QED
  BY <1>1, Invariant, PTL

(* exception_flag, which ignores ms_valid, never fires from the register   *)
(* of an instruction that has left MEM.                                    *)
THEOREM TrapOnce == Spec => []TrapActsOnce
<1>1. IInv => TrapActsOnce
  BY SilentWithoutMem DEF TrapActsOnce
<1>2. QED
  BY <1>1, Invariant, PTL

(* No trap is taken while the EX skid register is occupied, so no          *)
(* instruction escapes the flush by refilling EX from the skid register.   *)
THEOREM NoSkidEscape == Spec => []NoTrapBehindSkid
<1>1. IInv => NoTrapBehindSkid
  BY SilentWithoutMem
     DEF IInv, NoTrapBehindSkid, Handshake, SuccessorBehindExe
<1>2. QED
  BY <1>1, Invariant, PTL
(* A trap or redirect is remembered until its target is fetched, and a     *)
(* fetch until it is delivered, so the fetch address is never the reset    *)
(* address again.                                                          *)
THEOREM FetchNeverForgotten == Spec => NeverRestartsAtReset
<1> DEFINE Busy == req_valid \/ redirect_pending
<1>1. ASSUME IInv, NEW in \in Inputs, NEW fetched \in Response(in),
             Clock(in, fetched), Busy
      PROVE  Busy'
  <2>1. redirect_pending' <=>
          (PipeFlush(in) \/ (redirect_pending /\ ~RequestFire(in)))
    BY <1>1, CombTypes DEF Clock, FetchEdge, IInv, TypeOK
  <2>2. req_valid' <=> (~PipeFlush(in) /\ (RequestFire(in) \/ (req_valid /\ ~ResponseFire(in))))
    BY <1>1 DEF Clock, FetchEdge
  <2>3. req_valid => if_active
    BY <1>1 DEF IInv, HarmlessLeftovers
  <2>4. ResponseFire(in) => RequestFire(in)
    BY <2>3 DEF ResponseFire, RequestFire
  <2>5. QED
    BY <1>1, <2>1, <2>2, <2>4
<1>2. IInv /\ [Next]_vars => [Busy => Busy']_vars
  BY <1>1 DEF Next
<1>3. QED
  BY <1>2, Invariant, PTL DEF Spec, NeverRestartsAtReset

-----------------------------------------------------------------------------
(* What claims to be an instruction is one, never the bus after reset.     *)
Real ==
  /\ req_valid => req \in Inst
  /\ id.valid => id.inst \in Inst
  /\ id.skid_valid => id.skid \in Inst

(* A clock edge keeps that so. *)
LEMMA ClockReal ==
  ASSUME IInv, Real, NEW in \in Inputs, NEW fetched \in Response(in), Clock(in, fetched)
  PROVE  Real'
<1>1. req_valid' => req' \in Inst
  BY DEF Clock, FetchEdge, Response, Real
<1>2. FsInFire(in) => req \in Inst
  BY DEF FsInFire, Real
<1>3. id'.valid => id'.inst \in Inst
  BY <1>2, DecodeFields DEF Clock, IInv, Real
<1>4. id'.skid_valid => id'.skid \in Inst
  BY <1>2, ClassAssumption
     DEF Clock, DecodeEdge, IdAdvances, IdStops, Registers, Real, IInv, TypeOK, Stage
<1>5. QED
  BY <1>1, <1>3, <1>4 DEF Real

(* It is so always. *)
LEMMA AllReal == Spec => []Real
<1>1. Init => Real
  BY DEF Init, Real, ResetStage, Registers
<1>2. IInv /\ Real /\ [Next]_vars => Real'
  BY ClockReal DEF Next, vars, Real
<1>3. QED
  BY <1>1, <1>2, Invariant, PTL DEF Spec

(* An edge of ID is an edge of the skid buffer that is offered what IF     *)
(* delivers.                                                               *)
LEMMA IdEdge ==
  ASSUME IInv, Real, NEW in \in Inputs, DecodeEdge(in)
  PROVE  IdBoundary!Next
<1> DEFINE offer == IF FsInFire(in) THEN req ELSE NoInst
           ready == DsReadyGo(in) /\ exe.allowin
<1>1. /\ id \in Stage
      /\ offer \in Inst \cup {NoInst}
      /\ IdBoundary!InFire(offer) = FsInFire(in)
      /\ FsInFire(in) => offer = req
  BY ClassAssumption DEF IInv, TypeOK, Stage, Real, FsInFire, IdBoundary!InFire
<1>2. ready \in BOOLEAN
  BY DEF IInv, TypeOK, Stage, DsReadyGo, LoadUseHazard
<1>3. IdBoundary!CoreAllowin(ready) <=> DsCoreAllowin(in)
  BY DEF IdBoundary!CoreAllowin, DsCoreAllowin
<1>4. IdBoundary!Clock(offer, ready)
  <2> HIDE DEF offer, ready
  <2>1. CASE DsCoreAllowin(in) /\ id.skid_valid
    <3>1. IdBoundary!Refill(ready)
      BY <1>1, <1>3, <2>1
         DEF DecodeEdge, IdAdvances, Registers, IdBoundary!Refill
    <3>2. QED
      BY <3>1 DEF IdBoundary!Clock
  <2>2. CASE DsCoreAllowin(in) /\ ~id.skid_valid
    <3>1. id' = Registers(FsInFire(in), IF FsInFire(in) THEN req ELSE id.inst,
                          FsInFire(in) /\ PipeFlush(in), TRUE,
                          FALSE, id.skid, id.skid_flush)
      BY <2>2 DEF DecodeEdge, IdAdvances
    <3>2. /\ id'.valid = FsInFire(in)
          /\ id'.inst = IF FsInFire(in) THEN req ELSE id.inst
          /\ id'.allowin = TRUE
          /\ id'.skid_valid = FALSE
          /\ id'.skid = id.skid
      BY <3>1, Zenon DEF Registers
    <3>3. id.skid_valid = FALSE
      BY <1>1, <2>2 DEF Stage
    <3>4. IdBoundary!Load(offer, ready)
      BY <1>1, <1>3, <2>2, <3>2, <3>3 DEF IdBoundary!Load
    <3>5. QED
      BY <3>4 DEF IdBoundary!Clock
  <2>3. CASE ~DsCoreAllowin(in) /\ FsInFire(in) /\ ~id.skid_valid
    <3>1. IdBoundary!Stash(offer, ready)
      BY <1>1, <1>3, <2>3
         DEF DecodeEdge, IdStops, Registers, IdBoundary!Stash
    <3>2. QED
      BY <3>1 DEF IdBoundary!Clock
  <2>4. CASE ~DsCoreAllowin(in) /\ (~FsInFire(in) \/ id.skid_valid)
    <3>1. IdBoundary!Hold(offer, ready)
      BY <1>1, <1>3, <2>4
         DEF DecodeEdge, IdStops, Registers, IdBoundary!Hold
    <3>2. QED
      BY <3>1 DEF IdBoundary!Clock
  <2>5. QED
    BY <2>1, <2>2, <2>3, <2>4
<1>5. QED
  BY <1>1, <1>2, <1>4 DEF IdBoundary!Next

(* An edge of EX is one too: a trap, which would empty its skid register,  *)
(* never comes while EX is stopped.                                        *)
LEMMA ExeEdge ==
  ASSUME IInv, Real, NEW in \in Inputs, ExecuteEdge(in)
  PROVE  ExeBoundary!Next
<1> DEFINE offer == IF DsToEsValid(in) THEN id.inst ELSE NoInst
           ready == EsReadyGo(in) /\ mem.allowin
           fire  == DsToEsValid(in) /\ exe.allowin
<1>1. /\ exe \in Stage
      /\ offer \in Inst \cup {NoInst}
      /\ ExeBoundary!InFire(offer) = fire
      /\ fire => offer = id.inst
  BY ClassAssumption DEF IInv, TypeOK, Stage, Real, DsToEsValid, ExeBoundary!InFire
<1>2. ready \in BOOLEAN
  BY CombTypes DEF IInv, TypeOK, Stage, EsReadyGo
<1>3. ExeBoundary!CoreAllowin(ready) <=> EsCoreAllowin(in)
  BY DEF ExeBoundary!CoreAllowin, EsCoreAllowin
<1>4. ~EsCoreAllowin(in) => ~ExceptionFlag(in)
  BY StallFacts DEF EsCoreAllowin, EsReadyGo, IInv, BackEndFlows
<1>5. exe' = StageEdge(exe, EsCoreAllowin(in), fire, id.inst, DsFlush(in),
                       ExceptionFlag(in))
  BY DEF ExecuteEdge
<1>6. ExeBoundary!Clock(offer, ready)
  <2> HIDE DEF offer, ready, fire
  <2>1. CASE EsCoreAllowin(in) /\ exe.skid_valid
    <3>1. ExeBoundary!Refill(ready)
      BY <1>1, <1>3, <1>5, <2>1
         DEF StageEdge, StageAdvances, Registers, ExeBoundary!Refill
    <3>2. QED
      BY <3>1 DEF ExeBoundary!Clock
  <2>2. CASE EsCoreAllowin(in) /\ ~exe.skid_valid
    <3>1. exe' = Registers(fire, IF fire THEN id.inst ELSE exe.inst,
                           IF fire THEN DsFlush(in) ELSE exe.flush, TRUE,
                           FALSE, exe.skid, exe.skid_flush)
      BY <1>5, <2>2 DEF StageEdge, StageAdvances
    <3>2. /\ exe'.valid = fire
          /\ exe'.inst = IF fire THEN id.inst ELSE exe.inst
          /\ exe'.allowin = TRUE
          /\ exe'.skid_valid = FALSE
          /\ exe'.skid = exe.skid
      BY <3>1, Zenon DEF Registers
    <3>3. exe.skid_valid = FALSE
      BY <1>1, <2>2 DEF Stage
    <3>4. ExeBoundary!Load(offer, ready)
      BY <1>1, <1>3, <2>2, <3>2, <3>3 DEF ExeBoundary!Load
    <3>5. QED
      BY <3>4 DEF ExeBoundary!Clock
  <2>3. CASE ~EsCoreAllowin(in) /\ fire /\ ~exe.skid_valid
    <3>1. ExeBoundary!Stash(offer, ready)
      BY <1>1, <1>3, <1>4, <1>5, <2>3
         DEF StageEdge, StageStops, Registers, ExeBoundary!Stash
    <3>2. QED
      BY <3>1 DEF ExeBoundary!Clock
  <2>4. CASE ~EsCoreAllowin(in) /\ (~fire \/ exe.skid_valid)
    <3>1. ExeBoundary!Hold(offer, ready)
      BY <1>1, <1>3, <1>4, <1>5, <2>4
         DEF StageEdge, StageStops, Registers, Stage, ExeBoundary!Hold
    <3>2. QED
      BY <3>1 DEF ExeBoundary!Clock
  <2>5. QED
    BY <2>1, <2>2, <2>3, <2>4
<1>7. QED
  BY <1>1, <1>2, <1>6 DEF ExeBoundary!Next

(* In the whole pipeline, whatever flushes and traps do, the boundaries of *)
(* ID and EX are the stand-alone skid buffer; what is proved of that       *)
(* module's queue holds of them.                                           *)
THEOREM BoundariesImplement == Spec => BoundariesAreSkidBuffers
<1>1. Init => IdBoundary!Init /\ ExeBoundary!Init
  BY DEF Init, ResetStage, Registers, IdBoundary!Init, ExeBoundary!Init
<1>2. IInv /\ Real /\ [Next]_vars => [IdBoundary!Next]_(IdBoundary!vars)
  BY IdEdge DEF Next, Clock, vars, IdBoundary!vars
<1>3. IInv /\ Real /\ [Next]_vars => [ExeBoundary!Next]_(ExeBoundary!vars)
  BY ExeEdge DEF Next, Clock, vars, ExeBoundary!vars
<1>4. QED
  BY <1>1, <1>2, <1>3, Invariant, AllReal, PTL
     DEF Spec, BoundariesAreSkidBuffers, IdBoundary!Spec, ExeBoundary!Spec
-----------------------------------------------------------------------------
(* Chains of sequences.                                                    *)
Cat(s, t) == s \o t
(* Appending is associative and the empty sequence its unit. *)
LEMMA CatLaws ==
  ASSUME NEW S
  PROVE  /\ \A s, t \in Seq(S) : Cat(s, t) \in Seq(S)
         /\ \A s, t, u \in Seq(S) : Cat(Cat(s, t), u) = Cat(s, Cat(t, u))
         /\ \A s \in Seq(S) : Cat(s, <<>>) = s /\ Cat(<<>>, s) = s
<1>1. \A s, t \in Seq(S) : Cat(s, t) \in Seq(S)
  BY ConcatProperties DEF Cat
<1>2. ASSUME NEW s \in Seq(S), NEW t \in Seq(S), NEW u \in Seq(S)
      PROVE  Cat(Cat(s, t), u) = Cat(s, Cat(t, u))
  BY ConcatAssociative DEF Cat
<1>3. ASSUME NEW s \in Seq(S)
      PROVE  Cat(s, <<>>) = s /\ Cat(<<>>, s) = s
  BY ConcatEmptySeq DEF Cat
<1>4. QED
  BY <1>1, <1>2, <1>3

(* The first of a chain of sequences, and the rest of it. *)
LEMMA FirstApart ==
  ASSUME NEW S, NEW m \in Seq(S), NEW a \in Seq(S), NEW b \in Seq(S),
         NEW c \in Seq(S), NEW d \in Seq(S), NEW e \in Seq(S)
  PROVE  Cat(Cat(Cat(Cat(Cat(m, a), b), c), d), e)
           = Cat(m, Cat(Cat(Cat(Cat(a, b), c), d), e))
<1> DEFINE ab == Cat(a, b)
           abc == Cat(ab, c)
           abcd == Cat(abc, d)
<1>1. \A s, t \in Seq(S) : Cat(s, t) \in Seq(S)
  BY CatLaws
<1>2. \A s, t, u \in Seq(S) : Cat(Cat(s, t), u) = Cat(s, Cat(t, u))
  BY CatLaws
<1>3. ab \in Seq(S) /\ abc \in Seq(S) /\ abcd \in Seq(S)
  BY <1>1
<1>4. Cat(Cat(m, a), b) = Cat(m, ab)
  BY <1>2
<1> HIDE DEF ab
<1>5. Cat(Cat(m, ab), c) = Cat(m, abc)
  BY <1>2, <1>3
<1> HIDE DEF abc
<1>6. Cat(Cat(m, abc), d) = Cat(m, abcd)
  BY <1>2, <1>3
<1> HIDE DEF abcd
<1>7. Cat(Cat(m, abcd), e) = Cat(m, Cat(abcd, e))
  BY <1>2, <1>3
<1>8. QED
  BY <1>4, <1>5, <1>6, <1>7 DEF ab, abc, abcd

(* The front of a sequence that begins with e. *)
LEMMA FrontOf ==
  ASSUME NEW S, NEW e \in S, NEW s \in Seq(S)
  PROVE  /\ Cat(<<e>>, s) # <<>>
         /\ Head(Cat(<<e>>, s)) = e
         /\ Tail(Cat(<<e>>, s)) = s
         /\ SubSeq(Cat(<<e>>, s), 1, 1) = <<e>>
         /\ 1 \in 1..Len(Cat(<<e>>, s))
         /\ Cat(<<e>>, s)[1] = e
<1> DEFINE q == <<e>> \o s
           f == SubSeq(q, 1, 1)
<1>1. <<e>> \in Seq(S) /\ Len(<<e>>) = 1 /\ <<e>>[1] = e
  OBVIOUS
<1>2. /\ q \in Seq(S) /\ Len(q) = 1 + Len(s)
      /\ \A i \in 1..(1 + Len(s)) : q[i] = IF i <= 1 THEN <<e>>[i] ELSE s[i - 1]
  BY <1>1, ConcatProperties
<1> HIDE DEF q
<1>3. Len(s) \in Nat
  OBVIOUS
<1>4. q # <<>> /\ 1 \in 1..Len(q) /\ q[1] = e
  BY <1>1, <1>2, <1>3
<1>5. f \in Seq(S) /\ Len(f) = 1 /\ f[1] = e
  BY <1>2, <1>4, SubSeqProperties
<1> HIDE DEF f
<1>6. f = <<e>>
  <2>1. f \in [1..1 -> S] /\ <<e>> \in [1..1 -> S]
    BY <1>1, <1>5
  <2> DEFINE g == <<e>>
  <2>2. g \in [1..1 -> S] /\ g[1] = e
    BY <1>1, <2>1
  <2> HIDE DEF g
  <2>3. f = g
    BY <1>5, <2>1, <2>2
  <2>4. QED
    BY <2>3 DEF g
<1>7. Head(q) = e
  BY <1>2, <1>4
<1>8. Tail(q) = s
  <2>1. Tail(q) \in Seq(S) /\ Len(Tail(q)) = Len(s)
    BY <1>2, <1>3, <1>4, HeadTailProperties
  <2>2. \A i \in 1..Len(s) : Tail(q)[i] = s[i]
    BY <1>2, <1>3, <1>4, <2>1, HeadTailProperties
  <2>3. QED
    BY <2>1, <2>2, SeqEqual
<1>9. QED
  BY <1>4, <1>6, <1>7, <1>8 DEF q, f, Cat

-----------------------------------------------------------------------------
(* The queue of instructions in flight, register by register.              *)
AtMem     == Live(mem.valid, mem.flush, mem.inst, mem.inst \in Jumps)
AtExe     == Live(exe.valid, exe.flush, exe.inst, FALSE)
AtExeSkid == Live(exe.skid_valid, exe.skid_flush, exe.skid, FALSE)
AtId      == Live(id.valid, id.flush, id.inst, FALSE)
AtIdSkid  == Live(id.skid_valid, id.skid_flush, id.skid, FALSE)
AtIf      == Live(req_valid, FALSE, req, FALSE)

Behind == Cat(Cat(Cat(Cat(AtExe, AtExeSkid), AtId), AtIdSkid), AtIf)

Entry == [inst : Bus, resolved : BOOLEAN]

(* Each register contributes a sequence of at most one entry. *)
LEMMA LiveSeq ==
  ASSUME NEW o \in BOOLEAN, NEW f \in BOOLEAN, NEW i \in Bus, NEW r \in BOOLEAN
  PROVE  Live(o, f, i, r) \in Seq(Entry)
<1>1. [inst |-> i, resolved |-> r] \in Entry
  BY DEF Entry
<1>2. QED
  BY <1>1 DEF Live

(* The parts of the queue are sequences of entries. *)
LEMMA QueueTypes ==
  ASSUME TypeOK
  PROVE  /\ AtMem \in Seq(Entry)
         /\ AtExe \in Seq(Entry)
         /\ AtExeSkid \in Seq(Entry)
         /\ AtId \in Seq(Entry)
         /\ AtIdSkid \in Seq(Entry)
         /\ AtIf \in Seq(Entry)
         /\ Behind \in Seq(Entry)
<1>1. /\ mem.valid \in BOOLEAN /\ mem.flush \in BOOLEAN /\ mem.inst \in Bus
      /\ exe.valid \in BOOLEAN /\ exe.flush \in BOOLEAN /\ exe.inst \in Bus
      /\ exe.skid_valid \in BOOLEAN /\ exe.skid_flush \in BOOLEAN /\ exe.skid \in Bus
      /\ id.valid \in BOOLEAN /\ id.flush \in BOOLEAN /\ id.inst \in Bus
      /\ id.skid_valid \in BOOLEAN /\ id.skid_flush \in BOOLEAN /\ id.skid \in Bus
      /\ req_valid \in BOOLEAN /\ req \in Bus
  BY DEF TypeOK, Stage
<1>2. AtMem \in Seq(Entry)
  <2> DEFINE r == mem.inst \in Jumps
  <2>1. r \in BOOLEAN
    OBVIOUS
  <2> HIDE DEF r
  <2>2. Live(mem.valid, mem.flush, mem.inst, r) \in Seq(Entry)
    BY <1>1, <2>1, LiveSeq
  <2>3. QED
    BY <2>2 DEF r, AtMem
<1>3. AtExe \in Seq(Entry)
  BY <1>1, LiveSeq DEF AtExe
<1>4. AtExeSkid \in Seq(Entry)
  BY <1>1, LiveSeq DEF AtExeSkid
<1>5. AtId \in Seq(Entry)
  BY <1>1, LiveSeq DEF AtId
<1>6. AtIdSkid \in Seq(Entry)
  BY <1>1, LiveSeq DEF AtIdSkid
<1>7. AtIf \in Seq(Entry)
  BY <1>1, LiveSeq DEF AtIf
<1>8. \A s, t \in Seq(Entry) : Cat(s, t) \in Seq(Entry)
  BY CatLaws
<1>9. QED
  BY <1>2, <1>3, <1>4, <1>5, <1>6, <1>7, <1>8 DEF Behind

(* MEM's register comes first. *)
LEMMA QueueSplit ==
  ASSUME TypeOK
  PROVE  FlightQueue = Cat(AtMem, Behind)
<1>1. FlightQueue
        = Cat(Cat(Cat(Cat(Cat(AtMem, AtExe), AtExeSkid), AtId), AtIdSkid), AtIf)
  BY DEF FlightQueue, Cat, AtMem, AtExe, AtExeSkid, AtId, AtIdSkid, AtIf
<1>2. /\ AtMem \in Seq(Entry) /\ AtExe \in Seq(Entry) /\ AtExeSkid \in Seq(Entry)
      /\ AtId \in Seq(Entry) /\ AtIdSkid \in Seq(Entry) /\ AtIf \in Seq(Entry)
  BY QueueTypes
<1>3. Cat(Cat(Cat(Cat(Cat(AtMem, AtExe), AtExeSkid), AtId), AtIdSkid), AtIf)
        = Cat(AtMem, Behind)
  <2>1. PICK m \in Seq(Entry) : m = AtMem
    BY <1>2
  <2>2. PICK a \in Seq(Entry) : a = AtExe
    BY <1>2
  <2>3. PICK b \in Seq(Entry) : b = AtExeSkid
    BY <1>2
  <2>4. PICK c \in Seq(Entry) : c = AtId
    BY <1>2
  <2>5. PICK d \in Seq(Entry) : d = AtIdSkid
    BY <1>2
  <2>6. PICK e \in Seq(Entry) : e = AtIf
    BY <1>2
  <2>7. Cat(Cat(Cat(Cat(Cat(m, a), b), c), d), e)
          = Cat(m, Cat(Cat(Cat(Cat(a, b), c), d), e))
    BY FirstApart
  <2>8. QED
    BY <2>1, <2>2, <2>3, <2>4, <2>5, <2>6, <2>7 DEF Behind
<1>4. QED
  BY <1>1, <1>3, Zenon

(* What the two skid registers hold after an edge that stops their stage.  *)
LEMMA SkidContents ==
  ASSUME IInv, NEW in \in Inputs
  PROVE  /\ DecodeEdge(in) /\ ~DsCoreAllowin(in) =>
              id'.skid = IF FsInFire(in) /\ ~id.skid_valid THEN req ELSE id.skid
         /\ ExecuteEdge(in) /\ MulStall(in) =>
              exe'.skid = IF DsToEsValid(in) /\ exe.allowin /\ ~exe.skid_valid
                          THEN id.inst ELSE exe.skid
<1>1. DecodeEdge(in) /\ ~DsCoreAllowin(in) =>
        id'.skid = IF FsInFire(in) /\ ~id.skid_valid THEN req ELSE id.skid
  BY DEF DecodeEdge, IdStops, Registers
<1>2. MulStall(in) => ~EsCoreAllowin(in)
  BY DEF EsCoreAllowin, EsReadyGo, MulStall
<1>3. ExecuteEdge(in) /\ MulStall(in) =>
        exe'.skid = IF DsToEsValid(in) /\ exe.allowin /\ ~exe.skid_valid
                    THEN id.inst ELSE exe.skid
  BY <1>2 DEF ExecuteEdge, StageEdge, StageStops, Registers
<1>4. QED
  BY <1>1, <1>3

(* What EX takes from ID, what stays there, what ID takes from IF and what *)
(* IF requests.                                                            *)
IdLeaves(in) == DsToEsValid(in) /\ exe.allowin
Taken(in)     == IF IdLeaves(in) THEN AtId ELSE <<>>
Left(in)      == IF IdLeaves(in) THEN <<>> ELSE AtId
Delivered(in) == IF FsInFire(in) THEN AtIf ELSE <<>>
Fetched(in)   == IF RequestFire(in) THEN Live(TRUE, FALSE, req', FALSE) ELSE <<>>

(* ID's instruction either goes to EX or stays. *)
LEMMA TakenOrLeft ==
  ASSUME TypeOK, NEW in \in Inputs
  PROVE  /\ Taken(in) \in Seq(Entry)
         /\ Left(in) \in Seq(Entry)
         /\ Delivered(in) \in Seq(Entry)
         /\ Cat(Taken(in), Left(in)) = AtId
<1>1. AtId \in Seq(Entry) /\ AtIf \in Seq(Entry) /\ <<>> \in Seq(Entry)
  BY QueueTypes
<1>2. Cat(AtId, <<>>) = AtId /\ Cat(<<>>, AtId) = AtId
  BY <1>1, CatLaws
<1>3. QED
  BY <1>1, <1>2 DEF Taken, Left, Delivered

(* What is requested is an entry. *)
LEMMA FetchedSeq ==
  ASSUME TypeOK, NEW in \in Inputs, NEW fetched \in Response(in), FetchEdge(in, fetched)
  PROVE  Fetched(in) \in Seq(Entry)
<1>1. req' \in Bus
  BY DEF FetchEdge, Response, TypeOK, Bus
<1>2. Live(TRUE, FALSE, req', FALSE) \in Seq(Entry)
  BY <1>1, LiveSeq
<1>3. <<>> \in Seq(Entry)
  OBVIOUS
<1>4. QED
  BY <1>2, <1>3, Zenon DEF Fetched

(* Without a flush, EX and MEM pass their instructions on in order and EX  *)
(* receives what leaves ID.                                                *)
LEMMA ExecuteMoves ==
  ASSUME IInv, NEW in \in Inputs, ExecuteEdge(in), MemoryEdge(in), ~PipeFlush(in)
  PROVE  Cat(Cat(AtMem', AtExe'), AtExeSkid') = Cat(Cat(AtExe, AtExeSkid), Taken(in))
<1>1. /\ \A s \in Seq(Entry) : Cat(s, <<>>) = s /\ Cat(<<>>, s) = s
      /\ \A s, t \in Seq(Entry) : Cat(s, t) \in Seq(Entry)
  BY CatLaws
<1>2. /\ AtExe \in Seq(Entry) /\ AtExeSkid \in Seq(Entry) /\ AtId \in Seq(Entry)
      /\ Taken(in) \in Seq(Entry) /\ <<>> \in Seq(Entry)
  BY QueueTypes, TakenOrLeft DEF IInv
<1>3. /\ ~ExceptionFlag(in) /\ ~BrRedirect(in)
      /\ DsFlush(in) <=> id.flush
      /\ EsFlush(in) <=> exe.flush
  BY StallFacts
<1>4. exe.skid_valid => ~IdLeaves(in)
  BY DEF IInv, Handshake, IdLeaves
<1>5. ~exe.skid_valid => AtExeSkid = <<>>
  BY DEF AtExeSkid, Live
<1>6. CASE MulStall(in)
  <2>1. AtMem' = <<>>
    BY <1>6, MemoryFields, StallFacts DEF AtMem, Live
  <2>2. AtExe' = AtExe
    BY <1>6, ExecuteFields, StallFacts DEF AtExe, Live
  <2>3. AtExeSkid' = IF exe.skid_valid THEN AtExeSkid ELSE Taken(in)
    <3>1. CASE exe.skid_valid
      <4>1. /\ exe'.skid_valid /\ exe'.skid = exe.skid
            /\ exe'.skid_flush = exe.skid_flush
        BY <1>4, <1>6, <3>1, ExecuteFields, SkidContents DEF IdLeaves
      <4>2. QED
        BY <3>1, <4>1 DEF AtExeSkid
    <3>2. CASE ~exe.skid_valid /\ IdLeaves(in)
      <4>1. /\ exe'.skid_valid /\ exe'.skid = id.inst
            /\ exe'.skid_flush <=> id.flush
        BY <1>3, <1>6, <3>2, ExecuteFields, SkidContents DEF IdLeaves
      <4>2. id.valid
        BY <3>2 DEF IdLeaves, DsToEsValid
      <4>3. QED
        BY <3>2, <4>1, <4>2 DEF AtExeSkid, AtId, Taken, Live
    <3>3. CASE ~exe.skid_valid /\ ~IdLeaves(in)
      <4>1. ~exe'.skid_valid
        BY <1>6, <3>3, ExecuteFields DEF IdLeaves
      <4>2. QED
        BY <3>3, <4>1 DEF AtExeSkid, Taken, Live
    <3>4. QED
      BY <3>1, <3>2, <3>3
  <2>4. CASE exe.skid_valid
    <3>1. Taken(in) = <<>>
      BY <1>4, <2>4 DEF Taken
    <3>2. Cat(<<>>, AtExe) = AtExe /\ Cat(Cat(AtExe, AtExeSkid), <<>>) = Cat(AtExe, AtExeSkid)
      BY <1>1, <1>2
    <3>3. QED
      BY <2>1, <2>2, <2>3, <2>4, <3>1, <3>2
  <2>5. CASE ~exe.skid_valid
    <3>1. Cat(<<>>, AtExe) = AtExe /\ Cat(AtExe, <<>>) = AtExe
      BY <1>1, <1>2
    <3>2. QED
      BY <1>5, <2>1, <2>2, <2>3, <2>5, <3>1
  <2>6. QED
    BY <2>4, <2>5
<1>7. CASE ~MulStall(in)
  <2>1. AtMem' = AtExe
    <3>1. EsToMsValid(in) <=> exe.valid
      BY <1>7, StallFacts
    <3>2. CASE exe.valid
      <4>1. mem'.valid /\ mem'.inst = exe.inst /\ (mem'.flush <=> exe.flush)
        BY <1>3, <3>1, <3>2, MemoryFields
      <4>2. ~exe.flush => exe.inst \notin Jumps
        BY <1>3, StallFacts
      <4>3. CASE exe.flush
        BY <4>1, <4>3 DEF AtMem, AtExe, Live
      <4>4. CASE ~exe.flush
        <5>1. (mem'.inst \in Jumps) = FALSE
          BY <4>1, <4>2, <4>4
        <5>2. AtMem' = <<[inst |-> exe.inst, resolved |-> FALSE]>>
          BY <4>1, <4>4, <5>1, Zenon DEF AtMem, Live
        <5>3. QED
          BY <3>2, <4>4, <5>2 DEF AtExe, Live
      <4>5. QED
        BY <4>3, <4>4
    <3>3. CASE ~exe.valid
      BY <3>1, <3>3, MemoryFields DEF AtMem, AtExe, Live
    <3>4. QED
      BY <3>2, <3>3
  <2>2. AtExe' = IF exe.skid_valid THEN AtExeSkid ELSE Taken(in)
    <3>1. CASE exe.skid_valid
      <4>1. exe'.valid /\ exe'.inst = exe.skid /\ exe'.flush = exe.skid_flush
        BY <1>7, <3>1, ExecuteFields
      <4>2. QED
        BY <3>1, <4>1 DEF AtExe, AtExeSkid, Live
    <3>2. CASE ~exe.skid_valid /\ IdLeaves(in)
      <4>1. exe'.valid /\ exe'.inst = id.inst /\ (exe'.flush <=> id.flush)
        BY <1>3, <1>7, <3>2, ExecuteFields DEF IdLeaves
      <4>2. id.valid
        BY <3>2 DEF IdLeaves, DsToEsValid
      <4>3. QED
        BY <3>2, <4>1, <4>2 DEF AtExe, AtId, Taken, Live
    <3>3. CASE ~exe.skid_valid /\ ~IdLeaves(in)
      <4>1. ~exe'.valid
        BY <1>7, <3>3, ExecuteFields DEF IdLeaves
      <4>2. QED
        BY <3>3, <4>1 DEF AtExe, Taken, Live
    <3>4. QED
      BY <3>1, <3>2, <3>3
  <2>3. AtExeSkid' = <<>>
    BY <1>7, ExecuteFields DEF AtExeSkid, Live
  <2>4. CASE exe.skid_valid
    <3>1. Taken(in) = <<>>
      BY <1>4, <2>4 DEF Taken
    <3>2. QED
      BY <2>1, <2>2, <2>3, <2>4, <3>1
  <2>5. CASE ~exe.skid_valid
    <3>1. Cat(AtExe, <<>>) = AtExe
      BY <1>1, <1>2
    <3>2. Cat(Cat(AtExe, Taken(in)), <<>>) = Cat(AtExe, Taken(in))
      BY <1>1, <1>2
    <3>3. QED
      BY <1>5, <2>1, <2>2, <2>3, <2>5, <3>1, <3>2
  <2>6. QED
    BY <2>4, <2>5
<1>8. QED
  BY <1>6, <1>7

(* Without a flush, ID receives what IF delivers behind what it holds.     *)
LEMMA DecodeMoves ==
  ASSUME IInv, NEW in \in Inputs, DecodeEdge(in), ~PipeFlush(in)
  PROVE  Cat(AtId', AtIdSkid') = Cat(Cat(Left(in), AtIdSkid), Delivered(in))
<1>1. \A s \in Seq(Entry) : Cat(s, <<>>) = s /\ Cat(<<>>, s) = s
  BY CatLaws
<1>2. /\ AtId \in Seq(Entry) /\ AtIdSkid \in Seq(Entry) /\ Delivered(in) \in Seq(Entry)
      /\ Cat(AtId, AtIdSkid) \in Seq(Entry) /\ <<>> \in Seq(Entry)
  BY QueueTypes, TakenOrLeft, CatLaws DEF IInv
<1>3. FsInFire(in) => req_valid /\ ~id.skid_valid
  BY DEF IInv, Handshake, FsInFire
<1>4. ~id.skid_valid => AtIdSkid = <<>>
  BY DEF AtIdSkid, Live
<1>5. DsCoreAllowin(in) <=> (~id.valid \/ IdLeaves(in))
  BY DEF DsCoreAllowin, IdLeaves, DsToEsValid
<1>6. ~id.valid => AtId = <<>>
  BY DEF AtId, Live
<1>7. IdLeaves(in) => id.valid
  BY DEF IdLeaves, DsToEsValid
<1>8. TypeOK
  BY DEF IInv
<1>9. CASE DsCoreAllowin(in) /\ id.skid_valid
  <2>1. Left(in) = <<>> /\ Delivered(in) = <<>>
    BY <1>3, <1>5, <1>6, <1>9 DEF Left, Delivered
  <2>2. id'.valid /\ id'.inst = id.skid /\ (id'.flush <=> id.skid_flush) /\ ~id'.skid_valid
    BY <1>8, <1>9, DecodeFields
  <2>3. AtId' = AtIdSkid /\ AtIdSkid' = <<>>
    BY <1>9, <2>2 DEF AtId, AtIdSkid, Live
  <2>4. QED
    BY <1>1, <1>2, <2>1, <2>3
<1>10. CASE DsCoreAllowin(in) /\ ~id.skid_valid
  <2>1. Left(in) = <<>>
    BY <1>5, <1>6, <1>10 DEF Left
  <2>2. /\ id'.valid <=> FsInFire(in)
        /\ ~id'.flush /\ ~id'.skid_valid
        /\ FsInFire(in) => id'.inst = req
    BY <1>8, <1>10, DecodeFields
  <2>3. AtId' = Delivered(in) /\ AtIdSkid' = <<>>
    BY <1>3, <2>2 DEF AtId, AtIdSkid, AtIf, Delivered, Live
  <2>4. QED
    BY <1>1, <1>2, <1>4, <1>10, <2>1, <2>3
<1>11. CASE ~DsCoreAllowin(in)
  <2>1. Left(in) = AtId /\ id.valid
    BY <1>5, <1>11 DEF Left
  <2>2. id'.valid /\ id'.inst = id.inst /\ (id'.flush <=> id.flush)
    BY <1>8, <1>11, <2>1, DecodeFields
  <2>3. AtId' = AtId
    BY <2>1, <2>2 DEF AtId, Live
  <2>4. CASE FsInFire(in)
    <3>1. id'.skid_valid /\ ~id'.skid_flush /\ id'.skid = req
      BY <1>3, <1>8, <1>11, <2>4, DecodeFields, SkidContents
    <3>2. AtIdSkid' = Delivered(in)
      BY <1>3, <2>4, <3>1 DEF AtIdSkid, AtIf, Delivered, Live
    <3>3. QED
      BY <1>1, <1>2, <1>3, <1>4, <2>1, <2>3, <2>4, <3>2
  <2>5. CASE ~FsInFire(in)
    <3>1. /\ id'.skid_valid <=> id.skid_valid
          /\ id'.skid_flush <=> id.skid_flush
          /\ id'.skid = id.skid
      BY <1>8, <1>11, <2>5, DecodeFields, SkidContents
    <3>2. AtIdSkid' = AtIdSkid /\ Delivered(in) = <<>>
      BY <2>5, <3>1 DEF AtIdSkid, Delivered, Live
    <3>3. QED
      BY <1>1, <1>2, <2>1, <2>3, <3>2
  <2>6. QED
    BY <2>4, <2>5
<1>12. QED
  BY <1>9, <1>10, <1>11

(* Without a flush, a fetch waits until ID takes it, and nothing is        *)
(* requested before that.                                                  *)
LEMMA FetchMoves ==
  ASSUME IInv, NEW in \in Inputs, NEW fetched \in Response(in),
         FetchEdge(in, fetched), ~PipeFlush(in)
  PROVE  Cat(Delivered(in), AtIf') = Cat(AtIf, Fetched(in))
<1>1. req_valid => if_active
  BY DEF IInv, HarmlessLeftovers
<1>2. FsInFire(in) <=> ResponseFire(in)
  BY DEF FsInFire, ResponseFire
<1>3. /\ FsInFire(in) => RequestFire(in)
      /\ RequestFire(in) => FsInFire(in) \/ ~req_valid
  BY <1>1, <1>2 DEF RequestFire, ResponseFire
<1>4. /\ req_valid' <=> (RequestFire(in) \/ (req_valid /\ ~FsInFire(in)))
      /\ ~RequestFire(in) => req' = req
  BY <1>2 DEF FetchEdge, Response
<1>5. \A s \in Seq(Entry) : Cat(s, <<>>) = s /\ Cat(<<>>, s) = s
  BY CatLaws
<1>6. AtIf \in Seq(Entry)
  BY QueueTypes DEF IInv
<1>7. CASE RequestFire(in)
  <2>1. AtIf' = Fetched(in)
    BY <1>4, <1>7 DEF AtIf, Fetched, Live
  <2>2. CASE FsInFire(in)
    BY <2>1, <2>2 DEF Delivered
  <2>3. CASE ~FsInFire(in)
    <3>1. AtIf = <<>> /\ Delivered(in) = <<>>
      BY <1>3, <1>7, <2>3 DEF AtIf, Delivered, Live
    <3>2. QED
      BY <2>1, <3>1
  <2>4. QED
    BY <2>2, <2>3
<1>8. CASE ~RequestFire(in)
  <2>1. ~FsInFire(in) /\ (req_valid' <=> req_valid) /\ req' = req
    BY <1>3, <1>4, <1>8
  <2>2. AtIf' = AtIf
    BY <2>1 DEF AtIf, Live
  <2>3. Delivered(in) = <<>> /\ Fetched(in) = <<>>
    BY <1>8, <2>1 DEF Delivered, Fetched
  <2>4. QED
    BY <1>5, <1>6, <2>2, <2>3
<1>9. QED
  BY <1>7, <1>8

-----------------------------------------------------------------------------
(* A trap or return empties the pipeline, oldest instruction included.     *)
LEMMA TrapDiscards ==
  ASSUME IInv, NEW in \in Inputs, NEW fetched \in Response(in), Clock(in, fetched),
         ExceptionFlag(in)
  PROVE  FlightQueue' = <<>> /\ ~(mem.valid /\ ~mem.flush)'
<1>1. /\ PipeFlush(in) /\ EsFlush(in) /\ DsFlush(in) /\ ~MulStall(in) /\ ~FsInFire(in)
      /\ mem.valid /\ TypeOK
  BY StallFacts, SilentWithoutMem DEF IInv
<1>2. ~exe.skid_valid
  BY <1>1 DEF IInv, Handshake, SuccessorBehindExe
<1>3. ~(mem'.valid /\ ~mem'.flush)
  BY <1>1, MemoryFields, StallFacts DEF Clock
<1>4. ~(exe'.valid /\ ~exe'.flush) /\ ~exe'.skid_valid
  BY <1>1, <1>2, ExecuteFields DEF Clock
<1>5. ~(id'.valid /\ ~id'.flush) /\ ~(id'.skid_valid /\ ~id'.skid_flush)
  BY <1>1, DecodeFields DEF Clock
<1>6. ~req_valid'
  BY <1>1 DEF Clock, FetchEdge
<1>7. /\ AtMem' = <<>> /\ AtExe' = <<>> /\ AtExeSkid' = <<>>
      /\ AtId' = <<>> /\ AtIdSkid' = <<>> /\ AtIf' = <<>>
  BY <1>3, <1>4, <1>5, <1>6 DEF AtMem, AtExe, AtExeSkid, AtId, AtIdSkid, AtIf, Live
<1>8. FlightQueue' = ((((AtMem' \o AtExe') \o AtExeSkid') \o AtId') \o AtIdSkid') \o AtIf'
  BY DEF FlightQueue, AtMem, AtExe, AtExeSkid, AtId, AtIdSkid, AtIf
<1>9. <<>> \o <<>> = <<>>
  OBVIOUS
<1>10. QED
  BY <1>3, <1>7, <1>8, <1>9, Zenon

(* A redirect from EX leaves the jump alone, resolved.                     *)
LEMMA RedirectDiscards ==
  ASSUME IInv, NEW in \in Inputs, NEW fetched \in Response(in), Clock(in, fetched),
         ~ExceptionFlag(in), BrRedirect(in)
  PROVE  /\ exe.inst \in Jumps
         /\ exe.valid /\ ~exe.flush
         /\ FlightQueue' = <<[inst |-> exe.inst, resolved |-> TRUE]>>
<1>1. /\ PipeFlush(in) /\ DsFlush(in) /\ ~FsInFire(in) /\ TypeOK
      /\ ~EsFlush(in) /\ exe.inst \in Jumps /\ ~exe.flush
  BY StallFacts DEF IInv
<1>2. exe.valid
  BY <1>1 DEF IInv, HarmlessLeftovers
<1>3. exe.inst \notin Multis
  BY <1>1, ClassAssumption
<1>4. ~MulStall(in) /\ EsToMsValid(in) /\ ~exe.skid_valid
  BY <1>2, <1>3, StallFacts DEF IInv, Handshake, SuccessorBehindExe
<1>5. mem'.valid /\ ~mem'.flush /\ mem'.inst = exe.inst
  BY <1>1, <1>4, MemoryFields DEF Clock
<1>6. ~(exe'.valid /\ ~exe'.flush) /\ ~exe'.skid_valid
  BY <1>1, <1>4, ExecuteFields DEF Clock
<1>7. ~(id'.valid /\ ~id'.flush) /\ ~(id'.skid_valid /\ ~id'.skid_flush)
  BY <1>1, DecodeFields DEF Clock
<1>8. ~req_valid'
  BY <1>1 DEF Clock, FetchEdge
<1>9. (mem'.inst \in Jumps) = TRUE
  BY <1>1, <1>5
<1>10. AtMem' = <<[inst |-> exe.inst, resolved |-> TRUE]>>
  BY <1>5, <1>9, Zenon DEF AtMem, Live
<1>11. /\ AtExe' = <<>> /\ AtExeSkid' = <<>>
       /\ AtId' = <<>> /\ AtIdSkid' = <<>> /\ AtIf' = <<>>
  BY <1>6, <1>7, <1>8 DEF AtExe, AtExeSkid, AtId, AtIdSkid, AtIf, Live
<1>12. FlightQueue' = ((((AtMem' \o AtExe') \o AtExeSkid') \o AtId') \o AtIdSkid') \o AtIf'
  BY DEF FlightQueue, AtMem, AtExe, AtExeSkid, AtId, AtIdSkid, AtIf
<1> DEFINE j == <<[inst |-> exe.inst, resolved |-> TRUE]>>
<1>13. j \o <<>> = j
  OBVIOUS
<1> HIDE DEF j
<1>14. FlightQueue' = j
  <2>1. AtMem' = j
    BY <1>10 DEF j
  <2>2. QED
    BY <1>11, <1>12, <1>13, <2>1, Zenon
<1>15. QED
  BY <1>1, <1>2, <1>14 DEF j

(* Without either, the queue loses at most its head and gains at most the  *)
(* instruction that is requested.                                          *)
LEMMA QueueAdvances ==
  ASSUME IInv, NEW in \in Inputs, NEW fetched \in Response(in), Clock(in, fetched),
         ~PipeFlush(in)
  PROVE  FlightQueue' = Cat(Behind, Fetched(in))
<1>1. /\ AtExe \in Seq(Entry) /\ AtExeSkid \in Seq(Entry) /\ AtIdSkid \in Seq(Entry)
      /\ AtIf \in Seq(Entry) /\ AtId \in Seq(Entry) /\ TypeOK
      /\ Taken(in) \in Seq(Entry) /\ Left(in) \in Seq(Entry)
      /\ Delivered(in) \in Seq(Entry)
      /\ Cat(Taken(in), Left(in)) = AtId
  BY QueueTypes, TakenOrLeft DEF IInv
<1>2. TypeOK'
  BY <1>1, ClockTypes
<1>3. AtId' \in Seq(Entry) /\ AtIdSkid' \in Seq(Entry) /\ AtIf' \in Seq(Entry)
  <2>1. /\ id'.valid \in BOOLEAN /\ id'.flush \in BOOLEAN /\ id'.inst \in Bus
        /\ id'.skid_valid \in BOOLEAN /\ id'.skid_flush \in BOOLEAN /\ id'.skid \in Bus
        /\ req_valid' \in BOOLEAN /\ req' \in Bus
    BY <1>2 DEF TypeOK, Stage
  <2>2. AtId' \in Seq(Entry)
    BY <2>1, LiveSeq DEF AtId
  <2>3. AtIdSkid' \in Seq(Entry)
    BY <2>1, LiveSeq DEF AtIdSkid
  <2>4. AtIf' \in Seq(Entry)
    BY <2>1, LiveSeq DEF AtIf
  <2>5. QED
    BY <2>2, <2>3, <2>4
<1>4. Fetched(in) \in Seq(Entry)
  BY <1>1, FetchedSeq DEF Clock
<1>5. /\ \A s, t \in Seq(Entry) : Cat(s, t) \in Seq(Entry)
      /\ \A s, t, u \in Seq(Entry) : Cat(Cat(s, t), u) = Cat(s, Cat(t, u))
  BY CatLaws
<1> DEFINE A == Cat(AtExe, AtExeSkid)
           P == Cat(A, Taken(in))
<1>6. A \in Seq(Entry) /\ P \in Seq(Entry)
  BY <1>1, <1>5
<1>7. FlightQueue'
        = Cat(Cat(Cat(Cat(Cat(AtMem', AtExe'), AtExeSkid'), AtId'), AtIdSkid'), AtIf')
  BY DEF FlightQueue, Cat, AtMem, AtExe, AtExeSkid, AtId, AtIdSkid, AtIf
<1>8. Cat(Cat(AtMem', AtExe'), AtExeSkid') = P
  BY ExecuteMoves DEF Clock
<1>9. Cat(AtId', AtIdSkid') = Cat(Cat(Left(in), AtIdSkid), Delivered(in))
  BY DecodeMoves DEF Clock
<1>10. Cat(Delivered(in), AtIf') = Cat(AtIf, Fetched(in))
  BY FetchMoves DEF Clock
<1> HIDE DEF A
<1>11. FlightQueue' = Cat(Cat(Cat(A, Taken(in)), Cat(Cat(Left(in), AtIdSkid), Delivered(in))), AtIf')
  <2> HIDE DEF P
  <2>1. FlightQueue' = Cat(Cat(Cat(P, AtId'), AtIdSkid'), AtIf')
    BY <1>7, <1>8
  <2>2. Cat(Cat(P, AtId'), AtIdSkid') = Cat(P, Cat(AtId', AtIdSkid'))
    BY <1>3, <1>5, <1>6
  <2>3. QED
    BY <1>9, <2>1, <2>2 DEF P
<1>12. Cat(Cat(Cat(A, Taken(in)), Cat(Cat(Left(in), AtIdSkid), Delivered(in))), AtIf')
         = Cat(Cat(Cat(Cat(A, Cat(Taken(in), Left(in))), AtIdSkid), AtIf), Fetched(in))
  <2> DEFINE T == Taken(in)
             U == Left(in)
             V == Delivered(in)
  <2>1. /\ T \in Seq(Entry) /\ U \in Seq(Entry) /\ V \in Seq(Entry)
        /\ P = Cat(A, T)
    BY <1>1
  <2> HIDE DEF T, U, V, P
  <2> DEFINE UK == Cat(U, AtIdSkid)
             L  == Cat(P, UK)
  <2>2. UK \in Seq(Entry) /\ L \in Seq(Entry)
    BY <1>1, <1>5, <1>6, <2>1
  <2>3. L = Cat(Cat(A, Cat(T, U)), AtIdSkid)
    BY <1>1, <1>5, <1>6, <2>1
  <2> HIDE DEF UK, L
  <2>4. Cat(P, Cat(UK, V)) = Cat(L, V)
    BY <1>5, <1>6, <2>1, <2>2 DEF L
  <2>5. Cat(Cat(L, V), AtIf') = Cat(L, Cat(V, AtIf'))
    BY <1>3, <1>5, <2>1, <2>2
  <2>6. Cat(L, Cat(AtIf, Fetched(in))) = Cat(Cat(L, AtIf), Fetched(in))
    BY <1>1, <1>4, <1>5, <2>2
  <2>7. Cat(V, AtIf') = Cat(AtIf, Fetched(in))
    BY <1>10 DEF V
  <2>8. QED
    BY <2>1, <2>3, <2>4, <2>5, <2>6, <2>7, Zenon DEF UK, T, U, V
<1>13. FlightQueue' = Cat(Cat(Cat(Cat(A, AtId), AtIdSkid), AtIf), Fetched(in))
  BY <1>1, <1>11, <1>12
<1>14. QED
  BY <1>13 DEF A, Behind

(* Entries that agree on the instruction differ in being resolved only. *)
LEMMA OnlyResolved ==
  ASSUME NEW r \in Entry, NEW p \in Entry, r.inst = p.inst, p.resolved
  PROVE  [r EXCEPT !.resolved = TRUE] = p
  BY DEF Entry

(* What stands behind EX in the queue. *)
LEMMA BehindSplit ==
  ASSUME TypeOK
  PROVE  \E rest \in Seq(Entry) : Behind = Cat(AtExe, rest)
<1>1. /\ AtExe \in Seq(Entry) /\ AtExeSkid \in Seq(Entry) /\ AtId \in Seq(Entry)
      /\ AtIdSkid \in Seq(Entry) /\ AtIf \in Seq(Entry) /\ Behind \in Seq(Entry)
      /\ <<>> \in Seq(Entry)
  BY QueueTypes
<1>2. /\ \A s, t \in Seq(Entry) : Cat(s, t) \in Seq(Entry)
      /\ Cat(Behind, <<>>) = Behind
  BY <1>1, CatLaws
<1> DEFINE none == <<>>
           rest == Cat(Cat(Cat(Cat(AtExeSkid, AtId), AtIdSkid), AtIf), none)
<1>3. none \in Seq(Entry) /\ Cat(Behind, none) = Behind
  BY <1>1, <1>2
<1> HIDE DEF none
<1>4. rest \in Seq(Entry)
  BY <1>1, <1>2, <1>3
<1>5. Cat(Behind, none) = Cat(AtExe, rest)
  <2>1. PICK m \in Seq(Entry) : m = AtExe
    BY <1>1, <1>3
  <2>2. PICK a \in Seq(Entry) : a = AtExeSkid
    BY <1>1, <1>3
  <2>3. PICK b \in Seq(Entry) : b = AtId
    BY <1>1, <1>3
  <2>4. PICK c \in Seq(Entry) : c = AtIdSkid
    BY <1>1, <1>3
  <2>5. PICK d \in Seq(Entry) : d = AtIf
    BY <1>1, <1>3
  <2>6. PICK e \in Seq(Entry) : e = none
    BY <1>1, <1>3
  <2>7. Cat(Cat(Cat(Cat(Cat(m, a), b), c), d), e)
          = Cat(m, Cat(Cat(Cat(Cat(a, b), c), d), e))
    BY FirstApart
  <2>8. QED
    BY <2>1, <2>2, <2>3, <2>4, <2>5, <2>6, <2>7 DEF Behind
<1>6. QED
  BY <1>3, <1>4, <1>5

(* The queue as InOrder sees it: MEM's instruction is its head.            *)
LEMMA QueueHead ==
  ASSUME IInv
  PROVE  /\ Order!Remaining = Behind
         /\ mem.valid /\ ~mem.flush =>
              /\ Head(FlightQueue).inst = mem.inst
              /\ Order!Settled(Head(FlightQueue))
<1> DEFINE r == mem.inst \in Jumps
           e == [inst |-> mem.inst, resolved |-> r]
<1>1. TypeOK /\ Behind \in Seq(Entry) /\ FlightQueue = Cat(AtMem, Behind)
  BY QueueTypes, QueueSplit DEF IInv
<1>2. CASE mem.valid /\ ~mem.flush
  <2>1. AtMem = <<e>>
    BY <1>2, Zenon DEF AtMem, Live
  <2>2. e \in Entry /\ e.inst = mem.inst /\ e.resolved = r
    BY <1>1 DEF TypeOK, Stage, Entry
  <2>3. Order!Settled(e)
    BY <2>2 DEF Order!Settled
  <2> HIDE DEF e
  <2>4. Head(Cat(<<e>>, Behind)) = e /\ Tail(Cat(<<e>>, Behind)) = Behind
    BY <1>1, <2>2, FrontOf
  <2>5. Head(FlightQueue) = e /\ Tail(FlightQueue) = Behind
    BY <1>1, <2>1, <2>4
  <2>6. QED
    BY <1>2, <2>2, <2>3, <2>5 DEF Order!Remaining
<1>3. CASE ~(mem.valid /\ ~mem.flush)
  <2>1. AtMem = <<>>
    BY <1>3, Zenon DEF AtMem, Live
  <2>2. FlightQueue = Behind
    BY <1>1, <2>1, CatLaws
  <2>3. QED
    BY <1>3, <2>2 DEF Order!Remaining
<1>4. QED
  BY <1>2, <1>3

(* The instruction in MEM retires only as InOrder allows.                  *)
LEMMA RetiresInOrder ==
  ASSUME IInv, NEW in \in Inputs, TrapEdge(in), ~ExceptionFlag(in)
  PROVE  /\ mem.valid /\ ~mem.flush => Order!MayRetire
         /\ prev_exception' = prev_exception
<1>1. ~TrapTaken(in) /\ ~MretJump(in)
  BY DEF ExceptionFlag
<1>2. prev_exception' = (prev_exception /\ ~MretFlag(in))
  BY <1>1, Zenon DEF TrapEdge
<1>3. prev_exception \in BOOLEAN
  BY DEF IInv, TypeOK
<1>4. MretFlag(in) => ~prev_exception
  BY <1>1 DEF MretJump
<1>5. prev_exception' = prev_exception
  BY <1>2, <1>3, <1>4
<1>6. ASSUME mem.valid, ~mem.flush
      PROVE  Order!MayRetire
  <2>1. ~SyncException /\ ~TakeIrq(in)
    BY <1>1, <1>6 DEF TrapTaken
  <2>2. mem.inst \notin Traps \cup Misaligned /\ ~MisalignedFault
    BY <1>6, <2>1 DEF SyncException, MisalignedFault
  <2>3. mem.inst \in Mrets => ~prev_exception
    BY <1>4, <1>6, <2>1, <2>2 DEF MretFlag
  <2>4. QED
    BY <1>6, <2>2, <2>3, QueueHead DEF Order!MayRetire
<1>7. QED
  BY <1>5, <1>6

(* An edge of the pipeline is a step of the queue in program order.        *)
LEMMA ClockInOrder ==
  ASSUME IInv, NEW in \in Inputs, NEW fetched \in Response(in), Clock(in, fetched)
  PROVE  Order!Next
<1> DEFINE out == mem.valid /\ ~mem.flush
<1>0. TypeOK
  BY DEF IInv
<1>1. CASE ExceptionFlag(in)
  <2>1. FlightQueue' = <<>> /\ ~out'
    BY <1>1, TrapDiscards
  <2>2. out
    BY <1>1, SilentWithoutMem
       DEF ExceptionFlag, TrapTaken, MretJump, MretFlag
  <2>3. CASE TrapTaken(in)
    <3>1. prev_exception' = TRUE
      BY <2>3 DEF Clock, TrapEdge
    <3>2. Order!Trap
      BY <2>1, <2>2, <3>1, QueueHead DEF Order!Trap
    <3>3. QED
      BY <2>1, <3>2 DEF Order!Next
  <2>4. CASE ~TrapTaken(in)
    <3>1. MretFlag(in) /\ prev_exception
      BY <1>1, <2>4 DEF ExceptionFlag, MretJump
    <3>2. prev_exception' = FALSE
      BY <2>4, <3>1 DEF Clock, TrapEdge
    <3>3. mem.inst \in Mrets
      BY <3>1 DEF MretFlag
    <3>4. Order!Return
      BY <2>1, <2>2, <3>1, <3>2, <3>3, QueueHead DEF Order!Return
    <3>5. QED
      BY <2>1, <3>4 DEF Order!Next
  <2>5. QED
    BY <2>3, <2>4
<1>2. CASE ~ExceptionFlag(in)
  <2>1. (out => Order!MayRetire) /\ prev_exception' = prev_exception
    BY <1>2, RetiresInOrder DEF Clock
  <2>2. PICK rest \in Seq(Entry) : Behind = Cat(AtExe, rest)
    BY <1>0, BehindSplit
  <2> DEFINE e == [inst |-> exe.inst, resolved |-> FALSE]
  <2>3. e \in Entry
    BY <1>0 DEF TypeOK, Stage, Entry
  <2>4. exe.valid /\ ~exe.flush => Behind = Cat(<<e>>, rest)
    BY <2>2 DEF AtExe, Live
  <2>5. CASE BrRedirect(in)
    <3> DEFINE j == <<[inst |-> exe.inst, resolved |-> TRUE]>>
    <3>1. /\ exe.inst \in Jumps /\ exe.valid /\ ~exe.flush
          /\ FlightQueue' = j
      BY <1>2, <2>5, RedirectDiscards
    <3>2. /\ SubSeq(Behind, 1, 1) = <<e>>
          /\ 1 \in 1..Len(Behind)
          /\ Behind[1] = e
      <4> HIDE DEF e
      <4>1. QED
        BY <2>3, <2>4, <3>1, FrontOf
    <3>3. [<<e>> EXCEPT ![1].resolved = TRUE] = j
      <4> DEFINE p == [inst |-> exe.inst, resolved |-> TRUE]
      <4>1. p \in Entry /\ p.inst = e.inst /\ p.resolved
        BY <1>0 DEF TypeOK, Stage, Entry
      <4>2. j = <<p>>
        OBVIOUS
      <4> HIDE DEF e, p, j
      <4>3. [e EXCEPT !.resolved = TRUE] = p
        BY <2>3, <4>1, OnlyResolved
      <4>4. [<<e>> EXCEPT ![1].resolved = TRUE] = <<[e EXCEPT !.resolved = TRUE]>>
        <5> DEFINE y == [<<e>>[1] EXCEPT !.resolved = TRUE]
        <5>1. <<e>>[1] = e
          OBVIOUS
        <5>2. y = [e EXCEPT !.resolved = TRUE]
          BY <5>1, Zenon
        <5>3. [<<e>> EXCEPT ![1].resolved = TRUE] = [<<e>> EXCEPT ![1] = y]
          BY Zenon
        <5> HIDE DEF y
        <5>4. [<<e>> EXCEPT ![1] = y] = <<y>>
          OBVIOUS
        <5>5. QED
          BY <5>2, <5>3, <5>4, Zenon
      <4>5. QED
        BY <4>2, <4>3, <4>4
    <3>4. e.inst = exe.inst /\ e.resolved = FALSE
      OBVIOUS
    <3> HIDE DEF e, j
    <3>5. Order!Resolve(Behind, 1)
      BY <3>1, <3>2, <3>3, <3>4 DEF Order!Resolve
    <3>6. Order!Advance
      BY <2>1, <3>2, <3>5, QueueHead DEF Order!Advance
    <3>7. j # <<>>
      BY DEF j
    <3>8. QED
      BY <3>1, <3>6, <3>7 DEF Order!Next
  <2>6. CASE ~BrRedirect(in)
    <3>1. ~PipeFlush(in)
      BY <1>2, <2>6 DEF PipeFlush
    <3>2. FlightQueue' = Cat(Behind, Fetched(in))
      BY <3>1, QueueAdvances
    <3>3. Behind \in Seq(Entry)
      BY <1>0, QueueTypes
    <3>4. Order!Advance
      <4>1. CASE RequestFire(in)
        <5>1. req' \in Inst
          BY <4>1 DEF Clock, FetchEdge, Response
        <5>2. Fetched(in) = <<Order!InFlight(req', FALSE)>>
          BY <4>1, Zenon DEF Fetched, Live, Order!InFlight
        <5>3. Cat(Behind, <<Order!InFlight(req', FALSE)>>)
                = Append(Behind, Order!InFlight(req', FALSE))
          <6> DEFINE x == Order!InFlight(req', FALSE)
          <6>1. x \in Entry
            BY <5>1 DEF Order!InFlight, Entry, Bus
          <6> HIDE DEF x
          <6>2. Cat(Behind, <<x>>) = Append(Behind, x)
            BY <3>3, <6>1, AppendIsConcat DEF Cat
          <6>3. QED
            BY <6>2 DEF x
        <5>4. FlightQueue' = Append(Order!Remaining, Order!InFlight(req', FALSE))
          BY <3>2, <5>2, <5>3, QueueHead
        <5>5. QED
          BY <2>1, <5>1, <5>4 DEF Order!Advance
      <4>2. CASE ~RequestFire(in)
        <5>1. FlightQueue' = Behind
          BY <3>2, <3>3, <4>2, CatLaws DEF Fetched
        <5>2. QED
          BY <2>1, <5>1, QueueHead DEF Order!Advance
      <4>3. QED
        BY <4>1, <4>2
    <3>5. out' => FlightQueue' # <<>>
      <4> SUFFICES ASSUME out' PROVE FlightQueue' # <<>>
        OBVIOUS
      <4>1. exe.valid /\ ~exe.flush
        BY <1>2, MemoryFields, StallFacts DEF Clock
      <4>2. Behind = Cat(<<e>>, rest) /\ Behind # <<>>
        <5> HIDE DEF e
        <5>1. QED
          BY <2>2, <2>3, <2>4, <4>1, FrontOf
      <4>3. Cat(Behind, Fetched(in)) # <<>>
        BY <1>0, <3>3, <4>2, FetchedSeq, ConcatEqualIffEmpty DEF Cat, Clock
      <4>4. QED
        BY <3>2, <4>3
    <3>6. QED
      BY <3>4, <3>5 DEF Order!Next
  <2>7. QED
    BY <2>5, <2>6
<1>3. QED
  BY <1>1, <1>2

(* The pipeline implements the queue in program order, for every set of    *)
(* instructions: stalls and skid registers lose and duplicate nothing,     *)
(* nothing younger than a wrongly predicted jump or a trap survives, and   *)
(* nothing older is discarded.                                             *)
THEOREM ImplementsInOrder == Spec => InOrderSpec
<1>1. Init => Order!Init
  BY DEF Init, ResetStage, Registers, FlightQueue, Live, Order!Init
<1>2. IInv /\ [Next]_vars => [Order!Next]_(Order!vars)
  <2> SUFFICES ASSUME IInv, [Next]_vars PROVE [Order!Next]_(Order!vars)
    OBVIOUS
  <2>1. CASE Next
    BY <2>1, ClockInOrder DEF Next
  <2>2. CASE UNCHANGED vars
    BY <2>2 DEF vars, Order!vars, FlightQueue
  <2>3. QED
    BY <2>1, <2>2
<1>3. QED
  BY <1>1, <1>2, Invariant, PTL DEF Spec, InOrderSpec, Order!Spec

-----------------------------------------------------------------------------
(* How long the program waits: the measure behind Clocked!KeepsExecuting.  *)

(* Edges, those not counted at which a multiplication or division stops    *)
(* EX, until an unflushed instruction is in MEM.                           *)
Distance ==
  CASE mem.valid /\ ~mem.flush -> 0
    [] ~(mem.valid /\ ~mem.flush) /\ exe.valid /\ ~exe.flush -> 1
    [] ~(mem.valid /\ ~mem.flush) /\ ~(exe.valid /\ ~exe.flush) ->
         IF id.valid /\ ~id.flush THEN 2
         ELSE IF id.skid_valid /\ ~id.skid_flush THEN 3
         ELSE IF req_valid THEN (IF id.allowin THEN 3 ELSE 4)
         ELSE IF if_active THEN 4 ELSE 5

(* With nothing unflushed in EX and MEM, nothing is flushed or stopped.    *)
LEMMA QuietBackEnd ==
  ASSUME IInv, NEW in \in Inputs, ~(mem.valid /\ ~mem.flush)
  PROVE  /\ ~ExceptionFlag(in)
         /\ ~(exe.valid /\ ~exe.flush) =>
              /\ ~PipeFlush(in) /\ ~MulStall(in)
              /\ exe.allowin /\ ~exe.skid_valid
              /\ DsToEsValid(in) <=> id.valid
              /\ DsCoreAllowin(in)
<1>1. ~ExceptionFlag(in)
  <2> SUFFICES ASSUME ExceptionFlag(in) PROVE FALSE
    OBVIOUS
  <2>1. mem.valid
    BY SilentWithoutMem
  <2>2. ~mem.flush
    BY DEF ExceptionFlag, TrapTaken, MretJump, MretFlag
  <2> QED
    BY <2>1, <2>2
<1> SUFFICES ASSUME ~(exe.valid /\ ~exe.flush)
             PROVE  /\ ~PipeFlush(in) /\ ~MulStall(in)
                    /\ exe.allowin /\ ~exe.skid_valid
                    /\ DsToEsValid(in) <=> id.valid
                    /\ DsCoreAllowin(in)
  BY <1>1
<1>2. ~MulStall(in)
  BY StallFacts
<1>3. ~BrRedirect(in)
  BY StallFacts DEF IInv, HarmlessLeftovers
<1>4. ~PipeFlush(in)
  BY <1>1, <1>3, StallFacts
<1>5. exe.allowin
  BY DEF IInv, Handshake, SuccessorBehindExe
<1>6. ~exe.skid_valid
  BY <1>5 DEF IInv, Handshake
<1>7. ~exe.valid \/ EsFlush(in)
  BY StallFacts
<1>8. DsToEsValid(in) <=> id.valid
  BY <1>2, <1>7, IdProceeds
<1>9. DsCoreAllowin(in)
  BY <1>2, <1>5, <1>7, IdProceeds
<1> QED
  BY <1>2, <1>4, <1>5, <1>6, <1>8, <1>9

(* From an EX without an unflushed instruction, none reaches MEM; what ID  *)
(* has goes to EX.                                                         *)
LEMMA QuietMoves ==
  ASSUME IInv, NEW in \in Inputs, ExecuteEdge(in), MemoryEdge(in),
         ~(mem.valid /\ ~mem.flush), ~(exe.valid /\ ~exe.flush)
  PROVE  /\ ~(mem'.valid /\ ~mem'.flush)
         /\ (exe'.valid /\ ~exe'.flush) <=> (id.valid /\ ~id.flush)
<1>1. /\ ~ExceptionFlag(in) /\ ~PipeFlush(in) /\ ~MulStall(in)
      /\ exe.allowin /\ ~exe.skid_valid
      /\ DsToEsValid(in) <=> id.valid
  BY QuietBackEnd
<1>2. EsToMsValid(in) <=> exe.valid
  BY <1>1, StallFacts
<1>3. mem'.valid => exe.valid /\ mem'.flush = EsFlush(in)
  BY <1>2, MemoryFields
<1>4. mem'.valid => mem'.flush
  BY <1>3, StallFacts
<1>5. exe'.valid <=> id.valid
  BY <1>1, ExecuteFields
<1>6. id.valid => exe'.flush = DsFlush(in)
  BY <1>1, ExecuteFields
<1>7. id.valid => (exe'.flush <=> id.flush)
  BY <1>1, <1>6, StallFacts
<1> QED
  BY <1>4, <1>5, <1>7

(* The front end delivers into an ID without an unflushed instruction.     *)
LEMMA QuietFetch ==
  ASSUME IInv, NEW in \in Inputs, NEW fetched \in Response(in),
         DecodeEdge(in), FetchEdge(in, fetched),
         ~PipeFlush(in), DsCoreAllowin(in), ~(id.valid /\ ~id.flush)
  PROVE  /\ id'.allowin /\ ~id'.skid_valid
         /\ (id'.valid /\ ~id'.flush) <=>
              \/ id.skid_valid /\ ~id.skid_flush
              \/ ~id.skid_valid /\ req_valid /\ id.allowin
         /\ req_valid' <=> (req_valid \/ if_active)
         /\ if_active'
<1>1. FsInFire(in) <=> req_valid /\ id.allowin
  BY DEF FsInFire
<1>2. ResponseFire(in) <=> req_valid /\ id.allowin
  BY DEF ResponseFire
<1>3. RequestFire(in) <=> if_active /\ (~req_valid \/ ResponseFire(in))
  BY DEF RequestFire
<1>4. req_valid => if_active
  BY DEF IInv, HarmlessLeftovers
<1>5. req_valid' <=> (req_valid \/ if_active)
  BY <1>2, <1>3, <1>4 DEF FetchEdge
<1>6. if_active'
  BY DEF FetchEdge
<1>7. id'.allowin /\ ~id'.skid_valid
  BY DecodeFields DEF IInv
<1>8. CASE id.skid_valid
  <2>1. id'.valid /\ (id'.flush <=> id.skid_flush)
    <3>1. id'.flush <=> (id.skid_flush \/ PipeFlush(in))
      BY <1>8, DecodeFields DEF IInv
    <3> QED
      BY <1>8, <3>1, DecodeFields DEF IInv
  <2> QED
    BY <1>5, <1>6, <1>7, <1>8, <2>1
<1>9. CASE ~id.skid_valid
  <2>1. /\ id'.valid <=> FsInFire(in)
        /\ id'.flush <=> (FsInFire(in) /\ PipeFlush(in))
    BY <1>9, DecodeFields DEF IInv
  <2> QED
    BY <1>1, <1>5, <1>6, <1>7, <1>9, <2>1
<1> QED
  BY <1>8, <1>9

LEMMA ClockNearer ==
  ASSUME IInv, NEW in \in Inputs, NEW fetched \in Response(in), Clock(in, fetched),
         Distance > 0, exe'.allowin
  PROVE  Distance' = Distance - 1
<1>1. /\ FetchEdge(in, fetched) /\ DecodeEdge(in) /\ ExecuteEdge(in) /\ MemoryEdge(in)
  BY DEF Clock
<1>2. ~(mem.valid /\ ~mem.flush)
  BY DEF Distance
<1>3. CASE exe.valid /\ ~exe.flush
  <2>1. ~MulStall(in) /\ ~ExceptionFlag(in)
    BY <1>1, <1>2, QuietBackEnd, ExecuteFields
  <2>2. mem'.valid /\ mem'.flush = EsFlush(in)
    BY <1>1, <1>3, <2>1, StallFacts, MemoryFields
  <2>3. ~EsFlush(in)
    BY <1>3, <2>1, StallFacts
  <2>4. Distance' = 0
    BY <2>2, <2>3 DEF Distance
  <2>5. Distance = 1
    BY <1>2, <1>3 DEF Distance
  <2> QED
    BY <2>4, <2>5
<1>4. CASE ~(exe.valid /\ ~exe.flush)
  <2>1. ~PipeFlush(in) /\ DsCoreAllowin(in)
    BY <1>2, <1>4, QuietBackEnd
  <2>2. /\ ~(mem'.valid /\ ~mem'.flush)
        /\ (exe'.valid /\ ~exe'.flush) <=> (id.valid /\ ~id.flush)
    BY <1>1, <1>2, <1>4, QuietMoves
  <2>3. CASE id.valid /\ ~id.flush
    <3>1. Distance = 2
      BY <1>2, <1>4, <2>3 DEF Distance
    <3>2. Distance' = 1
      BY <2>2, <2>3 DEF Distance
    <3> QED
      BY <3>1, <3>2
  <2>4. CASE ~(id.valid /\ ~id.flush)
    <3>1. /\ id'.allowin /\ ~id'.skid_valid
          /\ (id'.valid /\ ~id'.flush) <=>
               \/ id.skid_valid /\ ~id.skid_flush
               \/ ~id.skid_valid /\ req_valid /\ id.allowin
          /\ req_valid' <=> (req_valid \/ if_active)
          /\ if_active'
      BY <1>1, <2>1, <2>4, QuietFetch
    <3>2. id.skid_valid => ~id.allowin
      BY DEF IInv, Handshake
    <3>3. Distance = IF id.skid_valid /\ ~id.skid_flush THEN 3
                     ELSE IF req_valid THEN (IF id.allowin THEN 3 ELSE 4)
                     ELSE IF if_active THEN 4 ELSE 5
      BY <1>2, <1>4, <2>4 DEF Distance
    <3>4. Distance' = IF id'.valid /\ ~id'.flush THEN 2
                      ELSE IF req_valid' THEN 3 ELSE 4
      BY <2>2, <2>4, <3>1 DEF Distance
    <3> QED
      BY <3>1, <3>2, <3>3, <3>4
  <2> QED
    BY <2>3, <2>4
<1> QED
  BY <1>3, <1>4

(* An instruction is never more than five edges from MEM, and every edge   *)
(* brings one nearer unless a multiplication or division stops EX, whose   *)
(* end MulDivProofs!StallCountsDown counts: no sequence of redirects,      *)
(* traps, hazards and stalls starves the program.                          *)
THEOREM NothingStarves ==
  Spec => [][Distance > 0 =>
               \/ Distance' = Distance - 1
               \/ /\ Distance = 1 /\ Distance' = 1
                  /\ exe.inst \in Multis /\ exe'.inst = exe.inst]_vars
<1> DEFINE Nearer == Distance > 0 =>
                       \/ Distance' = Distance - 1
                       \/ /\ Distance = 1 /\ Distance' = 1
                          /\ exe.inst \in Multis /\ exe'.inst = exe.inst
<1>1. ASSUME IInv, NEW in \in Inputs, NEW fetched \in Response(in), Clock(in, fetched),
             Distance > 0, ~exe'.allowin
      PROVE  /\ Distance = 1 /\ Distance' = 1
             /\ exe.inst \in Multis /\ exe'.inst = exe.inst
  <2>1. MulStall(in) /\ exe'.valid /\ exe'.inst = exe.inst /\ exe'.flush = exe.flush
    BY <1>1, ExecuteFields DEF Clock
  <2>2. exe.valid /\ ~exe.flush /\ exe.inst \in Multis /\ ~EsToMsValid(in)
    BY <1>1, <2>1, StallFacts
  <2>3. ~mem'.valid
    BY <1>1, <2>2, MemoryFields DEF Clock
  <2>4. ~(mem.valid /\ ~mem.flush)
    BY <1>1 DEF Distance
  <2>5. Distance = 1
    BY <2>2, <2>4 DEF Distance
  <2>6. Distance' = 1
    BY <2>1, <2>2, <2>3 DEF Distance
  <2> QED
    BY <2>1, <2>2, <2>5, <2>6
<1>2. IInv /\ [Next]_vars => [Nearer]_vars
  <2> SUFFICES ASSUME IInv, Next, Distance > 0
               PROVE  \/ Distance' = Distance - 1
                      \/ /\ Distance = 1 /\ Distance' = 1
                         /\ exe.inst \in Multis /\ exe'.inst = exe.inst
    OBVIOUS
  <2>1. PICK in \in Inputs : \E fetched \in Response(in) : Clock(in, fetched)
    BY DEF Next
  <2>2. PICK fetched \in Response(in) : Clock(in, fetched)
    BY <2>1
  <2> QED
    BY <1>1, <2>2, ClockNearer
<1> QED
  BY <1>2, Invariant, PTL DEF Spec
=============================================================================
