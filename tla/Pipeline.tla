------------------------------ MODULE Pipeline ------------------------------
(***************************************************************************)
(* Control of the five-stage pipeline: what each stage's valid, flush,     *)
(* allow-in and skid registers do on a clock edge, how EX redirects the    *)
(* front end and how the trap unit (regfile_csr) flushes the stages.       *)
(*                                                                         *)
(* Data is abstracted to the class of an instruction.  Whether operands    *)
(* collide, an interrupt is requested and enabled, and the multiplier or   *)
(* divider is done are inputs of the edge.  Every stage register keeps its *)
(* contents when its valid bit falls, and several consumers of those       *)
(* contents do not look at the valid bit: that is what the properties are  *)
(* about.                                                                  *)
(***************************************************************************)
EXTENDS Naturals, Sequences

CONSTANTS
  Inst,        (* what instruction memory can return                         *)
  NoInst,      (* the all-zero bus after reset                               *)
  Jumps,       (* branches and jumps whose outcome contradicts the predictor *)
  Traps,       (* ecall, ebreak: exception code set in ID                    *)
  Misaligned,  (* accesses and jumps whose address MEM finds misaligned      *)
  Mrets,       (* mret                                                       *)
  Multis,      (* multiplications and divisions                              *)
  Loads        (* loads: their result is not known in EX                     *)

ASSUME ClassAssumption ==
  /\ NoInst \notin Inst
  /\ Jumps \subseteq Inst
  /\ Traps \subseteq Inst
  /\ Misaligned \subseteq Inst
  /\ Mrets \subseteq Inst
  /\ Multis \subseteq Inst
  /\ Loads \subseteq Inst
  /\ Traps \cap Mrets = {}
  /\ Multis \cap (Jumps \cup Traps \cup Mrets) = {}
  /\ Loads \cap (Jumps \cup Traps \cup Mrets) = {}

VARIABLES
  if_active,         (* fetching has started                            *)
  req_valid,         (* a fetch is outstanding or waiting for ID        *)
  req,               (* the instruction it returns                      *)
  redirect_pending,  (* a redirect target waits to be fetched           *)
  id, exe, mem,      (* the registers of ID, EX and MEM                 *)
  wb,                (* the registers of WB                             *)
  prev_exception     (* a trap was taken since the last mret            *)

fetchVars == <<if_active, req_valid, req, redirect_pending>>
vars == <<if_active, req_valid, req, redirect_pending, id, exe, mem, wb, prev_exception>>

Bus == Inst \cup {NoInst}

Stage == [valid : BOOLEAN, inst : Bus, flush : BOOLEAN, allowin : BOOLEAN,
          skid_valid : BOOLEAN, skid : Bus, skid_flush : BOOLEAN]

Registers(v, i, f, a, sv, si, sf) ==
  [valid |-> v, inst |-> i, flush |-> f, allowin |-> a,
   skid_valid |-> sv, skid |-> si, skid_flush |-> sf]

ResetStage == Registers(FALSE, NoInst, FALSE, TRUE, FALSE, NoInst, FALSE)

(* What the rest of the chip contributes to one clock period. *)
Inputs == [irq : BOOLEAN, collide : BOOLEAN, mul_done : BOOLEAN]

Init ==
  /\ if_active = FALSE
  /\ req_valid = FALSE
  /\ req = NoInst
  /\ redirect_pending = FALSE
  /\ id = ResetStage
  /\ exe = ResetStage
  /\ mem = ResetStage
  /\ wb = [valid |-> FALSE, allowin |-> TRUE]
  /\ prev_exception = FALSE

-----------------------------------------------------------------------------
(* MEM and the trap unit: combinational signals.                           *)

MisalignedFault == mem.valid /\ ~mem.flush /\ mem.inst \in Misaligned

(* exc_code[5] comes straight from the exception bus register: mem.valid   *)
(* is not consulted.                                                       *)
SyncException == MisalignedFault \/ mem.inst \in Traps

TakeIrq(in) == mem.valid /\ ~mem.flush /\ ~SyncException /\ in.irq

TrapTaken(in) == ~mem.flush /\ (SyncException \/ TakeIrq(in))

MretFlag(in) ==
  /\ ~mem.flush
  /\ mem.inst \in Mrets
  /\ ~MisalignedFault
  /\ ~TakeIrq(in)

MretJump(in) == MretFlag(in) /\ prev_exception

ExceptionFlag(in) == TrapTaken(in) \/ MretJump(in)

MsCoreAllowin == ~mem.valid \/ wb.allowin

-----------------------------------------------------------------------------
(* EX: combinational signals.                                              *)

(* Mutant: EX is not flushed by the trap ahead of it. *)
EsFlushMissesTrap(in) == exe.flush

EsFlush(in) == exe.flush \/ ExceptionFlag(in)

MulStall(in) ==
  exe.valid /\ exe.inst \in Multis /\ ~EsFlush(in) /\ ~in.mul_done

EsReadyGo(in) == ~MulStall(in)

EsCoreAllowin(in) == ~exe.valid \/ (EsReadyGo(in) /\ mem.allowin)

(* Mutants: EX sends its instruction on while it stalls; flushed           *)
(* instructions are dropped in EX.                                         *)
EsToMsValidWhileStalled(in) == exe.valid
EsToMsValidDropsFlushed(in) == exe.valid /\ EsReadyGo(in) /\ ~EsFlush(in)

EsToMsValid(in) == exe.valid /\ EsReadyGo(in)

(* br_redirect: es_valid is not consulted. *)
BrRedirect(in) == ~EsFlush(in) /\ exe.inst \in Jumps

PipeFlush(in) == ExceptionFlag(in) \/ BrRedirect(in)

-----------------------------------------------------------------------------
(* ID and IF: combinational signals.                                       *)

(* Mutant: es_valid is forgotten, so a departed load still blocks ID. *)
LoadUseHazardOnLeftover(in) ==
  in.collide /\ id.valid /\ ~EsFlush(in) /\ (exe.inst \in Loads \/ MulStall(in))

(* load_use_hazard: ID needs a result that EX cannot forward yet. *)
LoadUseHazard(in) ==
  /\ in.collide
  /\ id.valid
  /\ exe.valid
  /\ ~EsFlush(in)
  /\ exe.inst \in Loads \/ MulStall(in)

DsReadyGo(in) == ~LoadUseHazard(in)

DsCoreAllowin(in) == ~id.valid \/ (DsReadyGo(in) /\ exe.allowin)

(* Mutant: flushed instructions are dropped in ID. *)
DsToEsValidDropsFlushed(in) ==
  id.valid /\ DsReadyGo(in) /\ ~PipeFlush(in) /\ ~id.flush

DsToEsValid(in) == id.valid /\ DsReadyGo(in)

DsFlush(in) == PipeFlush(in) \/ id.flush

ResponseFire(in) == req_valid /\ id.allowin /\ ~PipeFlush(in)

RequestFire(in) == if_active /\ ~PipeFlush(in) /\ (~req_valid \/ ResponseFire(in))

FsInFire(in) == req_valid /\ ~PipeFlush(in) /\ id.allowin

-----------------------------------------------------------------------------
(* The clock edge, stage by stage.                                         *)

(* Instruction memory answers a request with any instruction. *)
Response(in) == IF RequestFire(in) THEN Inst ELSE {req}

(* Mutant: the redirect cancels the fetch and is not remembered. *)
FetchEdgeForgetsRedirect(in, fetched) ==
  /\ if_active' = TRUE
  /\ redirect_pending' = (redirect_pending /\ ~RequestFire(in))
  /\ req_valid' =
       (~PipeFlush(in) /\ (RequestFire(in) \/ (req_valid /\ ~ResponseFire(in))))
  /\ req' = fetched

FetchEdge(in, fetched) ==
  /\ if_active' = TRUE
  /\ redirect_pending' =
       (PipeFlush(in) \/ (redirect_pending /\ ~RequestFire(in)))
  /\ req_valid' =
       (~PipeFlush(in) /\ (RequestFire(in) \/ (req_valid /\ ~ResponseFire(in))))
  /\ req' = fetched

(* Mutant: the refill from the skid register does not merge the flush. *)
IdAdvancesUnmarked(in) ==
  LET fire == FsInFire(in)
  IN  IF id.skid_valid
      THEN Registers(TRUE, id.skid, id.skid_flush, TRUE, FALSE, id.skid, id.skid_flush)
      ELSE Registers(fire, IF fire THEN req ELSE id.inst, fire /\ PipeFlush(in), TRUE,
                     FALSE, id.skid, id.skid_flush)

(* ID keeps flushed instructions in the pipeline, marked. *)
IdAdvances(in) ==
  LET fire == FsInFire(in)
  IN  IF id.skid_valid
      THEN Registers(TRUE, id.skid, id.skid_flush \/ PipeFlush(in), TRUE,
                     FALSE, id.skid, id.skid_flush)
      ELSE Registers(fire, IF fire THEN req ELSE id.inst, fire /\ PipeFlush(in), TRUE,
                     FALSE, id.skid, id.skid_flush)

(* Mutant: ID stops without closing its allow-in. *)
IdStopsStaysOpen(in) ==
  IF FsInFire(in)
  THEN Registers(id.valid, id.inst, id.flush \/ PipeFlush(in), TRUE,
                 TRUE, req, PipeFlush(in))
  ELSE Registers(id.valid, id.inst, id.flush \/ (PipeFlush(in) /\ id.valid), TRUE,
                 id.skid_valid, id.skid,
                 id.skid_flush \/ (PipeFlush(in) /\ id.skid_valid))

IdStops(in) ==
  IF FsInFire(in) /\ ~id.skid_valid
  THEN Registers(id.valid, id.inst, id.flush \/ PipeFlush(in), FALSE,
                 TRUE, req, PipeFlush(in))
  ELSE Registers(id.valid, id.inst, id.flush \/ (PipeFlush(in) /\ id.valid), FALSE,
                 id.skid_valid, id.skid,
                 id.skid_flush \/ (PipeFlush(in) /\ id.skid_valid))

DecodeEdge(in) == id' = IF DsCoreAllowin(in) THEN IdAdvances(in) ELSE IdStops(in)

(* The boundary register pair of EX and of MEM; a trap empties its skid. *)
StageAdvances(s, in_fire, inst, flush) ==
  IF s.skid_valid
  THEN Registers(TRUE, s.skid, s.skid_flush, TRUE, FALSE, s.skid, s.skid_flush)
  ELSE Registers(in_fire,
                 IF in_fire THEN inst ELSE s.inst,
                 IF in_fire THEN flush ELSE s.flush, TRUE,
                 FALSE, s.skid, s.skid_flush)

StageStops(s, in_fire, inst, flush, exception) ==
  IF in_fire /\ ~s.skid_valid
  THEN Registers(s.valid, s.inst, s.flush, FALSE, ~exception, inst, flush)
  ELSE Registers(s.valid, s.inst, s.flush, FALSE,
                 s.skid_valid /\ ~exception, s.skid, s.skid_flush)

StageEdge(s, core_allowin, in_fire, inst, flush, exception) ==
  IF core_allowin
  THEN StageAdvances(s, in_fire, inst, flush)
  ELSE StageStops(s, in_fire, inst, flush, exception)

ExecuteEdge(in) ==
  exe' = StageEdge(exe, EsCoreAllowin(in), DsToEsValid(in) /\ exe.allowin,
                   id.inst, DsFlush(in), ExceptionFlag(in))

MemoryEdge(in) ==
  mem' = StageEdge(mem, MsCoreAllowin, EsToMsValid(in) /\ mem.allowin,
                   exe.inst, EsFlush(in), ExceptionFlag(in))

(* Mutant: the valid bit is wired to the bus. *)
WriteBackMiswired ==
  wb' = IF wb.allowin THEN [valid |-> mem.inst, allowin |-> TRUE] ELSE wb

WriteBackEdge ==
  wb' = IF wb.allowin THEN [valid |-> mem.valid, allowin |-> TRUE] ELSE wb

TrapEdge(in) ==
  prev_exception' = (TrapTaken(in) \/ (prev_exception /\ ~MretFlag(in)))

Clock(in, fetched) ==
  /\ FetchEdge(in, fetched)
  /\ DecodeEdge(in)
  /\ ExecuteEdge(in)
  /\ MemoryEdge(in)
  /\ WriteBackEdge
  /\ TrapEdge(in)

Next == \E in \in Inputs : \E fetched \in Response(in) : Clock(in, fetched)

Spec == Init /\ [][Next]_vars

-----------------------------------------------------------------------------
(* Types of the pipeline registers. *)
TypeOK ==
  /\ if_active \in BOOLEAN
  /\ req_valid \in BOOLEAN
  /\ req \in Bus
  /\ redirect_pending \in BOOLEAN
  /\ id \in Stage
  /\ exe \in Stage
  /\ mem \in Stage
  /\ wb \in [valid : BOOLEAN, allowin : BOOLEAN]
  /\ prev_exception \in BOOLEAN

(* A redirect acts once: br_redirect ignores es_valid, yet it is never     *)
(* raised by the contents a departed jump left behind in the EX register.  *)
(* Otherwise the front end would be sent to the target forever.            *)
RedirectActsOnce ==
  \A in \in Inputs : BrRedirect(in) => exe.valid

(* A trap acts once: the exception code is not qualified by ms_valid, yet  *)
(* it never fires from a register whose instruction has left MEM, which    *)
(* would overwrite mepc and flush the handler's first instructions.        *)
TrapActsOnce ==
  \A in \in Inputs : ExceptionFlag(in) => mem.valid

(* A trap never coincides with an occupied EX skid register.  The edge     *)
(* that empties the skid into EX does not merge the flush of that period,  *)
(* so such an instruction would escape the trap.                           *)
NoTrapBehindSkid ==
  \A in \in Inputs : exe.skid_valid => ~ExceptionFlag(in)

(* Instructions in flight, oldest first, without the flushed ones. *)
Live(occupied, flush, inst, resolved) ==
  IF occupied /\ ~flush THEN <<[inst |-> inst, resolved |-> resolved]>> ELSE <<>>

FlightQueue ==
  Live(mem.valid, mem.flush, mem.inst, mem.inst \in Jumps)
  \o Live(exe.valid, exe.flush, exe.inst, FALSE)
  \o Live(exe.skid_valid, exe.skid_flush, exe.skid, FALSE)
  \o Live(id.valid, id.flush, id.inst, FALSE)
  \o Live(id.skid_valid, id.skid_flush, id.skid, FALSE)
  \o Live(req_valid, FALSE, req, FALSE)

Order == INSTANCE InOrder WITH
  q <- FlightQueue, exit <- mem.valid /\ ~mem.flush,
  in_handler <- prev_exception, SyncTraps <- Traps \cup Misaligned

(* The pipeline implements the in-order queue: an instruction leaves it    *)
(* from MEM only and is neither lost nor duplicated by stalls and skids,   *)
(* nothing younger than a wrongly predicted jump or a trap survives, and   *)
(* nothing older is discarded.                                             *)
InOrderSpec == Order!Spec

ExeBoundary == INSTANCE SkidBuffer WITH
  Payload <- Inst, None <- NoInst,
  valid <- exe.valid, main <- exe.inst, allowin_r <- exe.allowin,
  skid_valid <- exe.skid_valid, skid <- exe.skid

IdBoundary == INSTANCE SkidBuffer WITH
  Payload <- Inst, None <- NoInst,
  valid <- id.valid, main <- id.inst, allowin_r <- id.allowin,
  skid_valid <- id.skid_valid, skid <- id.skid

(* In the whole pipeline, with traps emptying skid registers and flushes   *)
(* marking instructions, the ID and EX boundaries still behave as the      *)
(* stand-alone skid buffer.                                                *)
BoundariesAreSkidBuffers == IdBoundary!Spec /\ ExeBoundary!Spec

(* Fetching never falls back to the reset address once it has started.     *)
NeverRestartsAtReset ==
  [][(req_valid \/ redirect_pending) => (req_valid \/ redirect_pending)']_vars
=============================================================================
