------------------------------ MODULE Operands ------------------------------
(***************************************************************************)
(* Where an instruction gets its source operand from.  ID chooses among    *)
(* the register file, the result being written back, and the results EX    *)
(* and MEM are computing in that period; EX uses the choice one period     *)
(* later or, when it was stopped, after a stay in its skid register.       *)
(*                                                                         *)
(* Both source operands follow the same rules; one is modelled.  A stage   *)
(* that holds no instruction is a Bubble: all uses of the destination and  *)
(* the result of EX, MEM and WB are qualified by the stage's valid bit.    *)
(* MEM and WB never stop (PipelineProofs!BackEndFlows).                    *)
(***************************************************************************)
EXTENDS Naturals

CONSTANTS
  Reg,      (* register numbers                              *)
  Zero,     (* x0                                            *)
  Value,
  Nil,      (* the value of x0                               *)
  Bubble,   (* the stage holds no instruction                *)
  Inst      (* what instruction memory can return            *)

(* "other": stores, branches and whatever writes no register. *)
Kind == {"alu", "load", "multi", "other"}

InDecode  == [inst : Inst, flush : BOOLEAN]
InExecute == [inst : Inst, flush : BOOLEAN, operand : Value]
InMemory  == [rd : Reg, wen : BOOLEAN, flush : BOOLEAN, value : Value]
InWrite   == [rd : Reg, value : Value]

ASSUME OperandAssumption ==
  /\ Zero \in Reg
  /\ Nil \in Value
  /\ Inst \subseteq [kind : Kind, rd : Reg, rs : Reg]
  /\ Bubble \notin InDecode \cup InExecute \cup InMemory \cup InWrite

VARIABLES
  regs,     (* the register file                               *)
  id,       (* the instruction in ID                           *)
  ex,       (* the instruction in EX with its operand          *)
  skid,     (* the one in EX's skid register                   *)
  allowin,  (* the registered allow-in of EX                   *)
  mem,      (* the instruction in MEM with its result          *)
  wb        (* the register write in WB                        *)

vars == <<regs, id, ex, skid, allowin, mem, wb>>

Init ==
  /\ regs = [r \in Reg |-> Nil]
  /\ id = Bubble
  /\ ex = Bubble
  /\ skid = Bubble
  /\ allowin = TRUE
  /\ mem = Bubble
  /\ wb = Bubble

-----------------------------------------------------------------------------
(* One clock period.  The inputs: trap and redirect; done, the multiplier  *)
(* or divider has finished; hit, the stack value buffer serves the load in *)
(* EX; result, what EX computes; loaded, what the load in EX will return.  *)
Inputs == [trap : BOOLEAN, redirect : BOOLEAN, done : BOOLEAN, hit : BOOLEAN,
           result : Value, loaded : Value]

Holds(kind) == ex # Bubble /\ ~ex.flush /\ ex.inst.kind = kind

(* A trap comes from an unflushed instruction in MEM (Pipeline!TrapActsOnce), *)
(* a redirect from an unflushed branch in EX, the other inputs from what EX   *)
(* holds; an input that nothing looks at is fixed.                            *)
Possible(in) ==
  /\ in.trap => mem # Bubble /\ ~mem.flush
  /\ in.redirect => Holds("other") /\ ~in.trap
  /\ in.done => Holds("multi")
  /\ in.hit => Holds("load")
  /\ in.loaded # Nil => Holds("load")

PipeFlush(in) == in.trap \/ in.redirect

Writes(inst) == inst.kind # "other"

(* EX holds an instruction that no flush has discarded. *)
InEffect(in) == ex # Bubble /\ ~ex.flush /\ ~in.trap

MulStall(in) == InEffect(in) /\ Holds("multi") /\ ~in.done

EsCoreAllowin(in) == ex = Bubble \/ ~MulStall(in)

ExeRegfileWen(in) == InEffect(in) /\ Writes(ex.inst)

(* EX has no result to forward in this period. *)
ForwardPending(in) == InEffect(in) /\ (Holds("load") \/ MulStall(in))

MemRegfileWen(in) == mem # Bubble /\ mem.wen /\ ~mem.flush /\ ~in.trap

(* ID's source collides with the destination of EX. *)
ExeRsHazard(in) ==
  id.inst.rs # Zero /\ ExeRegfileWen(in) /\ id.inst.rs = ex.inst.rd

(* The stack value buffer hands the loaded word to an ALU instruction. *)
StackLw(in) ==
  /\ ExeRsHazard(in)
  /\ Holds("load") /\ in.hit
  /\ id.inst.kind = "alu" /\ ~id.flush /\ ~PipeFlush(in)

(* Mutant: a load is forwarded from EX like any other result. *)
LoadUseHazardIgnoresLoads(in) == MulStall(in) /\ ExeRsHazard(in)

LoadUseHazard(in) == ForwardPending(in) /\ ExeRsHazard(in) /\ ~StackLw(in)

DsToEsValid(in) == id # Bubble /\ ~LoadUseHazard(in)

EsInFire(in) == DsToEsValid(in) /\ allowin

-----------------------------------------------------------------------------
(* What ID reads: the register file with the write of this period. *)
Src(r) ==
  CASE r = Zero                                   -> Nil
    [] r # Zero /\ wb # Bubble /\ wb.rd = r       -> wb.value
    [] r # Zero /\ ~(wb # Bubble /\ wb.rd = r)    -> regs[r]

(* Mutant: MEM is preferred to the younger EX. *)
OperandPrefersMem(in) ==
  CASE MemRegfileWen(in) /\ id.inst.rs # Zero /\ mem.rd = id.inst.rs -> mem.value
    [] OTHER -> IF StackLw(in) THEN in.loaded
                ELSE IF ExeRsHazard(in) THEN in.result
                ELSE Src(id.inst.rs)

(* The operand as EX will see it.  The source carries a code and the three *)
(* candidates into EX and selects there; all are registered at one edge.   *)
Operand(in) ==
  CASE StackLw(in) -> in.loaded
    [] ~StackLw(in) /\ ExeRsHazard(in) -> in.result
    [] ~ExeRsHazard(in) ->
         IF MemRegfileWen(in) /\ id.inst.rs # Zero /\ mem.rd = id.inst.rs
         THEN mem.value
         ELSE Src(id.inst.rs)

ToExecute(in) ==
  [inst |-> id.inst, flush |-> id.flush \/ PipeFlush(in), operand |-> Operand(in)]

(* MEM's result: the loaded word, or what EX computed. *)
ToMemory(in) ==
  [rd |-> ex.inst.rd, wen |-> Writes(ex.inst), flush |-> ex.flush \/ in.trap,
   value |-> IF ex.inst.kind = "load" THEN in.loaded ELSE in.result]

-----------------------------------------------------------------------------
(* The clock edge. *)

(* What IF may hand to ID: in a period with a flush nothing that lives. *)
Offers(in) ==
  {Bubble} \cup [inst : Inst, flush : IF PipeFlush(in) THEN {TRUE} ELSE BOOLEAN]

DecodeEdge(in, next) ==
  id' = IF id = Bubble \/ EsInFire(in) THEN next
        ELSE [id EXCEPT !.flush = id.flush \/ PipeFlush(in)]

ExecuteAdvances(in) ==
  /\ EsCoreAllowin(in)
  /\ ex' = CASE skid # Bubble -> skid
             [] skid = Bubble /\ EsInFire(in) -> ToExecute(in)
             [] skid = Bubble /\ ~EsInFire(in) -> Bubble
  /\ skid' = Bubble
  /\ allowin' = TRUE

ExecuteStops(in) ==
  /\ ~EsCoreAllowin(in)
  /\ ex' = ex
  /\ skid' = CASE in.trap -> Bubble
               [] ~in.trap /\ EsInFire(in) /\ skid = Bubble -> ToExecute(in)
               [] OTHER -> skid
  /\ allowin' = FALSE

MemoryEdge(in) ==
  mem' = IF ex # Bubble /\ ~MulStall(in) THEN ToMemory(in) ELSE Bubble

(* Mutant: a trap does not stop the write of the trapping instruction's    *)
(* flushed successors.                                                     *)
WriteBackFlushed(in) ==
  wb' = IF mem # Bubble /\ mem.wen /\ ~in.trap
        THEN [rd |-> mem.rd, value |-> mem.value] ELSE Bubble

WriteBackEdge(in) ==
  wb' = IF MemRegfileWen(in) THEN [rd |-> mem.rd, value |-> mem.value] ELSE Bubble

(* Mutant: x0 is written like any other register. *)
RegfileWritesZero ==
  regs' = IF wb # Bubble THEN [regs EXCEPT ![wb.rd] = wb.value] ELSE regs

RegfileEdge ==
  regs' = IF wb # Bubble /\ wb.rd # Zero
          THEN [regs EXCEPT ![wb.rd] = wb.value] ELSE regs

Clock(in, next) ==
  /\ Possible(in)
  /\ DecodeEdge(in, next)
  /\ ExecuteAdvances(in) \/ ExecuteStops(in)
  /\ MemoryEdge(in)
  /\ WriteBackEdge(in)
  /\ RegfileEdge

Next == \E in \in Inputs : \E next \in Offers(in) : Clock(in, next)

Spec == Init /\ [][Next]_vars

-----------------------------------------------------------------------------
(* Types of the stage registers; x0 is zero. *)
TypeOK ==
  /\ regs \in [Reg -> Value]
  /\ regs[Zero] = Nil
  /\ id \in InDecode \cup {Bubble}
  /\ ex \in InExecute \cup {Bubble}
  /\ skid \in InExecute \cup {Bubble}
  /\ allowin \in BOOLEAN
  /\ mem \in InMemory \cup {Bubble}
  /\ wb \in InWrite \cup {Bubble}

(* A register as the instructions up to and including WB have left it. *)
Committed(r) == Src(r)

(* A register as the instructions up to and including MEM have left it. *)
Newest(r) ==
  IF r # Zero /\ mem # Bubble /\ mem.wen /\ ~mem.flush /\ mem.rd = r
  THEN mem.value ELSE Committed(r)

(* An instruction in EX works with the value its source register has in    *)
(* program order: that of the youngest older instruction that writes it    *)
(* and takes effect, however long either was stopped, forwarded or kept in *)
(* the skid register.                                                      *)
ReadsNewest ==
  ex # Bubble /\ ~ex.flush => ex.operand = Newest(ex.inst.rs)

Discarded(s) == s # Bubble => s.flush

(* Registers change by what MEM holds and nothing else; and if MEM's       *)
(* instruction does not take effect, because it trapped, then nothing      *)
(* younger does: all that is in flight after that edge is flushed.         *)
CommitsOrTraps ==
  [][LET live == mem # Bubble /\ ~mem.flush
     IN  \/ \A r \in Reg : Committed(r)' = Newest(r)
         \/ /\ live
            /\ \A r \in Reg : Committed(r)' = Committed(r)
            /\ Discarded(id') /\ Discarded(ex') /\ Discarded(skid')
            /\ Discarded(mem')]_vars
=============================================================================
