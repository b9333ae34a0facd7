---------------------------- MODULE StackBuffer -----------------------------
(***************************************************************************)
(* The stack value buffer with the ID query, the EX store snoop and the    *)
(* data memory behind it.                                                  *)
(*                                                                         *)
(* A load whose word is buffered may be followed without a bubble by an    *)
(* ALU instruction that uses it: ID looks the word up (query), the hit bit *)
(* travels with the load into EX, and at the edge where the load leaves EX *)
(* the row is copied (capture) for its successor.  The same edge puts the  *)
(* word of memory in the response register, from where MEM writes it back. *)
(*                                                                         *)
(* MEM always takes what EX offers (PipelineProofs!BackEndFlows), so a     *)
(* memory access spends one period in EX, and the write to memory and the  *)
(* snoop happen at the same edge.                                          *)
(***************************************************************************)
EXTENDS Naturals

CONSTANTS
  Cell,         (* words of the data memory                                 *)
  Row,          (* Row[c]: the buffer row a word falls into                 *)
  Value,
  Window,       (* address windows the bridge maps to the data memory       *)
  StackWindow,  (* the one the buffer serves: 0x8010_0000 - 0x8013_ffff     *)
  NoAccess,     (* EX holds no memory access: a bubble or another class     *)
  NoValue       (* nothing was captured                                     *)

Rows == {Row[c] : c \in Cell}
Line == [valid : BOOLEAN, cell : Cell, data : Value]

(* "part" stands for sb and sh, "lw" for a load into a register other than *)
(* x0: nothing is forwarded from the others.  sp: the base is sp or s0.     *)
Access == [op : {"lw", "sw", "part"}, cell : Cell, window : Window,
           sp : BOOLEAN, aligned : BOOLEAN]

ASSUME StackAssumption ==
  /\ NoAccess \notin Access
  /\ NoValue \notin Value
  /\ StackWindow \in Window

VARIABLES
  ram,        (* the data memory                                           *)
  line,       (* the buffer: valid_array, tag_array, data_array            *)
  ex,         (* the access in EX                                          *)
  load_hit,   (* its registered stack_load_hit                             *)
  captured,   (* the captured word, for the instruction behind the load    *)
  rdata       (* the response register of the data memory                  *)

vars == <<ram, line, ex, load_hit, captured, rdata>>

Init ==
  /\ ram \in [Cell -> Value]
  /\ line \in [Rows -> Line]    (* only the valid bits are reset *)
  /\ \A r \in Rows : ~line[r].valid /\ Row[line[r].cell] = r
  /\ ex = NoAccess
  /\ load_hit = FALSE
  /\ captured = NoValue
  /\ rdata \in Value

-----------------------------------------------------------------------------
(* EX.  es_flush: a trap discards the access in EX.                        *)

IsStore(a) == a # NoAccess /\ a.op \in {"sw", "part"}
IsLoad(a) == a # NoAccess /\ a.op = "lw"

StoreAccepted(es_flush) == IsStore(ex) /\ ~es_flush

(* Mutant: a partial store in EX does not block the lookup. *)
ExeStoreNeverPending(es_flush) == FALSE

(* exe_store_pending: a partial store *)
ExeStorePending(es_flush) == StoreAccepted(es_flush) /\ ex.op = "part"

StackStoreValid(es_flush) == StoreAccepted(es_flush) /\ ex.window = StackWindow

StackStoreAllocate(es_flush) ==
  StackStoreValid(es_flush) /\ ex.op = "sw" /\ ex.sp /\ ex.aligned

Holds(c) == line[Row[c]].valid /\ line[Row[c]].cell = c

ExeStackLwHit(es_flush) == IsLoad(ex) /\ load_hit /\ ~es_flush

-----------------------------------------------------------------------------
(* ID.  base_ready: no older instruction still has to write the base.      *)

StackQueryValid(next, base_ready, es_flush) ==
  /\ IsLoad(next)
  /\ next.sp
  /\ base_ready
  /\ ~ExeStorePending(es_flush)
  /\ next.window = StackWindow
  /\ next.aligned

StackLoadHit(next, base_ready, es_flush) ==
  StackQueryValid(next, base_ready, es_flush) /\ Holds(next.cell)

-----------------------------------------------------------------------------
(* The clock edge. *)

(* A store's word after the edge; a partial store may change any part. *)
MemoryEdge(es_flush, word) ==
  /\ ram' = IF StoreAccepted(es_flush) THEN [ram EXCEPT ![ex.cell] = word] ELSE ram
  /\ rdata' = IF IsLoad(ex) /\ ~es_flush THEN ram[ex.cell] ELSE rdata

Filled(es_flush) ==
  /\ StackStoreValid(es_flush)
  /\ ex.op = "sw"
  /\ StackStoreAllocate(es_flush) \/ Holds(ex.cell)

(* Mutant: a partial store leaves the row as it is. *)
NeverInvalidated(es_flush) == FALSE

Invalidated(es_flush) ==
  StackStoreValid(es_flush) /\ ex.op = "part" /\ Holds(ex.cell)

SnoopEdge(es_flush, word) ==
  line' =
    CASE Filled(es_flush) ->
           [line EXCEPT ![Row[ex.cell]] = [valid |-> TRUE, cell |-> ex.cell, data |-> word]]
      [] Invalidated(es_flush) ->
           [line EXCEPT ![Row[ex.cell]].valid = FALSE]
      [] OTHER -> line

(* Mutant: the address is captured instead of the data. *)
CaptureAddress(es_flush) ==
  captured' = IF ExeStackLwHit(es_flush) THEN ex.cell ELSE NoValue

(* The row is copied without looking at its valid bit and tag again. *)
CaptureEdge(es_flush) ==
  captured' = IF ExeStackLwHit(es_flush) THEN line[Row[ex.cell]].data ELSE NoValue

DecodeEdge(next, base_ready, es_flush) ==
  /\ ex' = IF es_flush THEN NoAccess ELSE next
  /\ load_hit' = (~es_flush /\ StackLoadHit(next, base_ready, es_flush))

Clock(next, base_ready, es_flush, word) ==
  /\ MemoryEdge(es_flush, word)
  /\ SnoopEdge(es_flush, word)
  /\ CaptureEdge(es_flush)
  /\ DecodeEdge(next, base_ready, es_flush)

Next ==
  \E next \in Access \cup {NoAccess}, base_ready, es_flush \in BOOLEAN, word \in Value :
    Clock(next, base_ready, es_flush, word)

Spec == Init /\ [][Next]_vars

-----------------------------------------------------------------------------
(* Types of memory, buffer and the pipeline registers around them. *)
TypeOK ==
  /\ ram \in [Cell -> Value]
  /\ line \in [Rows -> Line]
  /\ ex \in Access \cup {NoAccess}
  /\ load_hit \in BOOLEAN
  /\ captured \in Value \cup {NoValue}
  /\ rdata \in Value

(* A buffered word equals memory, through any sequence of full, partial,   *)
(* misaligned, flushed and non-stack-based stores and row replacements.    *)
Coherent ==
  \A r \in Rows : line[r].valid =>
    /\ Row[line[r].cell] = r
    /\ line[r].data = ram[line[r].cell]

(* The store in EX gives its row to another word than the load behind it   *)
(* has found there.                                                        *)
Evicts(es_flush, c) ==
  StackStoreAllocate(es_flush) /\ ex.cell # c /\ Row[ex.cell] = Row[c]

(* The hit bit is still true when it is used, one period after the lookup: *)
(* the word is buffered with the value the load returns, unless the store  *)
(* ahead of the load took the row.                                         *)
HitSurvivesUnlessEvicted ==
  [][(IsLoad(ex') /\ load_hit') =>
       \/ Evicts(FALSE, ex'.cell)
       \/ line'[Row[ex'.cell]] =
            [valid |-> TRUE, cell |-> ex'.cell, data |-> ram'[ex'.cell]]]_vars

(* The word handed to the instruction behind a load is the word the load   *)
(* itself returns.                                                         *)
ForwardsLoadedValue == captured # NoValue => captured = rdata
=============================================================================
