------------------------------ MODULE CoreList ------------------------------
(***************************************************************************)
(* core_list_join.c: the linked-list kernel of CoreMark.  The list lives   *)
(* in an array of cells and an array of data items; every operation works  *)
(* in place on the pointers next and info.  The list is searched and       *)
(* reversed, sorted by values that calc_func computes with the other two   *)
(* kernels, loses an item and gets it back, and is sorted by idx again.    *)
(*                                                                         *)
(* One action is one turn of a loop or one straight piece of code between  *)
(* two loops; pc names the place, back the place behind a running sort.    *)
(***************************************************************************)
EXTENDS CoreState, CoreMatrix

CONSTANTS
  BitOr(_, _),
  Null

ASSUME NullAssumption == Null \notin Nat

VARIABLES
  run,        \* [seed1, seed2, seed3, size]: the inputs in core_results
  next, info, \* cell -> cell or Null; cell -> data item
  idx, data,  \* data item -> list_data
  mem, A, B,  \* the blocks of the state and the matrix kernel
  crc, crcstate, crcmatrix,
  list,       \* the head that the running function holds
  free, i,    \* the first unused cell, and the counter of the running loop
  bench,      \* the other locals of core_bench_list
  sort,       \* the locals of core_list_mergesort
  pc, back

heap   == <<next, info, idx, data>>
loop   == <<free, i>>
blocks == <<mem, A, B>>
sums   == <<crc, crcstate, crcmatrix>>

\* core_list_init reserves 16 + 4 bytes an item, for systems with 64-bit pointers.
ListSize == run.size \div 20 - 2
Cell     == 0..ListSize - 1

\* The cells from c on, in list order.
Chain(c) ==
  LET from[d \in Cell \cup {Null}] == IF d = Null THEN <<>> ELSE <<d>> \o from[next[d]]
  IN  from[c]

-----------------------------------------------------------------------------
(* calc_func and the two comparisons.  w is what they can change: the data *)
(* items, the other kernels' blocks and the CRCs.                          *)

Work == [data |-> data, mem |-> mem, A |-> A,
         crc |-> crc, crcstate |-> crcstate, crcmatrix |-> crcmatrix]

Period(dtype) == IF dtype < 34 THEN 34 ELSE dtype

Cached(value) == Bit(value, 7) = 1

\* The bits 3 to 6.
Nibble(value) ==
  LET b(k, weight) == IF Bit(value, k) = 1 THEN weight ELSE 0
  IN  b(3, 1) + b(4, 2) + b(5, 4) + b(6, 8)

AfterState(w, state) == [w EXCEPT !.mem = state.mem, !.crc = state.crc,
                                  !.crcstate = IF @ = 0 THEN state.crc ELSE @]

AfterMatrix(w, mat) == [w EXCEPT !.A = mat.A, !.crc = mat.crc,
                                 !.crcmatrix = IF @ = 0 THEN mat.crc ELSE @]

\* The operation that the low byte of an item asks for.
Compute(value, w) ==
  LET dtype == 17 * Nibble(value)
      flag  == value % 8
  IN  CASE flag = 0 ->
             AfterState(w, BenchState(w.mem, run.seed1, run.seed2, Period(dtype), w.crc))
        [] flag = 1 ->
             AfterMatrix(w, BenchMatrix(Dimension(run.size), w.A, B, dtype, w.crc))
        [] OTHER    -> [w EXCEPT !.crc = value]

\* The result is cached in item d and joins the CRC; v has computed it from w.
Cache(d, w, v) ==
  [v EXCEPT !.data[d] = 256 * (@ \div 256) + 128 + (v.crc % 128),
            !.crc = Crcu16(v.crc, w.crc)]

CalcFunc(d, w) == IF Cached(w.data[d]) THEN w ELSE Cache(d, w, Compute(w.data[d], w))

\* Mutant: the cached results survive the sort by idx.
RegenerateNot(d, w) == w

Regenerate(d, w) ==
  [w EXCEPT !.data[d] = 256 * (@ \div 256) + @ \div 256]

Ranked(a, b, w) == [w |-> w, leq |-> w.data[a] % 128 <= w.data[b] % 128]

\* Both comparisons, as "the first item does not come behind the second".
Compare(cmp, a, b, w) ==
  IF cmp = "complex" THEN Ranked(a, b, CalcFunc(b, CalcFunc(a, w)))
  ELSE [w |-> Regenerate(b, Regenerate(a, w)), leq |-> idx[a] <= idx[b]]

Apply(w) ==
  /\ data' = w.data /\ mem' = w.mem /\ A' = w.A
  /\ crc' = w.crc /\ crcstate' = w.crcstate /\ crcmatrix' = w.crcmatrix

-----------------------------------------------------------------------------
(* core_list_mergesort: bottom-up, in passes that merge runs of insize.    *)

SortFrom(head, cmp) ==
  [cmp |-> cmp, head |-> Null, p |-> head, q |-> Null, tail |-> Null,
   insize |-> 1, nmerges |-> 0, psize |-> 0, qsize |-> 0]

CallSort(head, cmp, return) ==
  /\ sort' = SortFrom(head, cmp)
  /\ pc' = "split"
  /\ back' = return

\* q steps insize places along from p, or off the end.
Split ==
  /\ pc = "split" /\ sort.p # Null
  /\ LET step[k \in Nat] ==
           IF k = 0 THEN sort.p
           ELSE LET q == step[k - 1] IN IF q = Null THEN Null ELSE next[q]
         psize == CHOOSE k \in 1..sort.insize :
                    /\ k = sort.insize \/ step[k] = Null
                    /\ \A j \in 1..k - 1 : step[j] # Null
     IN  sort' = [sort EXCEPT !.nmerges = @ + 1, !.psize = psize,
                              !.q = step[psize], !.qsize = sort.insize]
  /\ pc' = "merge"
  /\ UNCHANGED <<run, heap, blocks, sums, list, loop, bench, back>>

PEmpty == sort.psize = 0
QEmpty == sort.qsize = 0 \/ sort.q = Null

\* Cell e is linked behind the merged cells.
Linked(e) == [sort EXCEPT !.head = IF sort.tail = Null THEN e ELSE @, !.tail = e]

Link(e) == next' = IF sort.tail = Null THEN next ELSE [next EXCEPT ![sort.tail] = e]

TakeP == /\ Link(sort.p)
         /\ sort' = [Linked(sort.p) EXCEPT !.p = next[sort.p], !.psize = @ - 1]

TakeQ == /\ Link(sort.q)
         /\ sort' = [Linked(sort.q) EXCEPT !.q = next[sort.q], !.qsize = @ - 1]

Take(verdict) ==
  /\ IF verdict.leq THEN TakeP ELSE TakeQ
  /\ Apply(verdict.w)

Merge ==
  /\ pc = "merge"
  /\ \/ PEmpty /\ ~QEmpty /\ TakeQ /\ Apply(Work)
     \/ QEmpty /\ ~PEmpty /\ TakeP /\ Apply(Work)
     \/ ~PEmpty /\ ~QEmpty /\ Take(Compare(sort.cmp, info[sort.p], info[sort.q], Work))
  /\ UNCHANGED <<run, info, idx, B, list, loop, bench, pc, back>>

Merged ==
  /\ pc = "merge" /\ PEmpty /\ QEmpty
  /\ sort' = [sort EXCEPT !.p = sort.q]
  /\ pc' = "split"
  /\ UNCHANGED <<run, heap, blocks, sums, list, loop, bench, back>>

\* Mutant: the runs stay as short as they are.
EndPassSameSize ==
  /\ pc = "split" /\ sort.p = Null
  /\ next' = [next EXCEPT ![sort.tail] = Null]
  /\ IF sort.nmerges <= 1
     THEN list' = sort.head /\ pc' = back /\ UNCHANGED sort
     ELSE /\ sort' = [SortFrom(sort.head, sort.cmp) EXCEPT !.insize = sort.insize]
          /\ UNCHANGED <<list, pc>>
  /\ UNCHANGED <<run, info, idx, data, blocks, sums, loop, bench, back>>

EndPass ==
  /\ pc = "split" /\ sort.p = Null
  /\ next' = [next EXCEPT ![sort.tail] = Null]
  /\ IF sort.nmerges <= 1
     THEN list' = sort.head /\ pc' = back /\ UNCHANGED sort
     ELSE /\ sort' = [SortFrom(sort.head, sort.cmp) EXCEPT !.insize = 2 * sort.insize]
          /\ UNCHANGED <<list, pc>>
  /\ UNCHANGED <<run, info, idx, data, blocks, sums, loop, bench, back>>

Sort == Split \/ Merge \/ Merged \/ EndPass

-----------------------------------------------------------------------------
(* core_list_init: the head is cell 0, every new cell goes behind it (the  *)
(* tail first), and the items get an idx in list order.                    *)

\* Every item is inserted with the idx of the tail.
ListItem ==
  [idx  |-> 32767,
   data |-> IF i = 0 THEN 65535
            ELSE 257 * (8 * (BitXor(run.seed1, i - 1) % 16) + ((i - 1) % 8))]

\* core_list_insert_new, which does nothing once the pool is used up.  The
\* cell and the data item it takes have the same number.
Insert ==
  /\ pc = "insert" /\ i <= ListSize
  /\ i' = i + 1
  /\ IF free + 1 >= ListSize THEN UNCHANGED <<heap, free>>
     ELSE /\ next' = [next EXCEPT ![free] = next[0], ![0] = free]
          /\ info' = [info EXCEPT ![free] = free]
          /\ data' = [data EXCEPT ![free] = ListItem.data]
          /\ idx'  = [idx EXCEPT ![free] = ListItem.idx]
          /\ free' = free + 1
  /\ UNCHANGED <<run, blocks, sums, list, bench, sort, pc, back>>

\* The idx of the k-th item behind the head, in a list of this size: in
\* sequence for the first fifth.
InitialIdx(k, size, seed) ==
  IF k < size \div 5 THEN k
  ELSE BitOr(256 * ((k + 1) % 8), BitXor(k, seed)) % 2^14

Index ==
  /\ pc = "insert" /\ i > ListSize
  /\ LET order    == Chain(list)
         items    == {info[order[k]] : k \in 2..Len(order) - 1}
         place(d) == CHOOSE k \in 1..Len(order) : info[order[k]] = d
     IN  idx' = [d \in Cell |-> IF d \in items
                                THEN InitialIdx(place(d) - 1, ListSize, run.seed1) ELSE idx[d]]
  /\ CallSort(list, "idx", "ready")
  /\ UNCHANGED <<run, next, info, data, blocks, sums, list, loop, bench>>

-----------------------------------------------------------------------------
(* core_bench_list.                                                        *)

CallBench(head, finder) ==
  /\ list' = head
  /\ i' = 0
  /\ bench' = [finder |-> finder, wanted |-> finder, found |-> 0, missed |-> 0,
               retval |-> 0, hit |-> Null, rev |-> Null, removed |-> Null]
  /\ pc' = "search"

\* core_list_find: by idx, or by the low byte of the data if idx is negative.
Find(wanted, byte) ==
  LET hit(c) == IF wanted >= 0 THEN idx[info[c]] = wanted ELSE data[info[c]] % 256 = byte
      from[d \in Cell \cup {Null}] ==
        IF d = Null THEN Null ELSE IF hit(d) THEN d ELSE from[next[d]]
  IN  from[list]

Search ==
  /\ pc = "search" /\ i < run.seed3
  /\ bench' = [bench EXCEPT !.hit = Find(bench.wanted, i % 256), !.rev = Null]
  /\ pc' = "reverse"
  /\ UNCHANGED <<run, heap, blocks, sums, list, loop, sort, back>>

\* Mutant: the successor is read after it has been overwritten.
ReverseReadsLate ==
  /\ pc = "reverse"
  /\ IF list = Null
     THEN /\ list' = bench.rev /\ pc' = "move"
          /\ UNCHANGED <<next, bench>>
     ELSE /\ next' = [next EXCEPT ![list] = bench.rev]
          /\ bench' = [bench EXCEPT !.rev = list]
          /\ list' = next'[list]
          /\ UNCHANGED pc
  /\ UNCHANGED <<run, info, idx, data, blocks, sums, loop, sort, back>>

\* One turn of core_list_reverse, and its return.
Reverse ==
  /\ pc = "reverse"
  /\ IF list = Null
     THEN /\ list' = bench.rev /\ pc' = "move"
          /\ UNCHANGED <<next, bench>>
     ELSE /\ next' = [next EXCEPT ![list] = bench.rev]
          /\ bench' = [bench EXCEPT !.rev = list]
          /\ list' = next[list]
          /\ UNCHANGED pc
  /\ UNCHANGED <<run, info, idx, data, blocks, sums, loop, sort, back>>

\* Behind the reversal the item behind the hit moves to the second place.
Move ==
  /\ pc = "move"
  /\ LET hit   == bench.hit
         moved == next[hit]
         word  == data[info[hit]]
         seen  == IF hit = Null THEN Bit(data[info[next[list]]], 8)
                  ELSE IF word % 2 = 1 THEN Bit(word, 9) ELSE 0
     IN  /\ bench' = [bench EXCEPT !.retval = (@ + seen) % 2^16,
                                   !.found  = IF hit = Null THEN @ ELSE @ + 1,
                                   !.missed = IF hit = Null THEN @ + 1 ELSE @,
                                   !.wanted = IF @ >= 0 THEN @ + 1 ELSE @]
         /\ next' = IF hit = Null \/ moved = Null THEN next
                    ELSE LET n == [next EXCEPT ![hit] = next[moved]]
                         IN  [n EXCEPT ![moved] = n[list], ![list] = moved]
  /\ i' = i + 1
  /\ pc' = "search"
  /\ UNCHANGED <<run, info, idx, data, blocks, sums, list, free, sort, back>>

Found ==
  /\ pc = "search" /\ i = run.seed3
  /\ bench' = [bench EXCEPT !.retval = (@ + 4 * bench.found - bench.missed) % 2^16]
  /\ IF bench.finder > 0 THEN CallSort(list, "complex", "remove")
     ELSE pc' = "remove" /\ UNCHANGED <<sort, back>>
  /\ UNCHANGED <<run, heap, blocks, sums, list, loop>>

\* core_list_remove of the second cell: its successor is unlinked after the
\* two have exchanged their data items.
Remove ==
  /\ pc = "remove"
  /\ LET item == next[list]
         ret  == next[item]
     IN  /\ info' = [info EXCEPT ![item] = info[ret], ![ret] = info[item]]
         /\ next' = [next EXCEPT ![item] = next[ret], ![ret] = Null]
         /\ bench' = [bench EXCEPT !.removed = ret]
  /\ pc' = "undo"
  /\ UNCHANGED <<run, idx, data, blocks, sums, list, loop, sort, back>>

\* The CRC of the head's data, once for every cell from c on.
Checksum(c, retval) ==
  LET after[k \in 0..Len(Chain(c))] ==
        IF k = 0 THEN retval ELSE Crcu16(data[info[list]], after[k - 1])
  IN  after[Len(Chain(c))]

\* The byte of the last search, 0 if there was none.
LastByte == IF run.seed3 = 0 THEN 0 ELSE (run.seed3 - 1) % 256

\* Mutant: the two cells do not get their own data items back.
UndoRemoveLinkOnly ==
  /\ pc = "undo"
  /\ LET hit  == Find(bench.wanted, LastByte)
         from == IF hit = Null THEN next[list] ELSE hit
         item == next[list]
     IN  /\ next' = [next EXCEPT ![bench.removed] = next[item], ![item] = bench.removed]
         /\ bench' = [bench EXCEPT !.retval = Checksum(from, @), !.removed = Null]
  /\ CallSort(list, "idx", "finish")
  /\ UNCHANGED <<run, info, idx, data, blocks, sums, list, loop>>

\* The checksum from the wanted item on, and core_list_undo_remove.
UndoRemove ==
  /\ pc = "undo"
  /\ LET hit  == Find(bench.wanted, LastByte)
         from == IF hit = Null THEN next[list] ELSE hit
         item == next[list]
         ret  == bench.removed
     IN  /\ info' = [info EXCEPT ![item] = info[ret], ![ret] = info[item]]
         /\ next' = [next EXCEPT ![ret] = next[item], ![item] = ret]
         /\ bench' = [bench EXCEPT !.retval = Checksum(from, @), !.removed = Null]
  /\ CallSort(list, "idx", "finish")
  /\ UNCHANGED <<run, idx, data, blocks, sums, list, loop>>

Finish ==
  /\ pc = "finish"
  /\ bench' = [bench EXCEPT !.retval = Checksum(next[list], @)]
  /\ pc' = "returned"
  /\ UNCHANGED <<run, heap, blocks, sums, list, loop, sort, back>>

BenchList == Search \/ Reverse \/ Move \/ Found \/ Remove \/ UndoRemove \/ Finish
=============================================================================
