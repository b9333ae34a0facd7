------------------------------ MODULE CoreMark ------------------------------
(***************************************************************************)
(* core_main.c, the benchmark proper: the inputs, the data of the three    *)
(* kernels, the iterations, and the comparison of the CRCs with the values *)
(* known for five sets of inputs.  The number of iterations is given, not  *)
(* found by timing trial runs, and the measured time is left open.          *)
(***************************************************************************)
EXTENDS CoreList, FiniteSets

CONSTANTS
  Builds,     \* the records [seed1, seed2, seed3, total] of the builds to run
  Iterations

ASSUME IterationsAssumption == Iterations \in Nat \ {0}
ASSUME BuildsAssumption ==
  \A b \in Builds :
    /\ b.total \in Nat
    /\ \A s \in {b.seed1, b.seed2, b.seed3} : s \in Nat /\ s < 32768

VARIABLES
  res,  \* [list, crclist]: the rest of core_results
  done, \* the iterations that are over
  err,  \* [total, short]: total_errors, and whether the run took under 10 s
  orig  \* a history variable: the data after the initialization

coreVars == <<run, next, info, idx, data, mem, A, B, crc, crcstate, crcmatrix,
              list, free, i, bench, sort, pc, back>>
vars == <<coreVars, res, done, err, orig>>

\* Two defaults stand for the runs they are named after.
Seeds(b) ==
  LET all == [seed1 |-> b.seed1, seed2 |-> b.seed2, seed3 |-> b.seed3]
  IN  CASE all = [seed1 |-> 0, seed2 |-> 0, seed3 |-> 0] -> [all EXCEPT !.seed3 = 102]
        [] all = [seed1 |-> 1, seed2 |-> 0, seed3 |-> 0] ->
             [seed1 |-> 13333, seed2 |-> 13333, seed3 |-> 102]
        [] OTHER -> all

\* All three algorithms run, each with a third of the memory.
Inputs(b) == LET s == Seeds(b)
             IN  [seed1 |-> s.seed1, seed2 |-> s.seed2, seed3 |-> s.seed3,
                  size |-> b.total \div 3]

MatrixSeed(in) == in.seed1 + 65536 * in.seed2

\* The blocks hold bytes and shorts, and what the items are made of are numbers.
ASSUME DataAssumption ==
  \A b \in Builds :
    LET in == Inputs(b)
        N  == Dimension(in.size)
    IN  /\ InitState(in.size, in.seed1) \in [1..in.size -> Byte]
        /\ InitMatrix(N, MatrixSeed(in)).A \in [Cells(N) -> Int16]
        /\ \A k \in 0..in.size \div 20 : BitXor(in.seed1, k) \in Int

\* The program reaches through the second and the third cell without looking,
\* and calls the list kernel again with the cell that was first before: no item
\* may sort by its idx before the head, whose idx is 0.
Startable(in) ==
  LET size == in.size \div 20 - 2
  IN  /\ size \in Nat /\ size >= 4
      /\ in.seed3 \in Nat
      /\ \A k \in 1..size - 3 : InitialIdx(k, size, in.seed1) \in Nat \ {0}

ASSUME ListAssumption == \A b \in Builds : Startable(Inputs(b))

\* The sort by idx tells the items apart, from each other and from the tail.
Distinguishable(in) ==
  LET size      == in.size \div 20 - 2
      number(k) == InitialIdx(k, size, in.seed1)
  IN  /\ \A k \in 1..size - 3 : number(k) < 32767
      /\ \A j, k \in 1..size - 3 : number(j) = number(k) => j = k

\* The head is the only cell: idx 0 and the cached value 0.
Init ==
  \E b \in Builds :
    /\ run  = Inputs(b)
    /\ next = [c \in Cell |-> Null]
    /\ info = [c \in Cell |-> 0]
    /\ idx  = [d \in Cell |-> 0]
    /\ data = [d \in Cell |-> IF d = 0 THEN 32896 ELSE 0]
    /\ LET mat == InitMatrix(Dimension(run.size), MatrixSeed(run))
       IN  A = mat.A /\ B = mat.B
    /\ mem  = InitState(run.size, run.seed1)
    /\ list = 0 /\ free = 1 /\ i = 0
    /\ bench = [finder |-> 0, wanted |-> 0, found |-> 0, missed |-> 0,
                retval |-> 0, hit |-> Null, rev |-> Null, removed |-> Null]
    /\ sort = SortFrom(Null, "idx")
    /\ crc = 0 /\ crcstate = 0 /\ crcmatrix = 0
    /\ res = [list |-> Null, crclist |-> 0]
    /\ done = 0 /\ err = [total |-> 0, short |-> FALSE]
    /\ pc = "insert" /\ back = "ready"
    /\ orig = <<>>

\* The inits are over; iterate clears the CRCs and calls the list kernel.
Start ==
  /\ pc = "ready"
  /\ res' = [list |-> list, crclist |-> 0]
  /\ orig' = [heap |-> heap, list |-> list, blocks |-> blocks]
  /\ crc' = 0 /\ crcstate' = 0 /\ crcmatrix' = 0
  /\ CallBench(list, 1)
  /\ UNCHANGED <<run, heap, blocks, free, sort, back, done, err>>

\* iterate: the kernel runs once sorting by data and once without.
Returned ==
  /\ pc = "returned"
  /\ crc' = Crcu16(bench.retval, crc)
  /\ IF bench.finder = 1
     THEN CallBench(res.list, -1) /\ UNCHANGED <<res, done>>
     ELSE /\ done' = done + 1
          /\ res' = IF done = 0 THEN [res EXCEPT !.crclist = crc'] ELSE res
          /\ IF done' < Iterations THEN CallBench(res.list, 1)
             ELSE pc' = "verdict" /\ UNCHANGED <<list, i, bench>>
  /\ UNCHANGED <<run, heap, blocks, crcstate, crcmatrix, free, sort, back, err, orig>>

SeedCrc == Crcu16(run.size, Crcu16(run.seed3, Crcu16(run.seed2, Crcu16(run.seed1, 0))))

\* The known inputs by their seedcrc, each with its CRCs.
Known == << [seeds |-> 35330, crclist |-> 54448, crcmatrix |-> 48722, crcstate |-> 24135],
            [seeds |-> 31493, crclist |-> 13120, crcmatrix |-> 4505,  crcstate |-> 14783],
            [seeds |-> 20143, crclist |-> 27257, crcmatrix |-> 22024, crcstate |-> 58788],
            [seeds |-> 59893, crclist |-> 59156, crcmatrix |-> 8151,  crcstate |-> 36410],
            [seeds |-> 6386,  crclist |-> 58305, crcmatrix |-> 1863,  crcstate |-> 36228] >>

Reported == [seeds |-> SeedCrc, crclist |-> res.crclist,
             crcmatrix |-> crcmatrix, crcstate |-> crcstate]

\* check_data_types finds nothing with this compiler's types.
Verdict ==
  /\ pc = "verdict"
  /\ LET known == {n \in 1..Len(Known) : Known[n].seeds = SeedCrc}
         wrong == {f \in DOMAIN Reported : \E n \in known : Known[n][f] # Reported[f]}
     IN  \E short \in BOOLEAN :
           err' = [total |-> (IF known = {} THEN -1 ELSE Cardinality(wrong))
                             + (IF short THEN 1 ELSE 0),
                   short |-> short]
  /\ pc' = "done"
  /\ UNCHANGED <<run, heap, blocks, sums, list, loop, bench, sort, back, res, done, orig>>

Next ==
  \/ (Insert \/ Index \/ Sort \/ BenchList) /\ UNCHANGED <<res, done, err, orig>>
  \/ Start \/ Returned \/ Verdict

Spec == Init /\ [][Next]_vars

\* One program, which nothing interrupts, takes its next step as long as there
\* is one.  As Next is enabled until pc is "done", this is WF_vars(Next).
FairSpec == Spec /\ (<>[](pc # "done") => []<><<Next>>_vars)

-----------------------------------------------------------------------------
\* The first n cells from c on, or all of them if there are fewer.
Walk(c, n) ==
  LET reached[k \in 0..n - 1] ==
        IF k = 0 THEN c
        ELSE LET d == reached[k - 1] IN IF d = Null THEN Null ELSE next[d]
  IN  [k \in {j \in 1..n : reached[j - 1] # Null} |-> reached[k - 1]]

\* Where the running function keeps the cells of the list, in order; what a
\* sort has not merged in this pass, and what it has.
Ahead ==
  CASE pc = "split"   -> Walk(sort.p, free)
    [] pc = "merge"   -> Walk(sort.p, sort.psize) \o Walk(sort.q, free)
    [] pc = "reverse" -> Walk(list, free) \o Walk(bench.rev, free)
    [] pc = "undo"    -> Walk(list, free) \o <<bench.removed>>
    [] OTHER          -> Walk(list, free)

MergedCells == IF pc \in {"split", "merge"} THEN Walk(sort.head, free - Len(Ahead)) ELSE <<>>

Distinct(s) == Cardinality({s[n] : n \in 1..Len(s)}) = Len(s)

\* Whatever is cut and relinked in place, at every step of the reversal, the
\* moves, the merges, the removal and its undoing, the pieces hold each used
\* cell once, and every cell has a data item of its own.
NoCellLost ==
  /\ Distinct(MergedCells \o Ahead) /\ Len(MergedCells \o Ahead) = free
  /\ MergedCells # <<>> => MergedCells[Len(MergedCells)] = sort.tail
  /\ \A c, d \in 0..free - 1 : info[c] = info[d] => c = d

\* When core_bench_list returns, "the list is back to original state", from
\* the same head, in its cells and their items as in the data, whatever calc_func
\* has cached there.  The next call relies on it, for it starts from the head
\* that was first before.
BackToOriginal ==
  pc = "returned" => heap = orig.heap /\ list = orig.list

\* core_bench_state undoes its corruption "if seed1 and seed2 are equal",
\* whichever item of the list a comparison calls it for.  The undoing passes
\* over a byte that the corruption made a comma.
Undoable(block) ==
  /\ run.seed1 % 256 = run.seed2 % 256
  /\ \A k \in DOMAIN block : block[k] = COMMA \/ BitXor(block[k], run.seed1 % 256) # COMMA

StateRestores ==
  orig # <<>> => mem = orig.blocks[1] \/ ~Undoable(orig.blocks[1])

\* After every matrix_test "matrix A is back to original contents", for each
\* value that the comparisons of a sort call it with; B never changes.
MatrixRestores == orig # <<>> => A = orig.blocks[2] /\ B = orig.blocks[3]

\* The builds of this repository run with known inputs and end with the CRCs
\* that core_main.c lists for them, so that "Correct operation validated" (no
\* errors in total) is printed exactly when the run was long enough.
KnownResults == pc = "done" => (err.total = 0 <=> ~err.short)

\* Every sort, every search and so the benchmark comes to an end.
Terminates == <>(pc = "done")
=============================================================================
