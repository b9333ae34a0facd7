----------------------------- MODULE CoreMatrix -----------------------------
(***************************************************************************)
(* core_matrix.c: products of two N x N matrices of 16-bit numbers, whose  *)
(* sums are reported through the CRC.  A cell of a matrix is i * N + j;    *)
(* the result matrix C is written before it is read in every call and is  *)
(* no state of its own.                                                    *)
(***************************************************************************)
EXTENDS CoreUtil

SumOver(n, term) ==
  LET upto[k \in 0..n] == IF k = 0 THEN 0 ELSE upto[k - 1] + term[k - 1] IN upto[n]

\* The largest N whose matrices (2 + 2 + 4 bytes a cell) are smaller than the block.
Dimension(blksize) == CHOOSE n \in 0..blksize : 8 * n * n < blksize /\ 8 * (n + 1) * (n + 1) >= blksize

Cells(N) == 0..N * N - 1

\* B's cells come from a running product, A's are B's plus their order, clipped to a byte.
InitMatrix(N, seed) ==
  LET first == IF seed = 0 THEN 1 ELSE seed
      run[k \in 0..N * N] == IF k = 0 THEN first ELSE (k * run[k - 1]) % 2^16
  IN  [A |-> [c \in Cells(N) |-> (run[c + 1] + 2 * (c + 1)) % 256],
       B |-> [c \in Cells(N) |-> Short(run[c + 1] + c + 1)]]

AddConst(A, val) == [c \in DOMAIN A |-> Short(A[c] + val)]

MulConst(A, val) == [c \in DOMAIN A |-> A[c] * val]

\* Only the first N cells of C are written; the others keep the last result.
MulVect(N, C, A, B) ==
  [c \in DOMAIN C |-> IF c < N THEN SumOver(N, [j \in 0..N - 1 |-> A[c * N + j] * B[j]]) ELSE C[c]]

MulMatrix(N, A, B) ==
  [c \in DOMAIN A |->
     SumOver(N, [k \in 0..N - 1 |-> A[(c \div N) * N + k] * B[k * N + (c % N)]])]

\* bit_extract(tmp, 2, 4) * bit_extract(tmp, 5, 7)
BitExtract(a, b) == (((a * b) \div 4) % 16) * (((a * b) \div 32) % 128)

MulMatrixBitextract(N, A, B) ==
  [c \in DOMAIN A |->
     SumOver(N, [k \in 0..N - 1 |-> BitExtract(A[(c \div N) * N + k], B[k * N + (c % N)])])]

Summand(s, cur, clip) ==
  IF s.tmp + cur > clip
  THEN [tmp |-> 0, prev |-> cur, ret |-> s.ret + 10]
  ELSE [tmp |-> s.tmp + cur, prev |-> cur, ret |-> s.ret + (IF cur > s.prev THEN 1 ELSE 0)]

\* read[a, b, s] takes the sum s over the cells a..b - 1.
MatrixSum(N, C, clip) ==
  LET read[a \in Nat, b \in Nat, s \in [tmp : Int, prev : Int, ret : Nat]] ==
        IF b = a + 1 THEN Summand(s, C[a], clip)
        ELSE LET mid == (a + b) \div 2 IN read[mid, b, read[a, mid, s]]
  IN  read[0, N * N, [tmp |-> 0, prev |-> 0, ret |-> 0]].ret

\* 0xf000 | val, as a MATDAT, for a val of at most 8 bits.
MatrixBig(val) == Short(61440 + val)

\* Mutant: the constant is added again at the end.
MatrixTestDrifts(N, A, B, val) == [A |-> AddConst(AddConst(A, val), val), crc |-> 0]

MatrixTest(N, A, B, val) ==
  LET clip  == MatrixBig(val)
      A1    == AddConst(A, val)
      C1    == MulConst(A1, val)
      C2    == MulVect(N, C1, A1, B)
      C3    == MulMatrix(N, A1, B)
      C4    == MulMatrixBitextract(N, A1, B)
      Fold(C, crc) == Crcu16(MatrixSum(N, C, clip), crc)
  IN  [A   |-> AddConst(A1, -val),
       crc |-> Fold(C4, Fold(C3, Fold(C2, Fold(C1, 0))))]

BenchMatrix(N, A, B, seed, crc) ==
  LET test == MatrixTest(N, A, B, seed)
  IN  [A |-> test.A, crc |-> Crcu16(test.crc, crc)]
=============================================================================
