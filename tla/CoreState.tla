------------------------------ MODULE CoreState -----------------------------
(***************************************************************************)
(* core_state.c: a scanner of comma-separated numbers, run over a block of *)
(* bytes as it is and once more with every step-th byte corrupted.         *)
(***************************************************************************)
EXTENDS CoreUtil

CONSTANT BitXor(_, _)

ASSUME XorAssumption ==
  \A a, b \in Byte : BitXor(a, b) \in Byte /\ BitXor(BitXor(a, b), b) = a

COMMA == 44
States == <<"START", "INVALID", "S1", "S2", "INT", "FLOAT", "EXPONENT", "SCIENTIFIC">>

Class(c) ==
  IF c \in 48..57 THEN "digit"
  ELSE IF c \in {43, 45} THEN "sign"
  ELSE IF c = 46 THEN "point"
  ELSE IF c \in {69, 101} THEN "exp" ELSE "other"

\* The transitions that do not end in CORE_INVALID.
Arc == [START      |-> [digit |-> "INT", sign |-> "S1", point |-> "FLOAT"],
        S1         |-> [digit |-> "INT", point |-> "FLOAT"],
        INT        |-> [digit |-> "INT", point |-> "FLOAT"],
        FLOAT      |-> [digit |-> "FLOAT", exp |-> "S2"],
        S2         |-> [sign |-> "EXPONENT"],
        EXPONENT   |-> [digit |-> "SCIENTIFIC"],
        SCIENTIFIC |-> [digit |-> "SCIENTIFIC"]]

Successor(s, c) == IF Class(c) \in DOMAIN Arc[s] THEN Arc[s][Class(c)] ELSE "INVALID"

\* The counters that a transition from s to t increments.
Counted(s, t) ==
  CASE s = "START"      -> {"START"} \cup ({t} \cap {"INVALID"})
    [] s = "SCIENTIFIC" -> {t} \ {s}
    [] OTHER            -> IF s = t THEN {} ELSE {s}

StateName == {States[i] : i \in 1..Len(States)}

Zero == [final |-> [s \in StateName |-> 0], track |-> [s \in StateName |-> 0]]

Add(count, names) == [s \in DOMAIN count |-> count[s] + (IF s \in names THEN 1 ELSE 0)]

(***************************************************************************)
(* The scan of a block up to its first zero byte.  A token ends at a comma,*)
(* behind the byte that makes it invalid, or at the zero; the scanner is   *)
(* in START exactly between tokens.                                        *)
(***************************************************************************)
Read(scan, c) ==
  IF scan.over THEN scan
  ELSE IF c = 0
       THEN [scan EXCEPT !.over = TRUE,
                         !.final = Add(@, {scan.state} \ {"START"})]
  ELSE IF c = COMMA
       THEN [scan EXCEPT !.state = "START", !.final = Add(@, {scan.state})]
  ELSE LET t == Successor(scan.state, c)
       IN  [scan EXCEPT !.state = IF t = "INVALID" THEN "START" ELSE t,
                        !.final = Add(@, {t} \cap {"INVALID"}),
                        !.track = Add(@, Counted(scan.state, t))]

Scanner == [state : StateName, over : BOOLEAN,
            final : [StateName -> Nat], track : [StateName -> Nat]]

\* read[a, b, s] takes the scan s over the bytes a..b - 1 (in halves, so that
\* the recursion stays shallow).
Scan(mem, counts) ==
  LET begin == [state |-> "START", over |-> FALSE,
                final |-> counts.final, track |-> counts.track]
      read[a \in Nat, b \in Nat, s \in Scanner] ==
        IF b = a + 1 THEN Read(s, mem[a])
        ELSE LET mid == (a + b) \div 2 IN read[mid, b, read[a, mid, s]]
  IN  read[1, Len(mem) + 1, begin]

\* Both corruption loops: every step-th byte that is not a comma now.
Flip(mem, seed, step) ==
  [k \in DOMAIN mem |->
     IF (k - 1) % step = 0 /\ mem[k] # COMMA THEN BitXor(mem[k], seed % 256) ELSE mem[k]]

StateCrc(counts, crc) ==
  LET after[k \in 0..Len(States)] ==
        IF k = 0 THEN crc
        ELSE Crcu32(counts.track[States[k]], Crcu32(counts.final[States[k]], after[k - 1]))
  IN  after[Len(States)]

\* Mutant: the block stays corrupted.
BenchStateNoUndo(mem, seed1, seed2, step, crc) ==
  LET corrupted == Flip(mem, seed1, step)
  IN  [mem |-> corrupted, crc |-> StateCrc(Scan(corrupted, Scan(mem, Zero)), crc)]

BenchState(mem, seed1, seed2, step, crc) ==
  LET corrupted == Flip(mem, seed1, step)
  IN  [mem |-> Flip(corrupted, seed2, step),
       crc |-> StateCrc(Scan(corrupted, Scan(mem, Zero)), crc)]

(***************************************************************************)
(* The block: tokens chosen by a running seed while they fit, then zeros.  *)
(***************************************************************************)
IntPat   == << <<53, 48, 49, 50>>, <<49, 50, 51, 52>>, <<45, 56, 55, 52>>, <<43, 49, 50, 50>> >>
FloatPat == << <<51, 53, 46, 53, 52, 52, 48, 48>>, <<46, 49, 50, 51, 52, 53, 48, 48>>,
               <<45, 49, 49, 48, 46, 55, 48, 48>>, <<43, 48, 46, 54, 52, 52, 48, 48>> >>
SciPat   == << <<53, 46, 53, 48, 48, 101, 43, 51>>, <<45, 46, 49, 50, 51, 101, 45, 50>>,
               <<45, 56, 55, 101, 43, 56, 51, 50>>, <<43, 48, 46, 54, 101, 45, 49, 50>> >>
ErrPat   == << <<84, 48, 46, 51, 101, 45, 49, 70>>, <<45, 84, 46, 84, 43, 43, 84, 113>>,
               <<49, 84, 51, 46, 52, 101, 52, 122>>, <<51, 52, 46, 48, 101, 45, 84, 94>> >>

Pattern(seed) ==
  LET which == ((seed \div 8) % 4) + 1
      kind  == seed % 8
  IN  IF kind <= 2 THEN IntPat[which]
      ELSE IF kind <= 4 THEN FloatPat[which]
      ELSE IF kind <= 6 THEN SciPat[which] ELSE ErrPat[which]

\* A token and its comma follow as long as the block then keeps two bytes.
Extend(block, token, size) ==
  LET more == block.text \o Append(token, COMMA)
  IN  IF block.full THEN block
      ELSE IF Len(more) < size - 1 THEN [block EXCEPT !.text = more]
      ELSE [block EXCEPT !.full = TRUE]

\* A token with its comma has at least 5 bytes.  grow[a, b, block] adds the
\* tokens a..b - 1.
InitState(size, seed) ==
  LET open == [text |-> <<>>, full |-> FALSE]
      grow[a \in Nat, b \in Nat, block \in [text : Seq(Nat), full : BOOLEAN]] ==
        IF b = a + 1 THEN Extend(block, Pattern(seed + a), size)
        ELSE LET mid == (a + b) \div 2 IN grow[mid, b, grow[a, mid, block]]
      text == grow[1, size \div 5 + 2, open].text
  IN  [k \in 1..size |-> IF k <= Len(text) THEN text[k] ELSE 0]
=============================================================================
