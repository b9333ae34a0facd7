---------------------------- MODULE DeviceProofs ----------------------------
(***************************************************************************)
(* Proofs about the devices behind the bus bridge.                         *)
(*                                                                         *)
(* The interrupt controller, for any set of sources and any number of      *)
(* priorities: the selection finds the best source, what a claim answers   *)
(* is real, and every source passes through idle, pending and serving in   *)
(* that order.                                                             *)
(*                                                                         *)
(* The UART with the program that prints and the test bench that listens,  *)
(* for any buffer depth, byte width and divisor: what the UART took        *)
(* arrives, and the end of the run is recognised.                          *)
(***************************************************************************)
EXTENDS Bridge, Console, SequenceTheorems, WellFoundedInduction, TLAPS

(* No source is pending and in service at once. *)
Disjoint == pending \cap inService = {}

IInv == TypeOK /\ Disjoint /\ ClaimIsReal

-----------------------------------------------------------------------------
(* Extremes of sets of numbers. *)

Below == {pair \in Nat \X Nat : pair[1] < pair[2]}

LEMMA LeastExists ==
  ASSUME NEW S \in SUBSET Nat, S # {}
  PROVE  \E n \in S : \A k \in S : n <= k
<1>1. IsWellFoundedOn(Below, Nat)
  BY NatLessThanWellFounded DEF Below, OpToRel
<1>2. PICK n \in S : \A k \in S : ~(<<k, n>> \in Below)
  BY <1>1, WFMin
<1>3. ASSUME NEW k \in S PROVE n <= k
  <2>1. k \in Nat /\ n \in Nat
    OBVIOUS
  <2>2. ~(k < n)
    BY <1>2, <2>1 DEF Below
  <2> QED
    BY <2>1, <2>2
<1> QED
  BY <1>3

LEMMA GreatestExists ==
  ASSUME NEW bound \in Nat, NEW S \in SUBSET (0..bound), S # {}
  PROVE  \E n \in S : \A k \in S : k <= n
<1> DEFINE T == {k \in Nat : bound - k \in S}
<1>1. T \in SUBSET Nat /\ T # {}
  <2>1. PICK n \in S : TRUE
    OBVIOUS
  <2>2. bound - n \in Nat /\ bound - (bound - n) = n
    OBVIOUS
  <2> QED
    BY <2>1, <2>2
<1>2. PICK k \in T : \A j \in T : k <= j
  BY <1>1, LeastExists
<1>3. bound - k \in S
  OBVIOUS
<1>4. ASSUME NEW j \in S PROVE j <= bound - k
  <2>1. bound - j \in Nat /\ bound - (bound - j) = j
    OBVIOUS
  <2>2. bound - j \in T
    BY <2>1
  <2> QED
    BY <1>2, <2>1, <2>2
<1> QED
  BY <1>3, <1>4

-----------------------------------------------------------------------------
(* The selection. *)

LEMMA Selection == TypeOK => SelectsBest
<1> SUFFICES ASSUME TypeOK PROVE SelectsBest
  OBVIOUS
<1> DEFINE Above == {s \in Eligible : priority[s] > threshold}
<1>1. /\ \A s \in Eligible : s \in Source /\ s \in Nat /\ s # None
                             /\ priority[s] \in Priority
      /\ Priority \subseteq Nat
      /\ threshold \in Priority
  BY PlicAssumption DEF TypeOK, PlicTypeOK, Eligible, Priority, None
<1>2. \A s \in Above : priority[s] \in Levels
  BY <1>1 DEF Levels, Bucket
<1>3. CASE Levels = {}
  BY <1>2, <1>3 DEF ClaimNext, SelectsBest
<1>4. CASE Levels # {}
  <2> DEFINE top == CHOOSE p \in Levels : \A q \in Levels : q <= p
  <2>1. Levels \in SUBSET (0..MaxPriority) /\ MaxPriority \in Nat
    BY PlicAssumption DEF Levels, Priority
  <2>2. top \in Levels /\ \A q \in Levels : q <= top
    <3>1. \E p \in Levels : \A q \in Levels : q <= p
      BY <1>4, <2>1, GreatestExists
    <3> QED
      BY <3>1
  <2>3. Bucket(top) # {} /\ top > threshold /\ top \in Priority
    BY <2>2 DEF Levels
  <2>4. Bucket(top) \in SUBSET Nat
    BY <1>1 DEF Bucket
  <2>5. PrioId(top) \in Bucket(top) /\ \A t \in Bucket(top) : PrioId(top) <= t
    <3>1. \E s \in Bucket(top) : \A t \in Bucket(top) : s <= t
      BY <2>3, <2>4, LeastExists
    <3> QED
      BY <3>1 DEF PrioId
  <2>6. ClaimNext = PrioId(top)
    BY <1>4 DEF ClaimNext
  <2>7. ClaimNext \in Eligible /\ priority[ClaimNext] = top
    BY <2>5, <2>6 DEF Bucket
  <2>8. ClaimNext \in Above
    BY <2>3, <2>7
  <2>9. ASSUME NEW t \in Above
        PROVE  \/ priority[ClaimNext] > priority[t]
               \/ priority[ClaimNext] = priority[t] /\ ClaimNext <= t
    <3>1. t \in Eligible /\ priority[t] \in Levels
      BY <1>2, <2>9
    <3>2. priority[t] <= top
      BY <2>2, <3>1
    <3>3. CASE priority[t] = top
      <4>1. t \in Bucket(top)
        BY <3>1, <3>3 DEF Bucket
      <4> QED
        BY <2>5, <2>6, <2>7, <3>3, <4>1
    <3>4. CASE priority[t] # top
      <4>1. priority[t] \in Nat /\ top \in Nat
        BY <1>1, <2>3, <3>1
      <4> HIDE DEF top, Above
      <4>2. priority[t] < top
        BY <3>2, <3>4, <4>1
      <4> QED
        BY <2>7, <4>1, <4>2
    <3> QED
      BY <3>3, <3>4
  <2> HIDE DEF top
  <2> QED
    BY <2>8, <2>9 DEF SelectsBest
<1> QED
  BY <1>3, <1>4

LEMMA ClaimNextType ==
  ASSUME TypeOK
  PROVE  /\ ClaimNext \in Source \cup {None}
         /\ ClaimNext # None => ClaimNext \in pending \ inService
<1>1. \/ ClaimNext = None
      \/ ClaimNext \in Eligible
  BY Selection DEF SelectsBest
<1> QED
  BY <1>1 DEF Eligible, TypeOK, PlicTypeOK

-----------------------------------------------------------------------------
(* A period, by what it does to the gateways. *)

Quiet(irqs) ==
  Gateways(irqs, {}, {}) /\ (rdata' = rdata \/ rdata' \in {None, Other})

Claims(irqs) ==
  claim # None /\ Gateways(irqs, {claim}, {}) /\ rdata' = claim

Completes(irqs) ==
  \E id \in inService : Gateways(irqs, {}, {id}) /\ rdata' = rdata

LEMMA StepCases ==
  ASSUME Next
  PROVE  \E irqs \in SUBSET Source :
           Quiet(irqs) \/ Claims(irqs) \/ Completes(irqs)
<1>1. PICK irqs \in SUBSET Source : Away(irqs) \/ Load(irqs) \/ Store(irqs)
  BY DEF Next
<1>2. CASE Away(irqs)
  BY <1>2 DEF Away, NoAccess, Quiet
<1>3. CASE Load(irqs)
  <2>1. CASE ReadClaim(irqs) /\ claim = None
    <3>1. {claim} \ {None} = {}
      BY <2>1
    <3> QED
      BY <2>1, <3>1 DEF ReadClaim, Quiet
  <2>2. CASE ReadClaim(irqs) /\ claim # None
    <3>1. {claim} \ {None} = {claim}
      BY <2>2
    <3> QED
      BY <2>2, <3>1 DEF ReadClaim, Claims
  <2>3. CASE ReadRegister(irqs)
    BY <2>3 DEF ReadRegister, Quiet
  <2> QED
    BY <1>3, <2>1, <2>2, <2>3 DEF Load, PlicRead
<1>4. CASE Store(irqs)
  <2>1. ASSUME NEW id \in Source \cup {None}, Complete(irqs, id)
        PROVE  Quiet(irqs) \/ Completes(irqs)
    <3>1. CASE id \in inService
      <4>1. {id} \cap inService = {id}
        BY <3>1
      <4> QED
        BY <2>1, <3>1, <4>1 DEF Complete, Completes
    <3>2. CASE id \notin inService
      <4>1. {id} \cap inService = {}
        BY <3>2
      <4> QED
        BY <2>1, <4>1 DEF Complete, Quiet
    <3> QED
      BY <3>1, <3>2
  <2>2. ASSUME NEW sources \in SUBSET Source, WriteEnable(irqs, sources)
        PROVE  Quiet(irqs)
    BY <2>2 DEF WriteEnable, Quiet
  <2>3. ASSUME NEW p \in Priority, WriteThreshold(irqs, p)
        PROVE  Quiet(irqs)
    BY <2>3 DEF WriteThreshold, Quiet
  <2>4. ASSUME NEW s \in Source, NEW p \in Priority, WritePriority(irqs, s, p)
        PROVE  Quiet(irqs)
    BY <2>4 DEF WritePriority, Quiet
  <2> QED
    BY <1>4, <2>1, <2>2, <2>3, <2>4 DEF Store, PlicWrite
<1> QED
  BY <1>1, <1>2, <1>3, <1>4

-----------------------------------------------------------------------------
(* The invariant. *)

LEMMA InitIInv == Init => IInv
<1> SUFFICES ASSUME Init PROVE IInv
  OBVIOUS
<1>1. 0 \in Priority
  BY PlicAssumption DEF Priority
<1> QED
  BY <1>1 DEF Init, PlicInit, IInv, TypeOK, PlicTypeOK, Disjoint, ClaimIsReal, Target

LEMMA SettingsType ==
  ASSUME TypeOK, Next
  PROVE  /\ priority' \in [Source -> Priority]
         /\ enable' \in SUBSET Source
         /\ threshold' \in Priority
         /\ target' \in Target
         /\ plicData' \in Source \cup {None, Other}
<1> USE DEF TypeOK, PlicTypeOK, Target
<1>1. PICK irqs \in SUBSET Source : Away(irqs) \/ Load(irqs) \/ Store(irqs)
  BY DEF Next
<1>2. CASE Away(irqs)
  BY <1>2 DEF Away, NoAccess, Settings
<1>3. CASE Load(irqs)
  BY <1>3 DEF Load, PlicRead, ReadClaim, ReadRegister, Settings
<1>4. CASE Store(irqs)
  <2>1. target' \in Target /\ plicData' \in Source \cup {None, Other}
    BY <1>4 DEF Store
  <2>2. \/ UNCHANGED Settings
        \/ enable' \in SUBSET Source /\ UNCHANGED <<priority, threshold>>
        \/ threshold' \in Priority /\ UNCHANGED <<priority, enable>>
        \/ /\ \E s \in Source, p \in Priority :
                priority' = [priority EXCEPT ![s] = p]
           /\ UNCHANGED <<enable, threshold>>
    BY <1>4 DEF Store, PlicWrite, Complete, WriteEnable, WriteThreshold,
                WritePriority, Settings
  <2> QED
    BY <2>1, <2>2 DEF Settings
<1> QED
  BY <1>1, <1>2, <1>3, <1>4

LEMMA StepIInv == IInv /\ [Next]_vars => IInv'
<1> SUFFICES ASSUME IInv, [Next]_vars PROVE IInv'
  OBVIOUS
<1>1. CASE UNCHANGED vars
  BY <1>1 DEF vars, plicVars, IInv, TypeOK, PlicTypeOK, Disjoint, ClaimIsReal
<1>2. CASE Next
  <2> USE DEF IInv, TypeOK, PlicTypeOK, Gateways
  <2>1. PICK irqs \in SUBSET Source : Quiet(irqs) \/ Claims(irqs) \/ Completes(irqs)
    BY <1>2, StepCases
  <2>2. /\ pending' \in SUBSET Source
        /\ inService' \in SUBSET Source
        /\ rdata' \in Source \cup {None, Other}
    BY <2>1 DEF Quiet, Claims, Completes
  <2>3. /\ claim' = ClaimNext
        /\ claim' \in Source \cup {None}
        /\ claim' # None => claim' \in pending \ inService
    BY <2>1, ClaimNextType DEF Quiet, Claims, Completes
  <2>4. TypeOK'
    BY <1>2, <2>2, <2>3, SettingsType
  <2>5. Disjoint'
    BY <2>1 DEF Quiet, Claims, Completes, Disjoint
  <2>6. ClaimIsReal'
    BY <2>1, <2>3, <2>5 DEF Quiet, Claims, Completes, ClaimIsReal, Disjoint
  <2> QED
    BY <2>4, <2>5, <2>6
<1> QED
  BY <1>1, <1>2

LEMMA Invariant == Spec => []IInv
<1> QED
  BY InitIInv, StepIInv, PTL DEF Spec

(* The registers of controller and bridge have their types. *)
THEOREM TypeCorrect == Spec => []TypeOK
<1>1. IInv => TypeOK
  BY DEF IInv
<1> QED
  BY <1>1, Invariant, PTL

(* What a claim read is going to answer is pending, or has been answered   *)
(* in the period just before (PLIC.sv, claim_id_r and claim_mask).         *)
THEOREM ClaimsAreReal == Spec => []ClaimIsReal
<1>1. IInv => ClaimIsReal
  BY DEF IInv
<1> QED
  BY <1>1, Invariant, PTL

(* The buckets and scans of PLIC.sv find the best source, for any number   *)
(* of sources and priorities.                                              *)
THEOREM SelectionIsBest == Spec => []SelectsBest
<1>1. IInv => SelectsBest
  BY Selection DEF IInv
<1> QED
  BY <1>1, Invariant, PTL

-----------------------------------------------------------------------------
(* The gateways. *)

LEMMA PhaseIs ==
  ASSUME NEW s \in Source
  PROVE  Phase[s] = IF s \in inService THEN "serving"
                    ELSE IF s \in pending THEN "pending" ELSE "idle"
  BY DEF Phase

LEMMA PhaseAfter ==
  ASSUME IInv, NEW irqs \in SUBSET Source, NEW claimed \in SUBSET Source,
         NEW released \in SUBSET inService, claimed \cap released = {},
         Gateways(irqs, claimed, released)
  PROVE  Phase' = [s \in Source |->
                     IF s \in claimed THEN "serving"
                     ELSE IF s \in released THEN "idle"
                     ELSE IF s \in irqs /\ Phase[s] = "idle" THEN "pending"
                     ELSE Phase[s]]
<1> DEFINE After(s) == IF s \in claimed THEN "serving"
                       ELSE IF s \in released THEN "idle"
                       ELSE IF s \in irqs /\ Phase[s] = "idle" THEN "pending"
                       ELSE Phase[s]
           Bits(s) == IF s \in inService' THEN "serving"
                      ELSE IF s \in pending' THEN "pending" ELSE "idle"
<1>1. ASSUME NEW s \in Source
      PROVE  Bits(s) = After(s)
  <2>1. /\ inService' = (inService \cup claimed) \ released
        /\ pending' = (pending \cup (irqs \ inService)) \ claimed
    BY DEF Gateways
  <2>2. ~(s \in pending /\ s \in inService) /\ ~(s \in claimed /\ s \in released)
    BY DEF IInv, Disjoint
  <2>3. s \in released => s \in inService
    OBVIOUS
  <2> QED
    BY <2>1, <2>2, <2>3, PhaseIs
<1>2. Phase' = [s \in Source |-> Bits(s)]
  BY DEF Phase
<1> HIDE DEF Bits
<1> QED
  BY <1>1, <1>2

LEMMA InitGateway == Init => G!Init
<1> SUFFICES ASSUME Init PROVE G!Init
  OBVIOUS
<1>1. rdata \notin Source
  BY PlicAssumption DEF Init, PlicInit
<1>2. pending = {} /\ inService = {}
  BY DEF Init, PlicInit
<1> QED
  BY <1>1, <1>2 DEF G!Init, Phase

LEMMA StepGateway ==
  ASSUME IInv, Next
  PROVE  G!Next
<1>1. PICK irqs \in SUBSET Source : Quiet(irqs) \/ Claims(irqs) \/ Completes(irqs)
  BY StepCases
<1>2. CASE Quiet(irqs)
  <2>1. Phase' = [s \in Source |-> IF s \in irqs /\ Phase[s] = "idle"
                                   THEN "pending" ELSE Phase[s]]
    BY <1>2, PhaseAfter DEF Quiet
  <2>2. rdata' = rdata \/ rdata' \notin Source
    BY <1>2, PlicAssumption DEF Quiet
  <2>3. G!Pass(irqs)
    BY <2>1, <2>2 DEF G!Pass, G!Raised
  <2> QED
    BY <2>3 DEF G!Next
<1>3. CASE Claims(irqs)
  <2>1. PICK c \in Source : /\ c = claim /\ Gateways(irqs, {c}, {}) /\ rdata' = c
    <3>1. claim \in Source /\ Gateways(irqs, {claim}, {}) /\ rdata' = claim
      BY <1>3 DEF Claims, IInv, TypeOK, PlicTypeOK
    <3> QED
      BY <3>1 DEF Gateways
  <2>2. Phase' = [s \in Source |-> IF s = c THEN "serving"
                                   ELSE IF s \in irqs /\ Phase[s] = "idle"
                                   THEN "pending" ELSE Phase[s]]
    BY <2>1, PhaseAfter
  <2>3. \/ Phase[c] = "pending"
        \/ Phase[c] = "serving" /\ rdata = c
    BY <1>3, <2>1, PhaseIs DEF Claims, IInv, ClaimIsReal
  <2>4. G!Claim(irqs, c)
    BY <2>1, <2>2, <2>3 DEF G!Claim, G!Raised
  <2> QED
    BY <2>1, <2>4 DEF G!Next
<1>4. CASE Completes(irqs)
  <2>1. PICK id \in inService : Gateways(irqs, {}, {id}) /\ rdata' = rdata
    BY <1>4 DEF Completes
  <2>2. id \in Source
    BY DEF IInv, TypeOK, PlicTypeOK
  <2>3. Phase' = [s \in Source |-> IF s = id THEN "idle"
                                   ELSE IF s \in irqs /\ Phase[s] = "idle"
                                   THEN "pending" ELSE Phase[s]]
    BY <2>1, <2>2, PhaseAfter
  <2>4. Phase[id] = "serving"
    BY <2>1, <2>2, PhaseIs
  <2>5. G!Complete(irqs, id)
    BY <2>1, <2>3, <2>4 DEF G!Complete, G!Raised
  <2> QED
    BY <2>2, <2>5 DEF G!Next
<1> QED
  BY <1>1, <1>2, <1>3, <1>4

(* Whatever the processor accesses and however the lines behave, each      *)
(* source is idle, pending and in service in turn, is told once per turn   *)
(* (twice only in consecutive reads), and no source is lost (PLIC.sv,      *)
(* pending_next and in_service_next).                                      *)
THEOREM ImplementsGateways == Spec => GatewaySpec
<1>1. IInv /\ [Next]_vars => [G!Next]_<<Phase, rdata>>
  <2>1. ASSUME IInv, UNCHANGED vars PROVE UNCHANGED <<Phase, rdata>>
    BY <2>1 DEF vars, plicVars, Phase
  <2> QED
    BY <2>1, StepGateway
<1>2. Spec => G!Init /\ [][G!Next]_<<Phase, rdata>>
  BY <1>1, InitGateway, Invariant, PTL DEF Spec
<1> QED
  BY <1>2 DEF GatewaySpec, G!Spec

-----------------------------------------------------------------------------
(* The UART and its console. *)

Half == CyclesPerBit \div 2

(* Types of the registers that the line and the histories depend on. *)
Registers ==
  /\ baud_cnt \in 0..Baud
  /\ tx \in {0, 1}
  /\ tx_state \in {"idle", "start", "data", "stop"}
  /\ tx_bit_idx \in 0..DataBits - 1
  /\ tx_shift \in Character
  /\ tx_buffer \in [0..Depth - 1 -> Character]
  /\ tx_count \in 0..Depth
  /\ overflow_error \in BOOLEAN
  /\ state \in {"Idle", "Start", "Data", "Stop"}
  /\ countdown \in Nat
  /\ bit \in 0..DataBits - 1
  /\ value \in Nat
  /\ exit \in {"running", "0", "2"}
  /\ accepted \in Seq(Character) /\ written \in Seq(Character) /\ decoded \in Seq(Character)

(* The decoder looks at a bit half a bit time behind its edge. *)
BeforeSample == baud_cnt + countdown = Half - 1
AfterSample  == baud_cnt + countdown = Half - 1 + CyclesPerBit

(* Serializer and decoder, from the idle line to the stop bit.  The line   *)
(* carries the bit of tx_bit_idx, and value holds the bits sampled so far. *)
LineIdle == tx_state = "idle" /\ tx = 1 /\ state = "Idle"

InStart ==
  /\ tx_state = "start" /\ tx = 0
  /\ \/ state = "Start" /\ BeforeSample
     \/ state = "Data" /\ bit = 0 /\ value = 0 /\ AfterSample

InData ==
  /\ tx_state = "data" /\ tx = BitOf(tx_shift, tx_bit_idx)
  /\ \/ /\ state = "Data" /\ bit = tx_bit_idx /\ BeforeSample
        /\ value = tx_shift % 2^bit
     \/ /\ state = "Data" /\ bit = tx_bit_idx + 1 /\ AfterSample
        /\ value = tx_shift % 2^bit
     \/ /\ state = "Stop" /\ tx_bit_idx = DataBits - 1 /\ AfterSample
        /\ value = tx_shift

InStop ==
  /\ tx_state = "stop" /\ tx = 1
  /\ \/ state = "Stop" /\ value = tx_shift /\ BeforeSample
     \/ state = "Idle"

Framing == LineIdle \/ InStart \/ InData \/ InStop

(* The number of bytes taken out of the buffer. *)
Popped == Len(accepted) - tx_count

(* The entries that wait lie at their numbers modulo Depth. *)
Ring ==
  /\ 0 <= Popped
  /\ tx_head = Popped % Depth
  /\ tx_tail = Len(accepted) % Depth
  /\ \A j \in 1..Len(accepted) : Popped < j => tx_buffer[(j - 1) % Depth] = accepted[j]

Sending == state # "Idle"

(* What was taken out of the buffer is printed, or is being sent. *)
Delivered ==
  /\ Len(decoded) = IF Sending THEN Popped - 1 ELSE Popped
  /\ Sending => tx_shift = accepted[Popped]
  /\ \A j \in 1..Len(decoded) : decoded[j] = accepted[j]

(* Nothing is missing from what was taken unless the flag says so. *)
Losses ==
  /\ overflow_error => Len(accepted) < Len(written)
  /\ ~overflow_error => accepted = written

(* The last j bytes printed are the first j of the marker. *)
Ends(j) == j <= Len(decoded) /\ \A k \in 1..j : decoded[Len(decoded) - j + k] = Marker[k]

(* At most one beginning of the marker is pending, that of marker_pos bytes. *)
Search ==
  /\ marker_seen \in BOOLEAN /\ marker_pos \in 0..Len(Marker)
  /\ marker_seen <=> MarkerEnds # {}
  /\ ~marker_seen => /\ marker_pos < Len(Marker)
                     /\ \A j \in 1..Len(Marker) : Ends(j) <=> j = marker_pos
  /\ exit = "running" => \A e \in MarkerEnds : \A k \in e + 1..Len(decoded) : decoded[k] # LF
  /\ exit = "0" => \E e \in MarkerEnds : \E k \in e + 1..Len(decoded) : decoded[k] = LF

ConsoleInv == Registers /\ Framing /\ Ring /\ Delivered /\ Losses /\ Search

-----------------------------------------------------------------------------
(* Arithmetic. *)

(* Quotient and remainder of a division by a positive number. *)
LEMMA Divided ==
  ASSUME NEW a \in Int, NEW d \in Nat \ {0}
  PROVE  /\ a = (a \div d) * d + (a % d)
         /\ a \div d \in Int
         /\ a % d \in Int /\ 0 <= a % d /\ a % d < d
  BY SMT

(* Nothing else divides so. *)
LEMMA Unique ==
  ASSUME NEW a \in Int, NEW d \in Nat \ {0}, NEW q \in Int, NEW r \in Int,
         a = q * d + r, 0 <= r, r < d
  PROVE  a \div d = q /\ a % d = r
  BY SMT

(* The index behind that of the ring buffer's entry number a. *)
LEMMA NextIndex ==
  ASSUME NEW a \in Nat, NEW d \in Nat \ {0}
  PROVE  (a + 1) % d = ((a % d) + 1) % d
<1> DEFINE q == a \div d
           r == a % d
<1>1. a = q * d + r /\ q \in Int /\ r \in Int /\ 0 <= r /\ r < d
  BY Divided
<1> HIDE DEF q, r
<1>2. CASE r + 1 < d
  <2>1. a + 1 = q * d + (r + 1)
    BY <1>1
  <2> DEFINE b == a + 1
             s == r + 1
  <2>2. b \in Int /\ s \in Int /\ 0 <= s /\ s < d /\ b = q * d + s /\ s = 0 * d + s
    BY <1>1, <1>2, <2>1
  <2> HIDE DEF b, s
  <2>3. b % d = s
    BY <1>1, <2>2, Unique
  <2>4. s % d = s
    BY <2>2
  <2> QED
    BY <2>3, <2>4 DEF b, s, r
<1>3. CASE ~(r + 1 < d)
  <2>1. r + 1 = d
    BY <1>1, <1>3
  <2> DEFINE b == a + 1
             p == q + 1
  <2>2. b = p * d + 0 /\ b \in Int /\ p \in Int
    BY <1>1, <2>1
  <2> HIDE DEF b, p
  <2>3. b % d = 0
    BY <2>2, Unique
  <2>4. (r + 1) % d = 0
    BY <2>1
  <2> QED
    BY <2>3, <2>4 DEF b, r
<1> QED
  BY <1>2, <1>3

(* Two entries that are in the buffer together lie at different indices. *)
LEMMA DistinctIndices ==
  ASSUME NEW a \in Nat, NEW b \in Nat, NEW d \in Nat \ {0}, a < b, b - a < d
  PROVE  a % d # b % d
<1> SUFFICES ASSUME a % d = b % d PROVE FALSE
  OBVIOUS
<1> DEFINE q == a \div d
           p == b \div d
           r == a % d
<1>1. a = q * d + r /\ q \in Int /\ r \in Int /\ b = p * d + r /\ p \in Int
  BY Divided
<1> HIDE DEF q, p, r
<1> DEFINE e == p - q
<1>2. b - a = e * d /\ e \in Int
  BY <1>1
<1> HIDE DEF e
<1>3. e * d > 0 /\ e * d < d
  BY <1>2
<1>4. e <= 0 \/ e >= 1
  BY <1>2
<1>5. e <= 0 => e * d <= 0
  BY <1>2
<1>6. e >= 1 => e * d >= d
  BY <1>2
<1> QED
  BY <1>2, <1>3, <1>4, <1>5, <1>6

(* One more sampled bit. *)
LEMMA OneMoreBit ==
  ASSUME NEW c \in Nat, NEW k \in 0..DataBits - 1
  PROVE  /\ (c % 2^k) + BitOf(c, k) * 2^k = c % 2^(k + 1)
         /\ BitOf(c, k) \in {0, 1}
<1> DEFINE p == 2^k
           q == c \div p
           r == c % p
           s == q \div 2
           t == q % 2
           n == 2^(k + 1)
<1>1. p \in Nat \ {0} /\ n = 2 * p
  BY UartAssumption, PowerAssumption
<1> HIDE DEF p, n
<1>2. c = q * p + r /\ q \in Int /\ r \in Int /\ 0 <= r /\ r < p
  BY <1>1, Divided
<1> HIDE DEF q, r
<1>3. q = s * 2 + t /\ s \in Int /\ t \in {0, 1}
  BY <1>2
<1> HIDE DEF s, t
<1>4. c = s * n + (t * p + r)
  <2>1. q * p = s * n + t * p
    BY <1>1, <1>3
  <2> QED
    BY <1>1, <1>2, <1>3, <2>1
<1> DEFINE z == t * p + r
<1>5. /\ z \in Int /\ 0 <= z /\ z < n /\ z = r + t * p
      /\ c = s * n + z /\ n \in Nat \ {0}
  BY <1>1, <1>2, <1>3, <1>4
<1> HIDE DEF z
<1>6. c % n = z
  <2>1. c \in Int /\ s \in Int
    BY <1>3
  <2> QED
    BY <1>5, <2>1, Unique
<1> QED
  BY <1>3, <1>5, <1>6 DEF BitOf, n, t, q, r, p

(* No bits yet, and all of them. *)
LEMMA NoBitAllBits ==
  ASSUME NEW c \in Character
  PROVE  c % 2^0 = 0 /\ c % 2^DataBits = c /\ c \in Nat
<1>1. 2^DataBits \in Nat \ {0} /\ 2^0 = 1
  BY UartAssumption, PowerAssumption
<1> DEFINE p == 2^DataBits
<1>2. c \in Nat /\ c < p /\ p \in Nat \ {0}
  BY <1>1 DEF Character
<1> HIDE DEF p
<1>3. c % p = c /\ c % 1 = 0
  BY <1>2
<1> QED
  BY <1>1, <1>2, <1>3 DEF p

(* What has been sampled of a byte is a number. *)
LEMMA RemainderIsNat ==
  ASSUME NEW c \in Nat, NEW k \in 0..DataBits
  PROVE  c % 2^k \in Nat
<1>1. 2^k \in Nat \ {0}
  BY PowerAssumption
<1> DEFINE d == 2^k
<1>2. d \in Nat \ {0}
  BY <1>1
<1> HIDE DEF d
<1>3. c % d \in Nat
  BY <1>2
<1> QED
  BY <1>3 DEF d

(* The sampling point lies inside the bit. *)
LEMMA SamplingPoint ==
  /\ Baud \in Nat /\ CyclesPerBit = Baud + 1
  /\ Half \in Nat /\ 1 <= Half /\ Half <= Baud
  BY UartAssumption, ConsoleAssumption DEF Half

-----------------------------------------------------------------------------
(* What EX may do in a period. *)
Access == {Nothing, LoadStatus} \cup {StoreByte(c) : c \in Character}

(* Behind portable_init the line is idle and nothing is stored. *)
LEMMA ConsoleInitInv == ConsoleInit => ConsoleInv
<1> SUFFICES ASSUME ConsoleInit PROVE ConsoleInv
  OBVIOUS
<1>1. Depth \in Nat \ {0} /\ DataBits \in Nat \ {0} /\ Baud \in Nat \ {0}
  BY UartAssumption
<1>2. 0 \in Character
  BY <1>1, PowerAssumption DEF Character
<1>3. Registers
  <2>1. tx_buffer \in [0..Depth - 1 -> Character]
    BY <1>2 DEF ConsoleInit, UartInit
  <2>2. accepted = <<>> /\ written = <<>> /\ decoded = <<>>
    BY DEF ConsoleInit
  <2>3. accepted \in Seq(Character) /\ written \in Seq(Character) /\ decoded \in Seq(Character)
    BY <2>2
  <2>4. /\ baud_cnt \in 0..Baud /\ tx = 1 /\ tx_state = "idle" /\ tx_bit_idx = 0 /\ tx_shift = 0
        /\ tx_count = 0 /\ overflow_error = FALSE
    BY DEF ConsoleInit, UartInit
  <2>5. state = "Idle" /\ countdown = 0 /\ bit = 0 /\ value = 0 /\ exit = "running"
    BY DEF ConsoleInit
  <2>6. 0 \in 0..DataBits - 1 /\ 0 \in 0..Depth
    BY <1>1
  <2> QED
    BY <1>2, <2>1, <2>3, <2>4, <2>5, <2>6 DEF Registers
<1>4. Framing
  BY DEF ConsoleInit, UartInit, Framing, LineIdle
<1>5. accepted = <<>> /\ decoded = <<>> /\ written = <<>> /\ Len(accepted) = 0
  BY DEF ConsoleInit
<1>6. Ring
  BY <1>1, <1>5 DEF ConsoleInit, UartInit, Ring, Popped
<1>7. Delivered /\ Losses
  BY <1>5 DEF ConsoleInit, UartInit, Delivered, Losses, Sending, Popped
<1>8. Len(Marker) \in Nat /\ Len(Marker) > 0
  BY ConsoleAssumption, EmptySeq
<1>9. MarkerEnds = {}
  BY <1>5, <1>8 DEF MarkerEnds
<1>10. Search
  <2>1. \A j \in 1..Len(Marker) : ~Ends(j) /\ j # marker_pos
    BY <1>5, <1>8 DEF ConsoleInit, Ends
  <2>2. exit = "running" /\ ~marker_seen /\ marker_seen \in BOOLEAN /\ marker_pos = 0
    BY DEF ConsoleInit
  <2> QED
    BY <1>8, <1>9, <2>1, <2>2 DEF Search
<1> QED
  BY <1>3, <1>4, <1>6, <1>7, <1>10 DEF ConsoleInv

(* Types of the registers of the line, apart from the histories. *)
LineTypes ==
  /\ baud_cnt \in 0..Baud
  /\ tx \in {0, 1}
  /\ tx_state \in {"idle", "start", "data", "stop"}
  /\ tx_bit_idx \in 0..DataBits - 1
  /\ state \in {"Idle", "Start", "Data", "Stop"}
  /\ countdown \in Nat
  /\ bit \in 0..DataBits - 1
  /\ value \in Nat

(* One edge of the serializer and the decoder.  A byte leaves the buffer   *)
(* when the decoder waits, and is printed unchanged when the decoder has   *)
(* its stop bit; nothing else happens to the decoder's output.             *)
LEMMA FrameStep ==
  ASSUME Registers, Framing, NEW access \in Access, Cycle(access)
  PROVE  /\ Framing' /\ LineTypes'
         /\ \/ TxPop /\ state = "Idle" /\ state' # "Idle" /\ Silent
            \/ ~TxPop /\ state # "Idle" /\ state' = "Idle" /\ Emit(tx_shift)
            \/ ~TxPop /\ (state' = "Idle" <=> state = "Idle") /\ Silent
<1>1. /\ Baud \in Nat /\ CyclesPerBit \in Nat /\ CyclesPerBit = Baud + 1
      /\ Half \in Nat /\ 1 <= Half /\ Half <= Baud
      /\ CyclesPerBit \div 2 = Half
      /\ DataBits \in Nat \ {0}
  BY SamplingPoint, UartAssumption DEF Half
<1>2. /\ BaudEdge /\ FifoEdge(access) /\ FrameEdge
      /\ Sample(tx')
  BY DEF Cycle, UartEdge
<1>3. /\ baud_cnt \in 0..Baud /\ tx_bit_idx \in 0..DataBits - 1 /\ bit \in 0..DataBits - 1
      /\ countdown \in Nat /\ value \in Nat /\ tx_shift \in Character
      /\ TxTick <=> baud_cnt = Baud
      /\ baud_cnt' = IF TxTick THEN 0 ELSE baud_cnt + 1
      /\ baud_cnt' \in 0..Baud
  BY <1>1, <1>2 DEF Registers, TxTick, BaudEdge
<1>4. /\ tx_state # "idle" => ~TxPop
      /\ ~TxPop => tx_shift' = tx_shift
      /\ TxPop => TxTick
  BY <1>2 DEF TxPop, FifoEdge
<1>5. BeforeSample => /\ countdown <= Half - 1 /\ baud_cnt <= Half - 1 /\ ~TxTick
                      /\ baud_cnt' + (countdown - 1) = Half - 1
                      /\ countdown = 0 => baud_cnt' + (CyclesPerBit - 1) = Half - 1 + CyclesPerBit
  BY <1>1, <1>3 DEF BeforeSample
<1>6. AfterSample => /\ countdown # 0 /\ countdown - 1 \in Nat
                     /\ ~TxTick => baud_cnt' + (countdown - 1) = Half - 1 + CyclesPerBit
                     /\ TxTick => baud_cnt' + (countdown - 1) = Half - 1
  BY <1>1, <1>3 DEF AfterSample
<1>7. CASE LineIdle
  <2>1. CASE TxPop
    <3>1. baud_cnt' = 0 /\ tx' = 0 /\ tx_state' = "start" /\ tx_bit_idx' = 0
      BY <1>2, <1>3, <1>4, <1>7, <2>1 DEF LineIdle, FrameEdge
    <3>2. /\ state = "Idle" /\ state' = "Start" /\ countdown' = Half - 1 /\ Silent
          /\ bit' = bit /\ value' = value
      BY <1>1, <1>2, <1>7, <3>1 DEF LineIdle, Sample
    <3>3. InStart'
      BY <1>1, <3>1, <3>2 DEF InStart, BeforeSample
    <3> QED
      BY <1>1, <1>3, <2>1, <3>1, <3>2, <3>3 DEF Framing, LineTypes
  <2>2. CASE ~TxPop
    <3>1. tx' = 1 /\ tx_state' = "idle" /\ tx_bit_idx' = tx_bit_idx
      BY <1>2, <1>7, <2>2 DEF LineIdle, FrameEdge
    <3>2. /\ state = "Idle" /\ state' = "Idle" /\ countdown' = countdown /\ Silent
          /\ bit' = bit /\ value' = value
      BY <1>2, <1>7, <3>1 DEF LineIdle, Sample
    <3> QED
      BY <1>3, <2>2, <3>1, <3>2 DEF Framing, LineIdle, LineTypes
  <2> QED
    BY <2>1, <2>2
<1>8. CASE InStart
  <2>1. tx_state = "start" /\ tx = 0 /\ ~TxPop
    BY <1>4, <1>8 DEF InStart
  <2>2. CASE state = "Start" /\ BeforeSample
    <3>1. tx' = 0 /\ tx_state' = "start" /\ tx_bit_idx' = tx_bit_idx
      BY <1>2, <1>5, <2>1, <2>2 DEF FrameEdge
    <3>2. CASE countdown # 0
      <4>1. /\ countdown' = countdown - 1 /\ state' = "Start" /\ Silent
            /\ bit' = bit /\ value' = value
        BY <1>2, <2>2, <3>2 DEF Sample, CountDown
      <4>2. InStart'
        BY <1>5, <2>2, <3>1, <4>1 DEF InStart, BeforeSample
      <4> QED
        BY <1>3, <2>1, <2>2, <3>1, <3>2, <4>1, <4>2 DEF Framing, LineTypes
    <3>3. CASE countdown = 0
      <4>1. /\ countdown' = CyclesPerBit - 1 /\ state' = "Data" /\ Silent
            /\ bit' = 0 /\ value' = 0
        BY <1>2, <2>2, <3>1, <3>3 DEF Sample
      <4>2. InStart'
        BY <1>5, <2>2, <3>1, <3>3, <4>1 DEF InStart, AfterSample
      <4> QED
        BY <1>1, <1>3, <2>1, <2>2, <3>1, <4>1, <4>2 DEF Framing, LineTypes
    <3> QED
      BY <3>2, <3>3
  <2>3. CASE state = "Data" /\ bit = 0 /\ value = 0 /\ AfterSample
    <3>1. /\ countdown' = countdown - 1 /\ state' = "Data" /\ Silent
          /\ bit' = 0 /\ value' = 0 /\ countdown' \in Nat
      BY <1>2, <1>6, <2>3 DEF Sample, CountDown
    <3>2. CASE ~TxTick
      <4>1. tx' = 0 /\ tx_state' = "start" /\ tx_bit_idx' = tx_bit_idx
        BY <1>2, <2>1, <3>2 DEF FrameEdge
      <4>2. InStart'
        BY <1>6, <2>3, <3>1, <3>2, <4>1 DEF InStart, AfterSample
      <4> QED
        BY <1>1, <1>3, <2>1, <2>3, <3>1, <4>1, <4>2 DEF Framing, LineTypes
    <3>3. CASE TxTick
      <4>1. tx' = BitOf(tx_shift, 0) /\ tx_state' = "data" /\ tx_bit_idx' = 0
        BY <1>2, <2>1, <3>3 DEF FrameEdge
      <4>2. /\ tx_shift' = tx_shift /\ tx_shift % 2^0 = 0
            /\ BitOf(tx_shift, 0) \in {0, 1}
        BY <1>1, <1>3, <1>4, <2>1, NoBitAllBits, OneMoreBit
      <4>3. tx' = BitOf(tx_shift', tx_bit_idx')
        BY <4>1, <4>2
      <4>4. value' = tx_shift' % 2^(bit')
        BY <3>1, <4>2
      <4>5. InData'
        BY <1>6, <2>3, <3>1, <3>3, <4>1, <4>3, <4>4 DEF InData, BeforeSample
      <4> QED
        BY <1>1, <1>3, <2>1, <2>3, <3>1, <4>1, <4>2, <4>5 DEF Framing, LineTypes
    <3> QED
      BY <3>2, <3>3
  <2> QED
    BY <1>8, <2>2, <2>3 DEF InStart
<1>9. CASE InData
  <2>1. tx_state = "data" /\ tx = BitOf(tx_shift, tx_bit_idx) /\ ~TxPop /\ tx_shift' = tx_shift
    BY <1>4, <1>9 DEF InData
  <2>2. BitOf(tx_shift, tx_bit_idx) \in {0, 1}
    BY <1>3, NoBitAllBits, OneMoreBit
  <2>3. CASE state = "Data" /\ bit = tx_bit_idx /\ BeforeSample /\ value = tx_shift % 2^bit
    <3>1. tx' = tx /\ tx_state' = "data" /\ tx_bit_idx' = tx_bit_idx
      BY <1>2, <1>5, <2>1, <2>3 DEF FrameEdge
    <3>2. tx' = BitOf(tx_shift', tx_bit_idx')
      BY <2>1, <3>1
    <3>3. CASE countdown # 0
      <4>1. /\ countdown' = countdown - 1 /\ state' = "Data" /\ Silent
            /\ bit' = bit /\ value' = value
        BY <1>2, <2>3, <3>3 DEF Sample, CountDown
      <4>2. InData'
        BY <1>5, <2>1, <2>3, <3>1, <3>2, <4>1 DEF InData, BeforeSample
      <4> QED
        BY <1>3, <2>1, <2>2, <2>3, <3>1, <3>3, <4>1, <4>2 DEF Framing, LineTypes
    <3>4. CASE countdown = 0
      <4>1. /\ countdown' = CyclesPerBit - 1 /\ Silent
            /\ value' = value + tx' * 2^bit
            /\ bit = DataBits - 1 => state' = "Stop" /\ bit' = bit
            /\ bit # DataBits - 1 => state' = "Data" /\ bit' = bit + 1
        BY <1>2, <2>3, <3>4 DEF Sample
      <4>2. value' = tx_shift % 2^(bit + 1)
        BY <1>3, <2>1, <2>3, <3>1, <4>1, NoBitAllBits, OneMoreBit
      <4>3. AfterSample'
        BY <1>5, <2>3, <3>4, <4>1 DEF AfterSample
      <4>4. value' \in Nat
        BY <1>1, <1>3, <4>2, NoBitAllBits, RemainderIsNat
      <4>5. CASE bit = DataBits - 1
        <5>1. value' = tx_shift'
          BY <1>1, <1>3, <2>1, <4>2, <4>5, NoBitAllBits
        <5>2. InData'
          BY <2>3, <3>1, <3>2, <4>1, <4>3, <4>5, <5>1 DEF InData
        <5> QED
          BY <1>1, <1>3, <2>1, <2>2, <2>3, <3>1, <4>1, <4>4, <4>5, <5>2 DEF Framing, LineTypes
      <4>6. CASE bit # DataBits - 1
        <5>1. value' = tx_shift' % 2^(bit')
          BY <2>1, <4>1, <4>2, <4>6
        <5>2. InData'
          BY <2>3, <3>1, <3>2, <4>1, <4>3, <4>6, <5>1 DEF InData
        <5> QED
          BY <1>1, <1>3, <2>1, <2>2, <2>3, <3>1, <4>1, <4>4, <4>6, <5>2 DEF Framing, LineTypes
      <4> QED
        BY <4>5, <4>6
    <3> QED
      BY <3>3, <3>4
  <2>4. CASE state = "Data" /\ bit = tx_bit_idx + 1 /\ AfterSample /\ value = tx_shift % 2^bit
    <3>1. /\ countdown' = countdown - 1 /\ state' = "Data" /\ Silent
          /\ bit' = bit /\ value' = value /\ countdown' \in Nat
      BY <1>2, <1>6, <2>4 DEF Sample, CountDown
    <3>2. value' = tx_shift' % 2^(bit')
      BY <2>1, <2>4, <3>1
    <3>3. CASE ~TxTick
      <4>1. tx' = tx /\ tx_state' = "data" /\ tx_bit_idx' = tx_bit_idx
        BY <1>2, <2>1, <3>3 DEF FrameEdge
      <4>2. tx' = BitOf(tx_shift', tx_bit_idx')
        BY <2>1, <4>1
      <4>3. InData'
        BY <1>6, <2>4, <3>1, <3>2, <3>3, <4>1, <4>2 DEF InData, AfterSample
      <4> QED
        BY <1>3, <2>1, <2>2, <2>4, <3>1, <4>1, <4>3 DEF Framing, LineTypes
    <3>4. CASE TxTick
      <4>1. tx_bit_idx # DataBits - 1 /\ tx_bit_idx + 1 \in 0..DataBits - 1
        BY <1>1, <1>3, <2>4
      <4>2. tx' = BitOf(tx_shift, tx_bit_idx + 1) /\ tx_state' = "data" /\ tx_bit_idx' = tx_bit_idx + 1
        BY <1>2, <2>1, <3>4, <4>1 DEF FrameEdge
      <4>3. tx' = BitOf(tx_shift', tx_bit_idx')
        BY <2>1, <4>2
      <4>4. tx' \in {0, 1}
        BY <1>3, <4>1, <4>2, NoBitAllBits, OneMoreBit
      <4>5. InData'
        BY <1>6, <2>4, <3>1, <3>2, <3>4, <4>2, <4>3 DEF InData, BeforeSample
      <4> QED
        BY <1>3, <2>1, <2>4, <3>1, <4>1, <4>2, <4>4, <4>5 DEF Framing, LineTypes
    <3> QED
      BY <3>3, <3>4
  <2>5. CASE state = "Stop" /\ tx_bit_idx = DataBits - 1 /\ AfterSample /\ value = tx_shift
    <3>1. /\ countdown' = countdown - 1 /\ state' = "Stop" /\ Silent
          /\ bit' = bit /\ value' = value /\ countdown' \in Nat
      BY <1>2, <1>6, <2>5 DEF Sample, CountDown
    <3>2. CASE ~TxTick
      <4>1. tx' = tx /\ tx_state' = "data" /\ tx_bit_idx' = tx_bit_idx
        BY <1>2, <2>1, <3>2 DEF FrameEdge
      <4>2. tx' = BitOf(tx_shift', tx_bit_idx')
        BY <2>1, <4>1
      <4>3. InData'
        BY <1>6, <2>1, <2>5, <3>1, <3>2, <4>1, <4>2 DEF InData, AfterSample
      <4> QED
        BY <1>3, <2>1, <2>2, <2>5, <3>1, <4>1, <4>3 DEF Framing, LineTypes
    <3>3. CASE TxTick
      <4>1. tx' = 1 /\ tx_state' = "stop" /\ tx_bit_idx' = tx_bit_idx
        BY <1>2, <2>1, <2>5, <3>3 DEF FrameEdge
      <4>2. InStop'
        BY <1>6, <2>1, <2>5, <3>1, <3>3, <4>1 DEF InStop, BeforeSample
      <4> QED
        BY <1>3, <2>1, <2>5, <3>1, <4>1, <4>2 DEF Framing, LineTypes
    <3> QED
      BY <3>2, <3>3
  <2> QED
    BY <1>9, <2>3, <2>4, <2>5 DEF InData
<1>10. CASE InStop
  <2>1. tx_state = "stop" /\ tx = 1 /\ ~TxPop /\ tx_shift' = tx_shift
    BY <1>4, <1>10 DEF InStop
  <2>2. tx' = 1 /\ tx_bit_idx' = tx_bit_idx /\ tx_state' = IF TxTick THEN "idle" ELSE "stop"
    BY <1>2, <2>1 DEF FrameEdge
  <2>3. CASE state = "Stop" /\ value = tx_shift /\ BeforeSample
    <3>1. tx_state' = "stop"
      BY <1>5, <2>2, <2>3
    <3>2. CASE countdown # 0
      <4>1. /\ countdown' = countdown - 1 /\ state' = "Stop" /\ Silent
            /\ bit' = bit /\ value' = value
        BY <1>2, <2>3, <3>2 DEF Sample, CountDown
      <4>2. InStop'
        BY <1>5, <2>1, <2>2, <2>3, <3>1, <4>1 DEF InStop, BeforeSample
      <4> QED
        BY <1>3, <2>1, <2>2, <2>3, <3>1, <3>2, <4>1, <4>2 DEF Framing, LineTypes
    <3>3. CASE countdown = 0
      <4>1. state' = "Idle" /\ countdown' = countdown /\ bit' = bit /\ value' = value /\ Emit(value)
        BY <1>2, <2>2, <2>3, <3>3 DEF Sample
      <4>2. InStop' /\ Emit(tx_shift)
        BY <2>2, <2>3, <3>1, <4>1 DEF InStop
      <4> QED
        BY <1>3, <2>1, <2>2, <2>3, <3>1, <4>1, <4>2 DEF Framing, LineTypes
    <3> QED
      BY <3>2, <3>3
  <2>4. CASE state = "Idle"
    <3>1. state' = "Idle" /\ countdown' = countdown /\ bit' = bit /\ value' = value /\ Silent
      BY <1>2, <2>2, <2>4 DEF Sample
    <3> QED
      BY <1>3, <2>1, <2>2, <2>4, <3>1 DEF Framing, LineIdle, InStop, LineTypes
  <2> QED
    BY <1>10, <2>3, <2>4 DEF InStop
<1> QED
  BY <1>7, <1>8, <1>9, <1>10 DEF Framing

(* Appending keeps what is there. *)
LEMMA Appended ==
  ASSUME NEW S, NEW s \in Seq(S), NEW c \in S
  PROVE  /\ Append(s, c) \in Seq(S)
         /\ Len(Append(s, c)) = Len(s) + 1
         /\ \A k \in 1..Len(s) : Append(s, c)[k] = s[k]
         /\ Append(s, c)[Len(s) + 1] = c
  OBVIOUS

(* The data of a store are a character. *)
LEMMA StoredCharacter ==
  ASSUME NEW access \in Access, access.op = "store"
  PROVE  access.data \in Character
  BY DEF Access, Nothing, LoadStatus, StoreByte

(* The ring buffer: a byte is stored behind the last one taken, never over *)
(* one that waits.                                                         *)
LEMMA RingStep ==
  ASSUME Registers, Ring, NEW access \in Access, Cycle(access)
  PROVE  /\ Ring'
         /\ Popped' = Popped + (IF TxPop THEN 1 ELSE 0)
         /\ TxPop => /\ Popped + 1 \in 1..Len(accepted)
                     /\ tx_shift' = accepted[Popped + 1]
         /\ ~TxPop => tx_shift' = tx_shift
         /\ tx_count' \in 0..Depth
         /\ tx_buffer' \in [0..Depth - 1 -> Character]
         /\ accepted' \in Seq(Character)
         /\ Len(accepted) <= Len(accepted')
         /\ \A j \in 1..Len(accepted) : accepted'[j] = accepted[j]
<1> DEFINE a == Len(accepted)
<1>1. /\ FifoEdge(access)
      /\ accepted' = IF TxPush(access) THEN Append(accepted, access.data) ELSE accepted
  BY DEF Cycle, UartEdge
<1>2. /\ Depth \in Nat \ {0}
      /\ accepted \in Seq(Character) /\ a \in Nat
      /\ tx_count \in 0..Depth
      /\ tx_buffer \in [0..Depth - 1 -> Character]
  BY UartAssumption DEF Registers
<1>3. /\ Popped \in Nat /\ a = Popped + tx_count
      /\ tx_head = Popped % Depth
      /\ tx_tail = a % Depth
  BY <1>2 DEF Ring, Popped
<1>4. \A k \in Nat : k % Depth \in 0..Depth - 1
  BY <1>2
<1>5. TxPush(access) => access.data \in Character /\ tx_count < Depth
  BY StoredCharacter DEF TxPush
<1>6. TxPop => tx_count # 0
  BY DEF TxPop
<1>7. tx_count' = tx_count + (IF TxPush(access) THEN 1 ELSE 0) - (IF TxPop THEN 1 ELSE 0)
  BY <1>1 DEF FifoEdge
<1>8. tx_count' \in 0..Depth
  BY <1>2, <1>5, <1>6, <1>7
<1>9. TxPop => Popped + 1 \in 1..a /\ tx_shift' = accepted[Popped + 1]
  <2> SUFFICES ASSUME TxPop PROVE Popped + 1 \in 1..a /\ tx_shift' = accepted[Popped + 1]
    OBVIOUS
  <2>1. Popped + 1 \in 1..a
    BY <1>2, <1>3, <1>6
  <2>2. tx_buffer[((Popped + 1) - 1) % Depth] = accepted[Popped + 1]
    BY <1>3, <2>1 DEF Ring
  <2>3. (Popped + 1) - 1 = Popped
    BY <1>3
  <2>4. tx_shift' = tx_buffer[tx_head]
    BY <1>1 DEF FifoEdge
  <2> QED
    BY <1>3, <2>1, <2>2, <2>3, <2>4
<1>10. ~TxPop => tx_shift' = tx_shift
  BY <1>1 DEF FifoEdge
<1>11. CASE ~TxPush(access)
  <2>1. accepted' = accepted /\ tx_buffer' = tx_buffer /\ tx_tail' = tx_tail
    BY <1>1, <1>11 DEF FifoEdge
  <2>2. Popped' = Popped + (IF TxPop THEN 1 ELSE 0)
    BY <1>2, <1>7, <1>11, <2>1 DEF Popped
  <2>3. tx_head' = Popped' % Depth
    <3>1. CASE TxPop
      <4>1. tx_head' = (tx_head + 1) % Depth
        BY <1>1, <3>1 DEF FifoEdge
      <4> QED
        BY <1>2, <1>3, <2>2, <3>1, <4>1, NextIndex
    <3>2. CASE ~TxPop
      BY <1>1, <1>3, <2>2, <3>2 DEF FifoEdge
    <3> QED
      BY <3>1, <3>2
  <2>4. \A j \in 1..Len(accepted') :
          Popped' < j => tx_buffer'[(j - 1) % Depth] = accepted'[j]
    BY <1>2, <1>3, <2>1, <2>2 DEF Ring
  <2>5. 0 <= Popped'
    BY <1>3, <2>2
  <2>6. Ring'
    BY <1>3, <2>1, <2>3, <2>4, <2>5 DEF Ring
  <2> QED
    BY <1>2, <1>8, <1>9, <1>10, <2>1, <2>2, <2>6
<1>12. CASE TxPush(access)
  <2>1. /\ accepted' = Append(accepted, access.data)
        /\ tx_buffer' = [tx_buffer EXCEPT ![tx_tail] = access.data]
        /\ tx_tail' = (tx_tail + 1) % Depth
    BY <1>1, <1>12 DEF FifoEdge
  <2>2. /\ accepted' \in Seq(Character)
        /\ Len(accepted') = a + 1
        /\ \A j \in 1..a : accepted'[j] = accepted[j]
        /\ accepted'[a + 1] = access.data
    BY <1>2, <1>5, <1>12, <2>1, Appended
  <2>3. Popped' = Popped + (IF TxPop THEN 1 ELSE 0)
    BY <1>2, <1>3, <1>7, <1>12, <2>2 DEF Popped
  <2>4. tx_head' = Popped' % Depth
    <3>1. CASE TxPop
      <4>1. tx_head' = (tx_head + 1) % Depth
        BY <1>1, <3>1 DEF FifoEdge
      <4> QED
        BY <1>2, <1>3, <2>3, <3>1, <4>1, NextIndex
    <3>2. CASE ~TxPop
      BY <1>1, <1>3, <2>3, <3>2 DEF FifoEdge
    <3> QED
      BY <3>1, <3>2
  <2>5. tx_tail' = Len(accepted') % Depth
    BY <1>2, <1>3, <2>1, <2>2, NextIndex
  <2>6. tx_buffer' \in [0..Depth - 1 -> Character]
    BY <1>2, <1>5, <1>12, <2>1
  <2>7. ASSUME NEW j \in 1..Len(accepted'), Popped' < j
        PROVE  tx_buffer'[(j - 1) % Depth] = accepted'[j]
    <3>1. j - 1 \in Nat /\ Popped < j
      BY <1>2, <1>3, <2>2, <2>3, <2>7
    <3>4. (j - 1) % Depth \in 0..Depth - 1
      BY <1>4, <3>1
    <3>2. CASE j <= a
      <4> DEFINE i == j - 1
      <4>1. i \in Nat /\ i < a /\ a - i < Depth
        BY <1>2, <1>3, <1>5, <1>12, <3>1, <3>2
      <4> HIDE DEF i
      <4>2. i % Depth # a % Depth
        BY <1>2, <4>1, DistinctIndices
      <4>3. (j - 1) % Depth # tx_tail
        BY <1>3, <4>2 DEF i
      <4>4. tx_buffer'[(j - 1) % Depth] = tx_buffer[(j - 1) % Depth]
        BY <1>2, <2>1, <3>4, <4>3
      <4>5. j \in 1..a /\ tx_buffer[(j - 1) % Depth] = accepted[j]
        BY <1>2, <2>2, <3>1, <3>2 DEF Ring
      <4> QED
        BY <2>2, <4>4, <4>5
    <3>3. CASE ~(j <= a)
      <4>1. j = a + 1 /\ j - 1 = a
        BY <1>2, <2>2, <3>3
      <4>2. (j - 1) % Depth = tx_tail
        BY <1>3, <4>1
      <4> QED
        BY <1>2, <2>1, <2>2, <3>4, <4>1, <4>2
    <3> QED
      BY <3>2, <3>3
  <2>8. 0 <= Popped'
    BY <1>3, <2>3
  <2>9. Ring'
    BY <2>4, <2>5, <2>7, <2>8 DEF Ring
  <2>10. a <= Len(accepted')
    BY <1>2, <2>2
  <2> QED
    BY <1>8, <1>9, <1>10, <2>2, <2>3, <2>6, <2>9, <2>10
<1> QED
  BY <1>11, <1>12

(* A byte the UART refuses leaves the overflow flag behind. *)
LEMMA LossesStep ==
  ASSUME Registers, Losses, NEW access \in Access, Cycle(access)
  PROVE  Losses' /\ written' \in Seq(Character) /\ overflow_error' \in BOOLEAN
<1>1. /\ written' = IF access.op = "store" THEN Append(written, access.data) ELSE written
      /\ accepted' = IF TxPush(access) THEN Append(accepted, access.data) ELSE accepted
      /\ overflow_error' = (overflow_error \/ (access.op = "store" /\ ~TxPush(access)))
  BY DEF Cycle, UartEdge, FlagEdge
<1>2. accepted \in Seq(Character) /\ written \in Seq(Character) /\ overflow_error \in BOOLEAN
  BY DEF Registers
<1>3. CASE access.op # "store"
  <2>1. ~TxPush(access)
    BY <1>3 DEF TxPush
  <2> QED
    BY <1>1, <1>2, <1>3, <2>1 DEF Losses
<1>4. CASE access.op = "store" /\ TxPush(access)
  <2>1. access.data \in Character
    BY <1>4, StoredCharacter
  <2>2. /\ written' = Append(written, access.data)
        /\ accepted' = Append(accepted, access.data)
        /\ overflow_error' = overflow_error
    BY <1>1, <1>2, <1>4
  <2>3. /\ written' \in Seq(Character)
        /\ Len(written') = Len(written) + 1 /\ Len(accepted') = Len(accepted) + 1
    BY <1>2, <2>1, <2>2, Appended
  <2> QED
    BY <1>2, <2>2, <2>3 DEF Losses
<1>5. CASE access.op = "store" /\ ~TxPush(access)
  <2>1. access.data \in Character
    BY <1>5, StoredCharacter
  <2>2. /\ written' = Append(written, access.data)
        /\ accepted' = accepted
        /\ overflow_error' = TRUE
    BY <1>1, <1>5
  <2>3. /\ written' \in Seq(Character)
        /\ Len(written') = Len(written) + 1
    BY <1>2, <2>1, <2>2, Appended
  <2> QED
    BY <1>2, <2>2, <2>3 DEF Losses
<1> QED
  BY <1>3, <1>4, <1>5

(* What is printed follows what the UART took. *)
LEMMA DeliveredStep ==
  ASSUME Registers, Framing, Ring, Delivered, NEW access \in Access, Cycle(access)
  PROVE  /\ Delivered'
         /\ tx_shift' \in Character /\ decoded' \in Seq(Character)
<1>1. \/ TxPop /\ state = "Idle" /\ state' # "Idle" /\ Silent
      \/ ~TxPop /\ state # "Idle" /\ state' = "Idle" /\ Emit(tx_shift)
      \/ ~TxPop /\ (state' = "Idle" <=> state = "Idle") /\ Silent
  BY FrameStep
<1>2. /\ Popped' = Popped + (IF TxPop THEN 1 ELSE 0)
      /\ TxPop => /\ Popped + 1 \in 1..Len(accepted)
                  /\ tx_shift' = accepted[Popped + 1]
      /\ ~TxPop => tx_shift' = tx_shift
      /\ Len(accepted) <= Len(accepted') /\ Len(accepted') \in Nat
      /\ \A j \in 1..Len(accepted) : accepted'[j] = accepted[j]
  BY RingStep
<1>3. /\ Popped \in Nat /\ Popped <= Len(accepted) /\ Len(accepted) \in Nat
      /\ tx_shift \in Character /\ decoded \in Seq(Character)
      /\ accepted \in Seq(Character)
  BY DEF Ring, Popped, Registers
<1>4. /\ Len(decoded) = IF state # "Idle" THEN Popped - 1 ELSE Popped
      /\ state # "Idle" => tx_shift = accepted[Popped]
      /\ \A j \in 1..Len(decoded) : decoded[j] = accepted[j]
  BY DEF Delivered, Sending
<1>5. CASE TxPop /\ state = "Idle" /\ state' # "Idle" /\ Silent
  <2>1. decoded' = decoded
    BY <1>5 DEF Silent
  <2>2. Popped' = Popped + 1 /\ tx_shift' = accepted'[Popped']
    BY <1>2, <1>5
  <2>3. tx_shift' \in Character
    BY <1>2, <1>3, <1>5
  <2>4. \A j \in 1..Len(decoded) : accepted'[j] = accepted[j]
    BY <1>2, <1>3, <1>4
  <2> QED
    BY <1>3, <1>4, <1>5, <2>1, <2>2, <2>3, <2>4 DEF Delivered, Sending
<1>6. CASE ~TxPop /\ state # "Idle" /\ state' = "Idle" /\ Emit(tx_shift)
  <2>1. decoded' = Append(decoded, tx_shift)
    BY <1>6 DEF Emit
  <2>2. /\ decoded' \in Seq(Character)
        /\ Len(decoded') = Len(decoded) + 1
        /\ \A j \in 1..Len(decoded) : decoded'[j] = decoded[j]
        /\ decoded'[Len(decoded) + 1] = tx_shift
    BY <1>3, <2>1, Appended
  <2>3. Len(decoded') = Popped /\ Popped' = Popped /\ tx_shift' = tx_shift
    BY <1>2, <1>3, <1>4, <1>6, <2>2
  <2>4. ASSUME NEW j \in 1..Len(decoded')
        PROVE  decoded'[j] = accepted'[j]
    <3>1. j \in 1..Len(accepted) /\ accepted'[j] = accepted[j]
      BY <1>2, <1>3, <2>3
    <3>2. CASE j \in 1..Len(decoded)
      BY <1>4, <2>2, <3>1, <3>2
    <3>3. CASE j \notin 1..Len(decoded)
      <4>1. j = Len(decoded) + 1 /\ j = Popped
        BY <1>3, <2>2, <2>3, <3>3
      <4> QED
        BY <1>4, <1>6, <2>2, <3>1, <4>1
    <3> QED
      BY <3>2, <3>3
  <2> QED
    BY <1>3, <1>6, <2>2, <2>3, <2>4 DEF Delivered, Sending
<1>7. CASE ~TxPop /\ (state' = "Idle" <=> state = "Idle") /\ Silent
  <2>1. decoded' = decoded
    BY <1>7 DEF Silent
  <2>2. Popped' = Popped /\ tx_shift' = tx_shift
    BY <1>2, <1>3, <1>7
  <2>3. \A j \in 1..Len(decoded) : accepted'[j] = accepted[j]
    BY <1>2, <1>3, <1>4
  <2>4. state # "Idle" => Popped \in 1..Len(accepted)
    BY <1>3, <1>4
  <2> QED
    BY <1>2, <1>3, <1>4, <1>7, <2>1, <2>2, <2>3, <2>4 DEF Delivered, Sending
<1> QED
  BY <1>1, <1>5, <1>6, <1>7

(* The places at which an occurrence of the marker ends. *)
LEMMA EndsOf ==
  ASSUME NEW s, Len(s) \in Nat
  PROVE  {n + Len(Marker) : n \in {m \in 0..Len(s) - Len(Marker) :
                                     \A k \in 1..Len(Marker) : s[m + k] = Marker[k]}}
           = {e \in Len(Marker)..Len(s) :
                \A k \in 1..Len(Marker) : s[(e - Len(Marker)) + k] = Marker[k]}
<1> DEFINE L == Len(Marker)
           A == {m \in 0..Len(s) - L : \A k \in 1..L : s[m + k] = Marker[k]}
           B == {e \in L..Len(s) : \A k \in 1..L : s[(e - L) + k] = Marker[k]}
<1>1. L \in Nat
  BY ConsoleAssumption
<1> HIDE DEF L
<1>2. ASSUME NEW m \in A
      PROVE  m + L \in B
  <2>1. m \in 0..Len(s) - L /\ m + L \in L..Len(s) /\ (m + L) - L = m
    BY <1>1
  <2> QED
    BY <2>1
<1>3. ASSUME NEW e \in B
      PROVE  e - L \in A /\ e = (e - L) + L
  BY <1>1
<1>4. {n + L : n \in A} \subseteq B
  BY <1>2
<1>5. B \subseteq {n + L : n \in A}
  <2> SUFFICES ASSUME NEW e \in B PROVE e \in {n + L : n \in A}
    OBVIOUS
  <2>1. e - L \in A /\ e = (e - L) + L
    BY <1>3
  <2> QED
    BY <2>1
<1> QED
  BY <1>4, <1>5 DEF L

(* The search for the marker: as its first character does not come again,  *)
(* at most one beginning of it can be pending, the one marker_pos counts.  *)
LEMMA SearchEmit ==
  ASSUME Search, exit = "running", decoded \in Seq(Character), NEW c \in Character, Emit(c)
  PROVE  Search' /\ exit' \in {"running", "0"}
<1> DEFINE L == Len(Marker)
           n == Len(decoded)
<1>1. /\ L \in Nat /\ L >= 1
      /\ \A k \in 2..L : Marker[k] # Marker[1]
  BY ConsoleAssumption, EmptySeq
<1>2. /\ decoded' = Append(decoded, c)
      /\ Match(c)
      /\ exit' = IF marker_seen /\ c = LF THEN "0" ELSE "running"
  BY DEF Emit
<1>3. /\ n \in Nat /\ decoded' \in Seq(Character)
      /\ Len(decoded') = n + 1
      /\ \A k \in 1..n : decoded'[k] = decoded[k]
      /\ decoded'[n + 1] = c
  BY <1>2, Appended
<1>4. MarkerEnds = {e \in L..n : \A k \in 1..L : decoded[(e - L) + k] = Marker[k]}
  <2>1. PICK s : s = decoded
    OBVIOUS
  <2>2. MarkerEnds = {m + Len(Marker) : m \in {i \in 0..Len(s) - Len(Marker) :
                                     \A k \in 1..Len(Marker) : s[i + k] = Marker[k]}}
    BY <2>1 DEF MarkerEnds, Occurs
  <2>3. Len(s) \in Nat
    BY <1>3, <2>1
  <2>4. MarkerEnds = {e \in Len(Marker)..Len(s) :
                        \A k \in 1..Len(Marker) : s[(e - Len(Marker)) + k] = Marker[k]}
    BY <2>2, <2>3, EndsOf
  <2> QED
    BY <2>1, <2>4
<1>5. MarkerEnds' = {e \in L..n + 1 : \A k \in 1..L : decoded'[(e - L) + k] = Marker[k]}
  <2>1. PICK s : s = decoded'
    OBVIOUS
  <2>2. MarkerEnds' = {m + Len(Marker) : m \in {i \in 0..Len(s) - Len(Marker) :
                                     \A k \in 1..Len(Marker) : s[i + k] = Marker[k]}}
    BY <2>1 DEF MarkerEnds, Occurs
  <2>3. Len(s) = n + 1 /\ Len(s) \in Nat
    BY <1>3, <2>1
  <2>4. MarkerEnds' = {e \in Len(Marker)..Len(s) :
                         \A k \in 1..Len(Marker) : s[(e - Len(Marker)) + k] = Marker[k]}
    BY <2>2, <2>3, EndsOf
  <2> QED
    BY <2>1, <2>3, <2>4
<1>6. /\ marker_seen \in BOOLEAN /\ marker_pos \in 0..L
      /\ marker_seen <=> MarkerEnds # {}
      /\ ~marker_seen => marker_pos < L /\ \A j \in 1..L : Ends(j) <=> j = marker_pos
      /\ \A e \in MarkerEnds : \A k \in e + 1..n : decoded[k] # LF
  BY DEF Search
<1> HIDE DEF L, n
<1>7. \A e \in L..n, k \in 1..L : decoded'[(e - L) + k] = decoded[(e - L) + k]
  <2> TAKE e \in L..n, k \in 1..L
  <2>1. (e - L) + k \in 1..n
    BY <1>1, <1>3
  <2> QED
    BY <1>3, <2>1
<1>8. ASSUME NEW e \in L..n PROVE e \in MarkerEnds' <=> e \in MarkerEnds
  <2>1. e \in L..n + 1
    BY <1>1, <1>3
  <2>2. e \in MarkerEnds <=> \A k \in 1..L : decoded[(e - L) + k] = Marker[k]
    BY <1>4
  <2>3. e \in MarkerEnds' <=> \A k \in 1..L : decoded'[(e - L) + k] = Marker[k]
    BY <1>5, <2>1
  <2> QED
    BY <1>7, <2>2, <2>3
<1>9. MarkerEnds \subseteq L..n /\ MarkerEnds' \subseteq L..n + 1
  BY <1>4, <1>5
<1>10. n + 1 \in MarkerEnds' <=> Ends(L)'
  <2>1. Ends(L)' <=> L <= n + 1 /\ \A k \in 1..L : decoded'[((n + 1) - L) + k] = Marker[k]
    BY <1>3 DEF Ends, L
  <2>2. L <= n + 1 <=> n + 1 \in L..n + 1
    BY <1>1, <1>3
  <2> QED
    BY <1>5, <2>1, <2>2
<1>11. MarkerEnds \subseteq MarkerEnds'
  BY <1>8, <1>9
<1>12. \A e \in MarkerEnds' : e \in MarkerEnds \/ e = n + 1
  BY <1>1, <1>3, <1>8, <1>9
<1>13. CASE marker_seen
  <2>1. marker_seen' = marker_seen /\ marker_pos' = marker_pos
    BY <1>2, <1>13 DEF Match
  <2>2. MarkerEnds # {} /\ MarkerEnds' # {}
    BY <1>6, <1>11, <1>13
  <2>3. CASE c = LF
    <3>1. exit' = "0"
      BY <1>2, <1>13, <2>3
    <3>2. PICK e \in MarkerEnds : TRUE
      BY <2>2
    <3>3. e \in MarkerEnds' /\ n + 1 \in e + 1..Len(decoded') /\ decoded'[n + 1] = LF
      BY <1>1, <1>3, <1>9, <1>11, <2>3, <3>2
    <3>4. \E d \in MarkerEnds' : \E k \in d + 1..Len(decoded') : decoded'[k] = LF
      BY <3>3
    <3> QED
      BY <1>6, <1>13, <2>1, <2>2, <3>1, <3>4 DEF Search, L
  <2>4. CASE c # LF
    <3>1. exit' = "running"
      BY <1>2, <2>4
    <3>2. ASSUME NEW e \in MarkerEnds', NEW k \in e + 1..Len(decoded')
          PROVE  decoded'[k] # LF
      <4>1. e \in MarkerEnds /\ e \in L..n
        BY <1>1, <1>3, <1>9, <1>12, <3>2
      <4>2. CASE k = n + 1
        BY <1>3, <2>4, <4>2
      <4>3. CASE k # n + 1
        <5>1. k \in 1..n /\ k \in e + 1..n
          BY <1>1, <1>3, <3>2, <4>1, <4>3
        <5> QED
          BY <1>3, <1>6, <4>1, <5>1
      <4> QED
        BY <4>2, <4>3
    <3> QED
      BY <1>6, <1>13, <2>1, <2>2, <3>1, <3>2 DEF Search, L
  <2> QED
    BY <2>3, <2>4
<1>14. CASE ~marker_seen
  <2>1. exit' = "running" /\ MarkerEnds = {} /\ marker_pos \in 0..L - 1
    BY <1>1, <1>2, <1>6, <1>14
  <2>2. /\ marker_pos' = IF c = Marker[marker_pos + 1] THEN marker_pos + 1
                         ELSE IF c = Marker[1] THEN 1 ELSE 0
        /\ marker_seen' = (marker_pos' = L)
    BY <1>2, <1>14 DEF Match, L
  <2>3. marker_pos' \in 0..L
    BY <1>1, <2>1, <2>2
  <2>4. Ends(1)' <=> c = Marker[1]
    <3>1. Ends(1)' <=> 1 <= n + 1 /\ \A k \in 1..1 : decoded'[((n + 1) - 1) + k] = Marker[k]
      BY <1>3 DEF Ends
    <3>2. 1 <= n + 1 /\ \A k \in 1..1 : k = 1 /\ ((n + 1) - 1) + k = n + 1
      BY <1>3
    <3>3. 1 \in 1..1
      OBVIOUS
    <3> QED
      BY <1>3, <3>1, <3>2, <3>3
  <2>5. ASSUME NEW j \in 2..L
        PROVE  Ends(j)' <=> Ends(j - 1) /\ c = Marker[j]
    <3>1. Ends(j)' <=> j <= n + 1 /\ \A k \in 1..j : decoded'[((n + 1) - j) + k] = Marker[k]
      BY <1>3 DEF Ends
    <3>2. Ends(j - 1) <=> j - 1 <= n /\ \A k \in 1..j - 1 : decoded[(n - (j - 1)) + k] = Marker[k]
      BY DEF Ends, n
    <3>3. j \in Nat /\ j - 1 \in Nat /\ (j <= n + 1 <=> j - 1 <= n)
      BY <1>1, <1>3
    <3>4. SUFFICES ASSUME j <= n + 1
                   PROVE  (\A k \in 1..j : decoded'[((n + 1) - j) + k] = Marker[k])
                            <=> (/\ \A k \in 1..j - 1 : decoded[(n - (j - 1)) + k] = Marker[k]
                                 /\ c = Marker[j])
      BY <3>1, <3>2, <3>3
    <3>5. \A k \in 1..j - 1 : /\ ((n + 1) - j) + k = (n - (j - 1)) + k
                              /\ (n - (j - 1)) + k \in 1..n
      BY <1>3, <3>3, <3>4
    <3>6. ((n + 1) - j) + j = n + 1
      BY <1>3, <3>3
    <3>7. 1..j = (1..j - 1) \cup {j}
      BY <3>3
    <3> QED
      BY <1>3, <3>5, <3>6, <3>7
  <2>6. ASSUME NEW j \in 1..L
        PROVE  Ends(j)' <=> j = marker_pos'
    <3>1. CASE j = 1
      <4>1. marker_pos' = 1 <=> c = Marker[1]
        <5>1. CASE marker_pos = 0
          BY <2>2, <5>1
        <5>2. CASE marker_pos # 0
          <6>1. marker_pos + 1 \in 2..L
            BY <1>1, <2>1, <5>2
          <6>2. Marker[marker_pos + 1] # Marker[1] /\ marker_pos + 1 # 1
            BY <1>1, <6>1
          <6> QED
            BY <2>2, <6>2
        <5> QED
          BY <5>1, <5>2
      <4> QED
        BY <2>4, <3>1, <4>1
    <3>2. CASE j # 1
      <4>1. j \in 2..L /\ j - 1 \in 1..L /\ j # 0
        BY <1>1, <3>2
      <4>2. Ends(j)' <=> j - 1 = marker_pos /\ c = Marker[j]
        BY <1>6, <1>14, <2>5, <4>1
      <4>3. j - 1 = marker_pos <=> j = marker_pos + 1
        BY <1>1, <2>1
      <4> QED
        BY <2>2, <3>2, <4>1, <4>2, <4>3
    <3> QED
      BY <3>1, <3>2
  <2>7. n + 1 \in MarkerEnds' <=> marker_pos' = L
    BY <1>1, <1>10, <2>6
  <2>8. marker_seen' <=> MarkerEnds' # {}
    BY <1>12, <2>1, <2>2, <2>7
  <2>9. ASSUME NEW e \in MarkerEnds', NEW k \in e + 1..Len(decoded')
        PROVE  decoded'[k] # LF
    BY <1>3, <1>12, <2>1, <2>9
  <2>10. ~marker_seen' => marker_pos' < L
    <3>1. ~marker_seen' => marker_pos' # L
      BY <2>2
    <3> QED
      BY <1>1, <2>3, <3>1
  <2> QED
    BY <2>1, <2>2, <2>3, <2>6, <2>8, <2>9, <2>10 DEF Search, L
<1> QED
  BY <1>2, <1>13, <1>14

(* The marker's search when the decoder prints nothing. *)
LEMMA SearchSilent ==
  ASSUME Search, Silent
  PROVE  Search' /\ exit' = exit
  BY DEF Search, Silent, MarkerEnds, Occurs, Ends

(* Every turn of the test bench's loop keeps the invariant, and so does    *)
(* running out of cycles.                                                  *)
LEMMA ConsoleStepInv == ConsoleInv /\ [ConsoleNext]_consoleVars => ConsoleInv'
<1> SUFFICES ASSUME ConsoleInv, [ConsoleNext]_consoleVars PROVE ConsoleInv'
  OBVIOUS
<1>1. Registers /\ Framing /\ Ring /\ Delivered /\ Losses /\ Search
  BY DEF ConsoleInv
<1>2. CASE Clock
  <2>1. PICK access \in Access : Cycle(access)
    BY <1>2 DEF Clock, Access
  <2>2. exit = "running"
    BY <2>1 DEF Cycle
  <2>3. /\ Framing' /\ LineTypes'
        /\ Silent \/ Emit(tx_shift)
    BY <1>1, <2>1, FrameStep
  <2>4. /\ Ring' /\ tx_count' \in 0..Depth
        /\ tx_buffer' \in [0..Depth - 1 -> Character]
        /\ accepted' \in Seq(Character)
    BY <1>1, <2>1, RingStep
  <2>5. Losses' /\ written' \in Seq(Character) /\ overflow_error' \in BOOLEAN
    BY <1>1, <2>1, LossesStep
  <2>6. Delivered' /\ tx_shift' \in Character /\ decoded' \in Seq(Character)
    BY <1>1, <2>1, DeliveredStep
  <2>7. Search' /\ exit' \in {"running", "0"}
    BY <1>1, <2>2, <2>3, SearchEmit, SearchSilent DEF Registers
  <2>8. Registers'
    BY <2>3, <2>4, <2>5, <2>6, <2>7 DEF Registers, LineTypes
  <2> QED
    BY <2>3, <2>4, <2>5, <2>6, <2>7, <2>8 DEF ConsoleInv
<1>3. CASE Timeout
  <2>1. /\ UNCHANGED <<uartVars, decoderVars, written, accepted, decoded>>
        /\ exit' = "2"
    BY <1>3 DEF Timeout
  <2>2. Registers'
    BY <1>1, <2>1 DEF Registers, uartVars, decoderVars
  <2>3. Framing'
    BY <1>1, <2>1 DEF Framing, LineIdle, InStart, InData, InStop, BeforeSample, AfterSample,
                      BitOf, uartVars, decoderVars
  <2>4. Ring' /\ Delivered' /\ Losses'
    BY <1>1, <2>1 DEF Ring, Popped, Delivered, Sending, Losses, uartVars, decoderVars
  <2>5. Search'
    BY <1>1, <2>1 DEF Search, MarkerEnds, Occurs, Ends, decoderVars
  <2> QED
    BY <2>2, <2>3, <2>4, <2>5 DEF ConsoleInv
<1>4. CASE UNCHANGED consoleVars
  <2>1. UNCHANGED <<uartVars, decoderVars, exit, written, accepted, decoded>>
    BY <1>4 DEF consoleVars
  <2>2. Registers'
    BY <1>1, <2>1 DEF Registers, uartVars, decoderVars
  <2>3. Framing'
    BY <1>1, <2>1 DEF Framing, LineIdle, InStart, InData, InStop, BeforeSample, AfterSample,
                      BitOf, uartVars, decoderVars
  <2>4. Ring' /\ Delivered' /\ Losses'
    BY <1>1, <2>1 DEF Ring, Popped, Delivered, Sending, Losses, uartVars, decoderVars
  <2>5. Search'
    BY <1>1, <2>1 DEF Search, MarkerEnds, Occurs, Ends, decoderVars
  <2> QED
    BY <2>2, <2>3, <2>4, <2>5 DEF ConsoleInv
<1> QED
  BY <1>2, <1>3, <1>4 DEF ConsoleNext

LEMMA ConsoleInvariance == ConsoleSpec => []ConsoleInv
  BY ConsoleInitInv, ConsoleStepInv, PTL DEF ConsoleSpec

-----------------------------------------------------------------------------
(* Every byte that the UART takes reaches the test bench unchanged and in  *)
(* order, the line is never out of frame, and a byte that is not taken is  *)
(* reported: for every buffer depth, byte width and divisor, whatever the  *)
(* program prints.                                                         *)
THEOREM LineFaithful == ConsoleSpec => []LineIsFaithful
<1>1. ConsoleInv => LineIsFaithful
  <2> SUFFICES ASSUME ConsoleInv PROVE LineIsFaithful
    OBVIOUS
  <2>1. Registers /\ Ring /\ Delivered /\ Losses
    BY DEF ConsoleInv
  <2>2. /\ decoded \in Seq(Character) /\ accepted \in Seq(Character)
        /\ Len(decoded) <= Len(accepted)
        /\ \A j \in 1..Len(decoded) : decoded[j] = accepted[j]
    BY <2>1 DEF Registers, Ring, Popped, Delivered
  <2>3. IsPrefix(decoded, accepted)
    BY <2>2 DEF IsPrefix
  <2>4. overflow_error <=> accepted # written
    BY <2>1 DEF Registers, Losses
  <2> QED
    BY <2>1, <2>3, <2>4 DEF LineIsFaithful, Registers
<1> QED
  BY <1>1, ConsoleInvariance, PTL

(* The test bench succeeds exactly at the first end of line behind the     *)
(* marker.                                                                 *)
THEOREM SuccessAtMarker == ConsoleSpec => []EndsOnMarker
<1>1. ConsoleInv => EndsOnMarker
  BY DEF ConsoleInv, Search, EndsOnMarker
<1> QED
  BY <1>1, ConsoleInvariance, PTL

-----------------------------------------------------------------------------
(* How long a byte takes: the measure behind AcceptedArrives.              *)

(* Ticks until the serializer can take the next byte, and until it is done *)
(* with byte j of those that the UART has taken.                           *)
FrameLeft ==
  CASE tx_state = "idle"  -> 0
    [] tx_state = "start" -> DataBits + 2
    [] tx_state = "data"  -> (DataBits + 1) - tx_bit_idx
    [] tx_state = "stop"  -> 1

TicksLeft(j) == FrameLeft + (j - Popped) * (DataBits + 3)

(* Periods until byte j has left the serializer. *)
PeriodsLeft(j) ==
  IF Popped <= j /\ TicksLeft(j) > 0 THEN TicksLeft(j) * (Baud + 1) - baud_cnt ELSE 0

(* The time of a full buffer behind a byte that has just been taken out.   *)
Longest == ((Depth + 1) * (DataBits + 3) - 1) * (Baud + 1)

LEMMA OneFrameLess ==
  ASSUME NEW m \in Int, NEW f \in Nat
  PROVE  (m - 1) * (f + 3) + (f + 2) = m * (f + 3) - 1
  OBVIOUS

(* Products of the measure are numbers, and grow with their factors. *)
LEMMA Product0 ==
  ASSUME NEW m \in Nat, NEW f \in Nat
  PROVE  m * f \in Nat
  OBVIOUS

LEMMA ProductGrows ==
  ASSUME NEW m \in Nat, NEW n \in Nat, NEW f \in Nat, m <= n
  PROVE  m * f <= n * f
<1> DEFINE d == n - m
<1>1. d \in Nat /\ n = m + d
  OBVIOUS
<1> HIDE DEF d
<1>2. (m + d) * f = m * f + d * f
  BY <1>1
<1>3. m * f \in Nat /\ d * f \in Nat
  BY <1>1, Product0
<1> QED
  BY <1>1, <1>2, <1>3

LEMMA FrameLeftRange ==
  ASSUME Registers
  PROVE  /\ FrameLeft \in 0..DataBits + 2
         /\ FrameLeft = 0 => tx_state = "idle"
<1>1. DataBits \in Nat \ {0} /\ tx_bit_idx \in 0..DataBits - 1
      /\ tx_state \in {"idle", "start", "data", "stop"}
  BY UartAssumption DEF Registers
<1> QED
  BY <1>1 DEF FrameLeft

(* A tick brings every byte that waits one tick nearer to its end.         *)
LEMMA TicksStep ==
  ASSUME Registers, Framing, Ring, NEW access \in Access, Cycle(access),
         NEW j \in 1..Len(accepted), Popped <= j, TicksLeft(j) > 0
  PROVE  /\ Popped' <= j
         /\ TicksLeft(j)' = TicksLeft(j) - (IF TxTick THEN 1 ELSE 0)
<1>1. /\ DataBits \in Nat \ {0} /\ tx_bit_idx \in 0..DataBits - 1
      /\ Len(accepted) \in Nat /\ j \in Nat
      /\ tx_count \in Nat /\ Popped \in Nat
      /\ Len(accepted) = Popped + tx_count
  BY UartAssumption DEF Registers, Ring, Popped
<1>2. Popped' = Popped + (IF TxPop THEN 1 ELSE 0)
  BY RingStep
<1>3. FrameEdge
  BY DEF Cycle, UartEdge
<1>4. CASE tx_state = "idle"
  <2>1. FrameLeft = 0
    BY <1>4 DEF FrameLeft
  <2>2. j # Popped
    <3> SUFFICES ASSUME j = Popped PROVE FALSE
      OBVIOUS
    <3>1. (j - Popped) * (DataBits + 3) = 0
      BY <1>1
    <3> QED
      BY <2>1, <3>1 DEF TicksLeft
  <2>3. tx_count # 0
    BY <1>1, <2>2
  <2>4. CASE TxTick
    <3>1. TxPop
      BY <1>4, <2>3, <2>4 DEF TxPop
    <3>2. tx_state' = "start" /\ Popped' = Popped + 1
      BY <1>2, <1>3, <1>4, <3>1 DEF FrameEdge
    <3>3. FrameLeft' = DataBits + 2
      BY <3>2 DEF FrameLeft
    <3> DEFINE m == j - Popped
    <3>4. m \in Int /\ j - Popped' = m - 1
      BY <1>1, <3>2
    <3>5. (m - 1) * (DataBits + 3) + (DataBits + 2) = m * (DataBits + 3) - 1
      BY <1>1, <3>4, OneFrameLess
    <3>6. /\ TicksLeft(j) = 0 + m * (DataBits + 3)
          /\ TicksLeft(j)' = (DataBits + 2) + (m - 1) * (DataBits + 3)
      BY <2>1, <3>3, <3>4 DEF TicksLeft
    <3> HIDE DEF m
    <3>7. m * (DataBits + 3) \in Int /\ (m - 1) * (DataBits + 3) \in Int
      BY <1>1, <3>4
    <3>8. PICK x \in Int, y \in Int : /\ x = m * (DataBits + 3)
                                      /\ y = (m - 1) * (DataBits + 3)
      BY <3>7
    <3>9. TicksLeft(j)' = TicksLeft(j) - 1
      BY <1>1, <3>5, <3>6, <3>8
    <3> QED
      BY <1>1, <2>2, <2>4, <3>2, <3>9
  <2>5. CASE ~TxTick
    <3>1. ~TxPop
      BY <2>5 DEF TxPop
    <3>2. tx_state' = "idle" /\ Popped' = Popped
      BY <1>1, <1>2, <1>3, <1>4, <3>1 DEF FrameEdge
    <3>3. FrameLeft' = FrameLeft
      BY <2>1, <3>2 DEF FrameLeft
    <3>4. TicksLeft(j)' = TicksLeft(j) /\ TicksLeft(j) \in Int
      BY <1>1, <2>1, <3>2, <3>3 DEF TicksLeft
    <3> QED
      BY <2>5, <3>2, <3>4
  <2> QED
    BY <2>4, <2>5
<1>5. CASE tx_state # "idle"
  <2>1. Popped' = Popped
    BY <1>1, <1>2, <1>5 DEF TxPop
  <2>2. /\ FrameLeft' = FrameLeft - (IF TxTick THEN 1 ELSE 0)
        /\ FrameLeft \in Int
    <3>1. tx_state \in {"start", "data", "stop"}
      BY <1>5 DEF Registers
    <3>2. CASE ~TxTick
      <4>1. UNCHANGED <<tx_state, tx_bit_idx>>
        BY <1>3, <1>5, <3>2 DEF FrameEdge
      <4>2. FrameLeft' = FrameLeft
        BY <4>1 DEF FrameLeft
      <4>3. FrameLeft \in Int
        BY FrameLeftRange
      <4> QED
        BY <3>2, <4>2, <4>3
    <3>3. CASE TxTick /\ tx_state = "start"
      <4>1. tx_state' = "data" /\ tx_bit_idx' = 0
        BY <1>3, <3>3 DEF FrameEdge
      <4> QED
        BY <1>1, <3>3, <4>1 DEF FrameLeft
    <3>4. CASE TxTick /\ tx_state = "data" /\ tx_bit_idx = DataBits - 1
      <4>1. tx_state' = "stop"
        BY <1>3, <3>4 DEF FrameEdge
      <4> QED
        BY <1>1, <3>4, <4>1 DEF FrameLeft
    <3>5. CASE TxTick /\ tx_state = "data" /\ tx_bit_idx # DataBits - 1
      <4>1. tx_state' = "data" /\ tx_bit_idx' = tx_bit_idx + 1
        BY <1>3, <3>5 DEF FrameEdge
      <4>2. PICK i \in Nat : i = tx_bit_idx
        BY <1>1
      <4>3. FrameLeft = (DataBits + 1) - i /\ FrameLeft' = (DataBits + 1) - (i + 1)
        BY <3>5, <4>1, <4>2 DEF FrameLeft
      <4> QED
        BY <1>1, <3>5, <4>3
    <3>6. CASE TxTick /\ tx_state = "stop"
      <4>1. tx_state' = "idle"
        BY <1>3, <3>6 DEF FrameEdge
      <4> QED
        BY <3>6, <4>1 DEF FrameLeft
    <3> QED
      BY <3>1, <3>2, <3>3, <3>4, <3>5, <3>6
  <2>3. (j - Popped) * (DataBits + 3) \in Int
    BY <1>1
  <2>4. PICK x \in Int : x = (j - Popped) * (DataBits + 3)
    BY <2>3
  <2>5. TicksLeft(j) = FrameLeft + x /\ TicksLeft(j)' = FrameLeft' + x
    BY <2>1, <2>4 DEF TicksLeft
  <2> QED
    BY <2>1, <2>2, <2>5
<1> QED
  BY <1>4, <1>5

(* Every byte of which the serializer is not done comes one period nearer, *)
(* whatever is stored behind it.                                           *)
LEMMA PeriodsStep ==
  ASSUME ConsoleInv, NEW access \in Access, Cycle(access),
         NEW j \in 1..Len(accepted), PeriodsLeft(j) > 0
  PROVE  PeriodsLeft(j)' = PeriodsLeft(j) - 1
<1>1. /\ Registers /\ Framing /\ Ring
      /\ Baud \in Nat /\ baud_cnt \in 0..Baud
  BY UartAssumption DEF ConsoleInv, Registers
<1>2. /\ Popped <= j /\ TicksLeft(j) > 0
      /\ PeriodsLeft(j) = TicksLeft(j) * (Baud + 1) - baud_cnt
  BY DEF PeriodsLeft
<1>3. /\ Popped' <= j
      /\ TicksLeft(j)' = TicksLeft(j) - (IF TxTick THEN 1 ELSE 0)
  BY <1>1, <1>2, TicksStep
<1>4. PICK t \in Nat : t = TicksLeft(j) /\ t > 0
  <2>1. /\ DataBits \in Nat /\ j \in Nat /\ Len(accepted) \in Nat
        /\ tx_count \in Nat /\ Popped \in Int
    BY <1>1, UartAssumption DEF Registers, Popped
  <2>2. (j - Popped) * (DataBits + 3) \in Int /\ FrameLeft \in Int
    BY <1>1, <2>1, FrameLeftRange
  <2> QED
    BY <1>2, <2>2 DEF TicksLeft
<1>5. /\ TxTick <=> baud_cnt = Baud
      /\ baud_cnt' = IF TxTick THEN 0 ELSE baud_cnt + 1
  BY <1>1 DEF Cycle, UartEdge, BaudEdge, TxTick
<1>6. CASE TxTick
  <2>1. TicksLeft(j)' = t - 1 /\ baud_cnt' = 0 /\ baud_cnt = Baud
    BY <1>3, <1>4, <1>5, <1>6
  <2>2. (t - 1) * (Baud + 1) = t * (Baud + 1) - (Baud + 1)
    BY <1>1, <1>4
  <2>3. PeriodsLeft(j)' = IF t - 1 > 0 THEN (t - 1) * (Baud + 1) - 0 ELSE 0
    BY <1>3, <2>1 DEF PeriodsLeft
  <2>4. PeriodsLeft(j)' = (t - 1) * (Baud + 1)
    BY <1>1, <1>4, <2>3
  <2>5. PICK x \in Int : x = t * (Baud + 1)
    BY <1>1, <1>4
  <2> QED
    BY <1>1, <1>2, <1>4, <2>1, <2>2, <2>4, <2>5
<1>7. CASE ~TxTick
  <2>1. TicksLeft(j)' = t /\ baud_cnt' = baud_cnt + 1
    BY <1>3, <1>4, <1>5, <1>7
  <2>2. PeriodsLeft(j)' = t * (Baud + 1) - (baud_cnt + 1)
    BY <1>3, <1>4, <2>1 DEF PeriodsLeft
  <2>3. PICK x \in Int : x = t * (Baud + 1)
    BY <1>1, <1>4
  <2> QED
    BY <1>1, <1>2, <1>4, <2>2, <2>3
<1> QED
  BY <1>6, <1>7

(* The longest time, and what it is the time of. *)
LEMMA PeriodsBound ==
  ASSUME ConsoleInv, NEW j \in 1..Len(accepted)
  PROVE  /\ PeriodsLeft(j) \in 0..Longest
         /\ PeriodsLeft(j) = 0 => j <= Len(decoded)
<1>1. /\ Registers /\ Framing /\ Ring /\ Delivered
      /\ Baud \in Nat /\ baud_cnt \in 0..Baud
      /\ DataBits \in Nat /\ Depth \in Nat
      /\ Len(accepted) \in Nat /\ j \in Nat /\ j >= 1 /\ j <= Len(accepted)
      /\ tx_count \in 0..Depth /\ Popped \in Nat
      /\ Len(accepted) = Popped + tx_count
  <2>1. Registers /\ Framing /\ Ring /\ Delivered
    BY DEF ConsoleInv
  <2>2. /\ Baud \in Nat /\ DataBits \in Nat /\ Depth \in Nat
        /\ baud_cnt \in 0..Baud /\ tx_count \in 0..Depth /\ Len(accepted) \in Nat
    BY <2>1, UartAssumption DEF Registers
  <2>3. 0 <= Popped
    BY <2>1 DEF Ring
  <2>4. PICK a \in Nat, c \in Nat : a = Len(accepted) /\ c = tx_count
    BY <2>2
  <2>5. Popped = a - c
    BY <2>4 DEF Popped
  <2>6. Popped \in Nat /\ Len(accepted) = Popped + tx_count
    BY <2>3, <2>4, <2>5
  <2> QED
    BY <2>1, <2>2, <2>6
<1>2. FrameLeft \in 0..DataBits + 2 /\ (FrameLeft = 0 => tx_state = "idle")
  BY <1>1, FrameLeftRange
<1>3. Longest \in Nat
  <2>1. PICK x \in Nat : x = (Depth + 1) * (DataBits + 3) /\ x >= 1
    <3>1. 1 * (DataBits + 3) <= (Depth + 1) * (DataBits + 3)
      BY <1>1, ProductGrows
    <3>2. (Depth + 1) * (DataBits + 3) \in Nat
      BY <1>1, Product0
    <3> QED
      BY <1>1, <3>1, <3>2
  <2>2. (x - 1) * (Baud + 1) \in Nat
    BY <1>1, <2>1, Product0
  <2> QED
    BY <2>1, <2>2 DEF Longest
<1>4. CASE j < Popped
  <2>1. PeriodsLeft(j) = 0
    BY <1>1, <1>4 DEF PeriodsLeft
  <2>2. j <= Len(decoded)
    BY <1>1, <1>4 DEF Delivered
  <2> QED
    BY <1>3, <2>1, <2>2
<1>5. CASE Popped <= j
  <2> DEFINE m == j - Popped
  <2>1. m \in 0..Depth
    BY <1>1, <1>5
  <2>2. TicksLeft(j) = FrameLeft + m * (DataBits + 3)
    BY DEF TicksLeft
  <2> HIDE DEF m
  <2>3. m * (DataBits + 3) \in Nat /\ m * (DataBits + 3) <= Depth * (DataBits + 3)
    BY <1>1, <2>1, Product0, ProductGrows
  <2>4. (Depth + 1) * (DataBits + 3) = Depth * (DataBits + 3) + (DataBits + 3)
    BY <1>1
  <2>5. PICK x \in Nat, z \in Nat : x = m * (DataBits + 3) /\ z = Depth * (DataBits + 3)
    BY <1>1, <2>3, Product0
  <2>6. PICK t \in Nat : t = TicksLeft(j)
    BY <1>2, <2>2, <2>3
  <2>7. PICK full \in Nat : full = (Depth + 1) * (DataBits + 3) - 1
    BY <1>1, <2>4, <2>5
  <2>8. t <= full
    BY <1>1, <1>2, <2>2, <2>3, <2>4, <2>5, <2>6, <2>7
  <2>9. t * (Baud + 1) <= full * (Baud + 1) /\ t * (Baud + 1) \in Nat
    BY <1>1, <2>8, Product0, ProductGrows
  <2>10. Longest = full * (Baud + 1)
    BY <2>7 DEF Longest
  <2>11. CASE t = 0
    <3>1. PeriodsLeft(j) = 0
      BY <2>6, <2>11 DEF PeriodsLeft
    <3>2. tx_state = "idle" /\ m = 0
      <4>1. FrameLeft = 0 /\ m * (DataBits + 3) = 0
        BY <1>2, <2>2, <2>3, <2>5, <2>6, <2>11
      <4>2. m >= 1 => 1 * (DataBits + 3) <= m * (DataBits + 3)
        BY <1>1, <2>1, ProductGrows
      <4> QED
        BY <1>1, <1>2, <2>1, <4>1, <4>2
    <3>3. j = Popped
      BY <1>1, <3>2 DEF m
    <3>4. state = "Idle"
      BY <1>1, <3>2 DEF Framing, LineIdle, InStart, InData, InStop
    <3>5. Len(decoded) = Popped
      BY <1>1, <3>4 DEF Delivered, Sending
    <3> QED
      BY <1>1, <1>3, <3>1, <3>3, <3>5
  <2>12. CASE t > 0
    <3>1. PeriodsLeft(j) = t * (Baud + 1) - baud_cnt
      BY <1>5, <2>6, <2>12 DEF PeriodsLeft
    <3>2. 1 * (Baud + 1) <= t * (Baud + 1)
      BY <1>1, <2>12, ProductGrows
    <3>3. PICK y \in Nat : y = t * (Baud + 1)
      BY <2>9
    <3>4. Baud + 1 <= y /\ y <= Longest /\ PeriodsLeft(j) = y - baud_cnt
      BY <1>1, <2>9, <2>10, <3>1, <3>2, <3>3
    <3> QED
      BY <1>1, <1>3, <3>4
  <2> QED
    BY <2>11, <2>12
<1> QED
  BY <1>1, <1>4, <1>5

(* Every clock period brings every byte that the UART has taken and not    *)
(* sent exactly one period nearer to its end: the line never pauses while  *)
(* something waits, and no byte stored later delays an earlier one.        *)
THEOREM ByteCountsDown ==
  ConsoleSpec => [][Clock => \A j \in 1..Len(accepted) :
                      PeriodsLeft(j) > 0 => PeriodsLeft(j)' = PeriodsLeft(j) - 1]_consoleVars
<1>1. ConsoleInv => (Clock => \A j \in 1..Len(accepted) :
                      PeriodsLeft(j) > 0 => PeriodsLeft(j)' = PeriodsLeft(j) - 1)
  <2> SUFFICES ASSUME ConsoleInv, Clock, NEW j \in 1..Len(accepted), PeriodsLeft(j) > 0
               PROVE  PeriodsLeft(j)' = PeriodsLeft(j) - 1
    OBVIOUS
  <2>1. PICK access \in Access : Cycle(access)
    BY DEF Clock, Access
  <2> QED
    BY <2>1, PeriodsStep
<1> QED
  BY <1>1, ConsoleInvariance, PTL

(* A byte is printed when its time is over, and that time is never longer  *)
(* than a full buffer behind a byte on the line takes.                     *)
THEOREM ByteArrivesInTime ==
  ConsoleSpec => [](\A j \in 1..Len(accepted) :
                      /\ PeriodsLeft(j) \in 0..Longest
                      /\ PeriodsLeft(j) = 0 => j <= Len(decoded))
<1>1. ConsoleInv => \A j \in 1..Len(accepted) :
                      /\ PeriodsLeft(j) \in 0..Longest
                      /\ PeriodsLeft(j) = 0 => j <= Len(decoded)
  BY PeriodsBound
<1> QED
  BY <1>1, ConsoleInvariance, PTL
=============================================================================
