--------------------------- MODULE FrontEndProofs ---------------------------
(***************************************************************************)
(* Proofs about FrontEnd: prediction is sound and invisible.               *)
(*                                                                         *)
(* The argument has two halves.  Every BTB row, the row read along with a  *)
(* fetch and the training register speak about direct jumps only and carry *)
(* their targets (SoundTable), because rows are matched by the full tag.   *)
(* And the instructions in flight, followed by the outstanding fetch, are  *)
(* a chain in which each is the predicted successor of the one before      *)
(* (Chained), so that an instruction whose prediction EX confirms is       *)
(* followed by the right one.                                              *)
(***************************************************************************)
EXTENDS FrontEnd, TLAPS

PredictedAfter(d) == IF d.taken THEN d.target ELSE NextPC[d.pc]

SoundRow(r, e) ==
  \A p \in PC : Index[p] = r /\ Tag[p] = e.tag =>
                p \in Direct /\ e.target = Target[p]

SoundDelivered(d) == d.taken => d.pc \in Direct /\ d.target = Target[d.pc]

SoundTable ==
  /\ \A r \in Rows : btb[r] # NoEntry => SoundRow(r, btb[r])
  /\ req_valid /\ bp_q # NoEntry => SoundRow(Index[req_pc], bp_q)
  /\ bp_update_r # NoUpdate =>
       bp_update_r.pc \in Direct /\ bp_update_r.target = Target[bp_update_r.pc]

Linked(s) ==
  \A i \in 1..Len(s) : i + 1 \in 1..Len(s) => s[i + 1].pc = PredictedAfter(s[i])

Chained ==
  /\ Linked(flight)
  /\ flight # <<>> => req_valid /\ req_pc = PredictedAfter(flight[Len(flight)])

FetchState ==
  /\ req_valid => if_active /\ req_pc \in PC
  /\ redirect_pending => redirect_pc_r \in PC /\ ~req_valid

IInv == TypeOK /\ FetchState /\ SoundTable /\ SoundPrediction /\ Chained

-----------------------------------------------------------------------------
(* The initial state satisfies the invariant. *)
LEMMA InitIInv == Init => IInv
<1> SUFFICES ASSUME Init PROVE IInv
  OBVIOUS
<1> USE AddressAssumption DEF Init, FetchInit
<1>1. TypeOK
  <2>1. flight \in Seq(Delivered)
    OBVIOUS
  <2>2. btb \in [Rows -> Entry \cup {NoEntry}]
    OBVIOUS
  <2> QED
    BY <2>1, <2>2 DEF TypeOK
<1>2. FetchState /\ SoundTable
  BY DEF FetchState, SoundTable, Rows
<1>3. SoundPrediction /\ Chained
  BY DEF SoundPrediction, Chained, Linked
<1> QED
  BY <1>1, <1>2, <1>3 DEF IInv

(* What decode receives is sound when the row read for it is. *)
LEMMA DeliveredIsSound ==
  ASSUME TypeOK, FetchState, SoundTable, req_valid
  PROVE  /\ ToDecode \in Delivered
         /\ SoundDelivered(ToDecode)
         /\ PredictedAfter(ToDecode) = PredictedNextPC
         /\ PredictedNextPC \in PC
<1> USE AddressAssumption DEF ToDecode, BpHit, BpPredTaken, BpPredTarget
<1>1. req_pc \in PC /\ (bp_q # NoEntry => bp_q \in Entry)
  BY DEF FetchState, TypeOK
<1>2. BpPredTaken \in BOOLEAN /\ BpPredTarget \in PC \cup {NoPC}
  BY <1>1 DEF Entry
<1>3. ToDecode \in Delivered
  BY <1>1, <1>2 DEF Delivered
<1>4. SoundDelivered(ToDecode)
  BY <1>1 DEF SoundDelivered, SoundTable, SoundRow
<1>5. PredictedNextPC \in PC /\ PredictedAfter(ToDecode) = PredictedNextPC
  BY <1>1 DEF PredictedNextPC, PredictedAfter, Entry
<1> QED
  BY <1>3, <1>4, <1>5

(* A trained row is a row of the table, and sound. *)
LEMMA TrainedRowIsSound ==
  ASSUME TypeOK, SoundTable, bp_update_r # NoUpdate
  PROVE  /\ TrainedRow(bp_update_r) \in Entry
         /\ Index[bp_update_r.pc] \in Rows
         /\ SoundRow(Index[bp_update_r.pc], TrainedRow(bp_update_r))
<1> DEFINE u == bp_update_r
           old == btb[Index[u.pc]]
<1>1. u.pc \in PC /\ u.taken \in BOOLEAN /\ u.target \in PC
  BY DEF TypeOK, Update
<1>2. Index[u.pc] \in Rows /\ Tag[u.pc] \in Tags
  BY <1>1 DEF Rows, Tags
<1>3. old # NoEntry => old.counter \in 0..3
  BY <1>2 DEF TypeOK, Entry
<1>4. \A c \in 0..3 : CounterUpdate(c, u.taken) \in 0..3
  BY DEF CounterUpdate
<1>5. TrainedRow(u) \in Entry
  BY <1>1, <1>2, <1>3, <1>4 DEF TrainedRow, Entry
<1>6. SoundRow(Index[u.pc], TrainedRow(u))
  BY <1>1, AddressAssumption DEF SoundTable, SoundRow, TrainedRow
<1> QED
  BY <1>2, <1>5, <1>6

(* The table after an edge and the row a fetch reads are sound. *)
LEMMA TableStaysSound ==
  ASSUME TypeOK, SoundTable
  PROVE  /\ TrainedTable \in [Rows -> Entry \cup {NoEntry}]
         /\ \A r \in Rows : TrainedTable[r] # NoEntry => SoundRow(r, TrainedTable[r])
         /\ \A p \in PC : /\ LookupRow(p) \in Entry \cup {NoEntry}
                          /\ LookupRow(p) # NoEntry => SoundRow(Index[p], LookupRow(p))
                          /\ LookupRow(p) = TrainedTable[Index[p]]
<1>1. btb \in [Rows -> Entry \cup {NoEntry}] /\ \A p \in PC : Index[p] \in Rows
  BY DEF TypeOK, Rows
<1>2. \A r \in Rows : btb[r] # NoEntry => SoundRow(r, btb[r])
  BY DEF SoundTable
<1>3. CASE bp_update_r = NoUpdate
  BY <1>1, <1>2, <1>3 DEF TrainedTable, LookupRow
<1>4. CASE bp_update_r # NoUpdate
  <2>1. /\ TrainedRow(bp_update_r) \in Entry
        /\ Index[bp_update_r.pc] \in Rows
        /\ SoundRow(Index[bp_update_r.pc], TrainedRow(bp_update_r))
    BY <1>4, TrainedRowIsSound
  <2> QED
    BY <1>1, <1>2, <1>4, <2>1 DEF TrainedTable, LookupRow
<1> QED
  BY <1>3, <1>4

-----------------------------------------------------------------------------
(* Dropping the oldest instruction and accepting one keep the chain. *)

AllSound(s) == \A i \in 1..Len(s) : SoundDelivered(s[i])

LEMMA ChainTail ==
  ASSUME NEW s \in Seq(Delivered), s # <<>>, Linked(s), AllSound(s)
  PROVE  /\ Head(s) \in Delivered
         /\ SoundDelivered(Head(s))
         /\ Tail(s) \in Seq(Delivered)
         /\ Linked(Tail(s))
         /\ AllSound(Tail(s))
         /\ Tail(s) # <<>> => /\ Head(Tail(s)).pc = PredictedAfter(Head(s))
                              /\ Tail(s)[Len(Tail(s))] = s[Len(s)]
         /\ Tail(s) = <<>> => s[Len(s)] = Head(s)
<1>1. /\ Head(s) = s[1]
      /\ Head(s) \in Delivered
      /\ Tail(s) \in Seq(Delivered)
      /\ Len(s) \in Nat \ {0}
      /\ Len(Tail(s)) = Len(s) - 1
      /\ \A i \in 1..Len(Tail(s)) : Tail(s)[i] = s[i + 1]
  OBVIOUS
<1>2. SoundDelivered(Head(s)) /\ AllSound(Tail(s))
  BY <1>1 DEF AllSound
<1>3. Linked(Tail(s))
  BY <1>1 DEF Linked
<1>4. Tail(s) # <<>> => Len(Tail(s)) \in Nat \ {0} /\ Head(Tail(s)) = Tail(s)[1]
  BY <1>1
<1>5. Tail(s) # <<>> => /\ Head(Tail(s)).pc = PredictedAfter(Head(s))
                        /\ Tail(s)[Len(Tail(s))] = s[Len(s)]
  BY <1>1, <1>4 DEF Linked
<1>6. Tail(s) = <<>> => s[Len(s)] = Head(s)
  <2>1. Len(<<>>) = 0
    OBVIOUS
  <2>2. Tail(s) = <<>> => Len(Tail(s)) = 0
    BY <2>1, Zenon
  <2>3. Tail(s) = <<>> => Len(s) = 1
    BY <1>1, <2>2
  <2> QED
    BY <1>1, <2>3
<1> QED
  BY <1>1, <1>2, <1>3, <1>5, <1>6

LEMMA ChainAppend ==
  ASSUME NEW s \in Seq(Delivered), NEW d \in Delivered,
         Linked(s), AllSound(s), SoundDelivered(d),
         s # <<>> => d.pc = PredictedAfter(s[Len(s)])
  PROVE  /\ Append(s, d) \in Seq(Delivered)
         /\ Append(s, d) # <<>>
         /\ Linked(Append(s, d))
         /\ AllSound(Append(s, d))
         /\ Append(s, d)[Len(Append(s, d))] = d
         /\ Head(Append(s, d)) = IF s = <<>> THEN d ELSE Head(s)
<1> DEFINE t == Append(s, d)
<1>1. /\ t \in Seq(Delivered)
      /\ Len(s) \in Nat
      /\ Len(t) = Len(s) + 1
      /\ t[Len(t)] = d
      /\ \A i \in 1..Len(s) : t[i] = s[i]
      /\ Head(t) = t[1]
      /\ s # <<>> => Len(s) # 0 /\ Head(s) = s[1]
      /\ s = <<>> => Len(s) = 0
  OBVIOUS
<1>2. t # <<>>
  BY <1>1
<1>3. Head(t) = IF s = <<>> THEN d ELSE Head(s)
  BY <1>1
<1>4. AllSound(t)
  BY <1>1 DEF AllSound
<1>5. Linked(t)
  BY <1>1 DEF Linked
<1> QED
  BY <1>1, <1>2, <1>3, <1>4, <1>5

-----------------------------------------------------------------------------
(* One clock edge of the fetch stage. *)
LEMMA FetchStep ==
  ASSUME IInv,
         NEW redirect \in PC \cup {NoPC}, NEW ds_allowin \in BOOLEAN,
         NEW resolved \in Update \cup {NoUpdate},
         resolved # NoUpdate =>
           resolved.pc \in Direct /\ resolved.target = Target[resolved.pc],
         FetchEdge(redirect, ds_allowin, resolved)
  PROVE  /\ /\ if_active' \in BOOLEAN
            /\ req_valid' \in BOOLEAN
            /\ req_pc' \in PC \cup {NoPC}
            /\ redirect_pending' \in BOOLEAN
            /\ redirect_pc_r' \in PC \cup {NoPC}
            /\ btb' \in [Rows -> Entry \cup {NoEntry}]
            /\ bp_q' \in Entry \cup {NoEntry}
            /\ bp_update_r' \in Update \cup {NoUpdate}
         /\ FetchState'
         /\ SoundTable'
         /\ redirect # NoPC =>
              redirect_pending' /\ redirect_pc_r' = redirect /\ ~req_valid'
         /\ redirect = NoPC /\ req_valid =>
              /\ req_valid' /\ ~redirect_pending'
              /\ req_pc' = IF ds_allowin THEN PredictedNextPC ELSE req_pc
         /\ redirect = NoPC /\ ~req_valid =>
              \/ /\ req_valid' /\ ~redirect_pending'
                 /\ req_pc' = IF redirect_pending THEN redirect_pc_r ELSE Boot
              \/ /\ ~req_valid'
                 /\ redirect_pending' = redirect_pending
                 /\ redirect_pc_r' = redirect_pc_r
<1> DEFINE request == RequestFire(redirect, ds_allowin)
<1> USE AddressAssumption
<1>1. TypeOK /\ FetchState /\ SoundTable
  BY DEF IInv
<1>2. req_valid => PredictedNextPC \in PC
  BY <1>1, DeliveredIsSound
<1>3. request => RequestPC \in PC
  BY <1>1, <1>2 DEF RequestPC, RequestFire, ResponseFire, FetchState
<1>4. request \in BOOLEAN /\ ResponseFire(redirect, ds_allowin) \in BOOLEAN
  BY <1>1 DEF RequestFire, ResponseFire, TypeOK
<1>5. /\ if_active' \in BOOLEAN
      /\ req_valid' \in BOOLEAN
      /\ redirect_pending' \in BOOLEAN
  BY DEF FetchEdge
<1>6. /\ req_pc' \in PC \cup {NoPC}
      /\ redirect_pc_r' \in PC \cup {NoPC}
      /\ bp_update_r' \in Update \cup {NoUpdate}
  BY <1>1, <1>3 DEF FetchEdge, TypeOK
<1>7. /\ btb' = TrainedTable
      /\ btb' \in [Rows -> Entry \cup {NoEntry}]
      /\ \A r \in Rows : btb'[r] # NoEntry => SoundRow(r, btb'[r])
  BY <1>1, TableStaysSound DEF FetchEdge
<1>8. /\ request => /\ bp_q' \in Entry \cup {NoEntry}
                    /\ bp_q' # NoEntry => SoundRow(Index[RequestPC], bp_q')
                    /\ req_pc' = RequestPC
  BY <1>1, <1>3, TableStaysSound DEF FetchEdge
<1>9. ~request => /\ bp_q' = bp_q \/ bp_q' = NoEntry
                  /\ req_pc' = req_pc
  BY DEF FetchEdge
<1>10. bp_q' \in Entry \cup {NoEntry}
  BY <1>1, <1>8, <1>9 DEF TypeOK
<1>11. req_valid' => request \/ req_valid
  BY DEF FetchEdge
<1>12. req_valid' /\ bp_q' # NoEntry => SoundRow(Index[req_pc'], bp_q')
  BY <1>1, <1>8, <1>9, <1>11 DEF SoundTable
<1>13. bp_update_r' # NoUpdate =>
         bp_update_r'.pc \in Direct /\ bp_update_r'.target = Target[bp_update_r'.pc]
  BY DEF FetchEdge
<1>14. SoundTable'
  <2>1. \A r, e : SoundRow(r, e)' = \A p \in PC : Index[p] = r /\ Tag[p] = e.tag =>
                    p \in Direct /\ e.target = Target[p]
    BY DEF SoundRow
  <2> QED
    BY <1>7, <1>12, <1>13 DEF SoundTable, SoundRow
<1>15. redirect # NoPC =>
         redirect_pending' /\ redirect_pc_r' = redirect /\ ~req_valid'
  BY DEF FetchEdge
<1>16. redirect = NoPC /\ req_valid =>
         /\ req_valid' /\ ~redirect_pending'
         /\ req_pc' = IF ds_allowin THEN PredictedNextPC ELSE req_pc
  BY <1>1 DEF FetchEdge, RequestFire, ResponseFire, RequestPC, FetchState
<1>17. redirect = NoPC /\ ~req_valid =>
         \/ /\ req_valid' /\ ~redirect_pending'
            /\ req_pc' = IF redirect_pending THEN redirect_pc_r ELSE Boot
         \/ /\ ~req_valid'
            /\ redirect_pending' = redirect_pending
            /\ redirect_pc_r' = redirect_pc_r
  BY <1>1 DEF FetchEdge, RequestFire, ResponseFire, RequestPC, TypeOK
<1>18. if_active'
  BY DEF FetchEdge
<1>19. FetchState'
  BY <1>1, <1>2, <1>15, <1>16, <1>17, <1>18 DEF FetchState
<1> QED
  BY <1>5, <1>6, <1>7, <1>10, <1>14, <1>15, <1>16, <1>17, <1>19

-----------------------------------------------------------------------------
(* What EX does next after an edge, and that the invariant survives it.    *)

QueueState == IInv /\ flight \in Seq(Delivered) /\ AllSound(flight)

LEMMA QueueFacts == IInv => QueueState
  BY DEF QueueState, IInv, TypeOK, SoundPrediction, AllSound, SoundDelivered

(* After a redirect the target is executed next. *)
LEMMA RedirectStep ==
  ASSUME IInv, NEW redirect \in PC, NEW ds_allowin \in BOOLEAN,
         NEW resolved \in Update \cup {NoUpdate},
         resolved # NoUpdate =>
           resolved.pc \in Direct /\ resolved.target = Target[resolved.pc],
         FetchEdge(redirect, ds_allowin, resolved),
         flight' = <<>>, ms_pc' \in PC \cup {NoPC}
  PROVE  IInv' /\ NextToExecute' = redirect
<1>1. redirect # NoPC
  BY AddressAssumption
<1>2. /\ redirect_pending' /\ redirect_pc_r' = redirect /\ ~req_valid'
      /\ FetchState' /\ SoundTable'
  BY <1>1, FetchStep
<1>3. TypeOK'
  <2>1. flight' \in Seq(Delivered)
    OBVIOUS
  <2> QED
    BY <2>1, FetchStep DEF TypeOK
<1>4. SoundPrediction' /\ Chained'
  BY DEF SoundPrediction, Chained, Linked
<1>5. NextToExecute' = redirect
  BY <1>2 DEF NextToExecute
<1> QED
  BY <1>2, <1>3, <1>4, <1>5 DEF IInv

(* Without a redirect, rest is what remains of the queue and next is what  *)
(* must be executed: the head of rest, or what is being fetched.           *)
LEMMA QuietStep ==
  ASSUME IInv, NEW ds_allowin \in BOOLEAN,
         NEW resolved \in Update \cup {NoUpdate},
         resolved # NoUpdate =>
           resolved.pc \in Direct /\ resolved.target = Target[resolved.pc],
         FetchEdge(NoPC, ds_allowin, resolved),
         NEW rest \in Seq(Delivered), Linked(rest), AllSound(rest),
         rest # <<>> => req_valid /\ req_pc = PredictedAfter(rest[Len(rest)]),
         flight' = Accepted(rest, NoPC, ds_allowin), ms_pc' \in PC \cup {NoPC}
  PROVE  /\ IInv'
         /\ NextToExecute' = IF rest # <<>> THEN Head(rest).pc
                             ELSE IF redirect_pending THEN redirect_pc_r
                             ELSE IF req_valid THEN req_pc ELSE Boot
<1> DEFINE response == ResponseFire(NoPC, ds_allowin)
<1>1. FetchState /\ SoundTable /\ TypeOK
  BY DEF IInv
<1>2. /\ FetchState' /\ SoundTable'
      /\ req_valid => /\ req_valid' /\ ~redirect_pending'
                      /\ req_pc' = IF ds_allowin THEN PredictedNextPC ELSE req_pc
      /\ ~req_valid =>
           \/ /\ req_valid' /\ ~redirect_pending'
              /\ req_pc' = IF redirect_pending THEN redirect_pc_r ELSE Boot
           \/ /\ ~req_valid'
              /\ redirect_pending' = redirect_pending
              /\ redirect_pc_r' = redirect_pc_r
  <2> NoPC \in PC \cup {NoPC}
    OBVIOUS
  <2> QED
    BY FetchStep
<1>3. response <=> req_valid /\ ds_allowin
  BY DEF ResponseFire
<1>4. CASE response
  <2>1. req_valid /\ ds_allowin /\ flight' = Append(rest, ToDecode)
    BY <1>3, <1>4 DEF Accepted
  <2>2. /\ ToDecode \in Delivered /\ SoundDelivered(ToDecode)
        /\ PredictedAfter(ToDecode) = PredictedNextPC
    BY <1>1, <2>1, DeliveredIsSound
  <2>3. ToDecode.pc = req_pc
    BY DEF ToDecode
  <2>4. /\ flight' \in Seq(Delivered) /\ flight' # <<>>
        /\ Linked(flight') /\ AllSound(flight')
        /\ flight'[Len(flight')] = ToDecode
        /\ Head(flight') = IF rest = <<>> THEN ToDecode ELSE Head(rest)
    <3>1. PICK d \in Delivered : d = ToDecode
      BY <2>2
    <3>2. rest # <<>> => d.pc = PredictedAfter(rest[Len(rest)])
      BY <2>3, <3>1
    <3>3. SoundDelivered(d) /\ flight' = Append(rest, d)
      BY <2>1, <2>2, <3>1
    <3>4. /\ Append(rest, d) \in Seq(Delivered)
          /\ Append(rest, d) # <<>>
          /\ Linked(Append(rest, d))
          /\ AllSound(Append(rest, d))
          /\ Append(rest, d)[Len(Append(rest, d))] = d
          /\ Head(Append(rest, d)) = IF rest = <<>> THEN d ELSE Head(rest)
      BY <3>2, <3>3, ChainAppend
    <3> QED
      BY <3>1, <3>3, <3>4
  <2>5. Chained'
    BY <1>2, <2>1, <2>2, <2>4 DEF Chained, Linked, PredictedAfter
  <2>6. SoundPrediction'
    BY <2>4 DEF SoundPrediction, AllSound, SoundDelivered
  <2>7. TypeOK'
    <3> NoPC \in PC \cup {NoPC}
      OBVIOUS
    <3> QED
      BY <2>4, FetchStep DEF TypeOK
  <2>8. NextToExecute' = IF rest # <<>> THEN Head(rest).pc ELSE req_pc
    BY <2>3, <2>4 DEF NextToExecute
  <2>9. ~redirect_pending
    BY <1>1, <2>1 DEF FetchState
  <2> QED
    BY <1>2, <2>1, <2>5, <2>6, <2>7, <2>8, <2>9 DEF IInv
<1>5. CASE ~response
  <2>1. flight' = rest
    BY <1>5 DEF Accepted
  <2>2. Chained'
    BY <1>2, <1>3, <1>5, <2>1 DEF Chained, Linked, PredictedAfter
  <2>3. SoundPrediction'
    BY <2>1 DEF SoundPrediction, AllSound, SoundDelivered
  <2>4. TypeOK'
    <3> NoPC \in PC \cup {NoPC}
      OBVIOUS
    <3> QED
      BY <2>1, FetchStep DEF TypeOK
  <2>5. CASE rest # <<>>
    BY <2>1, <2>5, <1>2, <2>2, <2>3, <2>4 DEF NextToExecute, IInv
  <2>6. CASE rest = <<>> /\ req_valid
    BY <2>1, <2>6, <1>1, <1>2, <1>3, <1>5, <2>2, <2>3, <2>4
    DEF NextToExecute, IInv, FetchState
  <2>7. CASE rest = <<>> /\ ~req_valid
    BY <2>1, <2>7, <1>1, <1>2, <2>2, <2>3, <2>4 DEF NextToExecute, IInv, TypeOK
  <2> QED
    BY <2>5, <2>6, <2>7, <1>1 DEF TypeOK
<1> QED
  BY <1>4, <1>5

-----------------------------------------------------------------------------
(* The cases of the next-state relation. *)

LEMMA OutcomeFacts ==
  ASSUME NEW p \in PC, NEW outcome \in Outcomes(p)
  PROVE  /\ Successor(p, outcome) \in PC
         /\ Successor(p, outcome) \in Follows(p)
         /\ p \in Direct => outcome.taken \in BOOLEAN /\ outcome.target = Target[p]
         /\ p \in Direct \cup Jalrs => outcome.taken \in BOOLEAN
         /\ p \notin Direct \cup Jalrs => outcome.taken = FALSE
<1> USE AddressAssumption, ProgramAssumption DEF Outcomes
<1>1. /\ p \in Direct => outcome.taken \in BOOLEAN /\ outcome.target = Target[p]
      /\ p \in Jalrs => outcome.taken = TRUE /\ outcome.target \in PC
      /\ p \notin Direct \cup Jalrs => outcome.taken = FALSE
  <2>1. CASE p \in Branches
    BY <2>1 DEF Direct
  <2>2. CASE p \in Jals
    BY <2>2 DEF Direct
  <2>3. CASE p \in Jalrs
    BY <2>3 DEF Direct
  <2>4. CASE p \notin Direct \cup Jalrs
    BY <2>4 DEF Direct
  <2> QED
    BY <2>1, <2>2, <2>3, <2>4 DEF Direct
<1>2. Successor(p, outcome) \in PC
  BY <1>1 DEF Successor
<1>3. Successor(p, outcome) \in Follows(p)
  BY DEF Follows
<1> QED
  BY <1>1, <1>2, <1>3

LEMMA ExecuteStep ==
  ASSUME IInv, flight # <<>>,
         NEW outcome \in Outcomes(Head(flight).pc), NEW ds_allowin \in BOOLEAN,
         Execute(outcome, ds_allowin)
  PROVE  IInv' /\ NextToExecute' \in Follows(NextToExecute) /\ ms_pc' = NextToExecute
<1> DEFINE h == Head(flight)
           redirect == Redirect(h, outcome)
           resolved == Resolved(h, outcome)
<1>1. flight \in Seq(Delivered) /\ AllSound(flight) /\ Linked(flight)
  BY QueueFacts DEF QueueState, IInv, Chained
<1>2. /\ h \in Delivered /\ SoundDelivered(h)
      /\ Tail(flight) \in Seq(Delivered)
      /\ Linked(Tail(flight)) /\ AllSound(Tail(flight))
      /\ Tail(flight) # <<>> =>
           /\ Head(Tail(flight)).pc = PredictedAfter(h)
           /\ Tail(flight)[Len(Tail(flight))] = flight[Len(flight)]
      /\ Tail(flight) = <<>> => flight[Len(flight)] = h
  BY <1>1, ChainTail
<1>3. h.pc \in PC /\ h.taken \in BOOLEAN
  BY <1>2 DEF Delivered
<1>4. /\ Successor(h.pc, outcome) \in PC
      /\ Successor(h.pc, outcome) \in Follows(h.pc)
      /\ h.pc \in Direct => outcome.taken \in BOOLEAN /\ outcome.target = Target[h.pc]
      /\ h.pc \in Direct \cup Jalrs => outcome.taken \in BOOLEAN
      /\ h.pc \notin Direct \cup Jalrs => outcome.taken = FALSE
  BY <1>3, OutcomeFacts
<1>5. /\ resolved \in Update \cup {NoUpdate}
      /\ resolved # NoUpdate =>
           resolved.pc \in Direct /\ resolved.target = Target[resolved.pc]
  BY <1>3, <1>4, ProgramAssumption DEF Resolved, Update
<1>6. NextToExecute = h.pc
  BY DEF NextToExecute
<1>7. /\ FetchEdge(redirect, ds_allowin, resolved)
      /\ flight' = IF redirect # NoPC THEN <<>>
                   ELSE Accepted(Tail(flight), redirect, ds_allowin)
      /\ ms_pc' = h.pc
  BY DEF Execute
<1>8. CASE redirect # NoPC
  <2>1. redirect = Successor(h.pc, outcome) /\ flight' = <<>>
    BY <1>7, <1>8 DEF Redirect
  <2>2. IInv' /\ NextToExecute' = redirect
    <3> ms_pc' \in PC \cup {NoPC}
      BY <1>3, <1>7
    <3> QED
      BY <1>4, <1>5, <1>7, <2>1, RedirectStep
  <2> QED
    BY <1>4, <1>6, <1>7, <2>1, <2>2
<1>9. CASE redirect = NoPC
  <2>1. Successor(h.pc, outcome) = PredictedAfter(h)
    <3>1. Successor(h.pc, outcome) # NoPC
      BY <1>4, AddressAssumption
    <3>2. CASE h.pc \in Direct \cup Jalrs
      BY <1>3, <1>4, <1>9, <3>1, <3>2 DEF Redirect, Successor, PredictedAfter
    <3>3. CASE h.pc \notin Direct \cup Jalrs
      BY <1>2, <1>3, <1>4, <3>3 DEF Successor, PredictedAfter, SoundDelivered
    <3> QED
      BY <3>2, <3>3
  <2>2. req_valid /\ req_pc = PredictedAfter(flight[Len(flight)])
    BY DEF IInv, Chained
  <2>3. Tail(flight) # <<>> =>
          req_valid /\ req_pc = PredictedAfter(Tail(flight)[Len(Tail(flight))])
    BY <1>2, <2>2
  <2>4. ~redirect_pending
    BY <2>2 DEF IInv, FetchState
  <2>5. /\ IInv'
        /\ NextToExecute' = IF Tail(flight) # <<>> THEN Head(Tail(flight)).pc
                            ELSE IF redirect_pending THEN redirect_pc_r
                            ELSE IF req_valid THEN req_pc ELSE Boot
    <3>1. FetchEdge(NoPC, ds_allowin, resolved)
      BY <1>7, <1>9
    <3>2. flight' = Accepted(Tail(flight), NoPC, ds_allowin)
      BY <1>7, <1>9
    <3>3. ms_pc' \in PC \cup {NoPC}
      BY <1>3, <1>7
    <3> HIDE DEF resolved
    <3> QED
      BY <1>2, <1>5, <3>1, <3>2, <3>3, <2>3, QuietStep
  <2>6. NextToExecute' = PredictedAfter(h)
    BY <1>2, <2>2, <2>4, <2>5
  <2> QED
    BY <1>4, <1>6, <1>7, <2>1, <2>5, <2>6
<1> QED
  BY <1>8, <1>9

LEMMA WaitStep ==
  ASSUME IInv, NEW ds_allowin \in BOOLEAN, Wait(ds_allowin)
  PROVE  IInv' /\ NextToExecute' = NextToExecute /\ ms_pc' = NoPC
<1>1. /\ FetchEdge(NoPC, ds_allowin, NoUpdate)
      /\ flight' = Accepted(flight, NoPC, ds_allowin)
      /\ ms_pc' = NoPC
  BY DEF Wait
<1>2. /\ flight \in Seq(Delivered) /\ AllSound(flight) /\ Linked(flight)
      /\ flight # <<>> => req_valid /\ req_pc = PredictedAfter(flight[Len(flight)])
  BY QueueFacts DEF QueueState, IInv, Chained
<1>3. /\ IInv'
      /\ NextToExecute' = IF flight # <<>> THEN Head(flight).pc
                          ELSE IF redirect_pending THEN redirect_pc_r
                          ELSE IF req_valid THEN req_pc ELSE Boot
  <2> NoUpdate \in Update \cup {NoUpdate} /\ ms_pc' \in PC \cup {NoPC}
    BY <1>1
  <2> QED
    BY <1>1, <1>2, QuietStep
<1>4. NextToExecute = IF flight # <<>> THEN Head(flight).pc
                      ELSE IF redirect_pending THEN redirect_pc_r
                      ELSE IF req_valid THEN req_pc ELSE Boot
  BY DEF NextToExecute, IInv, TypeOK
<1> QED
  BY <1>1, <1>3, <1>4

LEMMA TrapStep ==
  ASSUME IInv, NEW target \in TrapTargets, Trap(target)
  PROVE  /\ IInv' /\ NextToExecute' \in TrapTargets
         /\ ms_pc # NoPC /\ ms_pc' = NoPC
<1>1. target \in PC
  BY ProgramAssumption
<1>2. /\ FetchEdge(target, TRUE, NoUpdate)
      /\ flight' = <<>>
      /\ ms_pc # NoPC /\ ms_pc' = NoPC
  BY DEF Trap
<1>3. IInv' /\ NextToExecute' = target
  <2> NoUpdate \in Update \cup {NoUpdate}
    OBVIOUS
  <2> QED
    BY <1>1, <1>2, RedirectStep
<1> QED
  BY <1>2, <1>3

(* Every step keeps the invariant and is a step of the program order. *)
LEMMA StepIInv ==
  ASSUME IInv, [Next]_vars
  PROVE  IInv' /\ [Program!Next]_<<NextToExecute, ms_pc>>
<1> USE DEF Program!Next, Program!Execute, Program!Bubble, Program!Trap
<1>1. CASE /\ flight # <<>>
           /\ \E outcome \in Outcomes(Head(flight).pc), ds_allowin \in Accepts :
                Execute(outcome, ds_allowin)
  <2>1. PICK outcome \in Outcomes(Head(flight).pc), ds_allowin \in Accepts :
          Execute(outcome, ds_allowin)
    BY <1>1
  <2>2. ds_allowin \in BOOLEAN
    BY DEF Accepts
  <2> QED
    BY <1>1, <2>1, <2>2, ExecuteStep
<1>2. CASE \E ds_allowin \in Accepts : Wait(ds_allowin)
  <2>1. PICK ds_allowin \in Accepts : Wait(ds_allowin)
    BY <1>2
  <2>2. ds_allowin \in BOOLEAN
    BY DEF Accepts
  <2> QED
    BY <2>1, <2>2, WaitStep
<1>3. CASE \E target \in TrapTargets : Trap(target)
  BY <1>3, TrapStep
<1>4. CASE UNCHANGED vars
  <2>1. IInv'
    BY <1>4 DEF vars, IInv, TypeOK, FetchState, SoundTable, SoundRow,
                SoundPrediction, Chained, Linked, PredictedAfter
  <2>2. <<NextToExecute, ms_pc>>' = <<NextToExecute, ms_pc>>
    BY <1>4 DEF vars, NextToExecute
  <2> QED
    BY <2>1, <2>2
<1> QED
  BY <1>1, <1>2, <1>3, <1>4 DEF Next

LEMMA Invariance == Spec => []IInv
<1>1. Init => IInv
  BY InitIInv
<1>2. IInv /\ [Next]_vars => IInv'
  BY StepIInv
<1> QED
  BY <1>1, <1>2, PTL DEF Spec

-----------------------------------------------------------------------------
(* The registers keep their types. *)
THEOREM TypeCorrect == Spec => []TypeOK
<1>1. IInv => TypeOK
  BY DEF IInv
<1> QED
  BY <1>1, Invariance, PTL

(* No instruction in flight is predicted taken unless it is a direct jump  *)
(* or branch predicted to its own target: EX can repair every prediction.  *)
THEOREM PredictionIsSound == Spec => []SoundPrediction
<1>1. IInv => SoundPrediction
  BY DEF IInv
<1> QED
  BY <1>1, Invariance, PTL

(* Lookup and training at one edge: the lookup returns the trained row. *)
THEOREM LookupSeesTraining == Spec => LookupIsCurrent
<1>1. ASSUME IInv, [Next]_vars, req_valid', req_pc' # req_pc
      PROVE  bp_q' = btb'[Index[req_pc']]
  <2>1. ASSUME NEW redirect \in PC \cup {NoPC}, NEW ds_allowin, NEW resolved,
               FetchEdge(redirect, ds_allowin, resolved)
        PROVE  bp_q' = btb'[Index[req_pc']]
    <3>1. RequestFire(redirect, ds_allowin) /\ req_pc' = RequestPC
      BY <1>1, <2>1 DEF FetchEdge
    <3>2. bp_q' = LookupRow(RequestPC) /\ btb' = TrainedTable
      BY <2>1, <3>1 DEF FetchEdge
    <3>3. RequestPC \in PC
      <4>1. req_valid => PredictedNextPC \in PC
        BY <1>1, DeliveredIsSound DEF IInv
      <4> QED
        BY <1>1, <4>1, AddressAssumption DEF RequestPC, IInv, FetchState, TypeOK
    <3> QED
      BY <1>1, <3>1, <3>2, <3>3, TableStaysSound DEF IInv
  <2>2. \E redirect \in PC \cup {NoPC} : \E ds_allowin, resolved :
          FetchEdge(redirect, ds_allowin, resolved)
    <3>1. CASE flight # <<>> /\ \E outcome \in Outcomes(Head(flight).pc),
                                   ds_allowin \in Accepts :
                                     Execute(outcome, ds_allowin)
      <4>1. PICK outcome \in Outcomes(Head(flight).pc), ds_allowin \in Accepts :
              Execute(outcome, ds_allowin)
        BY <3>1
      <4>2. Head(flight).pc \in PC
        BY <1>1, <3>1, QueueFacts, ChainTail DEF Delivered, QueueState, IInv, Chained
      <4>3. Redirect(Head(flight), outcome) \in PC \cup {NoPC}
        BY <4>2, OutcomeFacts DEF Redirect
      <4> QED
        BY <4>1, <4>3 DEF Execute
    <3>2. CASE \E ds_allowin \in Accepts : Wait(ds_allowin)
      BY <3>2 DEF Wait
    <3>3. CASE \E target \in TrapTargets : Trap(target)
      BY <3>3, ProgramAssumption DEF Trap
    <3>4. CASE UNCHANGED vars
      BY <1>1, <3>4 DEF vars
    <3> QED
      BY <1>1, <3>1, <3>2, <3>3, <3>4 DEF Next
  <2> QED
    BY <2>1, <2>2
<1> QED
  BY <1>1, Invariance, PTL DEF Spec, LookupIsCurrent

(* Prediction is invisible: the front end implements program order. *)
THEOREM ImplementsProgram == Spec => ExecutesProgram
<1>1. Init => Program!Init
  BY DEF Init, FetchInit, Program!Init, NextToExecute
<1>2. IInv /\ [Next]_vars => [Program!Next]_<<NextToExecute, ms_pc>>
  BY StepIInv
<1> QED
  BY <1>1, <1>2, Invariance, PTL DEF Spec, ExecutesProgram, Program!Spec
=============================================================================
