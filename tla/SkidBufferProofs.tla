-------------------------- MODULE SkidBufferProofs --------------------------
(***************************************************************************)
(* Proofs about one pipeline boundary, for every set of payloads: the      *)
(* registers stay within their types, the registered allow-in never        *)
(* overbooks the skid register, and the boundary implements a two-entry    *)
(* first-in first-out queue.                                               *)
(***************************************************************************)
EXTENDS SkidBuffer, TLAPS

(* The reset state satisfies the inductive invariant. *)
LEMMA InitInv == Init => Inv
  BY NoneAssumption DEF Init, Inv, TypeOK, RoomForInvited

(* Every clock edge preserves it, whatever the producer offers and whether *)
(* or not the consumer is ready.                                           *)
LEMMA ClockInv ==
  ASSUME Inv, NEW offer \in Payload \cup {None}, NEW ready \in BOOLEAN,
         Clock(offer, ready)
  PROVE  Inv'
<1> USE NoneAssumption
        DEF Inv, TypeOK, RoomForInvited, CoreAllowin, InFire
<1>1. CASE Refill(ready)
  BY <1>1 DEF Refill
<1>2. CASE Load(offer, ready)
  BY <1>2 DEF Load
<1>3. CASE Stash(offer, ready)
  BY <1>3 DEF Stash
<1>4. CASE Hold(offer, ready)
  BY <1>4 DEF Hold
<1>5. QED
  BY <1>1, <1>2, <1>3, <1>4 DEF Clock

LEMMA NextInv == Inv /\ [Next]_vars => Inv'
<1> SUFFICES ASSUME Inv, [Next]_vars PROVE Inv'
  OBVIOUS
<1>1. CASE Next
  BY <1>1, ClockInv DEF Next
<1>2. CASE UNCHANGED vars
  BY <1>2 DEF vars, Inv, TypeOK, RoomForInvited
<1>3. QED
  BY <1>1, <1>2

LEMMA Invariant == Spec => []Inv
  BY InitInv, NextInv, PTL DEF Spec

(* The registers of a boundary stay within their types. *)
THEOREM TypeCorrect == Spec => []TypeOK
  BY Invariant, PTL DEF Inv

(* While the registered allow-in is high the skid register is free, so the *)
(* instruction that arrives on a stale invitation always finds a place.    *)
THEOREM NeverOverbooked == Spec => []RoomForInvited
  BY Invariant, PTL DEF Inv

-----------------------------------------------------------------------------
(* The reset state is the empty queue. *)
LEMMA InitRefines == Init => Fifo!Init
  BY DEF Init, Contents, Fifo!Init

(* A clock edge does to the queue what the two neighbours saw happen. *)
LEMMA ClockRefines ==
  ASSUME Inv, NEW offer \in Payload \cup {None}, NEW ready \in BOOLEAN,
         Clock(offer, ready)
  PROVE  Fifo!Edge(valid /\ ready, InFire(offer), offer)
<1> USE DEF Inv, TypeOK, RoomForInvited, CoreAllowin, InFire
<1>1. CASE Refill(ready)
  <2>1. /\ Contents = <<main, skid>>
        /\ Contents' = <<skid>>
        /\ valid /\ ready /\ ~InFire(offer)
    BY <1>1 DEF Refill, Contents
  <2>2. QED
    BY <2>1 DEF Fifo!Edge, Fifo!Transfer, Fifo!Remaining
<1>2. CASE Load(offer, ready)
  <2>1. Fifo!Remaining(valid /\ ready) = <<>>
    BY <1>2 DEF Load, Fifo!Remaining, Contents
  <2>2. valid /\ ready => Contents # <<>>
    BY <1>2 DEF Load, Contents
  <2>3. CASE InFire(offer)
    <3>1. offer \in Payload /\ Contents' = <<offer>>
      BY <1>2, <2>3 DEF Load, Contents
    <3>2. Fifo!TransferAndAccept(valid /\ ready, offer)
      BY <2>1, <2>2, <3>1 DEF Fifo!TransferAndAccept
    <3>3. QED
      BY <2>3, <3>2 DEF Fifo!Edge
  <2>4. CASE ~InFire(offer)
    <3>1. Contents' = <<>>
      BY <1>2, <2>4 DEF Load, Contents
    <3>2. Fifo!Transfer(valid /\ ready)
      BY <2>1, <2>2, <3>1 DEF Fifo!Transfer
    <3>3. QED
      BY <2>4, <3>2 DEF Fifo!Edge
  <2>5. QED
    BY <2>3, <2>4
<1>3. CASE Stash(offer, ready)
  <2>1. /\ offer \in Payload
        /\ InFire(offer)
        /\ ~(valid /\ ready)
        /\ Contents = <<main>>
        /\ Contents' = <<main, offer>>
    BY <1>3 DEF Stash, Contents
  <2>2. QED
    BY <2>1 DEF Fifo!Edge, Fifo!TransferAndAccept, Fifo!Remaining
<1>4. CASE Hold(offer, ready)
  <2>1. ~(valid /\ ready) /\ ~InFire(offer) /\ Contents' = Contents
    BY <1>4 DEF Hold, Contents
  <2>2. QED
    BY <2>1 DEF Fifo!Edge, Fifo!Transfer, Fifo!Remaining
<1>5. QED
  BY <1>1, <1>2, <1>3, <1>4 DEF Clock

(* The boundary of two registers implements the two-entry queue: for every *)
(* set of payloads, whatever is invited in is handed on once and in order. *)
THEOREM ImplementsFifo == Spec => FifoSpec
<1>1. Init => Fifo!Init
  BY InitRefines
<1>2. Inv => EveryEdgeIsFifo
  BY ClockRefines DEF EveryEdgeIsFifo
<1>3. Inv /\ [Next]_vars => [EveryEdgeIsFifo]_vars
  BY <1>2
<1>4. QED
  BY <1>1, <1>3, Invariant, PTL DEF Spec, FifoSpec
=============================================================================
