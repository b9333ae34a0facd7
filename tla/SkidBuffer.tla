----------------------------- MODULE SkidBuffer -----------------------------
(***************************************************************************)
(* The handshake that the ID, EX and MEM stages of the pipeline share: one *)
(* main register, one skid register and an allow-in signal that is        *)
(* registered before it goes upstream.  Because the producer sees the      *)
(* allow-in of the previous clock period, one instruction can arrive in    *)
(* the period in which the stage stops; the skid register keeps it.        *)
(*                                                                         *)
(* One step is one rising clock edge.  The producer may or may not offer   *)
(* an instruction and the consumer may or may not be able to take one:     *)
(* both are inputs of the edge.                                            *)
(***************************************************************************)
EXTENDS Naturals, Sequences

CONSTANTS
  Payload,  (* what the bus from the previous stage can carry *)
  None      (* the bus after reset; the producer's valid is low *)

ASSUME NoneAssumption == None \notin Payload

VARIABLES
  valid,       (* the main register holds an instruction        *)
  main,        (* its contents, kept when valid falls           *)
  allowin_r,   (* the allow-in the producer sees                *)
  skid_valid,  (* the skid register holds an instruction        *)
  skid         (* its contents                                  *)

vars == <<valid, main, allowin_r, skid_valid, skid>>

Init ==
  /\ valid = FALSE
  /\ main = None
  /\ allowin_r = TRUE
  /\ skid_valid = FALSE
  /\ skid = None

-----------------------------------------------------------------------------
(* The combinational signals of one clock period.  `ready' is the stage's  *)
(* ready_go together with the allow-in of the next stage.                  *)

CoreAllowin(ready) == ~valid \/ ready

InFire(offer) == offer # None /\ allowin_r

(* The stage advances and the skid register refills the main register. *)
Refill(ready) ==
  /\ CoreAllowin(ready)
  /\ skid_valid
  /\ valid' = TRUE
  /\ main' = skid
  /\ skid_valid' = FALSE
  /\ allowin_r' = TRUE
  /\ UNCHANGED skid

(* Mutant: the valid bit follows the allow-in without the producer's valid. *)
LoadWithoutOffer(offer, ready) ==
  /\ CoreAllowin(ready)
  /\ ~skid_valid
  /\ valid' = allowin_r
  /\ main' = IF InFire(offer) THEN offer ELSE main
  /\ allowin_r' = TRUE
  /\ UNCHANGED <<skid_valid, skid>>

(* The stage advances and the main register takes what the bus carries. *)
Load(offer, ready) ==
  /\ CoreAllowin(ready)
  /\ ~skid_valid
  /\ valid' = InFire(offer)
  /\ main' = IF InFire(offer) THEN offer ELSE main
  /\ allowin_r' = TRUE
  /\ UNCHANGED <<skid_valid, skid>>

(* Mutant: the late arrival goes to the main register. *)
StashOverwritesMain(offer, ready) ==
  /\ ~CoreAllowin(ready)
  /\ InFire(offer)
  /\ ~skid_valid
  /\ main' = offer
  /\ allowin_r' = FALSE
  /\ UNCHANGED <<valid, skid_valid, skid>>

(* Mutant: the producer is not stopped when the skid register fills. *)
StashStaysOpen(offer, ready) ==
  /\ ~CoreAllowin(ready)
  /\ InFire(offer)
  /\ ~skid_valid
  /\ skid_valid' = TRUE
  /\ skid' = offer
  /\ UNCHANGED <<valid, main, allowin_r>>

(* The stage is stopped and the late arrival goes to the skid register. *)
Stash(offer, ready) ==
  /\ ~CoreAllowin(ready)
  /\ InFire(offer)
  /\ ~skid_valid
  /\ skid_valid' = TRUE
  /\ skid' = offer
  /\ allowin_r' = FALSE
  /\ UNCHANGED <<valid, main>>

(* The stage is stopped and takes nothing: either nothing was accepted, or *)
(* the skid register is already occupied.                                  *)
Hold(offer, ready) ==
  /\ ~CoreAllowin(ready)
  /\ ~InFire(offer) \/ skid_valid
  /\ allowin_r' = FALSE
  /\ UNCHANGED <<valid, main, skid_valid, skid>>

Clock(offer, ready) ==
  \/ Refill(ready)
  \/ Load(offer, ready)
  \/ Stash(offer, ready)
  \/ Hold(offer, ready)

Next == \E offer \in Payload \cup {None}, ready \in BOOLEAN : Clock(offer, ready)

Spec == Init /\ [][Next]_vars

-----------------------------------------------------------------------------
(* Types of the registers of one boundary; a register that claims to be    *)
(* full holds an instruction, never the reset value of the bus.            *)
TypeOK ==
  /\ valid \in BOOLEAN
  /\ main \in Payload \cup {None}
  /\ allowin_r \in BOOLEAN
  /\ skid_valid \in BOOLEAN
  /\ skid \in Payload \cup {None}
  /\ valid => main \in Payload
  /\ skid_valid => skid \in Payload

(* The registered allow-in never invites an instruction there is no room   *)
(* for: while it is high the skid register is free, and the skid register  *)
(* is used only behind an occupied main register.                          *)
RoomForInvited ==
  /\ allowin_r => ~skid_valid
  /\ ~allowin_r => valid
  /\ skid_valid => valid

Inv == TypeOK /\ RoomForInvited

(* The two registers seen as a queue, oldest instruction first. *)
Contents ==
  IF ~valid THEN <<>>
  ELSE IF skid_valid THEN <<main, skid>>
  ELSE <<main>>

Fifo == INSTANCE BoundedFifo WITH q <- Contents, Capacity <- 2

(* At every edge the two registers, seen as a queue, lose the oldest entry *)
(* exactly when the consumer took what the main register shows, and gain   *)
(* the offer exactly when the producer saw it accepted.                    *)
EveryEdgeIsFifo ==
  \A offer \in Payload \cup {None}, ready \in BOOLEAN :
    Clock(offer, ready) => Fifo!Edge(valid /\ ready, InFire(offer), offer)

(* The boundary implements a two-entry queue, however the two neighbours   *)
(* are timed: nothing accepted is lost, duplicated or reordered.           *)
FifoSpec == Fifo!Init /\ [][EveryEdgeIsFifo]_vars
=============================================================================
