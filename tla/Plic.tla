-------------------------------- MODULE Plic --------------------------------
(***************************************************************************)
(* The interrupt controller, PLIC.sv: gateways, selection, claim and       *)
(* completion.  One action per access of the processor; every action is a  *)
(* clock edge, at which any source lines may be high.                      *)
(*                                                                         *)
(* The selection is registered: a claim read in a period answers with the  *)
(* source selected from the registers of the period before.                *)
(***************************************************************************)
EXTENDS Integers

CONSTANTS
  Source,      (* interrupt numbers; 0 is reserved and means none       *)
  MaxPriority,
  Other        (* the contents of a register other than claim           *)

None == 0
Priority == 0..MaxPriority

ASSUME PlicAssumption ==
  /\ Source \subseteq Nat \ {None}
  /\ MaxPriority \in Nat
  /\ Other \notin Source \cup {None}

VARIABLES
  priority,    (* priority_regs                                         *)
  pending,     (* pending_regs                                          *)
  enable,      (* enable_regs                                           *)
  threshold,   (* threshold_reg                                         *)
  inService,   (* in_service_regs                                       *)
  claim,       (* claim_id_r; plic_irq and claim_valid_r are claim # None *)
  rdata        (* plic_rdata                                            *)

plicVars == <<priority, pending, enable, threshold, inService, claim, rdata>>

PlicInit ==
  /\ priority = [s \in Source |-> 0]
  /\ pending = {}
  /\ enable = {}
  /\ threshold = 0
  /\ inService = {}
  /\ claim = None
  /\ rdata = None

-----------------------------------------------------------------------------
Eligible == (pending \cap enable) \ inService

(* The lowest-numbered eligible source of each priority. *)
Bucket(p) == {s \in Eligible : priority[s] = p}
PrioId(p) == CHOOSE s \in Bucket(p) : \A t \in Bucket(p) : s <= t

(* Mutant: a priority equal to the threshold is let through. *)
LevelsAtThreshold == {p \in Priority : Bucket(p) # {} /\ p >= threshold}

(* The priorities above the threshold that have an eligible source. *)
Levels == {p \in Priority : Bucket(p) # {} /\ p > threshold}

ClaimNext ==
  IF Levels = {} THEN None
  ELSE PrioId(CHOOSE p \in Levels : \A q \in Levels : q <= p)

(* Mutant: a source becomes pending while it is in service. *)
GatewaysUngated(irqs, claimed, released) ==
  /\ pending' = (pending \cup irqs) \ claimed
  /\ inService' = (inService \cup claimed) \ released
  /\ claim' = ClaimNext

(* Mutant: a claimed source stays pending. *)
GatewaysKeepPending(irqs, claimed, released) ==
  /\ pending' = pending \cup (irqs \ inService)
  /\ inService' = (inService \cup claimed) \ released
  /\ claim' = ClaimNext

(* The registers of the gateways at the edge: the lines that are high, the *)
(* claim mask and the release mask.                                        *)
Gateways(irqs, claimed, released) ==
  /\ pending' = (pending \cup (irqs \ inService)) \ claimed
  /\ inService' = (inService \cup claimed) \ released
  /\ claim' = ClaimNext

Settings == <<priority, enable, threshold>>

NoAccess(irqs) ==
  /\ Gateways(irqs, {}, {})
  /\ UNCHANGED <<Settings, rdata>>

(* Mutant: the reserved number is claimed when there is nothing to claim. *)
ReadClaimUnchecked(irqs) ==
  /\ Gateways(irqs, {claim}, {})
  /\ rdata' = claim
  /\ UNCHANGED Settings

ReadClaim(irqs) ==
  /\ Gateways(irqs, {claim} \ {None}, {})
  /\ rdata' = claim
  /\ UNCHANGED Settings

ReadRegister(irqs) ==
  /\ Gateways(irqs, {}, {})
  /\ rdata' = Other
  /\ UNCHANGED Settings

(* A number that is not in service is ignored. *)
Complete(irqs, id) ==
  /\ Gateways(irqs, {}, {id} \cap inService)
  /\ UNCHANGED <<Settings, rdata>>

WriteEnable(irqs, sources) ==
  /\ Gateways(irqs, {}, {})
  /\ enable' = sources
  /\ UNCHANGED <<priority, threshold, rdata>>

WriteThreshold(irqs, p) ==
  /\ Gateways(irqs, {}, {})
  /\ threshold' = p
  /\ UNCHANGED <<priority, enable, rdata>>

WritePriority(irqs, s, p) ==
  /\ Gateways(irqs, {}, {})
  /\ priority' = [priority EXCEPT ![s] = p]
  /\ UNCHANGED <<enable, threshold, rdata>>

PlicRead(irqs) == ReadClaim(irqs) \/ ReadRegister(irqs)

PlicWrite(irqs) ==
  \/ \E id \in Source \cup {None} : Complete(irqs, id)
  \/ \E sources \in SUBSET Source : WriteEnable(irqs, sources)
  \/ \E p \in Priority : WriteThreshold(irqs, p)
  \/ \E s \in Source, p \in Priority : WritePriority(irqs, s, p)

-----------------------------------------------------------------------------
(* Types of the registers. *)
PlicTypeOK ==
  /\ priority \in [Source -> Priority]
  /\ pending \in SUBSET Source
  /\ enable \in SUBSET Source
  /\ threshold \in Priority
  /\ inService \in SUBSET Source
  /\ claim \in Source \cup {None}
  /\ rdata \in Source \cup {None, Other}

(* The registered selection is never about nothing: what a claim read will *)
(* answer is pending, or it is the answer given in the period just before  *)
(* and is in service.  So a claim marks as served only what was told.      *)
ClaimIsReal ==
  claim # None =>
    \/ claim \in pending \ inService
    \/ claim \in inService \ pending /\ rdata = claim

(* The eight buckets and the two scans pick the eligible source with the   *)
(* highest priority above the threshold, the lowest number among equals,   *)
(* and nothing if there is none.                                           *)
SelectsBest ==
  LET Above == {s \in Eligible : priority[s] > threshold}
      Beats(s, t) == \/ priority[s] > priority[t]
                     \/ priority[s] = priority[t] /\ s <= t
  IN  IF Above = {} THEN ClaimNext = None
      ELSE ClaimNext \in Above /\ \A t \in Above : Beats(ClaimNext, t)

(* What the two bits of a source in pending_regs and in_service_regs say. *)
Phase == [s \in Source |->
            IF s \in inService THEN "serving"
            ELSE IF s \in pending THEN "pending" ELSE "idle"]

(* PLIC.sv implements the gateways of Gateway: no raised line is lost, no  *)
(* source is told twice for one turn or completed without having been told. *)
G == INSTANCE Gateway WITH state <- Phase, told <- rdata

GatewaySpec == G!Spec
=============================================================================
