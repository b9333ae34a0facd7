------------------------------- MODULE Bridge -------------------------------
(***************************************************************************)
(* The processor's accesses to the interrupt controller through bridge.sv. *)
(* A load is issued by EX in one period and its data is used by MEM in the *)
(* next, when the bridge presents what it sampled at the edge between.     *)
(***************************************************************************)
EXTENDS Plic

VARIABLES
  target,     (* read_target_r: where the last period's access went  *)
  plicData    (* plic_rdata_r                                        *)

vars == <<plicVars, target, plicData>>

Target == {"none", "elsewhere", "plic"}

Init ==
  /\ PlicInit
  /\ target = "none"
  /\ plicData = None

(* No access in EX, or one to the data RAM, to IO or to nothing. *)
Away(irqs) ==
  /\ NoAccess(irqs)
  /\ target' \in {"none", "elsewhere"}
  /\ plicData' = plicData

(* The controller registers its answer at the edge at which the bridge     *)
(* samples the controller's output register.                               *)
Load(irqs) ==
  /\ PlicRead(irqs)
  /\ target' = "plic"
  /\ plicData' = rdata

Store(irqs) ==
  /\ PlicWrite(irqs)
  /\ target' = "plic"
  /\ plicData' = plicData

Next == \E irqs \in SUBSET Source : Away(irqs) \/ Load(irqs) \/ Store(irqs)

Spec == Init /\ [][Next]_vars

-----------------------------------------------------------------------------
(* Types of the registers of controller and bridge. *)
TypeOK ==
  /\ PlicTypeOK
  /\ target \in Target
  /\ plicData \in Source \cup {None, Other}

(* A source goes into service when its number reaches the processor: the   *)
(* load that claims it returns it.                                         *)
ClaimReachesCpu ==
  [][\A s \in inService' \ inService : target' = "plic" /\ plicData' = s]_vars
=============================================================================
