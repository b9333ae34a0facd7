CONSTANTS
  Inst = {load, mul, jump, ecall, mret}
  NoInst = NoInst
  Jumps = {jump}
  Traps = {ecall}
  Misaligned = {}
  Mrets = {mret}
  Multis = {mul}
  Loads = {load}
SPECIFICATION Spec
INVARIANTS
  TypeOK
  RedirectActsOnce
  TrapActsOnce
  NoTrapBehindSkid
PROPERTIES
  NeverRestartsAtReset
  InOrderSpec
  BoundariesAreSkidBuffers
