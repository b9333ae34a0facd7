CONSTANTS
  Inst = {load, sw_misaligned, mul, jump}
  NoInst = NoInst
  Jumps = {jump}
  Traps = {}
  Misaligned = {sw_misaligned}
  Mrets = {}
  Multis = {mul}
  Loads = {load}
SPECIFICATION LiveSpec
PROPERTIES InOrderSpec KeepsExecuting
