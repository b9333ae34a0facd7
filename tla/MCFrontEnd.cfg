SPECIFICATION Spec
CONSTANTS
  PC <- Addresses
  NextPC <- Sequential
  Index <- LowBits
  Tag <- HighBits
  Target <- Targets
  NoPC = NoPC
  NoEntry = NoEntry
  NoUpdate = NoUpdate
  Boot = 0
  Branches = {1, 3}
  Jals = {4}
  Jalrs = {2}
  JalrTargets = {0, 3, 4, 5}
  TrapTargets = {2, 5}
  Depth = 4
INVARIANTS TypeOK SoundPrediction
PROPERTIES LookupIsCurrent ExecutesProgram
