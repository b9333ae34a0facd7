SPECIFICATION FairSpec
CONSTANTS
  BitXor <- XorOp
  BitOr <- OrOp
  Null = Null
  Builds <- MCBuilds
  Iterations = 2
INVARIANTS NoCellLost BackToOriginal StateRestores MatrixRestores KnownResults
PROPERTY Terminates
CHECK_DEADLOCK FALSE
