SPECIFICATION MCSpec
CONSTANTS
  H = 4
  HighStages = 3
  Latency = 2
  Op <- AllOps
  NoOp = NoOp
INVARIANTS TypeOK OwnResult OneOutstanding ResultIsRight
PROPERTY UnitNeverWedges
