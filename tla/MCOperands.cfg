SPECIFICATION Spec
CONSTANTS
  Reg = {0, 1}
  Zero = 0
  Value = {0, 1}
  Nil = 0
  Bubble = Bubble
  Inst <- Instructions
INVARIANTS TypeOK ReadsNewest
PROPERTIES CommitsOrTraps
