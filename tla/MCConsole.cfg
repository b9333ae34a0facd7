SPECIFICATION ConsoleSpec
CONSTANTS
  Depth = 2
  DataBits = 2
  Baud = 5
  CyclesPerBit = 6
  Marker <- MCMarker
  CR = 0
  LF = 1
  Texts <- MCTexts
INVARIANTS LineIsFaithful EndsOnMarker
PROPERTY AcceptedArrives
CHECK_DEADLOCK FALSE
