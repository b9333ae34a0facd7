CONSTANTS
  Payload = {a, b, c, d, e}
  None = None
SPECIFICATION Spec
INVARIANTS
  TypeOK
  RoomForInvited
PROPERTIES
  FifoSpec
