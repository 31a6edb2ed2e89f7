CONSTANTS
  Users = {u1, u2}
  NoMember = NoMember
  NoTicket = NoTicket
  Grace = 2
  Batch = 2
  Day = 1
  Threshold = 0
  MaxTime = 4
  MaxInputs = 2
SPECIFICATION Spec
SYMMETRY Symm
CHECK_DEADLOCK FALSE
INVARIANTS TypeOK StopHonoured
PROPERTIES KickedAfterGrace KickedWereSilent
