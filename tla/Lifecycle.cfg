CONSTANTS
  Keys = {k1}
  Days = {"today", "tomorrow"}
  Readers = {r1}
  MaxUpdate = 2
  MaxRestarts = 1
  ChanCap = 1
  KeyOf <- OneKey
  DayOf <- TwoDays
SPECIFICATION Spec
CONSTRAINT ReadsNotEnded
INVARIANTS TypeOK Conserved DailyAgrees ReadsSound TakenOnce DrainedBeforeClose
PROPERTY LedgerSpec
CHECK_DEADLOCK FALSE
