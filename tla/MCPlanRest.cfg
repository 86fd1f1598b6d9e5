SPECIFICATION Spec
CONSTANTS
  here = here  there = there  go = go  hold = hold  slow = slow  fast = fast
  Position <- OnePosition
  Key <- Keys
  Rest <- TwoRests
  Crc <- Parity
  ActionWidth = 2
  MaxRows = 2
  MaxSends = 1
INVARIANTS SentPlanArrives
CHECK_DEADLOCK FALSE
