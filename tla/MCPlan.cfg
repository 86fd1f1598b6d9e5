SPECIFICATION Spec
CONSTANTS
  here = here  there = there  go = go  hold = hold  slow = slow  fast = fast
  Position <- Positions
  Key <- Keys
  Rest <- OneRest
  Crc <- Parity
  ActionWidth = 2
  MaxRows = 2
  MaxSends = 2
INVARIANTS TypeOK SentPlanArrives ReceivedPlanIsTheBoards ReceivedPlanIsVouched RefusedOnlyIfTorn
CHECK_DEADLOCK FALSE
