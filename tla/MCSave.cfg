SPECIFICATION Spec
CONSTANTS
  a = a
  b = b
  idA = idA
  idB = idB
  Obj <- TwoObj
  Id <- TwoIds
  OtherOps = {}
  MaxRetries = 1
  MaxQueue = 2
  MaxLink = 2
  MaxEvents = 2
INVARIANTS TypeOK SaveTracksQueue SuccessIsReal SlotExpected
