SPECIFICATION FairSpec
CONSTANTS
  a = a
  b = b
  idA = idA
  idB = idB
  Obj <- OneObj
  Id <- ItsId
  OtherOps = {"Save"}
  MaxRetries = 1
  MaxQueue = 1
  MaxLink = 2
  MaxEvents = 1
PROPERTIES QueueMoves
