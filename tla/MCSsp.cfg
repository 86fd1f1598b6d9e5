SPECIFICATION FairSpec
CONSTANTS
  MaxSeq = 2
  MaxRetry = 2
  Earlier <- EarlierNumbers
  MaxSync = 1
  MaxCalls = 3
  MaxReplies = 1
  MaxLine = 1
INVARIANTS TypeOK HandedOverOnce RefusedOnlyIfEarly
PROPERTIES ImplementsDelivery SendReturns
CHECK_DEADLOCK FALSE
