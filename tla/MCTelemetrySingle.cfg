SPECIFICATION FairSpec
CONSTANTS
  m = m
  s = s
  meta = meta
  stats = stats
  NoTrans = NoTrans
  Obj <- MetaAndStats
  Multi <- NoObj
  Meta <- OneMeta
  Handshake <- OneStats
  MaxInst = 2
  MaxRetries = 2
INVARIANTS SingleRemembered
PROPERTIES ImplementsBroker WaiterTold
