SPECIFICATION FairSpec
CONSTANTS
  m = m
  s = s
  meta = meta
  stats = stats
  NoTrans = NoTrans
  Obj <- OneObj
  Multi <- NoObj
  Meta <- NoObj
  Handshake <- NoObj
  MaxInst = 1
  MaxRetries = 2
PROPERTIES UnsentTimesOut
