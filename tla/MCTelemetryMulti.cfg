SPECIFICATION Spec
CONSTANTS
  m = m
  s = s
  meta = meta
  stats = stats
  NoTrans = NoTrans
  Obj <- MultiObj
  Multi <- MultiObj
  Meta <- NoObj
  Handshake <- NoObj
  MaxInst = 3
  MaxRetries = 1
INVARIANTS TypeOK TalkOwned TimerBacked ZeroExcludesAll TablesAgree
