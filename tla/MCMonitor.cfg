SPECIFICATION FairSpec
CONSTANTS
  meta = meta
  oplink = oplink
  iap = iap
  other = other
  NoObj = NoObj
  Iap = iap
  Obj <- AllObj
  Retrieved <- RetrievedObj
  Handshake <- OPLinkOnly
INVARIANTS TypeOK RetrievalDriven
PROPERTIES AnnouncedWhenRetrieved RetrievalEnds SilenceNoticed
