SPECIFICATION Spec
CONSTANTS
  meta = meta
  oplink = oplink
  iap = iap
  other = other
  NoObj = NoObj
  Iap = iap
  Obj <- FewObj
  Retrieved <- FewObj
  Handshake <- NoHandshake
INVARIANTS AckAnswersRequest
