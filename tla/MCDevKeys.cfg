CONSTANTS
  Server = Server
  Senders = {s1, s2}
  Keys = {k1, k2, k3, k4}
  NoKey = NoKey
  Parts = 2
SPECIFICATION Spec
INVARIANTS TypeOK TokenFitsUnlessRaced
PROPERTY FailedStartExplained
