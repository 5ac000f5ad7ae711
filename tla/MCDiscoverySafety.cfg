SPECIFICATION Spec
CONSTANTS
  ClusterID = {c1}
  AffiliateID = {a1}
  Data = {}
  Endpoint = {}
  Handlers = {h1, h2}
  Streams = {s1}
  GC = GC
  Persister = Persister
  Ttls <- PastOrDefault
  DefaultTtl = 0
  ChanCap = 1
  MaxTime = 1
  MaxCalls = 2
  Nil = Nil
SYMMETRY HandlerSymmetry
INVARIANTS TypeOK TotalOrder ListFresh
PROPERTIES WedgeIsPermanent NoEarlyExpiry BroadcastIsAtomic
CHECK_DEADLOCK FALSE
