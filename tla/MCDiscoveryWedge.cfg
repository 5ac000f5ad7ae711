SPECIFICATION FairSpec
CONSTANTS
  ClusterID = {c1}
  AffiliateID = {a1}
  Data = {}
  Endpoint = {}
  Handlers = {h1}
  Streams = {s1}
  GC = GC
  Persister = Persister
  Ttls = {0}
  DefaultTtl = 0
  ChanCap = 1
  MaxTime = 1
  MaxCalls = 1
  Nil = Nil
PROPERTIES CollectedAlways
CHECK_DEADLOCK FALSE
