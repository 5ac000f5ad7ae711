SPECIFICATION FairSpec
CONSTANTS
  ClusterID = {c1}
  AffiliateID = {a1}
  Data = {d1}
  Endpoint = {}
  Handlers = {h1}
  Streams = {s1}
  GC = GC
  Persister = Persister
  Ttls = {1}
  DefaultTtl = 1
  ChanCap = 1
  MaxTime = 0
  MaxCalls = 3
  Nil = Nil
PROPERTIES CallsReturn ClientsInformed
CHECK_DEADLOCK FALSE
