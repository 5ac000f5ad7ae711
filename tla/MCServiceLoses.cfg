SPECIFICATION ServiceSpec
CONSTANTS
  ClusterID = {c1}
  AffiliateID = {a1}
  Data = {}
  Endpoint = {}
  Handlers = {h1}
  Streams = {}
  GC = GC
  Persister = Persister
  Ttls = {1}
  DefaultTtl = 2
  ChanCap = 1
  MaxTime = 0
  MaxCalls = 1
  Nil = Nil
  EmptyID = EmptyID
  FileFaults = {}
  MaxCrashes = 1
PROPERTIES StopKeepsState
CHECK_DEADLOCK FALSE
