SPECIFICATION FairPersistSpec
CONSTANTS
  ClusterID = {c1}
  AffiliateID = {a1}
  Data = {d1}
  Endpoint = {}
  Handlers = {h1}
  Streams = {}
  GC = GC
  Persister = Persister
  Ttls = {1}
  DefaultTtl = 2
  ChanCap = 1
  MaxTime = 0
  MaxCalls = 1
  Nil = Nil
  EmptyID = EmptyID
  FileFaults = {}
  MaxCrashes = 0
PROPERTIES SavedAlways
CHECK_DEADLOCK FALSE
