SPECIFICATION FairPersistSpec
CONSTANTS
  ClusterID = {c1}
  AffiliateID = {a1}
  Data = {}
  Endpoint = {}
  Handlers = {h1, h2}
  Streams = {}
  GC = GC
  Persister = Persister
  Ttls = {1}
  DefaultTtl = 2
  ChanCap = 1
  MaxTime = 0
  MaxCalls = 2
  Nil = Nil
  EmptyID = EmptyID
  FileFaults = {}
  MaxCrashes = 0
PROPERTIES GhostsLeave
CHECK_DEADLOCK FALSE
