SPECIFICATION FairPersistSpec
CONSTANTS
  ClusterID = {c1}
  AffiliateID = {a1, EmptyID}
  Data = {}
  Endpoint = {}
  Handlers = {h1}
  Streams = {}
  GC = GC
  Persister = Persister
  Ttls = {0}
  DefaultTtl = 0
  ChanCap = 1
  MaxTime = 1
  MaxCalls = 2
  Nil = Nil
  EmptyID = EmptyID
  FileFaults = {"create", "write", "read"}
  MaxCrashes = 1
INVARIANTS PersistTypeOK
PROPERTIES ExpiredCollected Durable SavedWhileAttached
CHECK_DEADLOCK FALSE
