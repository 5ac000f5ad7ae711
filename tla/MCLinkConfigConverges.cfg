SPECIFICATION FairSpec
CONSTANTS
  e1 = e1
  e2 = e2
  n1 = n1
  g1 = g1
  bad = bad
  padded = padded
  g2 = g2
  ip1 = ip1
  ip2 = ip2
  Interface = {e1, e2}
  Network = {n1}
  Gateway = {g1, g2}
  Unparsable = {}
  Padded = {}
  Trim <- MCTrim
  Default = Default
  NoGateway = NoGateway
  Nil = Nil
  Name = {default, custom}
  DefaultName = default
  Specs <- SmallSpecs
  Invalid = Invalid
  Pod = {q1}
  Annotations <- PodNetworks
  NoAnnotation = NoAnnotation
  Address = {ip1, ip2}
  MachineIP = ip1
  Faults = {"get", "apply"}
  CacheLag = FALSE
  MaxEdits = 3
INVARIANTS TypeOK AnnotationCovers
PROPERTIES Authoritative CleanedUp
CHECK_DEADLOCK FALSE
