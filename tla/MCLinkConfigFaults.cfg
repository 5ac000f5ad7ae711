SPECIFICATION FaultySpec
CONSTANTS
  e1 = e1
  e2 = e2
  n1 = n1
  g1 = g1
  bad = bad
  padded = padded
  g2 = g2
  ip1 = ip1
  ip2 = ip2
  Interface = {e1, e2}
  Network = {n1}
  Gateway = {g1, g2, bad, padded}
  Unparsable = {bad}
  Padded = {padded}
  Trim <- MCTrim
  Default = Default
  NoGateway = NoGateway
  Nil = Nil
  Name = {default}
  DefaultName = default
  Specs <- OddSpecs
  Invalid = Invalid
  Pod = {q1, q2}
  Annotations <- OddNetworks
  NoAnnotation = NoAnnotation
  Address = {ip1, ip2}
  MachineIP = ip1
  Faults = {"list", "get", "apply", "reply", "wait", "patch", "crash"}
  CacheLag = TRUE
  MaxEdits = 2
INVARIANTS AppliedWhenPersisted
PROPERTIES DesiredApplied UnmanagedKept
CHECK_DEADLOCK FALSE
