SPECIFICATION FairSpec
CONSTANTS
  x = x
  y = y
  bad = bad
  t1 = t1
  t2 = t2
  odd = odd
  openstack = openstack
  Release = {a}
  Range = {x, y, bad}
  InRange <- MCInRange
  Unnameable = {bad}
  Tag = {t1, t2, odd}
  Rank <- MCRank
  Published <- MCPublished
  Platform = {openstack}
  Schematic = {}
  DefaultSchematicID = DefaultSchematicID
  Specs <- MCSpecs
  Faults = {"api", "crash"}
  MaxEdits = 2
  Nil = Nil
INVARIANTS TypeOK
PROPERTIES NoPartialStatus VersionsAnnounced
CHECK_DEADLOCK FALSE
