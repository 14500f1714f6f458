SPECIFICATION MCSpec
CONSTANTS
  Members = {ann, bob}
  Apps = {ink, oak}
  Owner <- MCOwner
  Workers = {w1, w2}
  Nobody = Nobody
  ShortDays = 1
  LongDays = 2
  LastDay = 3
  MaxImpressions = 2
  MaxEvents = 3
  ann = ann
  bob = bob
  ink = ink
  oak = oak
  w1 = w1
  w2 = w2
SYMMETRY WorkerSymmetry
INVARIANTS
  TypeOK
  EventsAttributed
  FollowsMatchEvents
  WeightBacked
PROPERTIES
  CorpusAppendOnly
  ClosedFunnelStands
CHECK_DEADLOCK FALSE
