SPECIFICATION Spec
CONSTANTS
  Apps = {a1, a2}
  Workers = {w1}
  Columns = {"name"}
  Links = {}
  GatedByConfig = {"deep_dive", "facets", "demo_clip"}
  Values = {v1, v2}
  Criteria = {honest_metadata}
  MaxClock = 4
  a1 = a1
  a2 = a2
  w1 = w1
  v1 = v1
  v2 = v2
  honest_metadata = honest_metadata
CHECK_DEADLOCK FALSE
INVARIANTS
  CataloguedContentWasReviewed
PROPERTIES
  QueuedAtTheBack
  ImplementsGate
