SPECIFICATION Spec
CONSTANTS
  Apps = {a1}
  Workers = {w1, w2}
  Columns = {"name"}
  Links = {"facets"}
  GatedByConfig = {"tagline"}
  Values = {v1, v2}
  Criteria = {honest_metadata}
  MaxClock = 4
CHECK_DEADLOCK FALSE
INVARIANTS
  CataloguedContentWasReviewed
CONSTANTS
  a1 = a1
  w1 = w1
  w2 = w2
  v1 = v1
  v2 = v2
  honest_metadata = honest_metadata
