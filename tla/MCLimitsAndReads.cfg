SPECIFICATION Spec
CONSTANTS
  Workers = {w1, w2}
  NoticeIds = {n1, n2, n3, n4}
  Apps = {ink, oak}
  MaxPosts = 2
  Window = 1
  LastHour = 2
  MaxCount = 5
  Shows = {s1, s2}
  None = None
  Todays = {2315, 2922}     \* 3 March 2026, 1 January 2027
  Ages = {60, 360, 730}     \* the first moments of three windows
  Tunables = {"limit", "ttl"}
  Limit = "limit"
  Default <- Defaults
  Numbers = {1, 2}
  MaxFaults = 2
  MaxPasses = 4
  s1 = s1
  s2 = s2
  w1 = w1
  w2 = w2
  n1 = n1
  n2 = n2
  n3 = n3
  n4 = n4
  ink = ink
  oak = oak
INVARIANTS
  PartTypesOK
  LimitsHold
  PostsBounded
  PageTellsOneReach
PROPERTIES
  RefusalEnds
  WorkersSettle
  WidgetCountsHold
CHECK_DEADLOCK FALSE
