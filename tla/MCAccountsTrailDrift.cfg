SPECIFICATION Spec
CONSTANTS
  Accounts = {a1, a2}
  Workers = {w1, w2}
  Tokens = {t1, t2}
  Ttl = 1
  MaxTime = 2
  MaxRows = 3
  Targets = {a1, a2}
  Changers = {w1, w2}
  HandEdited = {}
  a1 = a1
  a2 = a2
  w1 = w1
  w2 = w2
  t1 = t1
  t2 = t2
CHECK_DEADLOCK FALSE
INVARIANTS
  TrailNeverDrifts
