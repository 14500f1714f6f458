---------------------------- MODULE RateLimitProofs ----------------------------
(***************************************************************************)
(* The fixed-window limiter, for any keys, limits and window, and any      *)
(* number of requests at once.  A counter may be set back under those that *)
(* passed by it only by a request that found it expired; such a request    *)
(* was on its way already when the counter that is there now was created,  *)
(* so each of them can be paid for in advance (Paid).                      *)
(***************************************************************************)
EXTENDS RateLimit, FiniteSetTheorems, TLAPS

\* The requests that found the counter of key i expired and have not set it yet.
Late(i) == {w \in Workers : request[w].step = "set" /\ request[w].key = i}

\* What the counter may let through without being set back.
Room(i) == IF cache[i].count < Limit[i] THEN Limit[i] - cache[i].count ELSE 0

\* As long as a counter is there, it pays for its room and for a whole limit for each
\* request that may set it back.
Paid ==
  \A i \in DOMAIN Keys :
    /\ passed[i] <= Limit[i] * Cardinality(Workers)
    /\ Present(i) =>
         passed[i] + Room(i) + Limit[i] * Cardinality(Late(i)) <= Limit[i] * Cardinality(Workers)

RateInv == RateTypeOK /\ Paid
-------------------------------------------------------------------------------
LEMMA Times ==
  /\ \A a, b \in Nat : a * b \in Nat
  /\ \A a, b, c \in Nat : b <= c => a * b <= a * c
  /\ \A a, b \in Nat : a * (b + 1) = a * b + a
BY SMTT(30)

LEMMA LateCounted ==
  ASSUME RateAssumption, NEW i
  PROVE  /\ IsFiniteSet(Late(i)) /\ Cardinality(Late(i)) \in Nat
         /\ Cardinality(Late(i)) <= Cardinality(Workers) /\ Cardinality(Workers) \in Nat
BY FS_Subset, FS_CardinalityType DEF RateAssumption, Late

\* Requests that are late no more, or fewer of them, leave what is paid paid.
LEMMA LateFewer ==
  ASSUME RateAssumption, NEW i, Late(i)' \subseteq Late(i)
  PROVE  Cardinality(Late(i)') <= Cardinality(Late(i)) /\ Cardinality(Late(i)') \in Nat
BY LateCounted, FS_Subset, FS_CardinalityType

\* A request on its way that is not late leaves room for one more.
LEMMA LateNotAll ==
  ASSUME RateAssumption, NEW i, NEW w \in Workers, w \notin Late(i)
  PROVE  Cardinality(Late(i)) + 1 <= Cardinality(Workers)
<1>1. Late(i) \subseteq Workers \ {w}
  BY DEF Late
<1>2. IsFiniteSet(Workers) /\ IsFiniteSet(Workers \ {w})
      /\ Cardinality(Workers \ {w}) = Cardinality(Workers) - 1
  BY FS_RemoveElement DEF RateAssumption
<1>3. Cardinality(Late(i)) <= Cardinality(Workers \ {w})
  BY <1>1, <1>2, FS_Subset
<1> QED BY <1>2, <1>3, LateCounted

LEMMA RateTypes ==
  ASSUME RateAssumption, RateTypeOK
  PROVE  /\ \A i \in DOMAIN Keys :
              /\ Limit[i] \in Nat \ {0} /\ passed[i] \in Nat
              /\ cache[i].count \in Nat /\ cache[i].left \in Nat
              /\ Room(i) \in Nat
         /\ \A w \in Workers : request[w].step \in {"add", "incr", "set"} =>
              request[w] = [step |-> request[w].step, key |-> request[w].key]
              /\ request[w].key \in DOMAIN Keys
         /\ MaxCount \in Nat /\ Window \in Nat \ {0}
BY DEF RateAssumption, RateTypeOK, Counters, NoRequest, Room
-------------------------------------------------------------------------------
LEMMA MoveType ==
  ASSUME RateAssumption, RateTypeOK, NEW w \in Workers, NEW from \in {"add", "incr", "set"},
         At(w, from), NEW to \in {"add", "incr", "set"}, Move(w, to)
  PROVE  /\ request' \in [Workers -> {NoRequest} \cup
                                      [step : {"add", "incr", "set"}, key : DOMAIN Keys]]
         /\ request'[w] = [step |-> to, key |-> request[w].key]
         /\ \A v \in Workers \ {w} : request'[v] = request[v]
<1>1. request[w] = [step |-> from, key |-> request[w].key] /\ request[w].key \in DOMAIN Keys
  BY RateTypes DEF At
<1>2. [request[w] EXCEPT !.step = to] = [step |-> to, key |-> request[w].key]
  BY <1>1
<1>3. request' = [request EXCEPT ![w] = [step |-> to, key |-> request[w].key]]
  BY <1>2 DEF Move
<1> QED BY <1>1, <1>3 DEF RateTypeOK

LEMMA JudgeType ==
  ASSUME RateAssumption, RateTypeOK, NEW w \in Workers, NEW i \in DOMAIN Keys,
         NEW count \in Nat, NEW before \in 0 .. MaxCount, Judge(w, i, count, before)
  PROVE  /\ request' \in [Workers -> {NoRequest} \cup
                                      [step : {"add", "incr", "set"}, key : DOMAIN Keys]]
         /\ answered' \in [Workers -> {"none", "served", "limited", "failed"}]
         /\ passed' \in [DOMAIN Keys -> 0 .. MaxCount]
<1>1. Capped(before) \in 0 .. MaxCount
  BY DEF Capped, RateAssumption
<1>2. i # Len(Keys) => i + 1 \in DOMAIN Keys
  BY DEF RateAssumption
<1>3. CASE Finish(w, "limited") /\ UNCHANGED passed
  BY <1>3 DEF Finish, RateTypeOK
<1>4. CASE /\ passed' = [passed EXCEPT ![i] = Capped(before)]
           /\ Finish(w, "served")
  BY <1>1, <1>4 DEF Finish, RateTypeOK
<1>5. CASE /\ passed' = [passed EXCEPT ![i] = Capped(before)]
           /\ i # Len(Keys)
           /\ request' = [request EXCEPT ![w] = [step |-> "add", key |-> i + 1]]
           /\ UNCHANGED answered
  BY <1>1, <1>2, <1>5 DEF RateTypeOK
<1> QED BY <1>3, <1>4, <1>5 DEF Judge

LEMMA RateTypeStep ==
  ASSUME RateAssumption, RateTypeOK, [RateNext]_rateVars
  PROVE  RateTypeOK'
<1>1. ASSUME NEW w \in Workers, Arrive(w) PROVE RateTypeOK'
  <2>1. 1 \in DOMAIN Keys
    BY DEF RateAssumption
  <2> QED BY <1>1, <2>1 DEF Arrive, RateTypeOK
<1>2. ASSUME NEW w \in Workers, Seed(w) PROVE RateTypeOK'
  <2> DEFINE i == request[w].key
  <2>0. MaxCount \in Nat /\ Window \in Nat \ {0}
    BY RateTypes
  <2>1. i \in DOMAIN Keys /\ [count |-> 0, left |-> Window] \in Counters /\ 0 \in 0 .. MaxCount
    <3>1. i \in DOMAIN Keys
      BY <1>2, RateTypes DEF Seed, At
    <3> QED BY <2>0, <3>1 DEF Counters
  <2>2. cache' \in [DOMAIN Keys -> Counters] /\ passed' \in [DOMAIN Keys -> 0 .. MaxCount]
    BY <1>2, <2>1 DEF Seed, RateTypeOK
  <2>3. At(w, "add") /\ Move(w, "incr") /\ UNCHANGED answered
    BY <1>2 DEF Seed
  <2> QED BY <2>2, <2>3, MoveType DEF RateTypeOK
<1>3. ASSUME NEW w \in Workers, Increment(w) PROVE RateTypeOK'
  <2> DEFINE i == request[w].key
  <2>1. At(w, "incr") /\ i \in DOMAIN Keys
    BY <1>3, RateTypes DEF Increment, At
  <2>2. CASE ~Present(i)
    <3>1. Move(w, "set") /\ UNCHANGED <<cache, passed, answered>>
      BY <1>3, <2>2 DEF Increment
    <3> QED BY <2>1, <3>1, MoveType DEF RateTypeOK
  <2>3. CASE Present(i)
    <3>1. /\ cache' = [cache EXCEPT ![i].count = Capped(@)]
          /\ Judge(w, i, cache[i].count + 1, passed[i])
      BY <1>3, <2>3 DEF Increment
    <3>2. cache[i] \in Counters /\ Capped(cache[i].count) \in 0 .. MaxCount
      BY <2>1, RateTypes DEF RateTypeOK, Counters, Capped
    <3>3. [cache[i] EXCEPT !.count = Capped(@)] \in Counters
      BY <3>2 DEF Counters
    <3>4. cache' \in [DOMAIN Keys -> Counters]
      BY <2>1, <3>1, <3>3 DEF RateTypeOK
    <3>5. cache[i].count + 1 \in Nat /\ passed[i] \in 0 .. MaxCount
      BY <2>1, RateTypes DEF RateTypeOK
    <3> QED BY <2>1, <3>1, <3>4, <3>5, JudgeType DEF RateTypeOK
  <2> QED BY <2>2, <2>3
<1>4. ASSUME NEW w \in Workers, StartAfresh(w) PROVE RateTypeOK'
  <2> DEFINE i == request[w].key
  <2>1. i \in DOMAIN Keys
    BY <1>4, RateTypes DEF StartAfresh, At
  <2>2. /\ cache' = [cache EXCEPT ![i] = [count |-> 1, left |-> Window]]
        /\ Judge(w, i, 1, IF Present(i) THEN passed[i] ELSE 0)
    BY <1>4 DEF StartAfresh
  <2>3. Workers # {} /\ Cardinality(Workers) \in Nat \ {0}
    BY FS_EmptySet, FS_CardinalityType DEF RateAssumption
  <2>4. 1 \in 0 .. MaxCount
    <3>1. Limit[i] * 1 <= Limit[i] * Cardinality(Workers) /\ Limit[i] * 1 = Limit[i]
      BY <2>1, <2>3, RateTypes, Times
    <3>2. MaxCount > Limit[i] * Cardinality(Workers) /\ Limit[i] * Cardinality(Workers) \in Nat
      BY <2>1, <2>3, RateTypes, Times DEF RateAssumption
    <3> QED BY <2>1, <3>1, <3>2, RateTypes
  <2>5. [count |-> 1, left |-> Window] \in Counters
    BY <2>4, RateTypes DEF Counters
  <2>6. cache' \in [DOMAIN Keys -> Counters]
    BY <2>1, <2>2, <2>5 DEF RateTypeOK
  <2>7. (IF Present(i) THEN passed[i] ELSE 0) \in 0 .. MaxCount
    BY <2>1, RateTypes DEF RateTypeOK
  <2> QED BY <2>1, <2>2, <2>6, <2>7, JudgeType DEF RateTypeOK
<1>5. ASSUME NEW w \in Workers, Outage(w) PROVE RateTypeOK'
  BY <1>5 DEF Outage, Finish, RateTypeOK
<1>6. CASE TimePasses
  <2>1. ASSUME NEW i \in DOMAIN Keys
        PROVE  (IF cache[i].left > 1 THEN [cache[i] EXCEPT !.left = @ - 1] ELSE Absent) \in Counters
    BY <2>1, RateTypes DEF RateTypeOK, Counters, Absent
  <2> QED BY <1>6, <2>1 DEF TimePasses, RateTypeOK
<1>7. CASE UNCHANGED rateVars
  BY <1>7 DEF rateVars, RateTypeOK
<1> QED BY <1>1, <1>2, <1>3, <1>4, <1>5, <1>6, <1>7 DEF RateNext, Serve
-------------------------------------------------------------------------------
\* What a step leaves of the other keys: their counters as they are, and no request late.
LEMMA PaidElsewhere ==
  ASSUME RateAssumption, RateInv, NEW j \in DOMAIN Keys,
         cache'[j] = cache[j], passed'[j] = passed[j], Late(j)' \subseteq Late(j)
  PROVE  /\ passed'[j] <= Limit[j] * Cardinality(Workers)
         /\ Present(j)' =>
              passed'[j] + Room(j)' + Limit[j] * Cardinality(Late(j)') <= Limit[j] * Cardinality(Workers)
<1>1. Room(j)' = Room(j) /\ (Present(j)' <=> Present(j))
  BY DEF Room, Present
<1>2. Limit[j] * Cardinality(Late(j)') <= Limit[j] * Cardinality(Late(j))
  BY LateFewer, LateCounted, RateTypes, Times DEF RateInv
<1>3. /\ Limit[j] * Cardinality(Late(j)') \in Nat /\ Limit[j] * Cardinality(Late(j)) \in Nat
      /\ Limit[j] * Cardinality(Workers) \in Nat
  BY LateFewer, LateCounted, RateTypes, Times DEF RateInv
<1> QED BY <1>1, <1>2, <1>3, RateTypes DEF RateInv, Paid

\* A request that has been judged is not late, and nobody else's is.
LEMMA JudgedNotLate ==
  ASSUME RateAssumption, RateInv, NEW w \in Workers, NEW i \in DOMAIN Keys,
         NEW count \in Nat, NEW before, Judge(w, i, count, before)
  PROVE  /\ \A j : Late(j)' = Late(j) \ {w}
         /\ passed' = [passed EXCEPT ![i] = IF count <= Limit[i] THEN Capped(before) ELSE @]
<1>1. /\ request'[w].step # "set"
      /\ \A v \in Workers \ {w} : request'[v] = request[v]
  BY DEF Judge, Finish, NoRequest, RateInv, RateTypeOK
<1>2. ASSUME NEW j PROVE Late(j)' = Late(j) \ {w}
  BY <1>1 DEF Late
<1>3. passed' = [passed EXCEPT ![i] = IF count <= Limit[i] THEN Capped(before) ELSE @]
  <2>1. CASE count > Limit[i] /\ UNCHANGED passed
    BY <2>1, RateTypes DEF RateInv, RateTypeOK
  <2> QED BY <2>1 DEF Judge
<1> QED BY <1>2, <1>3

\* A counter that is there counts a request, and lets it through if there is room.
LEMMA PaidCounted ==
  ASSUME RateAssumption, RateInv, NEW w \in Workers, Increment(w), Present(request[w].key)
  PROVE  Paid'
<1>0. PICK i \in DOMAIN Keys : i = request[w].key
  BY RateTypes DEF Increment, At, RateInv
<1>1. /\ Present(i)
      /\ cache' = [cache EXCEPT ![i].count = Capped(@)]
      /\ Judge(w, i, cache[i].count + 1, passed[i])
  BY <1>0 DEF Increment
<1>2. /\ Limit[i] \in Nat \ {0} /\ passed[i] \in Nat /\ cache[i].count \in Nat /\ MaxCount \in Nat
      /\ MaxCount > Limit[i] * Cardinality(Workers)
  BY <1>1, RateTypes DEF RateInv, RateAssumption
<1>3. /\ \A j : Late(j)' = Late(j) \ {w}
      /\ passed' = [passed EXCEPT ![i] = IF cache[i].count + 1 <= Limit[i] THEN Capped(passed[i])
                                         ELSE @]
  <2>1. cache[i].count + 1 \in Nat
    BY <1>2
  <2> QED BY <1>1, <2>1, JudgedNotLate
<1>4. ASSUME NEW j \in DOMAIN Keys, j # i
      PROVE  cache'[j] = cache[j] /\ passed'[j] = passed[j]
  BY <1>1, <1>3, <1>4 DEF RateInv, RateTypeOK
<1>5. /\ cache'[i].count = Capped(cache[i].count)
      /\ passed'[i] = IF cache[i].count + 1 <= Limit[i] THEN Capped(passed[i]) ELSE passed[i]
  <2>1. cache'[i] = [cache[i] EXCEPT !.count = Capped(@)] /\ cache[i] \in Counters
    BY <1>1 DEF RateInv, RateTypeOK
  <2>2. cache'[i].count = Capped(cache[i].count)
    BY <2>1 DEF Counters
  <2> QED BY <1>1, <1>3, <2>2 DEF RateInv, RateTypeOK
<1>6. /\ passed[i] + Room(i) + Limit[i] * Cardinality(Late(i)) <= Limit[i] * Cardinality(Workers)
      /\ Limit[i] * Cardinality(Late(i)) \in Nat /\ Limit[i] * Cardinality(Workers) \in Nat
  BY <1>1, <1>2, LateCounted, Times DEF RateInv, Paid
<1>7. Limit[i] <= Limit[i] * Cardinality(Workers)
  <2>1. 1 <= Cardinality(Workers) /\ Cardinality(Workers) \in Nat
    BY LateCounted, FS_EmptySet DEF RateAssumption
  <2>2. Limit[i] * 1 <= Limit[i] * Cardinality(Workers)
    BY <1>2, <2>1, Times
  <2> QED BY <1>2, <2>2
<1>8. passed'[i] + Room(i)' <= passed[i] + Room(i) /\ passed'[i] \in Nat /\ Room(i)' \in Nat
  BY <1>2, <1>5, <1>6, <1>7 DEF Room, Capped
<1>9. /\ Limit[i] * Cardinality(Late(i)') <= Limit[i] * Cardinality(Late(i))
      /\ Limit[i] * Cardinality(Late(i)') \in Nat
  BY <1>2, <1>3, LateFewer, LateCounted, Times
<1>10. Room(i) \in Nat
  BY <1>2 DEF Room
<1>11. /\ passed'[i] <= Limit[i] * Cardinality(Workers)
       /\ passed'[i] + Room(i)' + Limit[i] * Cardinality(Late(i)') <= Limit[i] * Cardinality(Workers)
  BY <1>2, <1>6, <1>8, <1>9, <1>10
<1> QED BY <1>3, <1>4, <1>11, PaidElsewhere DEF Paid

\* A late request sets the counter back, and is late no more: it was paid for.
LEMMA PaidSetBack ==
  ASSUME RateAssumption, RateInv, NEW w \in Workers, StartAfresh(w)
  PROVE  Paid'
<1>0. PICK i \in DOMAIN Keys : i = request[w].key
  BY RateTypes DEF StartAfresh, At, RateInv
<1>a. PICK before : before = IF Present(i) THEN passed[i] ELSE 0
  OBVIOUS
<1>1. /\ cache' = [cache EXCEPT ![i] = [count |-> 1, left |-> Window]]
      /\ Judge(w, i, 1, before) /\ w \in Late(i)
  BY <1>0, <1>a DEF StartAfresh, At, Late
<1>2. /\ Limit[i] \in Nat \ {0} /\ passed[i] \in Nat /\ before \in Nat /\ MaxCount \in Nat
      /\ Room(i) \in Nat
  BY <1>a, RateTypes DEF RateInv
<1>3. /\ \A j : Late(j)' = Late(j) \ {w}
      /\ passed' = [passed EXCEPT ![i] = Capped(before)]
  <2>1. 1 <= Limit[i]
    BY <1>2
  <2> QED BY <1>1, <2>1, JudgedNotLate
<1>4. ASSUME NEW j \in DOMAIN Keys, j # i
      PROVE  cache'[j] = cache[j] /\ passed'[j] = passed[j]
  BY <1>1, <1>3, <1>4 DEF RateInv, RateTypeOK
<1>5. passed'[i] <= before + 1 /\ passed'[i] \in Nat /\ Room(i)' = Limit[i] - 1
  <2>1. cache'[i].count = 1 /\ passed'[i] = Capped(before)
    BY <1>1, <1>3 DEF RateInv, RateTypeOK
  <2> QED BY <1>2, <2>1 DEF Room, Capped
<1>6. /\ Cardinality(Late(i)') + 1 = Cardinality(Late(i)) /\ Cardinality(Late(i)') \in Nat
  <2>1. Cardinality(Late(i) \ {w}) = Cardinality(Late(i)) - 1
    BY <1>1, LateCounted, FS_RemoveElement
  <2>2. Late(i)' = Late(i) \ {w} /\ Late(i)' \subseteq Late(i)
    BY <1>3
  <2> QED BY <2>1, <2>2, LateCounted, LateFewer
<1>7. /\ Limit[i] * Cardinality(Late(i)) = Limit[i] * Cardinality(Late(i)') + Limit[i]
      /\ Limit[i] * Cardinality(Late(i)') \in Nat
      /\ Limit[i] * Cardinality(Late(i)) <= Limit[i] * Cardinality(Workers)
      /\ Limit[i] * Cardinality(Workers) \in Nat
  BY <1>2, <1>6, LateCounted, Times
<1>8. before + Limit[i] * Cardinality(Late(i)) <= Limit[i] * Cardinality(Workers)
  <2>1. CASE Present(i)
    BY <1>1, <1>2, <1>7, <1>a, <2>1 DEF RateInv, Paid
  <2>2. CASE ~Present(i)
    BY <1>a, <1>2, <1>6, <1>7, <2>2, LateCounted
  <2> QED BY <2>1, <2>2
<1>9. /\ passed'[i] <= Limit[i] * Cardinality(Workers)
      /\ passed'[i] + Room(i)' + Limit[i] * Cardinality(Late(i)') <= Limit[i] * Cardinality(Workers)
  BY <1>2, <1>5, <1>7, <1>8
<1> QED BY <1>3, <1>4, <1>9, PaidElsewhere DEF Paid

\* The first hit creates the counter, and is itself not late.
LEMMA PaidSeeded ==
  ASSUME RateAssumption, RateInv, NEW w \in Workers, Seed(w)
  PROVE  Paid'
<1>0. PICK i \in DOMAIN Keys : i = request[w].key
  BY RateTypes DEF Seed, At, RateInv
<1>1. At(w, "add") /\ Move(w, "incr")
  BY DEF Seed
<1>2. \A j : Late(j)' = Late(j) /\ w \notin Late(j)
  <2>1. request'[w].step = "incr" /\ \A v \in Workers \ {w} : request'[v] = request[v]
    <3>1. RateTypeOK
      BY DEF RateInv
    <3>2. /\ request'[w] = [step |-> "incr", key |-> request[w].key]
          /\ \A v \in Workers \ {w} : request'[v] = request[v]
      BY <1>1, <3>1, MoveType
    <3> QED BY <3>2
  <2> QED BY <1>1, <2>1 DEF Late, At
<1>3. CASE UNCHANGED <<cache, passed>>
  BY <1>2, <1>3, PaidElsewhere DEF Paid
<1>4. CASE /\ cache' = [cache EXCEPT ![i] = [count |-> 0, left |-> Window]]
           /\ passed' = [passed EXCEPT ![i] = 0]
  <2>1. ASSUME NEW j \in DOMAIN Keys, j # i
        PROVE  cache'[j] = cache[j] /\ passed'[j] = passed[j]
    BY <1>4, <2>1 DEF RateInv, RateTypeOK
  <2>2. Limit[i] \in Nat \ {0} /\ passed'[i] = 0 /\ Room(i)' = Limit[i]
    <3>1. Limit[i] \in Nat \ {0}
      BY <1>1, RateTypes DEF RateInv
    <3>2. cache'[i].count = 0 /\ passed'[i] = 0
      BY <1>1, <1>4 DEF RateInv, RateTypeOK
    <3> QED BY <3>1, <3>2 DEF Room
  <2>3. Cardinality(Late(i)) + 1 <= Cardinality(Workers)
    BY <1>2, LateNotAll
  <2>4. /\ Limit[i] * (Cardinality(Late(i)) + 1) <= Limit[i] * Cardinality(Workers)
        /\ Limit[i] * (Cardinality(Late(i)) + 1) = Limit[i] * Cardinality(Late(i)) + Limit[i]
        /\ Limit[i] * Cardinality(Late(i)) \in Nat /\ Limit[i] * Cardinality(Workers) \in Nat
    <3>1. PICK l \in Nat, c \in Nat, n \in Nat :
            l = Limit[i] /\ c = Cardinality(Late(i)) /\ n = Cardinality(Workers)
      BY <2>2, LateCounted
    <3>2. c + 1 \in Nat /\ c + 1 <= n
      BY <2>3, <3>1
    <3>3. l * (c + 1) <= l * n /\ l * (c + 1) = l * c + l /\ l * c \in Nat /\ l * n \in Nat
      BY <3>2, Times
    <3> QED BY <3>1, <3>3
  <2>5. /\ passed'[i] <= Limit[i] * Cardinality(Workers)
        /\ passed'[i] + Room(i)' + Limit[i] * Cardinality(Late(i)') <= Limit[i] * Cardinality(Workers)
    BY <1>2, <2>2, <2>4
  <2> QED BY <1>2, <2>1, <2>5, PaidElsewhere DEF Paid
<1> QED BY <1>0, <1>3, <1>4 DEF Seed

LEMMA PaidStep ==
  ASSUME RateAssumption, RateInv, [RateNext]_rateVars
  PROVE  Paid'
<1>1. ASSUME UNCHANGED <<cache, passed>>, \A j \in DOMAIN Keys : Late(j)' \subseteq Late(j)
      PROVE  Paid'
  BY <1>1, PaidElsewhere DEF Paid
<1>2. ASSUME NEW w \in Workers, Arrive(w) \/ Outage(w) PROVE Paid'
  BY <1>1, <1>2 DEF Arrive, Outage, Finish, NoRequest, Late, RateInv, RateTypeOK
<1>3. ASSUME NEW w \in Workers, Seed(w) PROVE Paid'
  BY <1>3, PaidSeeded
<1>4. ASSUME NEW w \in Workers, Increment(w) PROVE Paid'
  <2>1. CASE Present(request[w].key)
    BY <1>4, <2>1, PaidCounted
  <2>2. CASE ~Present(request[w].key)
    <3>0. PICK i \in DOMAIN Keys : i = request[w].key
      BY <1>4, RateTypes DEF Increment, At, RateInv
    <3>1. At(w, "incr") /\ Move(w, "set") /\ UNCHANGED <<cache, passed>>
      BY <1>4, <2>2 DEF Increment
    <3>2. request'[w].key = i /\ \A v \in Workers \ {w} : request'[v] = request[v]
      <4>1. RateTypeOK
        BY DEF RateInv
      <4>2. /\ request'[w] = [step |-> "set", key |-> request[w].key]
            /\ \A v \in Workers \ {w} : request'[v] = request[v]
        BY <3>1, <4>1, MoveType
      <4> QED BY <3>0, <4>2
    <3>3. ASSUME NEW j \in DOMAIN Keys, j # i PROVE Late(j)' \subseteq Late(j)
      BY <3>2, <3>3 DEF Late
    <3>4. ~Present(i)'
      BY <2>2, <3>0, <3>1 DEF Present
    <3> QED BY <2>2, <3>1, <3>3, <3>4, PaidElsewhere DEF Paid, RateInv, Present
  <2> QED BY <2>1, <2>2
<1>5. ASSUME NEW w \in Workers, StartAfresh(w) PROVE Paid'
  BY <1>5, PaidSetBack
<1>6. CASE TimePasses
  <2>1. ASSUME NEW j \in DOMAIN Keys
        PROVE  /\ passed'[j] = passed[j] /\ Late(j)' = Late(j)
               /\ Present(j)' => Present(j) /\ Room(j)' = Room(j)
    <3>1. passed'[j] = passed[j] /\ Late(j)' = Late(j)
      BY <1>6 DEF TimePasses, Late
    <3>2. cache'[j] = IF cache[j].left > 1 THEN [cache[j] EXCEPT !.left = @ - 1] ELSE Absent
      BY <1>6 DEF TimePasses
    <3>3. cache[j] \in Counters
      BY DEF RateInv, RateTypeOK
    <3>4. CASE cache[j].left > 1
      BY <3>1, <3>2, <3>3, <3>4 DEF Present, Room, Counters
    <3>5. CASE ~ cache[j].left > 1
      BY <3>1, <3>2, <3>5 DEF Present, Absent
    <3> QED BY <3>4, <3>5
  <2> QED BY <2>1 DEF RateInv, Paid
<1>7. CASE UNCHANGED rateVars
  BY <1>1, <1>7 DEF rateVars, Late
<1> QED BY <1>2, <1>3, <1>4, <1>5, <1>6, <1>7 DEF RateNext, Serve

LEMMA RateStart ==
  ASSUME RateAssumption, RateInit
  PROVE  RateInv
<1>1. RateTypeOK
  BY DEF RateInit, RateTypeOK, Absent, Counters, RateAssumption
<1>2. \A i \in DOMAIN Keys : Limit[i] * Cardinality(Workers) \in Nat /\ ~ Present(i) /\ passed[i] = 0
  <2>1. ASSUME NEW i \in DOMAIN Keys
        PROVE  Limit[i] * Cardinality(Workers) \in Nat
    BY <1>1, RateTypes, LateCounted, Times
  <2>2. ASSUME NEW i \in DOMAIN Keys
        PROVE  ~ Present(i) /\ passed[i] = 0
    BY DEF RateInit, Absent, Present
  <2> QED BY <2>1, <2>2
<1> QED BY <1>1, <1>2 DEF RateInv, Paid

LEMMA RateStep ==
  ASSUME RateAssumption, RateInv, [RateNext]_rateVars
  PROVE  RateInv'
BY RateTypeStep, PaidStep DEF RateInv

LEMMA RateHolds == RateInv => PassesBounded
BY DEF RateInv, Paid, PassesBounded

\* A counter lets through no more than its limit for each request that may be at work at
\* once (PassesBounded, _exceeds_limit), whatever the requests do to each other and
\* however often the counter expires between two of their calls.
THEOREM LimiterBounds == RateAssumption /\ RateSpec => []PassesBounded
<1> DEFINE IInv == RateAssumption /\ RateInv
<1>1. RateAssumption /\ RateInit => IInv
  BY RateStart
<1>2. IInv /\ [RateNext]_rateVars => IInv'
  BY RateStep DEF RateAssumption
<1> QED BY <1>1, <1>2, RateHolds, PTL DEF RateSpec
===============================================================================
