------------------------------- MODULE RateLimit -------------------------------
(***************************************************************************)
(* The fixed-window limiter (apps/core/ratelimit.py) of one client, under  *)
(* concurrent requests: a request is counted against each of its keys in   *)
(* turn, in the shared cache, by an add that seeds the counter with its    *)
(* expiry and an incr that fails when the counter expired in between; then *)
(* a fresh counter is set.  rate_limited counts the client's address and   *)
(* then the e-mail; ip_rate_limited_get counts the address only and lets   *)
(* the request through when the cache is down.                             *)
(***************************************************************************)
EXTENDS Naturals, Sequences, FiniteSets

CONSTANTS
  Workers,     \* the requests served at the same time
  Keys,        \* the keys a request is counted against, in order
  Limit,       \* Limit[i]: the limit of the i-th key
  Window,      \* window_seconds
  FailOpen,    \* whether a cache outage lets the request through
  MaxCount     \* bound: where the counters stop counting

\* What the constants must be.
RateAssumption ==
  /\ IsFiniteSet(Workers) /\ Window \in Nat \ {0} /\ FailOpen \in BOOLEAN
  /\ Len(Keys) \in Nat \ {0} /\ DOMAIN Keys = 1 .. Len(Keys)
  /\ Limit \in [DOMAIN Keys -> Nat \ {0}]
  /\ MaxCount \in Nat
  /\ \A i \in DOMAIN Keys : MaxCount > Limit[i] * Cardinality(Workers)

VARIABLES
  cache,       \* cache[i]: the counter of key i, and the time it has left
  request,     \* request[w]: where in the limiter worker w is
  passed,      \* history: passed[i], the requests key i let through since its counter was created
  answered     \* history: answered[w], how worker w's last request was answered

rateVars == <<cache, request, passed, answered>>

Absent == [count |-> 0, left |-> 0]
Counters == [count : 0 .. MaxCount, left : 0 .. Window]
Present(i) == cache[i].left > 0

NoRequest == [step |-> "idle"]

RateTypeOK ==
  /\ cache \in [DOMAIN Keys -> Counters]
  /\ request \in [Workers -> {NoRequest} \cup [step : {"add", "incr", "set"}, key : DOMAIN Keys]]
  /\ passed \in [DOMAIN Keys -> 0 .. MaxCount]
  /\ answered \in [Workers -> {"none", "served", "limited", "failed"}]

At(w, step) == request[w].step = step
Move(w, step) == request' = [request EXCEPT ![w].step = step]

Finish(w, answer) ==
  /\ request' = [request EXCEPT ![w] = NoRequest]
  /\ answered' = [answered EXCEPT ![w] = answer]

Capped(n) == IF n < MaxCount THEN n + 1 ELSE n

\* The key has counted the request as its count-th: over the limit it is refused at
\* once, else it goes on to the next key, or to the view.  `before` requests passed
\* since the counter was created.
Judge(w, i, count, before) ==
  \/ /\ count > Limit[i]
     /\ Finish(w, "limited")
     /\ UNCHANGED passed
  \/ /\ count <= Limit[i]
     /\ passed' = [passed EXCEPT ![i] = Capped(before)]
     /\ IF i = Len(Keys)
          THEN Finish(w, "served")
          ELSE /\ request' = [request EXCEPT ![w] = [step |-> "add", key |-> i + 1]]
               /\ UNCHANGED answered

-------------------------------------------------------------------------------
Arrive(w) ==
  /\ request[w] = NoRequest
  /\ request' = [request EXCEPT ![w] = [step |-> "add", key |-> 1]]
  /\ answered' = [answered EXCEPT ![w] = "none"]
  /\ UNCHANGED <<cache, passed>>

\* Mutant: every hit starts the window anew.
SeedSliding(w) ==
  /\ At(w, "add")
  /\ LET i == request[w].key IN
       /\ cache' = [cache EXCEPT ![i].left = Window]
       /\ passed' = IF Present(i) THEN passed ELSE [passed EXCEPT ![i] = 0]
  /\ Move(w, "incr")
  /\ UNCHANGED answered

\* Mutant: set instead of add, so every request starts the count anew.
SeedAlways(w) ==
  /\ At(w, "add")
  /\ LET i == request[w].key IN
       /\ cache' = [cache EXCEPT ![i] = [count |-> 0, left |-> IF Present(i) THEN @.left
                                                             ELSE Window]]
       /\ passed' = IF Present(i) THEN passed ELSE [passed EXCEPT ![i] = 0]
  /\ Move(w, "incr")
  /\ UNCHANGED answered

\* cache.add: seeds the counter on the first hit only.
Seed(w) ==
  /\ At(w, "add")
  /\ LET i == request[w].key IN
       \/ Present(i) /\ UNCHANGED <<cache, passed>>
       \/ /\ ~Present(i)
          /\ cache' = [cache EXCEPT ![i] = [count |-> 0, left |-> Window]]
          /\ passed' = [passed EXCEPT ![i] = 0]
  /\ Move(w, "incr")
  /\ UNCHANGED answered

\* cache.incr: the new count, or ValueError.
Increment(w) ==
  /\ At(w, "incr")
  /\ LET i == request[w].key IN
       \/ /\ Present(i)
          /\ cache' = [cache EXCEPT ![i].count = Capped(@)]
          /\ Judge(w, i, cache[i].count + 1, passed[i])
       \/ ~Present(i) /\ Move(w, "set") /\ UNCHANGED <<cache, passed, answered>>

\* Mutant: the fresh counter gets a window of its own, not the limiter's.
StartLonger(w) ==
  /\ At(w, "set")
  /\ LET i == request[w].key IN
       /\ cache' = [cache EXCEPT ![i] = [count |-> 1, left |-> Window + 1]]
       /\ Judge(w, i, 1, IF Present(i) THEN passed[i] ELSE 0)

\* The seed expired between add and incr: cache.set writes a fresh counter, over
\* whatever another request seeded meanwhile.
StartAfresh(w) ==
  /\ At(w, "set")
  /\ LET i == request[w].key IN
       /\ cache' = [cache EXCEPT ![i] = [count |-> 1, left |-> Window]]
       /\ Judge(w, i, 1, IF Present(i) THEN passed[i] ELSE 0)

\* The cache does not answer.
Outage(w) ==
  /\ request[w] # NoRequest
  /\ Finish(w, IF FailOpen THEN "served" ELSE "failed")
  /\ UNCHANGED <<cache, passed>>

\* A unit of time: counters expire.
TimePasses ==
  /\ \E i \in DOMAIN Keys : Present(i)
  /\ cache' = [i \in DOMAIN Keys |->
                 IF cache[i].left > 1 THEN [cache[i] EXCEPT !.left = @ - 1] ELSE Absent]
  /\ UNCHANGED <<request, passed, answered>>
-------------------------------------------------------------------------------
RateInit ==
  /\ cache = [i \in DOMAIN Keys |-> Absent]
  /\ request = [w \in Workers |-> NoRequest]
  /\ passed = [i \in DOMAIN Keys |-> 0]
  /\ answered = [w \in Workers |-> "none"]

Serve(w) == Seed(w) \/ Increment(w) \/ StartAfresh(w)

RateNext ==
  \/ \E w \in Workers : Arrive(w) \/ Serve(w) \/ Outage(w)
  \/ TimePasses

\* Time passes, and a worker finishes what it serves.  (That clients keep asking is no
\* matter of the code: the property assumes it.)
RateFairness == WF_rateVars(TimePasses) /\ \A w \in Workers : WF_rateVars(Serve(w))

RateSpec == RateInit /\ [][RateNext]_rateVars /\ RateFairness

-------------------------------------------------------------------------------
\* One counter lets Limit requests through; a request that finds its seed expired
\* may set the counter back once, over one that another request has created since, so
\* overlapping requests stretch the limit by a factor, never more.
PassesBounded ==
  \A i \in DOMAIN Keys : passed[i] <= Limit[i] * Cardinality(Workers)

\* A refusal lasts no longer than the window, however many refused requests come in
\* ("the window is fixed from that first request"): a client that keeps asking is
\* served again and again.
RefusalEnds ==
  []<>(\E w \in Workers : request[w] # NoRequest)
    => []<>(\E w \in Workers : answered[w] = "served")
===============================================================================
