--------------------------- MODULE EngagementProofs ---------------------------
(***************************************************************************)
(* Theorems about the signal corpus, the follows and the ratings, for any  *)
(* number of members, applications, workers and days.  What a request has  *)
(* checked must still hold when it writes: its impression cannot have      *)
(* changed hands, its evidence cannot have gone, and its follow cannot     *)
(* have appeared.                                                          *)
(***************************************************************************)
EXTENDS Engagement, FiniteSetTheorems, SequenceTheorems, TLAPS

\* Between its check and its commit, the conversion of a member who is still there is
\* about that member's impression.
LinksInFlight ==
  \A w \in Workers :
    LET r == requests[w] IN
      Serves(w, "convert") /\ r.impression # NoImpression /\ r.user \in live =>
        /\ r.impression \in DOMAIN impressions
        /\ impressions[r.impression].app = r.app
        /\ impressions[r.impression].user = r.user

\* What makes a rating of a by m count.
Evidence(rows, m, a, day) ==
  \E i \in DOMAIN rows :
    /\ rows[i].user = m
    /\ rows[i].app = a
    /\ rows[i].surface = "digest"
    /\ rows[i].at <= day

\* A determination that gives weight is backed while its author is there.
DeterminationsBacked ==
  \A w \in Workers :
    LET r == requests[w] IN
      RateAt(w, "determined") =>
        /\ r.eligible <=> r.basis = "curated_digest_impression"
        /\ r.eligible /\ r.user \in live => Evidence(impressions, r.user, r.app, r.at)

\* A follow that is being inserted is new, and nobody else inserts it.
InsertsAreNew ==
  \A w \in Workers :
    FollowAt(w, "inserted") => Pair(w) \notin follows /\ ~ RowHeld(w)

-------------------------------------------------------------------------------
\* Requests and sequences.

\* The operation of a request tells the fields it has.
LEMMA RequestFields ==
  ASSUME TypeOK, NEW w \in Workers
  PROVE  /\ Serves(w, "show") =>
              requests[w] \in [op : {"show"}, user : Members, app : Apps,
                               surface : Surfaces, at : Days]
         /\ Serves(w, "convert") =>
              requests[w] \in [op : {"convert"}, kind : EventKinds, user : Members,
                               app : Apps, impression : Nat, at : Days]
         /\ Serves(w, "visit") =>
              requests[w] \in [op : {"visit"}, user : Members, at : Days]
         /\ Serves(w, "follow") => requests[w] \in FollowRequests
         /\ Serves(w, "rate") => requests[w] \in RateRequests
<1>1. requests[w] \in {Idle} \cup Captures \cup FollowRequests \cup RateRequests
  BY DEF TypeOK
<1>2. Idle.op = "idle"
  BY DEF Idle
<1>3. CASE requests[w] = Idle
  BY <1>2, <1>3 DEF Serves
<1>4. CASE requests[w] \in FollowRequests
  BY <1>4 DEF Serves, FollowRequests
<1>5. CASE requests[w] \in RateRequests
  BY <1>5 DEF Serves, RateRequests
<1>6. CASE requests[w] \in Captures
  BY <1>6 DEF Serves, Captures
<1> QED BY <1>1, <1>3, <1>4, <1>5, <1>6

LEMMA RateFields ==
  ASSUME TypeOK, NEW w \in Workers
  PROVE  /\ RateAt(w, "asked") =>
              requests[w] \in [op : {"rate"}, step : {"asked"}, user : Members,
                               app : Apps, at : Days]
         /\ RateAt(w, "determined") =>
              requests[w] \in [op : {"rate"}, step : {"determined"}, user : Members,
                               app : Apps, at : Days, eligible : BOOLEAN, basis : Bases]
BY RequestFields DEF RateAt, RateRequests

\* A request begun, or finished, is the only one that changes.
LEMMA FinishEffect ==
  ASSUME TypeOK, NEW w \in Workers, Finish(w)
  PROVE  /\ requests' \in [Workers -> {Idle} \cup Captures \cup FollowRequests \cup RateRequests]
         /\ requests'[w] = Idle
         /\ \A v \in Workers \ {w} : requests'[v] = requests[v]
BY DEF Finish, TypeOK

LEMMA BeginEffect ==
  ASSUME TypeOK, NEW w \in Workers,
         NEW r \in Captures \cup FollowRequests \cup RateRequests, Begin(w, r)
  PROVE  /\ requests' \in [Workers -> {Idle} \cup Captures \cup FollowRequests \cup RateRequests]
         /\ requests'[w] = r
         /\ \A v \in Workers \ {w} : requests'[v] = requests[v]
BY DEF Begin, TypeOK

\* Blanking keeps the rows, and their types, and all of a row but its user.
LEMMA BlankRows ==
  ASSUME NEW m \in Members, NEW rows, NEW R, rows \in Seq(R),
         \A row \in R : [row EXCEPT !.user = Nobody] \in R
  PROVE  /\ Blank(rows, m) \in Seq(R)
         /\ DOMAIN Blank(rows, m) = DOMAIN rows
         /\ \A i \in DOMAIN rows :
              Blank(rows, m)[i] = IF rows[i].user = m THEN [rows[i] EXCEPT !.user = Nobody]
                                                      ELSE rows[i]
<1>1. DOMAIN rows = 1 .. Len(rows) /\ Len(rows) \in Nat /\ \A i \in DOMAIN rows : rows[i] \in R
  OBVIOUS
<1>2. Blank(rows, m) \in [1 .. Len(rows) -> R]
  BY <1>1 DEF Blank
<1>3. Blank(rows, m) \in Seq(R)
  BY <1>1, <1>2, SeqDef
<1> QED BY <1>3 DEF Blank

-------------------------------------------------------------------------------
\* Types.

LEMMA BlankTypes ==
  ASSUME TypeOK, NEW m \in Members
  PROVE  /\ Blank(impressions, m) \in Seq(Impressions)
         /\ Blank(events, m) \in Seq(Events)
         /\ DOMAIN Blank(impressions, m) = DOMAIN impressions
         /\ DOMAIN Blank(events, m) = DOMAIN events
         /\ \A i \in DOMAIN impressions :
              Blank(impressions, m)[i] =
                IF impressions[i].user = m THEN [impressions[i] EXCEPT !.user = Nobody]
                                           ELSE impressions[i]
         /\ \A i \in DOMAIN events :
              Blank(events, m)[i] =
                IF events[i].user = m THEN [events[i] EXCEPT !.user = Nobody] ELSE events[i]
<1>1. \A row \in Impressions : [row EXCEPT !.user = Nobody] \in Impressions
  BY DEF Impressions, Users
<1>2. \A row \in Events : [row EXCEPT !.user = Nobody] \in Events
  BY DEF Events, Users
<1>3. impressions \in Seq(Impressions) /\ events \in Seq(Events)
  BY DEF TypeOK
<1>4. /\ Blank(impressions, m) \in Seq(Impressions)
      /\ DOMAIN Blank(impressions, m) = DOMAIN impressions
      /\ \A i \in DOMAIN impressions :
           Blank(impressions, m)[i] =
             IF impressions[i].user = m THEN [impressions[i] EXCEPT !.user = Nobody]
                                        ELSE impressions[i]
  BY <1>1, <1>3, BlankRows, ZenonT(40)
<1>5. /\ Blank(events, m) \in Seq(Events)
      /\ DOMAIN Blank(events, m) = DOMAIN events
      /\ \A i \in DOMAIN events :
           Blank(events, m)[i] =
             IF events[i].user = m THEN [events[i] EXCEPT !.user = Nobody] ELSE events[i]
  BY <1>2, <1>3, BlankRows, ZenonT(40)
<1> QED BY <1>4, <1>5

\* Who begins a request, fails it, or ends it with one row more.
LEMMA PagesTypes ==
  ASSUME TypeOK, UNCHANGED <<followVars, ratings>>, NEW w \in Workers
  PROVE  PagesNext(w) \/ RequestFails(w) => TypeOK'
<1> USE DEF TypeOK, FollowTypeOK, RatingTypeOK, worldVars, corpusVars, followVars
<1>1. ASSUME NEW m \in Members, NEW a \in Apps, NEW surface \in Surfaces,
             OpenShow(w, m, a, surface)
      PROVE  TypeOK'
  <2>1. [op |-> "show", user |-> m, app |-> a, surface |-> surface, at |-> today] \in Captures
    BY DEF Captures
  <2> QED BY <1>1, <2>1, BeginEffect DEF OpenShow
<1>2. ASSUME NEW m \in Members, NEW a \in Apps, NEW kind \in EventKinds, NEW i \in Nat,
             OpenConversion(w, m, a, kind, i)
      PROVE  TypeOK'
  <2>1. [op |-> "convert", kind |-> kind, user |-> m, app |-> a, impression |-> i,
         at |-> today] \in Captures
    BY DEF Captures
  <2> QED BY <1>2, <2>1, BeginEffect DEF OpenConversion
<1>3. ASSUME NEW m \in Members, OpenVisit(w, m) PROVE TypeOK'
  <2>1. [op |-> "visit", user |-> m, at |-> today] \in Captures
    BY DEF Captures
  <2> QED BY <1>3, <2>1, BeginEffect DEF OpenVisit
<1>4. CASE CommitShow(w)
  <2>1. requests[w] \in [op : {"show"}, user : Members, app : Apps, surface : Surfaces, at : Days]
    BY <1>4, RequestFields DEF CommitShow
  <2> DEFINE r == requests[w]
             row == [user |-> r.user, app |-> r.app, surface |-> r.surface, at |-> r.at]
  <2>2. row \in Impressions
    BY <2>1 DEF Impressions, Users
  <2>3. Append(impressions, row) \in Seq(Impressions)
    BY <2>2
  <2> QED BY <1>4, <2>3, FinishEffect DEF CommitShow
<1>5. CASE CommitConversion(w)
  <2>1. requests[w] \in [op : {"convert"}, kind : EventKinds, user : Members, app : Apps,
                         impression : Nat, at : Days]
    BY <1>5, RequestFields DEF CommitConversion
  <2> DEFINE r == requests[w]
             row == Event(r.kind, r.user, r.app, r.impression, r.at)
  <2>2. row \in Events
    BY <2>1 DEF Event, Events, Users
  <2>3. Append(events, row) \in Seq(Events)
    BY <2>2
  <2> QED BY <1>5, <2>3, FinishEffect DEF CommitConversion
<1>6. CASE CommitVisit(w)
  <2>1. requests[w] \in [op : {"visit"}, user : Members, at : Days]
    BY <1>6, RequestFields DEF CommitVisit
  <2>2. [user |-> requests[w].user, day |-> requests[w].at] \in Visits
    BY <2>1 DEF Visits
  <2> QED BY <1>6, <2>2, FinishEffect DEF CommitVisit
<1>7. CASE RequestFails(w)
  BY <1>7, FinishEffect DEF RequestFails
<1>8. impressions \in Seq(Impressions) /\ NoImpression \in Nat
      /\ "click_through" \in EventKinds /\ "share" \in EventKinds
  BY DEF NoImpression, EventKinds, LinkedKinds
<1>9. DOMAIN impressions \subseteq Nat
  BY <1>8
<1> QED BY <1>1, <1>2, <1>3, <1>4, <1>5, <1>6, <1>7, <1>8, <1>9 DEF PagesNext

LEMMA FollowTypes ==
  ASSUME TypeOK, UNCHANGED ratings, NEW w \in Workers
  PROVE  FollowNext(w) => TypeOK'
<1> USE DEF TypeOK, FollowTypeOK, RatingTypeOK, worldVars, corpusVars, followVars
<1>1. ASSUME NEW m \in Members, NEW a \in Apps, OpenFollow(w, m, a) PROVE TypeOK'
  <2>1. [op |-> "follow", step |-> "checked", user |-> m, app |-> a, at |-> today]
          \in FollowRequests
    BY DEF FollowRequests
  <2> QED BY <1>1, <2>1, BeginEffect DEF OpenFollow
<1>2. ASSUME NEW m \in Members, NEW a \in Apps, unfollow_app(m, a) PROVE TypeOK'
  BY <1>2 DEF unfollow_app
<1>3. CASE GetOrCreate(w)
  <2>1. requests[w] \in FollowRequests
    BY <1>3, RequestFields DEF GetOrCreate, FollowAt
  <2>2. [requests[w] EXCEPT !.step = "inserted"] \in FollowRequests
    BY <2>1 DEF FollowRequests
  <2>3. CASE Finish(w)
    BY <1>3, <2>3, FinishEffect DEF GetOrCreate
  <2>4. CASE requests' = [requests EXCEPT ![w].step = "inserted"]
    BY <1>3, <2>2, <2>4 DEF GetOrCreate
  <2> QED BY <1>3, <2>3, <2>4 DEF GetOrCreate
<1>4. CASE RecordSubscribe(w)
  <2>1. requests[w] \in FollowRequests
    BY <1>4, RequestFields DEF RecordSubscribe, FollowAt
  <2>2. Event("subscribe", requests[w].user, requests[w].app, NoImpression, today) \in Events
    BY <2>1 DEF FollowRequests, Event, Events, Users, EventKinds, NoImpression
  <2>3. Append(events, Event("subscribe", requests[w].user, requests[w].app, NoImpression,
                             today)) \in Seq(Events)
    BY <2>2
  <2>4. MayEngage(requests[w].user, requests[w].app) => Pair(w) \in live \X Apps
    BY <2>1 DEF MayEngage, Pair, FollowRequests
  <2> QED BY <1>4, <2>3, <2>4, FinishEffect DEF RecordSubscribe
<1> QED BY <1>1, <1>2, <1>3, <1>4 DEF FollowNext

LEMMA RatingTypes ==
  ASSUME TypeOK, UNCHANGED followVars, NEW w \in Workers
  PROVE  RatingNext(w) => TypeOK'
<1> USE DEF TypeOK, FollowTypeOK, RatingTypeOK, worldVars, corpusVars, followVars
<1>1. ASSUME NEW m \in Members, NEW a \in Apps, OpenRating(w, m, a) PROVE TypeOK'
  <2>1. [op |-> "rate", step |-> "asked", user |-> m, app |-> a, at |-> today] \in RateRequests
    BY DEF RateRequests
  <2> QED BY <1>1, <2>1, BeginEffect DEF OpenRating
<1>2. ASSUME NEW m \in Members, NEW a \in Apps, remove_rating(m, a) PROVE TypeOK'
  BY <1>2 DEF remove_rating
<1>3. CASE determine_eligibility(w)
  <2>1. requests[w] \in [op : {"rate"}, step : {"asked"}, user : Members, app : Apps, at : Days]
    BY <1>3, RateFields DEF determine_eligibility
  <2>2. ASSUME NEW eligible \in BOOLEAN, NEW basis \in Bases, Determine(w, eligible, basis)
        PROVE  TypeOK'
    <3>1. [op |-> "rate", step |-> "determined", user |-> requests[w].user,
           app |-> requests[w].app, at |-> requests[w].at, eligible |-> eligible,
           basis |-> basis] \in RateRequests
      BY <2>1 DEF RateRequests
    <3> QED BY <1>3, <2>2, <3>1 DEF determine_eligibility, Determine
  <2> QED BY <1>3, <2>2 DEF determine_eligibility, Bases
<1>4. CASE StoreRating(w)
  <2>1. requests[w] \in [op : {"rate"}, step : {"determined"}, user : Members, app : Apps,
                         at : Days, eligible : BOOLEAN, basis : Bases]
    BY <1>4, RateFields DEF StoreRating
  <2> DEFINE r == requests[w]
             row == [id |-> <<r.user, r.app>>, user |-> r.user, app |-> r.app,
                     eligible |-> r.eligible, basis |-> r.basis, at |-> r.at]
  <2>2. row \in RatingRows
    BY <2>1 DEF RatingRows, Users
  <2> QED BY <1>4, <2>2, FinishEffect DEF StoreRating
<1> QED BY <1>1, <1>2, <1>3, <1>4 DEF RatingNext

LEMMA DeleteTypes ==
  ASSUME TypeOK, NEW m \in Members, delete_account(m)
  PROVE  TypeOK'
<1> USE DEF TypeOK, FollowTypeOK, RatingTypeOK, delete_account, ForgetMember, CascadeFollows,
            BlankRatings
<1>1. impressions' \in Seq(Impressions) /\ events' \in Seq(Events)
  BY BlankTypes
<1>2. \A r \in RatingRows : [r EXCEPT !.user = Nobody] \in RatingRows
  BY DEF RatingRows, Users
<1>3. RatingTypeOK'
  BY <1>2
<1>4. FollowTypeOK'
  OBVIOUS
<1> QED BY <1>1, <1>3, <1>4

LEMMA WorldTypes ==
  ASSUME TypeOK, WorldNext, UNCHANGED <<followVars, ratings>>
  PROVE  TypeOK'
<1> USE DEF TypeOK, FollowTypeOK, RatingTypeOK, corpusVars, followVars
<1>1. CASE NextDay
  BY <1>1, CorpusConstants DEF NextDay, Days, CorpusAssumption
<1>2. ASSUME NEW apps \in SUBSET Apps, Catalogue(apps) PROVE TypeOK'
  BY <1>2 DEF Catalogue
<1> QED BY <1>1, <1>2 DEF WorldNext

LEMMA TypeStep == TypeOK /\ [Next]_vars => TypeOK'
<1> SUFFICES ASSUME TypeOK, [Next]_vars PROVE TypeOK'
  OBVIOUS
<1>1. CASE UNCHANGED vars
  BY <1>1 DEF vars, worldVars, corpusVars, followVars, TypeOK, FollowTypeOK, RatingTypeOK
<1>2. CASE Next
  BY <1>2, WorldTypes, DeleteTypes, PagesTypes, FollowTypes, RatingTypes DEF Next
<1> QED BY <1>1, <1>2

LEMMA TypeInit == Init => TypeOK
<1> SUFFICES ASSUME Init PROVE TypeOK
  OBVIOUS
<1>1. \A S : << >> \in Seq(S)
  OBVIOUS
<1> QED BY <1>1, CorpusConstants
  DEF Init, CorpusInit, FollowInit, RatingInit, TypeOK, FollowTypeOK, RatingTypeOK, Days,
      CorpusAssumption

\* Rows, requests, follows and ratings have their types (TypeOK), for any number of
\* members, applications and workers; in particular no follow outlives its account.
THEOREM EngagementTyped == Spec => []TypeOK
<1>1. Init => TypeOK
  BY TypeInit
<1>2. TypeOK /\ [Next]_vars => TypeOK'
  BY TypeStep
<1> QED BY <1>1, <1>2, PTL DEF Spec
-------------------------------------------------------------------------------
\* What a step does to the rows of the corpus and to one request.

\* A row is as it was, or its user has just gone and is blanked.
Survives(before, after) ==
  after = IF before.user \in live \ live' THEN [before EXCEPT !.user = Nobody] ELSE before

LEMMA RowsKept ==
  ASSUME TypeOK, [Next]_vars
  PROVE  /\ live' \subseteq live
         /\ \A i \in DOMAIN impressions :
              i \in DOMAIN impressions' /\ Survives(impressions[i], impressions'[i])
         /\ \A i \in DOMAIN events :
              i \in DOMAIN events' /\ Survives(events[i], events'[i])
<1> DEFINE Stands == UNCHANGED <<live, impressions, events>>
           Goal == /\ live' \subseteq live
                   /\ \A i \in DOMAIN impressions :
                        i \in DOMAIN impressions' /\ Survives(impressions[i], impressions'[i])
                   /\ \A i \in DOMAIN events :
                        i \in DOMAIN events' /\ Survives(events[i], events'[i])
<1>1. Stands => Goal
  BY DEF Survives
<1>2. ASSUME NEW w \in Workers, CommitShow(w) PROVE Goal
  <2>1. impressions' = impressions
          \/ \E row : impressions' = Append(impressions, row)
    BY <1>2 DEF CommitShow
  <2>2. impressions \in Seq(Impressions)
    BY DEF TypeOK
  <2>3. ASSUME NEW row, impressions' = Append(impressions, row)
        PROVE  \A i \in DOMAIN impressions :
                 i \in DOMAIN impressions' /\ impressions'[i] = impressions[i]
    BY <2>2, <2>3
  <2> QED BY <1>2, <2>1, <2>3 DEF CommitShow, worldVars, Survives
<1>3. ASSUME NEW row, events' = Append(events, row), UNCHANGED <<live, impressions>> PROVE Goal
  <2>1. events \in Seq(Events)
    BY DEF TypeOK
  <2>2. \A i \in DOMAIN events : i \in DOMAIN events' /\ events'[i] = events[i]
    BY <1>3, <2>1
  <2> QED BY <1>3, <2>2 DEF Survives
<1>4. ASSUME NEW w \in Workers, CommitConversion(w) \/ RecordSubscribe(w) PROVE Goal
  BY <1>1, <1>3, <1>4 DEF CommitConversion, RecordSubscribe, worldVars
<1>5. ASSUME NEW m \in Members, delete_account(m) PROVE Goal
  <2>1. live \ live' = {m} /\ live' \subseteq live
    BY <1>5 DEF delete_account, ForgetMember
  <2>2. impressions' = Blank(impressions, m) /\ events' = Blank(events, m)
    BY <1>5 DEF delete_account, ForgetMember
  <2> QED BY <2>1, <2>2, BlankTypes DEF Survives
<1>6. CASE UNCHANGED vars
  BY <1>1, <1>6 DEF vars, worldVars, corpusVars
<1>7. CASE WorldNext
  BY <1>1, <1>7 DEF WorldNext, NextDay, Catalogue, corpusVars
<1>8. ASSUME NEW w \in Workers, PagesNext(w) \/ RequestFails(w) PROVE Goal
  BY <1>1, <1>2, <1>4, <1>8
  DEF PagesNext, RequestFails, OpenShow, OpenConversion, OpenVisit, CommitVisit, worldVars,
      corpusVars
<1>9. ASSUME NEW w \in Workers, FollowNext(w) PROVE Goal
  BY <1>1, <1>4, <1>9 DEF FollowNext, OpenFollow, unfollow_app, GetOrCreate, worldVars, corpusVars
<1>10. ASSUME NEW w \in Workers, RatingNext(w) PROVE Goal
  BY <1>1, <1>10
  DEF RatingNext, OpenRating, remove_rating, determine_eligibility, StoreRating, worldVars,
      corpusVars
<1> QED BY <1>5, <1>6, <1>7, <1>8, <1>9, <1>10 DEF Next

\* A request that has read nothing yet.
Passive(r) ==
  \/ r.op \in {"idle", "show", "visit"}
  \/ r.op = "follow" /\ r.step = "checked"
  \/ r.op = "rate" /\ r.step = "asked"

LEMMA RequestSteps ==
  ASSUME TypeOK, [Next]_vars, NEW v \in Workers
  PROVE  \/ requests'[v] = requests[v]
         \/ Passive(requests'[v])
         \/ \E m \in Members, a \in Apps, kind \in {"click_through", "share"}, i \in Nat :
              OpenConversion(v, m, a, kind, i)
         \/ GetOrCreate(v) /\ requests'[v].step = "inserted"
         \/ determine_eligibility(v)
<1> DEFINE Goal == \/ requests'[v] = requests[v]
                   \/ Passive(requests'[v])
                   \/ \E m \in Members, a \in Apps, kind \in {"click_through", "share"},
                        i \in Nat : OpenConversion(v, m, a, kind, i)
                   \/ GetOrCreate(v) /\ requests'[v].step = "inserted"
                   \/ determine_eligibility(v)
<1>1. requests' = requests => Goal
  OBVIOUS
<1>2. ASSUME NEW w \in Workers, Finish(w) PROVE Goal
  BY <1>2, FinishEffect DEF Passive, Idle
<1>3. ASSUME NEW w \in Workers, NEW r \in Captures \cup FollowRequests \cup RateRequests,
             Passive(r), Begin(w, r)
      PROVE  Goal
  BY <1>3, BeginEffect
<1>4. CASE UNCHANGED vars
  BY <1>1, <1>4 DEF vars
<1>5. CASE WorldNext \/ \E m \in Members : delete_account(m)
  BY <1>1, <1>5 DEF WorldNext, NextDay, Catalogue, delete_account, ForgetMember
<1>6. ASSUME NEW w \in Workers, PagesNext(w) PROVE Goal
  <2>1. ASSUME NEW m \in Members, NEW a \in Apps, NEW surface \in Surfaces,
               OpenShow(w, m, a, surface)
        PROVE  Goal
    <3>1. [op |-> "show", user |-> m, app |-> a, surface |-> surface, at |-> today] \in Captures
      BY DEF Captures, TypeOK
    <3> QED BY <1>3, <2>1, <3>1 DEF OpenShow, Passive
  <2>2. ASSUME NEW m \in Members, NEW a \in Apps, NEW kind \in {"click_through", "share"},
               NEW i \in Nat, OpenConversion(w, m, a, kind, i)
        PROVE  Goal
    <3>1. [op |-> "convert", kind |-> kind, user |-> m, app |-> a, impression |-> i,
           at |-> today] \in Captures
      BY DEF Captures, TypeOK, EventKinds, LinkedKinds
    <3> QED BY <2>2, <3>1, BeginEffect DEF OpenConversion
  <2>3. ASSUME NEW m \in Members, OpenVisit(w, m) PROVE Goal
    <3>1. [op |-> "visit", user |-> m, at |-> today] \in Captures
      BY DEF Captures, TypeOK
    <3> QED BY <1>3, <2>3, <3>1 DEF OpenVisit, Passive
  <2>4. CASE CommitShow(w) \/ CommitConversion(w) \/ CommitVisit(w)
    BY <1>2, <2>4 DEF CommitShow, CommitConversion, CommitVisit
  <2>5. DOMAIN impressions \subseteq Nat /\ NoImpression \in Nat
    BY DEF TypeOK, NoImpression
  <2> QED BY <1>6, <2>1, <2>2, <2>3, <2>4, <2>5 DEF PagesNext
<1>7. ASSUME NEW w \in Workers, FollowNext(w) PROVE Goal
  <2>1. ASSUME NEW m \in Members, NEW a \in Apps, OpenFollow(w, m, a) PROVE Goal
    <3>1. [op |-> "follow", step |-> "checked", user |-> m, app |-> a, at |-> today]
            \in FollowRequests
      BY DEF FollowRequests, TypeOK
    <3> QED BY <1>3, <2>1, <3>1 DEF OpenFollow, Passive
  <2>2. ASSUME NEW m \in Members, NEW a \in Apps, unfollow_app(m, a) PROVE Goal
    BY <1>1, <2>2 DEF unfollow_app
  <2>3. CASE GetOrCreate(w)
    <3>1. CASE Finish(w)
      BY <1>2, <3>1
    <3>2. CASE requests' = [requests EXCEPT ![w].step = "inserted"]
      <4>1. requests[w] \in FollowRequests
        BY <2>3, RequestFields DEF GetOrCreate, FollowAt
      <4> QED BY <2>3, <3>2, <4>1 DEF TypeOK, FollowRequests
    <3> QED BY <2>3, <3>1, <3>2 DEF GetOrCreate
  <2>4. CASE RecordSubscribe(w)
    BY <1>2, <2>4 DEF RecordSubscribe
  <2> QED BY <1>7, <2>1, <2>2, <2>3, <2>4 DEF FollowNext
<1>8. ASSUME NEW w \in Workers, RatingNext(w) PROVE Goal
  <2>1. ASSUME NEW m \in Members, NEW a \in Apps, OpenRating(w, m, a) PROVE Goal
    <3>1. [op |-> "rate", step |-> "asked", user |-> m, app |-> a, at |-> today] \in RateRequests
      BY DEF RateRequests, TypeOK
    <3> QED BY <1>3, <2>1, <3>1 DEF OpenRating, Passive
  <2>2. ASSUME NEW m \in Members, NEW a \in Apps, remove_rating(m, a) PROVE Goal
    BY <1>1, <2>2 DEF remove_rating
  <2>3. CASE determine_eligibility(w)
    BY <2>3 DEF determine_eligibility, Determine, TypeOK
  <2>4. CASE StoreRating(w)
    BY <1>2, <2>4 DEF StoreRating
  <2> QED BY <1>8, <2>1, <2>2, <2>3, <2>4 DEF RatingNext
<1>9. ASSUME NEW w \in Workers, RequestFails(w) PROVE Goal
  BY <1>2, <1>9 DEF RequestFails
<1> QED BY <1>4, <1>5, <1>6, <1>7, <1>8, <1>9 DEF Next

-------------------------------------------------------------------------------
\* The corpus is append-only (signals/models.py), for any number of requests at once: no
\* step takes back a row, or changes more of it than the user who is gone.
THEOREM AppendOnly == Spec => CorpusAppendOnly
<1>1. TypeOK /\ [Next]_vars =>
        /\ \A i \in DOMAIN impressions :
             i \in DOMAIN impressions' /\ Kept(impressions[i], impressions'[i])
        /\ \A i \in DOMAIN events :
             i \in DOMAIN events' /\ Kept(events[i], events'[i])
  BY RowsKept DEF Survives, Kept
<1>2. Spec => []TypeOK
  BY EngagementTyped
<1> QED BY <1>1, <1>2, PTL DEF Spec, CorpusAppendOnly
-------------------------------------------------------------------------------
\* Conversions keep their impression.

LEMMA LinksStep ==
  ASSUME TypeOK, LinksInFlight, [Next]_vars
  PROVE  LinksInFlight'
<1> SUFFICES ASSUME NEW v \in Workers, Serves(v, "convert")',
                    requests'[v].impression # NoImpression, requests'[v].user \in live'
             PROVE  /\ requests'[v].impression \in DOMAIN impressions'
                    /\ impressions'[requests'[v].impression].app = requests'[v].app
                    /\ impressions'[requests'[v].impression].user = requests'[v].user
  BY DEF LinksInFlight
<1> DEFINE i == requests'[v].impression
<1>1. ASSUME requests'[v] = requests[v] PROVE
        /\ i \in DOMAIN impressions' /\ impressions'[i].app = requests'[v].app
        /\ impressions'[i].user = requests'[v].user
  <2>1. Serves(v, "convert") /\ requests[v].user \in live
    BY <1>1, RowsKept DEF Serves
  <2>2. /\ i \in DOMAIN impressions
        /\ impressions[i].app = requests'[v].app
        /\ impressions[i].user = requests'[v].user
    BY <1>1, <2>1 DEF LinksInFlight
  <2> QED BY <2>2, RowsKept DEF Survives
<1>2. ASSUME NEW m \in Members, NEW a \in Apps, NEW kind \in {"click_through", "share"},
             NEW j \in Nat, OpenConversion(v, m, a, kind, j)
      PROVE  /\ i \in DOMAIN impressions' /\ impressions'[i].app = requests'[v].app
             /\ impressions'[i].user = requests'[v].user
  <2>1. requests'[v] = [op |-> "convert", kind |-> kind, user |-> m, app |-> a,
                        impression |-> j, at |-> today]
    BY <1>2 DEF OpenConversion, Begin, TypeOK
  <2>2. Linked(m, a, j) /\ impressions' = impressions
    BY <1>2, <2>1 DEF OpenConversion, corpusVars
  <2> QED BY <2>1, <2>2 DEF Linked
<1>3. ~ Passive(requests'[v]) /\ requests'[v].op = "convert"
  BY DEF Serves, Passive
<1>4. ~ (GetOrCreate(v) /\ requests'[v].step = "inserted")
  <2> SUFFICES ASSUME GetOrCreate(v) PROVE FALSE
    OBVIOUS
  <2>1. CASE Finish(v)
    BY <1>3, <2>1, FinishEffect DEF Passive, Idle
  <2>2. CASE requests' = [requests EXCEPT ![v].step = "inserted"]
    <3>1. requests[v] \in FollowRequests
      BY RequestFields DEF GetOrCreate, FollowAt
    <3> QED BY <1>3, <2>2, <3>1 DEF TypeOK, FollowRequests
  <2> QED BY <2>1, <2>2 DEF GetOrCreate
<1>5. ~ determine_eligibility(v)
  BY <1>3 DEF determine_eligibility, Determine, TypeOK
<1> QED BY <1>1, <1>2, <1>3, <1>4, <1>5, RequestSteps

\* The event that a step adds, if it adds one.
LEMMA EventsGrow ==
  ASSUME TypeOK, [Next]_vars
  PROVE  \/ DOMAIN events' = DOMAIN events
         \/ /\ impressions' = impressions
            /\ \E w \in Workers : \E row \in Events :
                 /\ events' = Append(events, row)
                 /\ \/ /\ CommitConversion(w)
                       /\ requests[w].user \in live
                       /\ row = Event(requests[w].kind, requests[w].user, requests[w].app,
                                      requests[w].impression, requests[w].at)
                    \/ /\ RecordSubscribe(w)
                       /\ MayEngage(requests[w].user, requests[w].app)
                       /\ row = Event("subscribe", requests[w].user, requests[w].app,
                                      NoImpression, today)
<1> DEFINE Goal ==
      \/ DOMAIN events' = DOMAIN events
      \/ /\ impressions' = impressions
         /\ \E w \in Workers : \E row \in Events :
              /\ events' = Append(events, row)
              /\ \/ /\ CommitConversion(w)
                    /\ requests[w].user \in live
                    /\ row = Event(requests[w].kind, requests[w].user, requests[w].app,
                                   requests[w].impression, requests[w].at)
                 \/ /\ RecordSubscribe(w)
                    /\ MayEngage(requests[w].user, requests[w].app)
                    /\ row = Event("subscribe", requests[w].user, requests[w].app,
                                   NoImpression, today)
<1>1. events' = events => Goal
  OBVIOUS
<1>2. ASSUME NEW w \in Workers, CommitConversion(w) PROVE Goal
  <2>1. requests[w] \in [op : {"convert"}, kind : EventKinds, user : Members, app : Apps,
                         impression : Nat, at : Days]
    BY <1>2, RequestFields DEF CommitConversion
  <2>2. Event(requests[w].kind, requests[w].user, requests[w].app, requests[w].impression,
              requests[w].at) \in Events
    BY <2>1 DEF Event, Events, Users
  <2> QED BY <1>1, <1>2, <2>2 DEF CommitConversion
<1>3. ASSUME NEW w \in Workers, RecordSubscribe(w) PROVE Goal
  <2>1. requests[w] \in FollowRequests
    BY <1>3, RequestFields DEF RecordSubscribe, FollowAt
  <2>2. Event("subscribe", requests[w].user, requests[w].app, NoImpression, today) \in Events
    BY <2>1 DEF FollowRequests, Event, Events, Users, EventKinds, NoImpression, TypeOK
  <2> QED BY <1>1, <1>3, <2>2 DEF RecordSubscribe
<1>4. ASSUME NEW m \in Members, delete_account(m) PROVE Goal
  BY <1>4, BlankTypes DEF delete_account, ForgetMember
<1>5. CASE UNCHANGED vars
  BY <1>1, <1>5 DEF vars, corpusVars
<1>6. CASE WorldNext
  BY <1>1, <1>6 DEF WorldNext, NextDay, Catalogue, corpusVars
<1>7. ASSUME NEW w \in Workers, PagesNext(w) \/ RequestFails(w) PROVE Goal
  BY <1>1, <1>2, <1>7
  DEF PagesNext, RequestFails, OpenShow, OpenConversion, OpenVisit, CommitShow, CommitVisit,
      corpusVars
<1>8. ASSUME NEW w \in Workers, FollowNext(w) PROVE Goal
  BY <1>1, <1>3, <1>8 DEF FollowNext, OpenFollow, unfollow_app, GetOrCreate, corpusVars
<1>9. ASSUME NEW w \in Workers, RatingNext(w) PROVE Goal
  BY <1>1, <1>9
  DEF RatingNext, OpenRating, remove_rating, determine_eligibility, StoreRating, corpusVars
<1> QED BY <1>4, <1>5, <1>6, <1>7, <1>8, <1>9 DEF Next

LEMMA AttributedStep ==
  ASSUME TypeOK, LinksInFlight, EventsAttributed, [Next]_vars
  PROVE  EventsAttributed'
<1>1. impressions \in Seq(Impressions) /\ events \in Seq(Events)
  BY DEF TypeOK
<1>2. ASSUME NEW i \in DOMAIN events, events'[i].impression # NoImpression
      PROVE  /\ events'[i].impression \in DOMAIN impressions'
             /\ impressions'[events'[i].impression].app = events'[i].app
             /\ impressions'[events'[i].impression].user = events'[i].user
  <2>1. events[i] \in Events
    BY <1>1
  <2>2. /\ events'[i].impression = events[i].impression
        /\ events'[i].app = events[i].app
        /\ events'[i].user =
             IF events[i].user \in live \ live' THEN Nobody ELSE events[i].user
    BY <2>1, RowsKept DEF Survives, Events
  <2> DEFINE j == events[i].impression
  <2>3. /\ j \in DOMAIN impressions
        /\ impressions[j].app = events[i].app
        /\ impressions[j].user = events[i].user
    BY <1>2, <2>2 DEF EventsAttributed
  <2>4. impressions[j] \in Impressions
    BY <1>1, <2>3
  <2>5. /\ j \in DOMAIN impressions'
        /\ impressions'[j].app = impressions[j].app
        /\ impressions'[j].user =
             IF impressions[j].user \in live \ live' THEN Nobody ELSE impressions[j].user
    BY <2>3, <2>4, RowsKept DEF Survives, Impressions
  <2> QED BY <2>2, <2>3, <2>5
<1>3. CASE DOMAIN events' = DOMAIN events
  BY <1>2, <1>3 DEF EventsAttributed
<1>4. ASSUME NEW w \in Workers, NEW row \in Events, events' = Append(events, row),
             impressions' = impressions,
             \/ /\ CommitConversion(w)
                /\ requests[w].user \in live
                /\ row = Event(requests[w].kind, requests[w].user, requests[w].app,
                               requests[w].impression, requests[w].at)
             \/ /\ RecordSubscribe(w)
                /\ row = Event("subscribe", requests[w].user, requests[w].app,
                               NoImpression, today)
      PROVE  EventsAttributed'
  <2>1. DOMAIN events' = DOMAIN events \cup {Len(events) + 1} /\ events'[Len(events) + 1] = row
    BY <1>1, <1>4
  <2>2. row.impression # NoImpression =>
          /\ row.impression \in DOMAIN impressions
          /\ impressions[row.impression].app = row.app
          /\ impressions[row.impression].user = row.user
    BY <1>4 DEF CommitConversion, Event, LinksInFlight
  <2> QED BY <1>2, <1>4, <2>1, <2>2 DEF EventsAttributed
<1> QED BY <1>3, <1>4, EventsGrow

\* A conversion is pinned to an impression of its own application and user
\* (_require_linked_impression), whatever is deleted between the check and the commit.
THEOREM Attributed == Spec => []EventsAttributed
<1> DEFINE IInv == TypeOK /\ LinksInFlight /\ EventsAttributed
<1>1. Init => IInv
  <2>1. Init => LinksInFlight /\ EventsAttributed
    BY DEF Init, CorpusInit, LinksInFlight, EventsAttributed, Serves, Idle
  <2> QED BY <2>1, TypeInit
<1>2. IInv /\ [Next]_vars => IInv'
  BY TypeStep, LinksStep, AttributedStep
<1>3. IInv => EventsAttributed
  OBVIOUS
<1> QED BY <1>1, <1>2, <1>3, PTL DEF Spec

-------------------------------------------------------------------------------
\* Weight keeps its evidence.

\* Evidence stays, under its user or, with the user gone, under Nobody.
LEMMA EvidenceKept ==
  ASSUME TypeOK, [Next]_vars, NEW u, NEW a, NEW day, Evidence(impressions, u, a, day)
  PROVE  Evidence(impressions', IF u \in live \ live' THEN Nobody ELSE u, a, day)
<1>1. PICK i \in DOMAIN impressions : /\ impressions[i].user = u
                                      /\ impressions[i].app = a
                                      /\ impressions[i].surface = "digest"
                                      /\ impressions[i].at <= day
  BY DEF Evidence
<1>2. impressions[i] \in Impressions
  BY <1>1 DEF TypeOK
<1>3. /\ i \in DOMAIN impressions'
      /\ impressions'[i].user = IF u \in live \ live' THEN Nobody ELSE u
      /\ impressions'[i].app = a
      /\ impressions'[i].surface = "digest"
      /\ impressions'[i].at <= day
  BY <1>1, <1>2, RowsKept DEF Survives, Impressions
<1> QED BY <1>3 DEF Evidence

LEMMA DeterminationsStep ==
  ASSUME TypeOK, DeterminationsBacked, [Next]_vars
  PROVE  DeterminationsBacked'
<1> SUFFICES ASSUME NEW v \in Workers, RateAt(v, "determined")'
             PROVE  /\ requests'[v].eligible <=> requests'[v].basis = "curated_digest_impression"
                    /\ requests'[v].eligible /\ requests'[v].user \in live' =>
                         Evidence(impressions', requests'[v].user, requests'[v].app,
                                  requests'[v].at)
  BY DEF DeterminationsBacked, Evidence
<1> DEFINE r == requests'[v]
<1>1. CASE requests'[v] = requests[v]
  <2>1. RateAt(v, "determined")
    BY <1>1 DEF RateAt, Serves
  <2>2. /\ r.eligible <=> r.basis = "curated_digest_impression"
        /\ r.eligible /\ r.user \in live => Evidence(impressions, r.user, r.app, r.at)
    BY <1>1, <2>1 DEF DeterminationsBacked
  <2>3. r.user \in live' => r.user \in live /\ ~ (r.user \in live \ live')
    BY RowsKept
  <2>4. ASSUME r.eligible, r.user \in live' PROVE Evidence(impressions', r.user, r.app, r.at)
    <3>1. Evidence(impressions, r.user, r.app, r.at)
      BY <2>2, <2>3, <2>4
    <3>2. ASSUME NEW u, NEW a, NEW day, Evidence(impressions, u, a, day), ~ (u \in live \ live')
          PROVE  Evidence(impressions', u, a, day)
      BY <3>2, EvidenceKept
    <3> QED BY <2>3, <2>4, <3>1, <3>2
  <2> QED BY <2>2, <2>4
<1>2. CASE determine_eligibility(v)
  <2>1. requests[v] \in [op : {"rate"}, step : {"asked"}, user : Members, app : Apps, at : Days]
    BY <1>2, RateFields DEF determine_eligibility
  <2>2. impressions' = impressions
    BY <1>2 DEF determine_eligibility, corpusVars
  <2>3. has_impression(requests[v].user, requests[v].app, CURATED_SURFACES, requests[v].at) =>
          Evidence(impressions', requests[v].user, requests[v].app, requests[v].at)
    BY <2>2 DEF has_impression, CURATED_SURFACES, Evidence
  <2>4. ASSUME NEW eligible \in BOOLEAN, NEW basis, Determine(v, eligible, basis)
        PROVE  /\ r.user = requests[v].user /\ r.app = requests[v].app /\ r.at = requests[v].at
               /\ r.eligible = eligible /\ r.basis = basis
    BY <2>4 DEF Determine, TypeOK
  <2>5. CASE /\ has_impression(requests[v].user, requests[v].app, CURATED_SURFACES,
                               requests[v].at)
             /\ Determine(v, TRUE, "curated_digest_impression")
    BY <2>3, <2>4, <2>5
  <2>6. CASE Determine(v, FALSE, "no_curated_impression")
    <3>1. r.eligible = FALSE /\ r.basis = "no_curated_impression"
      BY <2>6 DEF Determine, TypeOK
    <3>2. ~ r.eligible /\ r.basis # "curated_digest_impression"
      BY <3>1
    <3> QED BY <3>2
  <2>7. CASE Determine(v, FALSE, "curation_unverified")
    <3>1. r.eligible = FALSE /\ r.basis = "curation_unverified"
      BY <2>7 DEF Determine, TypeOK
    <3>2. ~ r.eligible /\ r.basis # "curated_digest_impression"
      BY <3>1
    <3> QED BY <3>2
  <2> QED BY <1>2, <2>5, <2>6, <2>7 DEF determine_eligibility
<1>3. ~ Passive(r) /\ r.op = "rate" /\ r.step = "determined"
  BY DEF RateAt, Serves, Passive
<1>4. ~ \E m \in Members, a \in Apps, kind \in {"click_through", "share"}, i \in Nat :
          OpenConversion(v, m, a, kind, i)
  BY <1>3 DEF OpenConversion, Begin, TypeOK
<1> QED BY <1>1, <1>2, <1>3, <1>4, RequestSteps

LEMMA WeightStep ==
  ASSUME TypeOK, DeterminationsBacked, WeightBacked, [Next]_vars
  PROVE  WeightBacked'
<1> DEFINE Backed(r) == /\ r.eligible <=> r.basis = "curated_digest_impression"
                        /\ r.eligible => Evidence(impressions', r.user, r.app, r.at)
<1>1. SUFFICES ASSUME NEW q \in ratings' PROVE Backed(q)
  BY <1>1 DEF WeightBacked, Evidence
<1>2. ASSUME NEW r \in ratings
      PROVE  /\ r.eligible <=> r.basis = "curated_digest_impression"
             /\ r.eligible =>
                  Evidence(impressions', IF r.user \in live \ live' THEN Nobody ELSE r.user,
                           r.app, r.at)
  <2>1. r.eligible => Evidence(impressions, r.user, r.app, r.at)
    BY <1>2 DEF WeightBacked, Evidence
  <2> QED BY <1>2, <2>1, EvidenceKept DEF WeightBacked
<1>3. ASSUME live' = live, q \in ratings PROVE Backed(q)
  BY <1>2, <1>3
<1>4. CASE UNCHANGED vars
  BY <1>3, <1>4 DEF vars, worldVars
<1>5. CASE WorldNext /\ UNCHANGED ratings
  BY <1>3, <1>5 DEF WorldNext, NextDay, Catalogue
<1>6. ASSUME NEW m \in Members, delete_account(m) PROVE Backed(q)
  <2>1. live \ live' = {m}
    BY <1>6 DEF delete_account, ForgetMember
  <2>2. PICK r \in ratings : q = IF r.user = m THEN [r EXCEPT !.user = Nobody] ELSE r
    BY <1>6 DEF delete_account, BlankRatings
  <2>3. r \in RatingRows
    BY DEF TypeOK, RatingTypeOK
  <2>4. /\ q.user = IF r.user \in live \ live' THEN Nobody ELSE r.user
        /\ q.app = r.app /\ q.at = r.at /\ q.eligible = r.eligible /\ q.basis = r.basis
    BY <2>1, <2>2, <2>3 DEF RatingRows
  <2> QED BY <1>2, <2>4
<1>7. ASSUME NEW w \in Workers, (PagesNext(w) \/ FollowNext(w) \/ RequestFails(w)),
             UNCHANGED ratings
      PROVE  Backed(q)
  <2>1. live' = live
    BY <1>7
    DEF PagesNext, RequestFails, OpenShow, OpenConversion, OpenVisit, CommitShow,
        CommitConversion, CommitVisit, FollowNext, OpenFollow, unfollow_app, GetOrCreate,
        RecordSubscribe, worldVars
  <2> QED BY <1>3, <1>7, <2>1
<1>8. ASSUME NEW w \in Workers, RatingNext(w) PROVE Backed(q)
  <2>1. live' = live /\ impressions' = impressions
    BY <1>8
    DEF RatingNext, OpenRating, remove_rating, determine_eligibility, StoreRating, worldVars,
        corpusVars
  <2>2. CASE q \in ratings
    BY <1>3, <2>1, <2>2
  <2>3. CASE q \notin ratings
    <3>1. StoreRating(w)
      BY <1>8, <2>3 DEF RatingNext, OpenRating, remove_rating, determine_eligibility
    <3>2. /\ requests[w].user \in live
          /\ q = [id |-> <<requests[w].user, requests[w].app>>, user |-> requests[w].user,
                  app |-> requests[w].app, eligible |-> requests[w].eligible,
                  basis |-> requests[w].basis, at |-> requests[w].at]
      BY <2>3, <3>1 DEF StoreRating
    <3>3. RateAt(w, "determined")
      BY <3>1 DEF StoreRating
    <3>4. /\ requests[w].eligible <=> requests[w].basis = "curated_digest_impression"
          /\ requests[w].eligible =>
               Evidence(impressions, requests[w].user, requests[w].app, requests[w].at)
      BY <3>2, <3>3 DEF DeterminationsBacked
    <3>5. q.eligible => Evidence(impressions', q.user, q.app, q.at)
      BY <2>1, <3>2, <3>4 DEF Evidence
    <3> QED BY <3>2, <3>4, <3>5
  <2> QED BY <2>2, <2>3
<1> QED BY <1>4, <1>5, <1>6, <1>7, <1>8 DEF Next

\* A rating has weight only with evidence in the corpus (determine_eligibility), although
\* the gate is asked outside the transaction that stores the rating, and accounts go.
THEOREM WeightNeedsEvidence == Spec => []WeightBacked
<1> DEFINE IInv == TypeOK /\ DeterminationsBacked /\ WeightBacked
<1>1. Init => IInv
  <2>1. Init => DeterminationsBacked /\ WeightBacked
    BY DEF Init, CorpusInit, RatingInit, DeterminationsBacked, WeightBacked, RateAt, Serves, Idle
  <2> QED BY <2>1, TypeInit
<1>2. IInv /\ [Next]_vars => IInv'
  BY TypeStep, DeterminationsStep, WeightStep
<1>3. IInv => WeightBacked
  OBVIOUS
<1> QED BY <1>1, <1>2, <1>3, PTL DEF Spec
-------------------------------------------------------------------------------
\* Follows and their events.

ConversionsAreNoFollows ==
  \A w \in Workers : Serves(w, "convert") => requests[w].kind # "subscribe"

LEMMA ConversionsStep ==
  ASSUME TypeOK, ConversionsAreNoFollows, [Next]_vars
  PROVE  ConversionsAreNoFollows'
<1> SUFFICES ASSUME NEW v \in Workers, requests'[v].op = "convert"
             PROVE  requests'[v].kind # "subscribe"
  BY DEF ConversionsAreNoFollows, Serves
<1>1. CASE requests'[v] = requests[v]
  BY <1>1 DEF ConversionsAreNoFollows, Serves
<1>2. CASE Passive(requests'[v])
  BY <1>2 DEF Passive
<1>3. CASE \E m \in Members, a \in Apps, kind \in {"click_through", "share"}, i \in Nat :
             OpenConversion(v, m, a, kind, i)
  BY <1>3 DEF OpenConversion, Begin, TypeOK
<1>4. CASE GetOrCreate(v) /\ requests'[v].step = "inserted"
  <2>1. requests[v] \in FollowRequests
    BY <1>4, RequestFields DEF GetOrCreate, FollowAt
  <2>2. CASE Finish(v)
    BY <2>2, FinishEffect DEF Idle
  <2>3. CASE requests' = [requests EXCEPT ![v].step = "inserted"]
    BY <2>1, <2>3 DEF TypeOK, FollowRequests
  <2> QED BY <1>4, <2>2, <2>3 DEF GetOrCreate
<1>5. CASE determine_eligibility(v)
  BY <1>5 DEF determine_eligibility, Determine, TypeOK
<1> QED BY <1>1, <1>2, <1>3, <1>4, <1>5, RequestSteps

\* A follow appears by one step only.
LEMMA FollowsGrow ==
  ASSUME [Next]_vars, NEW f \in follows'
  PROVE  f \in follows \/ \E w \in Workers : RecordSubscribe(w) /\ f = Pair(w)
BY DEF Next, vars, followVars, delete_account, CascadeFollows, FollowNext, OpenFollow,
       unfollow_app, GetOrCreate, RecordSubscribe

\* A worker gets to "inserted" from a check that found no row, committed or not.
LEMMA InsertedBefore ==
  ASSUME TypeOK, [Next]_vars, NEW v \in Workers, FollowAt(v, "inserted")'
  PROVE  \/ requests'[v] = requests[v] /\ FollowAt(v, "inserted")
         \/ /\ FollowAt(v, "checked") /\ ~ RowHeld(v) /\ Pair(v) \notin follows
            /\ requests'[v].user = requests[v].user /\ requests'[v].app = requests[v].app
            /\ follows' = follows
            /\ \A u \in Workers \ {v} : requests'[u] = requests[u]
<1> USE DEF FollowAt, Serves
<1>1. requests'[v].op = "follow" /\ requests'[v].step = "inserted"
  OBVIOUS
<1>2. CASE requests'[v] = requests[v]
  BY <1>1, <1>2
<1>3. CASE GetOrCreate(v)
  <2>1. requests[v] \in FollowRequests
    BY <1>3, RequestFields DEF GetOrCreate
  <2>2. CASE Finish(v)
    BY <1>1, <2>2, FinishEffect DEF Idle
  <2>3. CASE requests' = [requests EXCEPT ![v].step = "inserted"] /\ Pair(v) \notin follows
    BY <1>3, <2>1, <2>3 DEF GetOrCreate, TypeOK, FollowRequests, followVars
  <2> QED BY <1>3, <2>2, <2>3 DEF GetOrCreate
<1>4. ~ Passive(requests'[v])
  BY <1>1 DEF Passive
<1>5. ~ \E m \in Members, a \in Apps, kind \in {"click_through", "share"}, i \in Nat :
          OpenConversion(v, m, a, kind, i)
  BY <1>1 DEF OpenConversion, Begin, TypeOK
<1>6. ~ determine_eligibility(v)
  BY <1>1 DEF determine_eligibility, Determine, TypeOK
<1> QED BY <1>2, <1>3, <1>4, <1>5, <1>6, RequestSteps

LEMMA InsertsStep ==
  ASSUME TypeOK, InsertsAreNew, [Next]_vars
  PROVE  InsertsAreNew'
<1> SUFFICES ASSUME NEW v \in Workers, FollowAt(v, "inserted")'
             PROVE  Pair(v)' \notin follows' /\ ~ RowHeld(v)'
  BY DEF InsertsAreNew
<1>1. Pair(v)' \notin follows'
  <2>1. CASE requests'[v] = requests[v] /\ FollowAt(v, "inserted")
    <3>1. Pair(v)' = Pair(v) /\ Pair(v) \notin follows /\ ~ RowHeld(v)
      BY <2>1 DEF Pair, InsertsAreNew
    <3>2. ASSUME NEW w \in Workers, RecordSubscribe(w) PROVE Pair(w) # Pair(v)
      <4>1. requests'[w] = Idle
        BY <3>2, FinishEffect DEF RecordSubscribe
      <4>2. w # v
        BY <2>1, <4>1 DEF FollowAt, Serves, Idle
      <4> QED BY <3>1, <3>2, <4>2 DEF RecordSubscribe, RowHeld
    <3> QED BY <3>1, <3>2, FollowsGrow
  <2>2. CASE /\ Pair(v) \notin follows /\ requests'[v].user = requests[v].user
             /\ requests'[v].app = requests[v].app /\ follows' = follows
    BY <2>2 DEF Pair
  <2> QED BY <2>1, <2>2, InsertedBefore
<1>2. ASSUME NEW u \in Workers \ {v}, FollowAt(u, "inserted")', Pair(u)' = Pair(v)'
      PROVE  FALSE
  <2>1. CASE requests'[v] = requests[v] /\ FollowAt(v, "inserted")
             /\ requests'[u] = requests[u] /\ FollowAt(u, "inserted")
    BY <1>2, <2>1 DEF InsertsAreNew, RowHeld, Pair
  <2>2. ASSUME NEW x \in Workers, NEW y \in Workers \ {x}, FollowAt(y, "inserted")',
               Pair(x)' = Pair(y)', ~ RowHeld(x),
               requests'[x].user = requests[x].user, requests'[x].app = requests[x].app,
               \A z \in Workers \ {x} : requests'[z] = requests[z]
        PROVE  FALSE
    BY <2>2 DEF RowHeld, Pair, FollowAt, Serves
  <2>3. CASE requests'[v] = requests[v] /\ FollowAt(v, "inserted")
    BY <1>2, <2>1, <2>2, <2>3, InsertedBefore
  <2>4. CASE ~ (requests'[v] = requests[v] /\ FollowAt(v, "inserted"))
    BY <1>2, <2>2, <2>4, InsertedBefore
  <2> QED BY <2>3, <2>4
<1>3. ~ RowHeld(v)'
  BY <1>2 DEF RowHeld
<1> QED BY <1>1, <1>3

Follows(m, a) == IF <<m, a>> \in follows THEN 1 ELSE 0

\* The subscribe events of a pair, counted.
LEMMA SubscribesFinite ==
  ASSUME TypeOK, NEW m \in Members, NEW a \in Apps
  PROVE  /\ IsFiniteSet(Subscribes(m, a))
         /\ Cardinality(Subscribes(m, a)) \in Nat
         /\ Len(events) + 1 \notin Subscribes(m, a)
<1>1. DOMAIN events = 1 .. Len(events) /\ Len(events) \in Nat
  BY DEF TypeOK
<1>2. Subscribes(m, a) \in SUBSET (1 .. Len(events))
  BY <1>1 DEF Subscribes
<1>3. IsFiniteSet(1 .. Len(events))
  BY <1>1, FS_Interval
<1>4. IsFiniteSet(Subscribes(m, a))
  BY <1>2, <1>3, FS_Subset
<1>5. Len(events) + 1 \notin Subscribes(m, a)
  BY <1>1, <1>2
<1> QED BY <1>4, <1>5, FS_CardinalityType

\* An event added to the corpus counts for its own pair, if it is a follow.
LEMMA AppendCounts ==
  ASSUME TypeOK, NEW m \in Members, NEW a \in Apps, NEW row \in Events,
         events' = Append(events, row)
  PROVE  IF row.kind = "subscribe" /\ row.user = m /\ row.app = a
         THEN Cardinality(Subscribes(m, a)') = Cardinality(Subscribes(m, a)) + 1
         ELSE Subscribes(m, a)' = Subscribes(m, a)
<1>1. events \in Seq(Events)
  BY DEF TypeOK
<1>2. /\ DOMAIN events' = DOMAIN events \cup {Len(events) + 1}
      /\ events'[Len(events) + 1] = row
      /\ \A i \in DOMAIN events : events'[i] = events[i]
  BY <1>1
<1>3. Len(events) + 1 \notin DOMAIN events
  BY <1>1
<1>4. CASE row.kind = "subscribe" /\ row.user = m /\ row.app = a
  <2>1. Subscribes(m, a)' = Subscribes(m, a) \cup {Len(events) + 1}
    BY <1>2, <1>3, <1>4 DEF Subscribes
  <2> DEFINE S == Subscribes(m, a)
  <2>2. IsFiniteSet(S) /\ Len(events) + 1 \notin S
    BY SubscribesFinite
  <2>3. Cardinality(S \cup {Len(events) + 1}) = Cardinality(S) + 1
    <3> HIDE DEF S
    <3> QED BY <2>2, FS_AddElement
  <2> QED BY <1>4, <2>1, <2>3
<1>5. CASE ~ (row.kind = "subscribe" /\ row.user = m /\ row.app = a)
  <2>1. Subscribes(m, a)' = Subscribes(m, a)
    BY <1>2, <1>3, <1>5 DEF Subscribes
  <2> QED BY <1>5, <2>1
<1> QED BY <1>4, <1>5

LEMMA FollowsStep ==
  ASSUME TypeOK, InsertsAreNew, ConversionsAreNoFollows, FollowsMatchEvents, [Next]_vars
  PROVE  FollowsMatchEvents'
<1> SUFFICES ASSUME NEW m \in live', NEW a \in Apps
             PROVE  Cardinality(Subscribes(m, a)') = unfollowed'[<<m, a>>] + Follows(m, a)'
  BY DEF FollowsMatchEvents, Follows
<1> DEFINE Goal == Cardinality(Subscribes(m, a)') = unfollowed'[<<m, a>>] + Follows(m, a)'
<1>1. m \in live /\ m \in Members
  BY RowsKept DEF TypeOK
<1>2. Cardinality(Subscribes(m, a)) = unfollowed[<<m, a>>] + Follows(m, a)
  BY <1>1 DEF FollowsMatchEvents, Follows
<1>3. /\ unfollowed[<<m, a>>] \in Nat /\ Follows(m, a) \in {0, 1}
      /\ DOMAIN unfollowed = Members \X Apps
  BY <1>1 DEF TypeOK, FollowTypeOK, Follows
<1>4. ASSUME UNCHANGED <<events, follows, unfollowed>> PROVE Goal
  BY <1>2, <1>4 DEF Subscribes, Follows
<1>5. ASSUME NEW w \in Workers, CommitConversion(w), UNCHANGED <<follows, unfollowed>>
      PROVE  Goal
  <2>1. requests[w] \in [op : {"convert"}, kind : EventKinds, user : Members, app : Apps,
                         impression : Nat, at : Days]
    BY <1>5, RequestFields DEF CommitConversion
  <2> DEFINE r == requests[w]
             row == Event(r.kind, r.user, r.app, r.impression, r.at)
  <2>2. row \in Events /\ row.kind = r.kind /\ r.kind # "subscribe"
    BY <1>5, <2>1 DEF Event, Events, Users, CommitConversion, ConversionsAreNoFollows
  <2>3. Subscribes(m, a)' = Subscribes(m, a)
    <3>1. CASE events' = Append(events, row)
      BY <1>1, <2>2, <3>1, AppendCounts
    <3>2. CASE events' = events
      BY <3>2 DEF Subscribes
    <3> QED BY <1>5, <3>1, <3>2 DEF CommitConversion
  <2> QED BY <1>2, <1>5, <2>3 DEF Follows
<1>6. ASSUME NEW w \in Workers, RecordSubscribe(w) PROVE Goal
  <2> DEFINE r == requests[w]
             row == Event("subscribe", r.user, r.app, NoImpression, today)
  <2>1. r \in FollowRequests
    BY <1>6, RequestFields DEF RecordSubscribe, FollowAt
  <2>2. /\ row \in Events /\ row.kind = "subscribe" /\ row.user = r.user /\ row.app = r.app
    BY <2>1 DEF FollowRequests, Event, Events, Users, EventKinds, NoImpression, TypeOK
  <2>3. Pair(w) \notin follows
    BY <1>6 DEF RecordSubscribe, InsertsAreNew
  <2>4. unfollowed' = unfollowed
    BY <1>6 DEF RecordSubscribe
  <2>5. CASE UNCHANGED <<follows, events>>
    BY <1>4, <2>4, <2>5
  <2>6. CASE follows' = follows \cup {Pair(w)} /\ events' = Append(events, row)
    <3>1. CASE r.user = m /\ r.app = a
      <4>1. Follows(m, a) = 0 /\ Follows(m, a)' = 1
        BY <2>3, <2>6, <3>1 DEF Follows, Pair
      <4>2. Cardinality(Subscribes(m, a)') = Cardinality(Subscribes(m, a)) + 1
        BY <1>1, <2>2, <2>6, <3>1, AppendCounts
      <4> QED BY <1>2, <1>3, <2>4, <4>1, <4>2
    <3>2. CASE ~ (r.user = m /\ r.app = a)
      <4>1. Follows(m, a)' = Follows(m, a)
        BY <2>6, <3>2 DEF Follows, Pair
      <4>2. Subscribes(m, a)' = Subscribes(m, a)
        BY <1>1, <2>2, <2>6, <3>2, AppendCounts
      <4> QED BY <1>2, <2>4, <4>1, <4>2
    <3> QED BY <3>1, <3>2
  <2> QED BY <1>6, <2>5, <2>6 DEF RecordSubscribe
<1>7. ASSUME NEW n \in Members, NEW b \in Apps, unfollow_app(n, b) PROVE Goal
  <2>1. Subscribes(m, a)' = Subscribes(m, a)
    BY <1>7 DEF unfollow_app, corpusVars, Subscribes
  <2>2. CASE n = m /\ b = a
    <3>1. unfollowed'[<<m, a>>] = unfollowed[<<m, a>>] + 1
      BY <1>1, <1>3, <1>7, <2>2 DEF unfollow_app
    <3>2. Follows(m, a) = 1 /\ Follows(m, a)' = 0
      BY <1>7, <2>2 DEF unfollow_app, Follows
    <3> QED BY <1>2, <1>3, <2>1, <3>1, <3>2
  <2>3. CASE ~ (n = m /\ b = a)
    <3>1. unfollowed'[<<m, a>>] = unfollowed[<<m, a>>]
      BY <1>1, <1>3, <1>7, <2>3 DEF unfollow_app
    <3>2. Follows(m, a)' = Follows(m, a)
      BY <1>7, <2>3 DEF unfollow_app, Follows
    <3> QED BY <1>2, <2>1, <3>1, <3>2
  <2> QED BY <2>2, <2>3
<1>8. ASSUME NEW n \in Members, delete_account(n) PROVE Goal
  <2>1. n # m /\ Nobody # m /\ unfollowed' = unfollowed
    BY <1>1, <1>8, CorpusConstants
    DEF delete_account, ForgetMember, CascadeFollows, CorpusAssumption
  <2>2. Follows(m, a)' = Follows(m, a)
    BY <1>8, <2>1 DEF delete_account, CascadeFollows, Follows
  <2>3. \A i \in DOMAIN events : events[i] \in Events
    BY DEF TypeOK
  <2>4. /\ DOMAIN events' = DOMAIN events
        /\ \A i \in DOMAIN events :
             events'[i] = IF events[i].user = n THEN [events[i] EXCEPT !.user = Nobody]
                                                ELSE events[i]
    BY <1>8, BlankTypes DEF delete_account, ForgetMember
  <2>5. \A i \in DOMAIN events :
          /\ events'[i].user = m <=> events[i].user = m
          /\ events'[i].kind = events[i].kind /\ events'[i].app = events[i].app
    BY <2>1, <2>3, <2>4 DEF Events
  <2>6. Subscribes(m, a)' = Subscribes(m, a)
    BY <2>4, <2>5 DEF Subscribes
  <2> QED BY <1>2, <2>1, <2>2, <2>6
<1>9. CASE UNCHANGED vars
  BY <1>4, <1>9 DEF vars, corpusVars, followVars
<1>10. CASE WorldNext /\ UNCHANGED <<followVars, ratings>>
  BY <1>4, <1>10 DEF WorldNext, NextDay, Catalogue, corpusVars, followVars
<1>11. ASSUME NEW w \in Workers, PagesNext(w) \/ RequestFails(w), UNCHANGED followVars
       PROVE  Goal
  <2>1. CASE events' = events
    BY <1>4, <1>11, <2>1 DEF followVars
  <2>2. CASE CommitConversion(w)
    BY <1>5, <1>11, <2>2 DEF followVars
  <2> QED BY <1>11, <2>1, <2>2
          DEF PagesNext, RequestFails, OpenShow, OpenConversion, OpenVisit, CommitShow,
              CommitVisit, corpusVars
<1>12. ASSUME NEW w \in Workers, FollowNext(w) PROVE Goal
  <2>1. CASE UNCHANGED <<corpusVars, followVars>>
    BY <1>4, <2>1 DEF corpusVars, followVars
  <2> QED BY <1>6, <1>7, <1>12, <2>1 DEF FollowNext, OpenFollow, GetOrCreate
<1>13. ASSUME NEW w \in Workers, RatingNext(w), UNCHANGED followVars PROVE Goal
  <2>1. events' = events
    BY <1>13
    DEF RatingNext, OpenRating, remove_rating, determine_eligibility, StoreRating, corpusVars
  <2> QED BY <1>4, <1>13, <2>1 DEF followVars
<1> QED BY <1>8, <1>9, <1>10, <1>11, <1>12, <1>13 DEF Next

\* A follow and its event are one unit (follow_app): of the events of an account, each is
\* a follow that stands or was dropped, for any number of overlapping follows.
THEOREM FollowsHaveEvents == Spec => []FollowsMatchEvents
<1> DEFINE IInv == /\ TypeOK /\ InsertsAreNew /\ ConversionsAreNoFollows
                   /\ FollowsMatchEvents
<1>1. Init => IInv
  <2>1. ASSUME Init PROVE InsertsAreNew /\ ConversionsAreNoFollows
    BY <2>1
    DEF Init, CorpusInit, InsertsAreNew, ConversionsAreNoFollows, FollowAt, Serves, Idle
  <2>2. ASSUME Init PROVE FollowsMatchEvents
    <3>1. ASSUME NEW m \in live, NEW a \in Apps PROVE Subscribes(m, a) = {}
      BY <2>2 DEF Init, CorpusInit, Subscribes
    <3>2. ASSUME NEW m \in live, NEW a \in Apps
          PROVE  unfollowed[<<m, a>>] = 0 /\ <<m, a>> \notin follows
      BY <2>2 DEF Init, CorpusInit, FollowInit
    <3>3. Cardinality({}) = 0
      BY FS_EmptySet
    <3>4. ASSUME NEW m \in live, NEW a \in Apps
          PROVE  Cardinality(Subscribes(m, a)) =
                   unfollowed[<<m, a>>] + (IF <<m, a>> \in follows THEN 1 ELSE 0)
      BY <3>1, <3>2, <3>3
    <3> QED BY <3>4 DEF FollowsMatchEvents
  <2> QED BY <2>1, <2>2, TypeInit
<1>2. IInv /\ [Next]_vars => IInv'
  BY TypeStep, InsertsStep, ConversionsStep, FollowsStep
<1>3. IInv => FollowsMatchEvents
  OBVIOUS
<1> QED BY <1>1, <1>2, <1>3, PTL DEF Spec
-------------------------------------------------------------------------------
\* What is too late for a window that is closed.

\* A request that is served carries a day, and that day is past.
LEMMA ServedLate ==
  ASSUME TypeOK, NEW end \in Days, Closed(end), NEW w \in Workers, requests[w] # Idle
  PROVE  /\ requests[w].at \in Days
         /\ \A days \in {ShortDays, LongDays} : requests[w].at > end + days
         /\ requests[w].at > end
<1>1. requests[w] \in Captures \cup FollowRequests \cup RateRequests
  BY DEF TypeOK
<1>2. requests[w].at \in Days
  BY <1>1 DEF Captures, FollowRequests, RateRequests
<1>3. \A days \in {ShortDays, LongDays} : requests[w].at > end + days
  BY DEF Closed
<1> QED BY <1>2, <1>3, CorpusConstants DEF CorpusAssumption, Days

\* Impressions that are added are of a later day.
LEMMA ShowsLate ==
  ASSUME TypeOK, [Next]_vars, NEW end \in Days, Closed(end)
  PROVE  \A i \in DOMAIN impressions' \ DOMAIN impressions : impressions'[i].at > end
<1> DEFINE Goal == \A i \in DOMAIN impressions' \ DOMAIN impressions : impressions'[i].at > end
<1>1. DOMAIN impressions' = DOMAIN impressions => Goal
  OBVIOUS
<1>2. ASSUME NEW w \in Workers, CommitShow(w) PROVE Goal
  <2>1. requests[w] # Idle
    BY <1>2 DEF CommitShow, Serves, Idle
  <2>2. PICK row : /\ impressions' \in {impressions, Append(impressions, row)}
                   /\ row.at = requests[w].at
    BY <1>2 DEF CommitShow
  <2>3. row.at > end
    BY <2>1, <2>2, ServedLate
  <2>4. impressions \in Seq(Impressions)
    BY DEF TypeOK
  <2>5. ASSUME impressions' = Append(impressions, row)
        PROVE  \A i \in DOMAIN impressions' \ DOMAIN impressions : impressions'[i] = row
    BY <2>4, <2>5
  <2> QED BY <1>1, <2>2, <2>3, <2>5
<1>3. ASSUME NEW m \in Members, delete_account(m) PROVE Goal
  BY <1>1, <1>3, BlankTypes DEF delete_account, ForgetMember
<1>4. CASE UNCHANGED vars
  BY <1>1, <1>4 DEF vars, corpusVars
<1>5. CASE WorldNext
  BY <1>1, <1>5 DEF WorldNext, NextDay, Catalogue, corpusVars
<1>6. ASSUME NEW w \in Workers, PagesNext(w) \/ RequestFails(w) PROVE Goal
  BY <1>1, <1>2, <1>6
  DEF PagesNext, RequestFails, OpenShow, OpenConversion, OpenVisit, CommitConversion,
      CommitVisit, corpusVars
<1>7. ASSUME NEW w \in Workers, FollowNext(w) PROVE Goal
  BY <1>1, <1>7 DEF FollowNext, OpenFollow, unfollow_app, GetOrCreate, RecordSubscribe, corpusVars
<1>8. ASSUME NEW w \in Workers, RatingNext(w) PROVE Goal
  BY <1>1, <1>8
  DEF RatingNext, OpenRating, remove_rating, determine_eligibility, StoreRating, corpusVars
<1> QED BY <1>3, <1>4, <1>5, <1>6, <1>7, <1>8 DEF Next

\* Likewise events: a conversion has the day of its request, a follow the day it is made.
LEMMA EventsLate ==
  ASSUME TypeOK, [Next]_vars, NEW end \in Days, Closed(end)
  PROVE  \A i \in DOMAIN events' \ DOMAIN events : events'[i].at > end
<1>1. CASE DOMAIN events' = DOMAIN events
  BY <1>1
<1>2. ASSUME NEW w \in Workers, NEW row \in Events, events' = Append(events, row),
             \/ CommitConversion(w) /\ row.at = requests[w].at
             \/ row.at = today
      PROVE  \A i \in DOMAIN events' \ DOMAIN events : events'[i].at > end
  <2>1. today > end
    BY CorpusConstants DEF Closed, CorpusAssumption, TypeOK, Days
  <2>2. CommitConversion(w) => requests[w] # Idle
    BY DEF CommitConversion, Serves, Idle
  <2>3. row.at > end
    BY <1>2, <2>1, <2>2, ServedLate
  <2>4. events \in Seq(Events)
    BY DEF TypeOK
  <2>5. \A i \in DOMAIN events' \ DOMAIN events : events'[i] = row
    BY <1>2, <2>4
  <2> QED BY <2>3, <2>5
<1> QED BY <1>1, <1>2, EventsGrow DEF Event

\* Visits that are added are later than the returns to the window, and visits go only
\* with an account.
LEMMA VisitsLate ==
  ASSUME TypeOK, [Next]_vars, NEW end \in Days, Closed(end)
  PROVE  /\ live' = live => visits \subseteq visits'
         /\ \A v \in visits' \ visits : \A days \in {ShortDays, LongDays} : v.day > end + days
<1> DEFINE Goal ==
      /\ live' = live => visits \subseteq visits'
      /\ \A v \in visits' \ visits : \A days \in {ShortDays, LongDays} : v.day > end + days
<1>1. visits' = visits => Goal
  OBVIOUS
<1>2. ASSUME NEW w \in Workers, CommitVisit(w) PROVE Goal
  <2>1. requests[w] # Idle
    BY <1>2 DEF CommitVisit, Serves, Idle
  <2>2. \A days \in {ShortDays, LongDays} : requests[w].at > end + days
    BY <2>1, ServedLate
  <2> QED BY <1>2, <2>2 DEF CommitVisit
<1>3. ASSUME NEW m \in Members, delete_account(m) PROVE Goal
  BY <1>3 DEF delete_account, ForgetMember
<1>4. CASE UNCHANGED vars
  BY <1>1, <1>4 DEF vars, corpusVars
<1>5. CASE WorldNext
  BY <1>1, <1>5 DEF WorldNext, NextDay, Catalogue, corpusVars
<1>6. ASSUME NEW w \in Workers, PagesNext(w) \/ RequestFails(w) PROVE Goal
  BY <1>1, <1>2, <1>6
  DEF PagesNext, RequestFails, OpenShow, OpenConversion, OpenVisit, CommitConversion,
      CommitShow, corpusVars
<1>7. ASSUME NEW w \in Workers, FollowNext(w) PROVE Goal
  BY <1>1, <1>7 DEF FollowNext, OpenFollow, unfollow_app, GetOrCreate, RecordSubscribe, corpusVars
<1>8. ASSUME NEW w \in Workers, RatingNext(w) PROVE Goal
  BY <1>1, <1>8
  DEF RatingNext, OpenRating, remove_rating, determine_eligibility, StoreRating, corpusVars
<1> QED BY <1>3, <1>4, <1>5, <1>6, <1>7, <1>8 DEF Next

\* The impressions of the window whose viewer was back.
Returned(a, start, end, days) == {i \in Shown(a, start, end) : QualifyingVisit(i, days)}

\* What a step leaves of the sets that the funnel of a closed window counts.
LEMMA WindowStands ==
  ASSUME TypeOK, [Next]_vars, NEW a \in Apps, NEW start \in Days, NEW end \in Days, Closed(end)
  PROVE  /\ Shown(a, start, end)' = Shown(a, start, end)
         /\ \A kind \in EventKinds : Acts(a, kind, start, end)' = Acts(a, kind, start, end)
         /\ \A days \in {ShortDays, LongDays} :
              /\ Returned(a, start, end, days)' \subseteq Returned(a, start, end, days)
              /\ live' = live => Returned(a, start, end, days)' = Returned(a, start, end, days)
<1>1. TypeOK'
  BY TypeStep
<1>2. /\ \A i \in DOMAIN impressions :
           /\ i \in DOMAIN impressions'
           /\ impressions'[i].app = impressions[i].app
           /\ impressions'[i].at = impressions[i].at
           /\ impressions'[i].user = IF impressions[i].user \in live \ live'
                                     THEN Nobody ELSE impressions[i].user
      /\ \A i \in DOMAIN events :
           /\ i \in DOMAIN events'
           /\ events'[i].app = events[i].app /\ events'[i].at = events[i].at
           /\ events'[i].kind = events[i].kind
  <2>1. ASSUME NEW i \in DOMAIN impressions
        PROVE  /\ i \in DOMAIN impressions' /\ Survives(impressions[i], impressions'[i])
               /\ impressions[i] \in Impressions
    BY RowsKept DEF TypeOK
  <2>2. ASSUME NEW i \in DOMAIN events
        PROVE  /\ i \in DOMAIN events' /\ Survives(events[i], events'[i])
               /\ events[i] \in Events
    BY RowsKept DEF TypeOK
  <2> QED BY <2>1, <2>2 DEF Survives, Impressions, Events
<1>3. /\ \A i \in DOMAIN impressions : impressions[i].at \in Days
      /\ \A i \in DOMAIN impressions' : impressions'[i].at \in Days
      /\ \A i \in DOMAIN events' : events'[i].at \in Days
  <2>1. /\ \A i \in DOMAIN impressions : impressions[i] \in Impressions
        /\ \A i \in DOMAIN impressions' : impressions'[i] \in Impressions
        /\ \A i \in DOMAIN events' : events'[i] \in Events
    BY <1>1 DEF TypeOK
  <2> QED BY <2>1 DEF Impressions, Events
<1>4. /\ \A i \in DOMAIN impressions' \ DOMAIN impressions : ~ (impressions'[i].at \in start .. end)
      /\ \A i \in DOMAIN events' \ DOMAIN events : ~ (events'[i].at \in start .. end)
  BY <1>3, ShowsLate, EventsLate DEF Days
<1>5. Shown(a, start, end)' = Shown(a, start, end)
  BY <1>2, <1>4 DEF Shown
<1>6. ASSUME NEW kind \in EventKinds
      PROVE  Acts(a, kind, start, end)' = Acts(a, kind, start, end)
  BY <1>2, <1>4 DEF Acts
<1>7. \A v \in visits \cup visits' : v.user \in Members /\ v.day \in Days
  BY <1>1 DEF TypeOK, Visits
<1>8. ASSUME NEW days \in {ShortDays, LongDays}, NEW i \in Shown(a, start, end)
      PROVE  /\ QualifyingVisit(i, days)' => QualifyingVisit(i, days)
             /\ live' = live /\ QualifyingVisit(i, days) => QualifyingVisit(i, days)'
  <2>1. /\ i \in DOMAIN impressions /\ impressions[i].at \in Days /\ impressions[i].at <= end
        /\ impressions'[i].at = impressions[i].at
    BY <1>2, <1>3 DEF Shown, Days
  <2>2. impressions'[i].user \in {Nobody, impressions[i].user}
    BY <1>2, <2>1
  <2>3. live' = live => impressions'[i].user = impressions[i].user
    BY <1>2, <2>1
  <2>4. days \in Nat /\ Nobody \notin Members
    BY CorpusConstants DEF CorpusAssumption
  <2>5. ASSUME NEW v \in visits', v.user = impressions'[i].user, v.day > impressions'[i].at,
               v.day <= impressions'[i].at + days
        PROVE  QualifyingVisit(i, days)
    <3>1. v.day <= end + days
      BY <1>7, <2>1, <2>4, <2>5 DEF Days
    <3>2. v \in visits
      BY <1>7, <2>4, <3>1, VisitsLate DEF Days
    <3>3. v.user = impressions[i].user
      BY <1>7, <2>2, <2>4, <2>5
    <3> QED BY <2>1, <2>5, <3>2, <3>3 DEF QualifyingVisit
  <2>6. ASSUME live' = live, NEW v \in visits, v.user = impressions[i].user,
               v.day > impressions[i].at, v.day <= impressions[i].at + days
        PROVE  QualifyingVisit(i, days)'
    <3>1. v \in visits'
      BY <2>6, VisitsLate
    <3> QED BY <2>1, <2>3, <2>6, <3>1 DEF QualifyingVisit
  <2> QED BY <2>5, <2>6 DEF QualifyingVisit
<1>9. ASSUME NEW days \in {ShortDays, LongDays}
      PROVE  /\ Returned(a, start, end, days)' \subseteq Returned(a, start, end, days)
             /\ live' = live => Returned(a, start, end, days)' = Returned(a, start, end, days)
  BY <1>5, <1>8 DEF Returned
<1> QED BY <1>5, <1>6, <1>9

\* What the funnel counts is finite.
LEMMA WindowFinite ==
  ASSUME TypeOK, NEW a \in Apps, NEW start \in Days, NEW end \in Days, NEW days
  PROVE  IsFiniteSet(Returned(a, start, end, days))
<1>1. DOMAIN impressions = 1 .. Len(impressions) /\ Len(impressions) \in Nat
  BY DEF TypeOK
<1>2. Returned(a, start, end, days) \in SUBSET (1 .. Len(impressions))
  BY <1>1 DEF Returned, Shown
<1>3. IsFiniteSet(1 .. Len(impressions))
  BY <1>1, FS_Interval
<1> QED BY <1>2, <1>3, FS_Subset

\* One step of it.
LEMMA FunnelStep ==
  ASSUME TypeOK, [Next]_vars, NEW a \in Apps, NEW start \in Days, NEW end \in Days, Closed(end)
  PROVE  LET old == app_funnel(a, start, end)
             new == app_funnel(a, start, end)'
         IN  /\ new.impressions = old.impressions
             /\ new.acts = old.acts
             /\ live' = live => new = old
             /\ new.returns_3d <= old.returns_3d
             /\ new.returns_14d <= old.returns_14d
<1> DEFINE shown == Cardinality(Shown(a, start, end))
           acts == [kind \in EventKinds |-> Cardinality(Acts(a, kind, start, end))]
           back(days) == Cardinality(Returned(a, start, end, days))
<1>1. app_funnel(a, start, end) = [impressions |-> shown, returns_3d |-> back(ShortDays),
                                   returns_14d |-> back(LongDays), acts |-> acts]
  BY DEF app_funnel, Returned
<1>2. app_funnel(a, start, end)' = [impressions |-> shown', returns_3d |-> back(ShortDays)',
                                    returns_14d |-> back(LongDays)', acts |-> acts']
  BY DEF app_funnel, Returned
<1>3. shown' = shown /\ acts' = acts
  BY WindowStands
<1>4. ASSUME NEW days \in {ShortDays, LongDays}
      PROVE  back(days)' <= back(days) /\ (live' = live => back(days)' = back(days))
  <2>1. PICK now, then : /\ now = Returned(a, start, end, days)'
                         /\ then = Returned(a, start, end, days)
    OBVIOUS
  <2>2. now \subseteq then /\ (live' = live => now = then)
    BY <2>1, WindowStands
  <2>3. IsFiniteSet(then)
    BY <2>1, WindowFinite
  <2>4. Cardinality(now) <= Cardinality(then)
    BY <2>2, <2>3, FS_Subset
  <2> QED BY <2>1, <2>2, <2>4
<1> HIDE DEF shown, acts, back
<1> QED BY <1>1, <1>2, <1>3, <1>4

\* The funnel of a closed window is final (selectors.app_funnel), for any windows, any
\* number of requests at once and any days: counts of shows and acts never change again,
\* and the returns only when an account goes and takes its visits with it.
THEOREM FunnelFinal == Spec => ClosedFunnelStands
<1>1. TypeOK /\ [Next]_vars =>
        [\A a \in Apps, end \in {day \in Days : Closed(day)}, start \in Days :
           LET old == app_funnel(a, start, end)
               new == app_funnel(a, start, end)'
           IN  /\ new.impressions = old.impressions
               /\ new.acts = old.acts
               /\ live' = live => new = old
               /\ new.returns_3d <= old.returns_3d
               /\ new.returns_14d <= old.returns_14d]_vars
  BY FunnelStep
<1> QED BY <1>1, EngagementTyped, PTL DEF Spec, ClosedFunnelStands
===============================================================================
