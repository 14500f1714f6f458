----------------------------- MODULE SignalCorpus -----------------------------
(***************************************************************************)
(* The corpus of behavioural signals (apps/signals) and what writes to it  *)
(* from the application pages (apps/pages): an impression each time an     *)
(* application is shown to a member, an event for each conversion, linked  *)
(* to the impression it comes from, and a row for each day a member        *)
(* visits.  Rows are only ever added; when an account goes, they stay with *)
(* their user blanked.                                                     *)
(*                                                                         *)
(* A recorder checks first, in statements of their own, and inserts later; *)
(* requests[w] is what worker w carries from the one to the other.         *)
(***************************************************************************)
EXTENDS Integers, Sequences, FiniteSets

CONSTANTS
  Members,         \* the accounts
  Apps,            \* the applications
  Owner,           \* Owner[a]: the account that submitted a
  Workers,         \* the requests served at the same time
  Nobody,          \* the user of a row whose account is gone
  ShortDays,       \* return_window_short_days
  LongDays,        \* return_window_long_days
  LastDay,         \* bound: the last day
  MaxImpressions,  \* bound: the impressions recorded
  MaxEvents        \* bound: the events recorded

\* What the constants must be.
CorpusAssumption ==
  /\ Owner \in [Apps -> Members] /\ Nobody \notin Members
  /\ ShortDays \in Nat /\ LongDays \in Nat /\ LastDay \in Nat
  /\ MaxImpressions \in Nat /\ MaxEvents \in Nat

ASSUME CorpusConstants == CorpusAssumption

VARIABLES
  accepted,      \* the applications in the catalogue
  live,          \* the accounts that exist
  today,         \* the UTC day
  impressions,   \* the impressions, in the order of their commits
  events,        \* the engagement events, in the order of their commits
  visits,        \* the platform visits
  requests       \* requests[w]: what worker w is serving

worldVars == <<accepted, live, today>>
corpusVars == <<impressions, events, visits>>

Surfaces == {"digest", "app_page"}
LinkedKinds == {"click_through", "off_platform_proxy"}
EventKinds == LinkedKinds \cup {"subscribe", "page_reengagement", "share"}

Days == 0 .. LastDay
Users == Members \cup {Nobody}
NoImpression == 0

Impressions == [user : Users, app : Apps, surface : Surfaces, at : Days]
Events == [kind : EventKinds, user : Users, app : Apps, impression : Nat, at : Days]
Visits == [user : Members, day : Days]

Idle == [op |-> "idle"]
Captures ==
       [op : {"show"}, user : Members, app : Apps, surface : Surfaces, at : Days]
  \cup [op : {"convert"}, kind : EventKinds, user : Members, app : Apps,
        impression : Nat, at : Days]
  \cup [op : {"visit"}, user : Members, at : Days]

Serves(w, op) == requests[w].op = op
Begin(w, request) == requests[w] = Idle /\ requests' = [requests EXCEPT ![w] = request]
Finish(w) == requests' = [requests EXCEPT ![w] = Idle]
InFlight(ops) == Cardinality({w \in Workers : requests[w].op \in ops})

\* A signed-in member opens an application that get_catalogued_app finds.
MayEngage(m, a) == m \in live /\ a \in accepted

-------------------------------------------------------------------------------
\* record_impression up to its transaction: the checks, and the moment.
OpenShow(w, m, a, surface) ==
  /\ MayEngage(m, a)
  /\ Len(impressions) + InFlight({"show"}) < MaxImpressions
  /\ Begin(w, [op |-> "show", user |-> m, app |-> a, surface |-> surface, at |-> today])
  /\ UNCHANGED <<worldVars, corpusVars>>

\* Its transaction: the row (and the tags the application had, which are one unit with
\* it).  The foreign key refuses a user who is gone.
CommitShow(w) ==
  /\ Serves(w, "show")
  /\ LET r == requests[w] IN
       impressions' =
         IF r.user \in live
         THEN Append(impressions,
                     [user |-> r.user, app |-> r.app, surface |-> r.surface, at |-> r.at])
         ELSE impressions
  /\ Finish(w)
  /\ UNCHANGED <<worldVars, events, visits>>

\* Mutant: any impression of the application will do.
LinkedToApp(m, a, i) == i \in DOMAIN impressions /\ impressions[i].app = a

\* The impression that came with the request is this member's, of this application.
Linked(m, a, i) ==
  i \in DOMAIN impressions /\ impressions[i].app = a /\ impressions[i].user = m

\* _record_event up to its transaction, for a request that names impression i, or none.
OpenConversion(w, m, a, kind, i) ==
  /\ MayEngage(m, a)
  /\ i = NoImpression => kind \notin LinkedKinds
  /\ i # NoImpression => Linked(m, a, i)
  /\ Len(events) + InFlight({"convert", "follow"}) < MaxEvents
  /\ Begin(w, [op |-> "convert", kind |-> kind, user |-> m, app |-> a,
               impression |-> i, at |-> today])
  /\ UNCHANGED <<worldVars, corpusVars>>

Event(kind, m, a, i, day) ==
  [kind |-> kind, user |-> m, app |-> a, impression |-> i, at |-> day]

\* Its transaction.
CommitConversion(w) ==
  /\ Serves(w, "convert")
  /\ LET r == requests[w] IN
       events' = IF r.user \in live
                 THEN Append(events, Event(r.kind, r.user, r.app, r.impression, r.at))
                 ELSE events
  /\ Finish(w)
  /\ UNCHANGED <<worldVars, impressions, visits>>

\* PlatformVisitMiddleware, ahead of any view: the day is read, then the row is made if
\* there is none for the day.
OpenVisit(w, m) ==
  /\ m \in live
  /\ Begin(w, [op |-> "visit", user |-> m, at |-> today])
  /\ UNCHANGED <<worldVars, corpusVars>>

CommitVisit(w) ==
  /\ Serves(w, "visit")
  /\ LET r == requests[w] IN
       visits' = IF r.user \in live
                 THEN visits \cup {[user |-> r.user, day |-> r.at]}
                 ELSE visits
  /\ Finish(w)
  /\ UNCHANGED <<worldVars, impressions, events>>

\* Whatever the request was, it fails and what it had not committed is rolled back.
\* The pages count the loss and go on.
RequestFails(w) ==
  /\ requests[w] # Idle
  /\ Finish(w)
  /\ UNCHANGED <<worldVars, corpusVars>>

-------------------------------------------------------------------------------
\* Mutant: the events go with the account.
BlankNoEvents(rows, m) ==
  SelectSeq(rows, LAMBDA row : row.user # m)

\* SET NULL on the rows of a sequence.
Blank(rows, m) ==
  [i \in DOMAIN rows |-> IF rows[i].user = m THEN [rows[i] EXCEPT !.user = Nobody]
                                             ELSE rows[i]]

\* The corpus when an account is deleted: visits cascade, the rest stays.  Its
\* applications leave the catalogue.
ForgetMember(m) ==
  /\ m \in live
  /\ live' = live \ {m}
  /\ accepted' = {a \in accepted : Owner[a] # m}
  /\ impressions' = Blank(impressions, m)
  /\ events' = Blank(events, m)
  /\ visits' = {v \in visits : v.user # m}
  /\ UNCHANGED <<today, requests>>

\* The catalogue takes an application in, or lets it go.
Catalogue(apps) ==
  /\ apps # accepted
  /\ \A a \in apps : Owner[a] \in live
  /\ accepted' = apps
  /\ UNCHANGED <<live, today, corpusVars, requests>>

NextDay ==
  /\ today < LastDay
  /\ today' = today + 1
  /\ UNCHANGED <<accepted, live, corpusVars, requests>>

CorpusInit ==
  /\ accepted \in SUBSET Apps
  /\ live = Members
  /\ today = 0
  /\ impressions = << >>
  /\ events = << >>
  /\ visits = {}
  /\ requests = [w \in Workers |-> Idle]

\* What the pages do: a page view, a try-it click, a share.  No code of the platform
\* shows an application in a digest yet; its tests call record_impression as it would.
PagesNext(w) ==
  \/ \E m \in Members, a \in Apps :
       \/ \E surface \in Surfaces : OpenShow(w, m, a, surface)
       \/ \E i \in DOMAIN impressions : OpenConversion(w, m, a, "click_through", i)
       \/ \E i \in {NoImpression} \cup DOMAIN impressions : OpenConversion(w, m, a, "share", i)
  \/ \E m \in Members : OpenVisit(w, m)
  \/ CommitShow(w) \/ CommitConversion(w) \/ CommitVisit(w)

-------------------------------------------------------------------------------
\* The per-application funnel over the days start..end (selectors.app_funnel).

Shown(a, start, end) ==
  {i \in DOMAIN impressions : impressions[i].app = a /\ impressions[i].at \in start .. end}

\* Mutant: a visit at any later time is a return.
VisitedLater(i, days) ==
  \E v \in visits : v.user = impressions[i].user /\ v.day > impressions[i].at

\* The viewer was back after the day of the impression, days days later at most.
QualifyingVisit(i, days) ==
  \E v \in visits :
    /\ v.user = impressions[i].user
    /\ v.day > impressions[i].at
    /\ v.day <= impressions[i].at + days

Acts(a, kind, start, end) ==
  {i \in DOMAIN events :
     events[i].app = a /\ events[i].kind = kind /\ events[i].at \in start .. end}

app_funnel(a, start, end) ==
  LET shown == Shown(a, start, end) IN
    [impressions |-> Cardinality(shown),
     returns_3d |-> Cardinality({i \in shown : QualifyingVisit(i, ShortDays)}),
     returns_14d |-> Cardinality({i \in shown : QualifyingVisit(i, LongDays)}),
     acts |-> [kind \in EventKinds |-> Cardinality(Acts(a, kind, start, end))]]
===============================================================================
