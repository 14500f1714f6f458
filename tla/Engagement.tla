------------------------------ MODULE Engagement ------------------------------
(***************************************************************************)
(* The signal corpus with the two components that write to it and read     *)
(* from it next to the pages: follows and ratings.  They share the corpus, *)
(* the accounts, the catalogue and the workers.                            *)
(***************************************************************************)
EXTENDS Subscriptions, Ratings

vars == <<worldVars, corpusVars, requests, followVars, ratings>>

TypeOK ==
  /\ accepted \subseteq Apps
  /\ live \subseteq Members
  /\ today \in Days
  /\ impressions \in Seq(Impressions)
  /\ events \in Seq(Events)
  /\ visits \subseteq Visits
  /\ requests \in [Workers -> {Idle} \cup Captures \cup FollowRequests \cup RateRequests]
  /\ FollowTypeOK
  /\ RatingTypeOK

\* Deleting an account is one transaction over all of its rows; one that inserts a row
\* of the account at the same time makes one of the two fail.
delete_account(m) == ForgetMember(m) /\ CascadeFollows(m) /\ BlankRatings(m)

Init == CorpusInit /\ FollowInit /\ RatingInit

\* The world around the requests.
WorldNext ==
  \/ NextDay
  \/ \E apps \in SUBSET Apps : Catalogue(apps)

Next ==
  \/ WorldNext /\ UNCHANGED <<followVars, ratings>>
  \/ \E m \in Members : delete_account(m)
  \/ \E w \in Workers :
       \/ PagesNext(w) /\ UNCHANGED <<followVars, ratings>>
       \/ FollowNext(w) /\ UNCHANGED ratings
       \/ RatingNext(w) /\ UNCHANGED followVars
       \/ RequestFails(w) /\ UNCHANGED <<followVars, ratings>>

Spec == Init /\ [][Next]_vars

-------------------------------------------------------------------------------
\* A conversion is pinned to an impression of the same application and of the same
\* user (_require_linked_impression), from the moment it is stored and after both have
\* lost their user.
EventsAttributed ==
  \A i \in DOMAIN events :
    LET e == events[i] IN
      e.impression # NoImpression =>
        /\ e.impression \in DOMAIN impressions
        /\ impressions[e.impression].app = e.app
        /\ impressions[e.impression].user = e.user

\* A row is as it was, or its user's account has just gone.
Kept(before, after) ==
  \/ after = before
  \/ before.user \in live \ live' /\ after = [before EXCEPT !.user = Nobody]

\* The corpus is append-only (signals/models.py): no step takes back a row, or changes
\* more of it than the user who is gone.
CorpusAppendOnly ==
  [][/\ \A i \in DOMAIN impressions :
          i \in DOMAIN impressions' /\ Kept(impressions[i], impressions'[i])
     /\ \A i \in DOMAIN events :
          i \in DOMAIN events' /\ Kept(events[i], events'[i])]_vars

\* The window is over, the returns after it too, and no request from then is still
\* being served.  Nothing keeps the short window of returns below the long one.
Closed(end) ==
  \A days \in {ShortDays, LongDays} :
    /\ end + days < today
    /\ \A w \in Workers : requests[w] # Idle => requests[w].at > end + days

\* The funnel of a closed window is final (app_funnel is "backtestable"): counts of
\* shows and acts never change again, and the returns only when an account goes and takes
\* its visits with it.
ClosedFunnelStands ==
  [][\A a \in Apps, end \in {day \in Days : Closed(day)}, start \in Days :
         LET old == app_funnel(a, start, end)
             new == app_funnel(a, start, end)'
         IN  /\ new.impressions = old.impressions
             /\ new.acts = old.acts
             /\ live' = live => new = old
             /\ new.returns_3d <= old.returns_3d
             /\ new.returns_14d <= old.returns_14d]_vars
===============================================================================
