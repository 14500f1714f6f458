----------------------------- MODULE Subscriptions -----------------------------
(***************************************************************************)
(* Follows (apps/subscriptions): a follow is a row, and the act of         *)
(* following an event of the corpus; follow_app writes the two in one      *)
(* transaction, in which the recorder checks the application once more.    *)
(* Unfollowing deletes the row and leaves the event.                       *)
(***************************************************************************)
EXTENDS SignalCorpus

VARIABLES
  follows,      \* the rows: pairs of a member and an application
  unfollowed    \* history: how often a member dropped a follow of an application

followVars == <<follows, unfollowed>>

FollowRequests ==
  [op : {"follow"}, step : {"checked", "inserted"}, user : Members, app : Apps, at : Days]

FollowTypeOK ==
  /\ follows \subseteq live \X Apps
  /\ unfollowed \in [Members \X Apps -> Nat]

FollowAt(w, step) == Serves(w, "follow") /\ requests[w].step = step
Pair(w) == <<requests[w].user, requests[w].app>>

\* Another transaction has inserted the row that w is about to insert.
RowHeld(w) == \E v \in Workers \ {w} : FollowAt(v, "inserted") /\ Pair(v) = Pair(w)

\* follow_app up to its transaction: the application is in the catalogue and not the
\* member's own.
OpenFollow(w, m, a) ==
  /\ MayEngage(m, a)
  /\ Owner[a] # m
  /\ Len(events) + InFlight({"convert", "follow"}) < MaxEvents
  /\ Begin(w, [op |-> "follow", step |-> "checked", user |-> m, app |-> a, at |-> today])
  /\ UNCHANGED <<worldVars, corpusVars, followVars>>

\* get_or_create: a follow that exists is left alone; the insert waits for another one
\* of the same row.
GetOrCreate(w) ==
  /\ FollowAt(w, "checked")
  /\ ~ RowHeld(w)
  /\ \/ Pair(w) \in follows /\ Finish(w)
     \/ /\ Pair(w) \notin follows
        /\ requests' = [requests EXCEPT ![w].step = "inserted"]
  /\ UNCHANGED <<worldVars, corpusVars, followVars>>

\* Mutant: the row is committed before the event is recorded.
RecordAfterCommit(w) ==
  /\ FollowAt(w, "inserted")
  /\ follows' = IF requests[w].user \in live THEN follows \cup {Pair(w)} ELSE follows
  /\ events' = IF MayEngage(requests[w].user, requests[w].app)
               THEN Append(events, Event("subscribe", requests[w].user, requests[w].app,
                                         NoImpression, today))
               ELSE events
  /\ Finish(w)
  /\ UNCHANGED <<worldVars, impressions, visits, unfollowed>>

\* record_subscribe in the same transaction, and its commit: with an application that
\* has left the catalogue, or a member who is gone, row and event are rolled back.
RecordSubscribe(w) ==
  /\ FollowAt(w, "inserted")
  /\ \/ /\ MayEngage(requests[w].user, requests[w].app)
        /\ follows' = follows \cup {Pair(w)}
        /\ events' = Append(events, Event("subscribe", requests[w].user, requests[w].app,
                                          NoImpression, today))
     \/ /\ ~ MayEngage(requests[w].user, requests[w].app)
        /\ UNCHANGED <<follows, events>>
  /\ Finish(w)
  /\ UNCHANGED <<worldVars, impressions, visits, unfollowed>>

\* One DELETE of what is committed, whether or not the application still is in the
\* catalogue.
unfollow_app(m, a) ==
  /\ <<m, a>> \in follows
  /\ follows' = follows \ {<<m, a>>}
  /\ unfollowed' = [unfollowed EXCEPT ![<<m, a>>] = @ + 1]
  /\ UNCHANGED <<worldVars, corpusVars, requests>>

\* Mutant: the follows of an account that is deleted stay.
KeepFollows(m) == UNCHANGED followVars

\* The follows of an account that is deleted go with it.
CascadeFollows(m) ==
  /\ follows' = {f \in follows : f[1] # m}
  /\ UNCHANGED unfollowed

FollowInit ==
  /\ follows = {}
  /\ unfollowed = [f \in Members \X Apps |-> 0]

FollowNext(w) ==
  \/ \E m \in Members, a \in Apps : OpenFollow(w, m, a) \/ unfollow_app(m, a)
  \/ GetOrCreate(w) \/ RecordSubscribe(w)

-------------------------------------------------------------------------------
Subscribes(m, a) ==
  {i \in DOMAIN events : events[i].kind = "subscribe" /\ events[i].user = m /\ events[i].app = a}

\* A follow and its event are one unit (follow_app): each event of an account is a
\* follow that stands or one that was dropped, and there is no follow without one, whatever
\* other follows, withdrawals and deletions get in between.
FollowsMatchEvents ==
  \A m \in live, a \in Apps :
    Cardinality(Subscribes(m, a)) =
      unfollowed[<<m, a>>] + (IF <<m, a>> \in follows THEN 1 ELSE 0)
===============================================================================
