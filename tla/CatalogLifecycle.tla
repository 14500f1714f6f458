--------------------------- MODULE CatalogLifecycle ---------------------------
(***************************************************************************)
(* The write path of the catalog (apps/catalog/services.py) as the web     *)
(* workers run it (apps/catalog/views.py): a view loads the application    *)
(* into memory, outside any transaction, and then calls one service, which *)
(* is one transaction.  The lifecycle services re-read the row under a row *)
(* lock; edit_app, add_media and remove_media do not: they compare with    *)
(* and write from what the view loaded.                                    *)
(*                                                                         *)
(* A request is therefore two steps, Load and the commit of its service,   *)
(* with the loaded copy in between; a service's statements touch the row   *)
(* from its first UPDATE to its commit under PostgreSQL's row lock, so its *)
(* commit is one step.  A decision request has a third step, the e-mail to *)
(* the owner, after the commit.  The clock is read before the commit: the  *)
(* stamp a commit writes is of any moment since its request was opened.    *)
(***************************************************************************)
EXTENDS Naturals, Sequences

CONSTANTS
  Apps,           \* the identities (UUIDs) applications can be given
  Workers,        \* the requests the web workers can serve at the same time
  Columns,        \* modelled fields stored in the App row itself
  Links,          \* modelled fields stored as sets of link rows: tags, facets
  GatedByConfig,  \* APP_PAGE_GATED_FIELDS: the marketing fields that gate
  Values,         \* the values a field can have
  Criteria,       \* the objective floors a rejection can name
  MaxClock        \* bound: how many time stamps one behaviour may use

CoreGateFields == {"name", "description", "url", "tags", "media"}
ToggleableGateFields == {"tagline", "deep_dive", "facets", "demo_clip"}
gate_relevant_fields == CoreGateFields \cup (ToggleableGateFields \cap GatedByConfig)

ASSUME FieldsAssumption ==
  /\ Columns \subseteq {"name", "description", "url", "tagline", "deep_dive"}
  /\ Links \subseteq {"tags", "facets"}

ASSUME BoundsAssumption == MaxClock \in Nat /\ Values # {}

VARIABLES
  app,         \* app[a]: the row of application a
  decisions,   \* decisions[a]: its ReviewDecision rows, oldest first
  reviewed,    \* history: reviewed[a], the content accept_app last accepted
  request,     \* request[w]: what worker w is serving
  clock        \* the last time stamp used by a commit

vars == <<app, decisions, reviewed, request, clock>>

Fields == Columns \cup Links \cup {"media"}
Contents == [Fields -> Values]
Statuses == {"pending", "accepted", "rejected", "withdrawn"}
Times == 0 .. MaxClock        \* 0 stands for NULL
Rows == [status : Statuses \cup {"absent", "gone"}, content : Contents,
         last_submitted_at : Times, accepted_at : Times,
         submission : Nat]    \* history: how often it has been put in the queue
Decisions == [outcome : {"accepted", "rejected"}, failed_criteria : SUBSET Criteria,
              created_at : Times,
              submission : Nat]    \* history: the submission decided about

\* The edits a caller can ask for: new values of some of the editable fields.
Edits == UNION {[S -> Values] : S \in SUBSET (Columns \cup Links)}

\* The part of a loaded row that the unlocked services read again.
Copies == [status : Statuses, columns : [Columns -> Values]]

Idle == [op |-> "none"]
Requests ==
  {Idle}
    \cup [op : {"submit"}, since : Times]
    \cup [op : {"edit", "media"}, app : Apps, since : Times, seen : Copies]
    \cup [op : {"withdraw"}, app : Apps]
    \cup [op : {"resubmit", "accept", "reject"}, app : Apps, since : Times]
    \cup [op : {"notify"}, app : Apps, decision : Decisions]

TypeOK ==
  /\ app \in [Apps -> Rows]
  /\ decisions \in [Apps -> Seq(Decisions)]
  /\ reviewed \in [Apps -> Contents]
  /\ request \in [Workers -> Requests]
  /\ clock \in Times

Exists(a) == app[a].status \in Statuses

\* timezone.now(): what worker w can have read since it opened its request.  Another
\* request may have read the clock later and committed before.
Readings(w) == {t \in Times : request[w].since < t /\ t <= clock + 1}

\* What it can have read while it holds the lock on the row of a: a later time than any
\* stamp committed to that row.
ReadingsUnderLock(w, a) ==
  {t \in Readings(w) : /\ app[a].last_submitted_at < t
                       /\ \A i \in DOMAIN decisions[a] : decisions[a][i].created_at < t}

Stamp(now) == clock' = IF clock < now THEN now ELSE clock

-------------------------------------------------------------------------------
(***************************************************************************)
(* The first half of a view: fetch the row, if there is one, and keep it   *)
(* in memory.  Nothing looks at what the caller asks for (the content, the *)
(* floors) before the service does, so it is chosen there.                 *)
(***************************************************************************)
Load(w, r) ==
  /\ request[w] = Idle
  /\ request' = [request EXCEPT ![w] = r]
  /\ UNCHANGED <<app, decisions, reviewed, clock>>

Copy(a) == [status |-> app[a].status,
            columns |-> [f \in Columns |-> app[a].content[f]]]

DeveloperOpens(w) ==         \* while one of the identities is left
  /\ \E a \in Apps : app[a].status = "absent"
  /\ Load(w, [op |-> "submit", since |-> clock])

OwnerOpens(w, a) ==          \* selectors.get_owned_app
  /\ Exists(a)
  /\ \/ \E op \in {"edit", "media"} :
          Load(w, [op |-> op, app |-> a, since |-> clock, seen |-> Copy(a)])
     \/ Load(w, [op |-> "withdraw", app |-> a])
     \/ Load(w, [op |-> "resubmit", app |-> a, since |-> clock])

ReviewerOpens(w, a) ==       \* selectors.get_app_for_review
  /\ Exists(a)
  /\ \E op \in {"accept", "reject"} : Load(w, [op |-> op, app |-> a, since |-> clock])

\* Worker w finishes its request about application a by operation op.
Finish(w, a, op) ==
  /\ request[w].op = op
  /\ request[w].app = a
  /\ request' = [request EXCEPT ![w] = Idle]

(***************************************************************************)
(* A request ends and writes nothing: a validation error (400), a refused  *)
(* transition (409), a row that is gone (404, 500), or the worker dies and *)
(* its transaction rolls back.  A worker that dies before the e-mail loses *)
(* the e-mail.                                                             *)
(***************************************************************************)
Abandon(w) ==
  /\ request[w] # Idle
  /\ request' = [request EXCEPT ![w] = Idle]
  /\ UNCHANGED <<app, decisions, reviewed, clock>>

-------------------------------------------------------------------------------
(***************************************************************************)
(* submit_app: one transaction creates the row, pending, with its links    *)
(* and media.                                                              *)
(***************************************************************************)
submit_app(w, a, content) ==
  /\ request[w].op = "submit"
  /\ request' = [request EXCEPT ![w] = Idle]
  /\ app[a].status = "absent"
  /\ \E now \in Readings(w) :
       /\ Stamp(now)
       /\ app' = [app EXCEPT ![a] = [status |-> "pending", content |-> content,
                                     last_submitted_at |-> now, accepted_at |-> 0,
                                     submission |-> app[a].submission + 1]]
  /\ UNCHANGED <<decisions, reviewed>>

(***************************************************************************)
(* _return_to_review_if_accepted: tests the status the view loaded, writes *)
(* the row.  ReturnsToReview says whether it writes, Returned what.        *)
(***************************************************************************)
ReturnsToReview(seen, changed) ==
  /\ seen.status = "accepted"
  /\ changed \cap gate_relevant_fields # {}

\* Mutant: writes a status the model's choices do not have.
ReturnedRelabelled(row, now) ==
  [row EXCEPT !.status = "in_review", !.last_submitted_at = now, !.submission = @ + 1]

Returned(row, now) ==
  [row EXCEPT !.status = "pending", !.last_submitted_at = now, !.submission = @ + 1]

\* Mutant: saves the whole loaded row, its status with it, not the changed fields.
WriteWholeRow(w, a, changed, content) ==
  LET seen == request[w].seen
      written == [app[a] EXCEPT !.content = content, !.status = seen.status]
  IN
  \/ /\ ReturnsToReview(seen, changed)
     /\ \E now \in Readings(w) :
          Stamp(now) /\ app' = [app EXCEPT ![a] = Returned(written, now)]
  \/ /\ ~ReturnsToReview(seen, changed)
     /\ app' = [app EXCEPT ![a] = written]
     /\ UNCHANGED clock

\* The unlocked write of the fields `changed`, and the return to review.
WriteUnlocked(w, a, changed, content) ==
  LET seen == request[w].seen
      written == [app[a] EXCEPT !.content = content]
  IN
  \/ /\ ReturnsToReview(seen, changed)
     /\ \E now \in Readings(w) :
          Stamp(now) /\ app' = [app EXCEPT ![a] = Returned(written, now)]
  \/ /\ ~ReturnsToReview(seen, changed)
     /\ app' = [app EXCEPT ![a] = written]
     /\ UNCHANGED clock

(***************************************************************************)
(* The fields an edit changes: a column is compared with the loaded copy,  *)
(* a link set with the link rows as they are now (_tags_changed,           *)
(* _facets_changed).  Only these are written.                              *)
(***************************************************************************)
ChangedFields(live, seen, ask) ==
  {f \in DOMAIN ask : ask[f] # IF f \in Links THEN live.content[f] ELSE seen.columns[f]}

edit_app(w, a) ==
  /\ Finish(w, a, "edit")
  /\ Exists(a)
  /\ \E ask \in Edits :
       LET changed == ChangedFields(app[a], request[w].seen, ask) IN
       WriteUnlocked(w, a, changed,
         [f \in Fields |-> IF f \in changed THEN ask[f] ELSE app[a].content[f]])
  /\ UNCHANGED <<decisions, reviewed>>

\* Mutant: a change of screenshots forgets to return the application to review.
ChangeMediaInPlace(w, a) ==
  /\ Finish(w, a, "media")
  /\ Exists(a)
  /\ \E screenshots \in Values \ {app[a].content["media"]} :
       app' = [app EXCEPT ![a].content["media"] = screenshots]
  /\ UNCHANGED <<decisions, reviewed, clock>>

\* add_media and remove_media change the screenshots whatever was loaded.
change_media(w, a) ==
  /\ Finish(w, a, "media")
  /\ Exists(a)
  /\ \E screenshots \in Values \ {app[a].content["media"]} :
       WriteUnlocked(w, a, {"media"},
         [app[a].content EXCEPT !["media"] = screenshots])
  /\ UNCHANGED <<decisions, reviewed>>

-------------------------------------------------------------------------------
(***************************************************************************)
(* The lifecycle services: the row is re-read under select_for_update, so  *)
(* the test and the write see the same row.                                *)
(***************************************************************************)
WithdrawableFrom == {"pending", "accepted", "rejected"}
ResubmittableFrom == {"rejected", "withdrawn"}

withdraw_app(w, a) ==
  /\ Finish(w, a, "withdraw")
  /\ app[a].status \in WithdrawableFrom
  /\ app' = [app EXCEPT ![a].status = "withdrawn"]
  /\ UNCHANGED <<decisions, reviewed, clock>>

\* Mutant: a resubmission keeps its old place in the queue.
ResubmitKeepsPlace(w, a) ==
  /\ Finish(w, a, "resubmit")
  /\ app[a].status \in ResubmittableFrom
  /\ app' = [app EXCEPT ![a].status = "pending", ![a].submission = @ + 1]
  /\ UNCHANGED <<decisions, reviewed, clock>>

resubmit_app(w, a) ==
  /\ Finish(w, a, "resubmit")
  /\ app[a].status \in ResubmittableFrom
  /\ \E now \in ReadingsUnderLock(w, a) :
       Stamp(now) /\ app' = [app EXCEPT ![a] = Returned(@, now)]
  /\ UNCHANGED <<decisions, reviewed>>

\* Mutant: the locked row's status is not tested again.
LockUnchecked(a) == Exists(a)

\* _lock_pending: the row under lock must still be pending.
LockPending(a) == app[a].status = "pending"

Decision(a, outcome, floors, now) ==
  [outcome |-> outcome, failed_criteria |-> floors, created_at |-> now,
   submission |-> app[a].submission]

\* Mutant: the owner is notified of a decision whose row was not written.
NotifyUndecided(w, a, decision) ==
  /\ Stamp(decision.created_at)
  /\ request' = [request EXCEPT ![w] =
                   [op |-> "notify", app |-> a, decision |-> decision]]
  /\ UNCHANGED decisions

\* The decision row is written and worker w goes on to notify the owner.
Decide(w, a, decision) ==
  /\ Stamp(decision.created_at)
  /\ decisions' = [decisions EXCEPT ![a] = Append(@, decision)]
  /\ request' = [request EXCEPT ![w] =
                   [op |-> "notify", app |-> a, decision |-> decision]]

accept_app(w, a) ==
  /\ request[w].op = "accept"
  /\ request[w].app = a
  /\ LockPending(a)
  /\ \E now \in ReadingsUnderLock(w, a) :
       /\ Decide(w, a, Decision(a, "accepted", {}, now))
       /\ app' = [app EXCEPT ![a].status = "accepted", ![a].accepted_at = now]
  /\ reviewed' = [reviewed EXCEPT ![a] = app[a].content]

reject_app(w, a) ==
  /\ request[w].op = "reject"
  /\ request[w].app = a
  /\ LockPending(a)
  /\ \E now \in ReadingsUnderLock(w, a), floors \in (SUBSET Criteria) \ {{}} :
       Decide(w, a, Decision(a, "rejected", floors, now))
  /\ app' = [app EXCEPT ![a].status = "rejected"]
  /\ UNCHANGED reviewed

\* notify_decision: sends, or the transport fails and the failure is counted;
\* the rows are the same either way.
notify_decision(w, a) ==
  /\ Finish(w, a, "notify")
  /\ UNCHANGED <<app, decisions, reviewed, clock>>

\* The owner deletes the account: the applications and their decisions cascade.
delete_owner(a) ==
  /\ Exists(a)
  /\ app' = [app EXCEPT ![a].status = "gone"]
  /\ decisions' = [decisions EXCEPT ![a] = <<>>]
  /\ UNCHANGED <<reviewed, request, clock>>
-------------------------------------------------------------------------------
Blank == [f \in Fields |-> CHOOSE v \in Values : TRUE]

Init ==
  /\ app = [a \in Apps |-> [status |-> "absent", content |-> Blank,
                            last_submitted_at |-> 0, accepted_at |-> 0,
                            submission |-> 0]]
  /\ decisions = [a \in Apps |-> <<>>]
  /\ reviewed = [a \in Apps |-> Blank]
  /\ request = [w \in Workers |-> Idle]
  /\ clock = 0

Commit(w, a) ==
  \/ \E content \in Contents : submit_app(w, a, content)
  \/ edit_app(w, a)
  \/ change_media(w, a)
  \/ withdraw_app(w, a)
  \/ resubmit_app(w, a)
  \/ accept_app(w, a)
  \/ reject_app(w, a)

Next ==
  \/ \E a \in Apps :
       \/ delete_owner(a)
       \/ \E w \in Workers :
            \/ OwnerOpens(w, a)
            \/ ReviewerOpens(w, a)
            \/ Commit(w, a)
            \/ notify_decision(w, a)
  \/ \E w \in Workers : DeveloperOpens(w) \/ Abandon(w)

Spec == Init /\ [][Next]_vars

-------------------------------------------------------------------------------
(***************************************************************************)
(* Invariants                                                              *)
(***************************************************************************)
LastOf(log) == log[Len(log)]

\* No submission is decided twice, whatever two reviewers do at once: the
\* decisions of an application are about ever later submissions, and a pending
\* application waits for a decision about a submission none of them is about.
\* (accept_app: "two concurrent reviewers cannot double-decide")
OneDecisionPerSubmission ==
  \A a \in Apps :
    /\ \A i, j \in DOMAIN decisions[a] :
         i < j => decisions[a][i].submission < decisions[a][j].submission
    /\ app[a].status = "pending" =>
         \A i \in DOMAIN decisions[a] :
           decisions[a][i].submission < app[a].submission

\* An application is in the catalogue only on the strength of its latest review:
\* the last decision accepted it, and accepted_at, the key the catalogue is
\* ordered by, is the time of that decision.  A rejected one was last rejected,
\* for at least one named floor.
StatusBackedByDecision ==
  \A a \in Apps :
    /\ app[a].status = "accepted" =>
         /\ decisions[a] # <<>>
         /\ LastOf(decisions[a]).outcome = "accepted"
         /\ LastOf(decisions[a]).created_at = app[a].accepted_at
    /\ app[a].status = "rejected" =>
         /\ decisions[a] # <<>>
         /\ LastOf(decisions[a]).outcome = "rejected"
         /\ LastOf(decisions[a]).failed_criteria # {}

\* The record runs forward: what strengthens the two invariants above into an inductive
\* one.
RecordOrdered ==
  \A a \in Apps :
    /\ app[a].last_submitted_at <= clock
    /\ \A i \in DOMAIN decisions[a] : decisions[a][i].submission <= app[a].submission

\* A worker about to e-mail the owner tells a decision that is on the record: the
\* e-mail follows the commit, so a refused or rolled-back decision sends none.
NotifiesOnlyDecisions ==
  \A w \in Workers :
    request[w].op = "notify" /\ Exists(request[w].app) =>
      \E i \in DOMAIN decisions[request[w].app] :
        decisions[request[w].app][i] = request[w].decision

\* What the catalogue shows of an accepted application is, in every field that
\* gates, what accept_app accepted.
CataloguedContentWasReviewed ==
  \A a \in Apps : app[a].status = "accepted" =>
    \A f \in gate_relevant_fields \cap Fields : app[a].content[f] = reviewed[a][f]

-------------------------------------------------------------------------------
(***************************************************************************)
(* Action properties                                                       *)
(***************************************************************************)
\* Worker w commits an unlocked write to a on a status it loaded and that has
\* changed since.
StaleWrite(w, a) ==
  /\ request[w].op \in {"edit", "media"}
  /\ request[w].app = a
  /\ request[w].seen.status # app[a].status

\* The owner's request to offer the application again, and an edit that was loaded while
\* the application was accepted and is committed after it stopped being: that write puts
\* it back in the queue, never in the catalogue.
Reoffered(a) == \E w \in Workers : request[w].op = "resubmit" /\ request[w].app = a
                                   /\ request'[w] = Idle

PullsBack(a) ==
  \E w \in Workers :
    /\ StaleWrite(w, a) /\ request[w].seen.status = "accepted"
    /\ request'[w] = Idle
    /\ app'[a].status = "pending"
    /\ app'[a].last_submitted_at > request[w].since

ReturnsAsOffered(a) ==
  app[a].status \in ResubmittableFrom /\ app'[a].status \in Statuses =>
    app'[a].status \in {app[a].status, "withdrawn"} \/ Reoffered(a) \/ PullsBack(a)

DriftsByStaleWrite(a) ==
  \A f \in gate_relevant_fields \cap Fields :
    app[a].status = "accepted" /\ app'[a].status = "accepted"
      /\ app'[a].content[f] # app[a].content[f] =>
    \E w \in Workers : StaleWrite(w, a)

\* All that unlocked edits can damage: a withdrawn or rejected application comes back to
\* review only by resubmit_app or pulled back by a stale edit, and the catalogue shows
\* gate-relevant content no reviewer accepted only if an edit loaded before the acceptance
\* is committed after it.
OnlyStaleWritesDamage ==
  [][\A a \in Apps : ReturnsAsOffered(a) /\ DriftsByStaleWrite(a)]_vars

EntersQueue(a) == app[a].status # "pending" /\ app'[a].status = "pending"
QueuedBehind(a, b) == app'[b].last_submitted_at < app'[a].last_submitted_at

\* Served one at a time, an application that enters the review queue enters it at the
\* back: behind every application that waits (no priority, no fast lane).
QueuedAtTheBack ==
  [][\A a, b \in Apps :
       EntersQueue(a) /\ a # b /\ app'[b].status = "pending" => QueuedBehind(a, b)]_vars

\* However many requests overlap, an application enters the queue behind every one that
\* was stamped by the time the request that puts it there was opened: it can be ahead of
\* those only whose own requests overlapped that one (the clock is read before the
\* commit, and commits need not keep the order of the readings).
NoneOvertaken ==
  [][\A a, b \in Apps :
       EntersQueue(a) /\ a # b /\ app'[b].status = "pending" =>
         \E w \in Workers :
           /\ request[w] # Idle /\ request'[w] = Idle
           /\ app'[b].last_submitted_at <= request[w].since => QueuedBehind(a, b)]_vars

(***************************************************************************)
(* The promise of the gate, the rows and decisions mapped to it.           *)
(***************************************************************************)
Gate == INSTANCE IntakeGate WITH
  status <- [a \in Apps |-> app[a].status],
  verdicts <- [a \in Apps |-> [i \in DOMAIN decisions[a] |-> decisions[a][i].outcome]]

\* Requests that do not overlap implement the intake gate.
ImplementsGate == Gate!GateSpec
===============================================================================
