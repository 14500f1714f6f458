------------------------ MODULE CatalogLifecycleProofs ------------------------
(***************************************************************************)
(* Theorems about CatalogLifecycle, for any applications, workers, fields  *)
(* and bound on the clock.  TypeOK first; then the inductive invariant     *)
(* IInv, from which the state and the action properties follow.  What is   *)
(* catalogued is reviewed content, and the life of a row is that of        *)
(* IntakeGate, as long as no request writes over a row that has changed    *)
(* since it was loaded: that hypothesis (WritesFresh) is a theorem when    *)
(* requests do not overlap, and what a stale write can do is stated too    *)
(* (OnlyStaleWritesDamage).                                                *)
(***************************************************************************)
EXTENDS CatalogLifecycle, TLAPS

LEMMA BlankType == Blank \in Contents
<1>1. (CHOOSE v \in Values : TRUE) \in Values
  BY BoundsAssumption
<1> QED BY <1>1 DEF Blank, Contents

\* A worker that finishes leaves well-typed requests behind.
LEMMA FinishType ==
  ASSUME TypeOK, NEW w \in Workers, NEW a, NEW op, Finish(w, a, op)
  PROVE  request' \in [Workers -> Requests]
BY DEF TypeOK, Finish, Requests

\* What a request reads of the clock: a time after its own opening, and later than what
\* is committed by one tick at most.
LEMMA StampType ==
  ASSUME TypeOK, NEW w \in Workers, NEW now \in Readings(w), Stamp(now)
  PROVE  /\ now \in Times /\ now \in Nat
         /\ clock \in Nat /\ clock' \in Times
         /\ clock' \in {clock, clock + 1}
         /\ now <= clock'
         /\ request[w].since < now
BY BoundsAssumption DEF TypeOK, Stamp, Readings, Times

LEMMA ReturnedType ==
  ASSUME NEW row \in Rows, NEW now \in Times
  PROVE  Returned(row, now) \in Rows
<1>1. row.submission + 1 \in Nat
  BY DEF Rows
<1> QED BY <1>1 DEF Returned, Rows, Statuses

LEMMA WriteUnlockedType ==
  ASSUME TypeOK, NEW w \in Workers, NEW a \in Apps, NEW changed,
         NEW content \in Contents, WriteUnlocked(w, a, changed, content)
  PROVE  app' \in [Apps -> Rows] /\ clock' \in Times
<1> DEFINE written == [app[a] EXCEPT !.content = content]
<1>1. written \in Rows
  BY DEF TypeOK, Rows
<1>2. ASSUME NEW now \in Readings(w), Stamp(now),
             app' = [app EXCEPT ![a] = Returned(written, now)]
      PROVE  app' \in [Apps -> Rows] /\ clock' \in Times
  <2>1. Returned(written, now) \in Rows
    BY <1>1, <1>2, StampType, ReturnedType
  <2> QED BY <1>2, <2>1, StampType DEF TypeOK
<1>3. CASE app' = [app EXCEPT ![a] = written] /\ UNCHANGED clock
  BY <1>1, <1>3 DEF TypeOK
<1> QED BY <1>2, <1>3 DEF WriteUnlocked

LEMMA DecisionType ==
  ASSUME TypeOK, NEW a \in Apps, NEW outcome \in {"accepted", "rejected"},
         NEW floors \in SUBSET Criteria, NEW now \in Times
  PROVE  Decision(a, outcome, floors, now) \in Decisions
BY DEF TypeOK, Decision, Decisions, Rows

LEMMA DecideType ==
  ASSUME TypeOK, NEW w \in Workers, NEW a \in Apps, NEW decision \in Decisions,
         decision.created_at \in Readings(w), Decide(w, a, decision)
  PROVE  /\ decisions' \in [Apps -> Seq(Decisions)]
         /\ request' \in [Workers -> Requests]
         /\ clock' \in Times
<1>1. Append(decisions[a], decision) \in Seq(Decisions)
  BY DEF TypeOK
<1> QED BY <1>1, StampType DEF TypeOK, Decide, Requests

\* The content an edit writes: the changed fields as asked, the others as they are.
LEMMA EditContentType ==
  ASSUME TypeOK, NEW a \in Apps, NEW ask \in Edits, NEW changed \in SUBSET DOMAIN ask
  PROVE  [f \in Fields |-> IF f \in changed THEN ask[f] ELSE app[a].content[f]] \in Contents
<1>1. PICK S \in SUBSET (Columns \cup Links) : ask \in [S -> Values]
  BY DEF Edits
<1>2. \A f \in changed : ask[f] \in Values
  BY <1>1
<1>3. app[a].content \in [Fields -> Values]
  BY DEF TypeOK, Rows, Contents
<1> QED BY <1>2, <1>3 DEF Contents

LEMMA EditType ==
  ASSUME TypeOK, NEW w \in Workers, NEW a \in Apps, edit_app(w, a)
  PROVE  TypeOK'
<1> DEFINE changed(ask) == ChangedFields(app[a], request[w].seen, ask)
           content(ask) ==
             [f \in Fields |-> IF f \in changed(ask) THEN ask[f] ELSE app[a].content[f]]
<1>1. PICK ask \in Edits : WriteUnlocked(w, a, changed(ask), content(ask))
  BY DEF edit_app
<1>2. changed(ask) \in SUBSET DOMAIN ask
  BY DEF ChangedFields
<1>3. content(ask) \in Contents
  BY <1>1, <1>2, EditContentType
<1>5. app' \in [Apps -> Rows] /\ clock' \in Times
  BY <1>1, <1>3, WriteUnlockedType
<1>6. request' \in [Workers -> Requests]
  BY FinishType DEF edit_app
<1> QED BY <1>5, <1>6 DEF TypeOK, edit_app

LEMMA MediaType ==
  ASSUME TypeOK, NEW w \in Workers, NEW a \in Apps, change_media(w, a)
  PROVE  TypeOK'
<1>1. PICK screenshots \in Values :
        WriteUnlocked(w, a, {"media"},
          [app[a].content EXCEPT !["media"] = screenshots])
  BY DEF change_media
<1>2. [app[a].content EXCEPT !["media"] = screenshots] \in Contents
  BY DEF TypeOK, Rows, Contents
<1>3. app' \in [Apps -> Rows] /\ clock' \in Times
  BY <1>1, <1>2, WriteUnlockedType
<1>4. request' \in [Workers -> Requests]
  BY FinishType DEF change_media
<1> QED BY <1>3, <1>4 DEF TypeOK, change_media

LEMMA OpenType ==
  ASSUME TypeOK, NEW w \in Workers, NEW a \in Apps,
         OwnerOpens(w, a) \/ ReviewerOpens(w, a)
  PROVE  TypeOK'
<1>1. Copy(a) \in Copies
  <2>1. app[a].content \in [Fields -> Values]
    BY DEF TypeOK, Rows, Contents
  <2>2. \A f \in Columns : app[a].content[f] \in Values
    BY <2>1 DEF Fields
  <2>3. app[a].status \in Statuses
    BY DEF OwnerOpens, ReviewerOpens, Exists
  <2> QED BY <2>2, <2>3 DEF Copy, Copies
<1>2. PICK r \in Requests : Load(w, r)
  BY <1>1 DEF OwnerOpens, ReviewerOpens, Requests, TypeOK
<1> QED BY <1>2 DEF TypeOK, Load

LEMMA LifecycleType ==
  ASSUME TypeOK, NEW w \in Workers, NEW a \in Apps,
         withdraw_app(w, a) \/ resubmit_app(w, a) \/ accept_app(w, a) \/ reject_app(w, a)
  PROVE  TypeOK'
<1>1. CASE withdraw_app(w, a)
  <2>1. [app[a] EXCEPT !.status = "withdrawn"] \in Rows
    BY DEF TypeOK, Rows, Statuses
  <2> QED BY <1>1, <2>1, FinishType DEF TypeOK, withdraw_app
<1>2. CASE resubmit_app(w, a)
  <2>1. PICK now \in ReadingsUnderLock(w, a) :
          Stamp(now) /\ app' = [app EXCEPT ![a] = Returned(@, now)]
    BY <1>2 DEF resubmit_app
  <2>2. now \in Readings(w)
    BY DEF ReadingsUnderLock
  <2>3. Returned(app[a], now) \in Rows
    BY <2>1, <2>2, StampType, ReturnedType DEF TypeOK
  <2> QED BY <1>2, <2>1, <2>2, <2>3, FinishType, StampType DEF TypeOK, resubmit_app
<1>3. CASE accept_app(w, a)
  <2>1. PICK now \in ReadingsUnderLock(w, a) :
          /\ Decide(w, a, Decision(a, "accepted", {}, now))
          /\ app' = [app EXCEPT ![a].status = "accepted", ![a].accepted_at = now]
    BY <1>3 DEF accept_app
  <2>2. /\ now \in Readings(w) /\ now \in Times
        /\ Decision(a, "accepted", {}, now) \in Decisions
        /\ Decision(a, "accepted", {}, now).created_at = now
    BY DecisionType DEF ReadingsUnderLock, Readings, Decision
  <2>3. app' \in [Apps -> Rows]
    <3>1. [app[a] EXCEPT !.status = "accepted", !.accepted_at = now] \in Rows
      BY <2>2 DEF TypeOK, Rows, Statuses
    <3> QED BY <2>1, <3>1 DEF TypeOK
  <2>4. reviewed' \in [Apps -> Contents]
    BY <1>3 DEF TypeOK, Rows, accept_app
  <2> QED BY <2>1, <2>2, <2>3, <2>4, DecideType DEF TypeOK
<1>4. CASE reject_app(w, a)
  <2>1. PICK now \in ReadingsUnderLock(w, a), floors \in (SUBSET Criteria) \ {{}} :
          Decide(w, a, Decision(a, "rejected", floors, now))
    BY <1>4 DEF reject_app
  <2>3. /\ now \in Readings(w) /\ now \in Times
        /\ Decision(a, "rejected", floors, now) \in Decisions
        /\ Decision(a, "rejected", floors, now).created_at = now
    BY DecisionType DEF ReadingsUnderLock, Readings, Decision
  <2>2. app' \in [Apps -> Rows]
    <3>1. [app[a] EXCEPT !.status = "rejected"] \in Rows
      BY DEF TypeOK, Rows, Statuses
    <3> QED BY <1>4, <3>1 DEF TypeOK, reject_app
  <2> QED BY <1>4, <2>1, <2>2, <2>3, DecideType DEF TypeOK, reject_app
<1> QED BY <1>1, <1>2, <1>3, <1>4

LEMMA SubmitType ==
  ASSUME TypeOK, NEW w \in Workers, NEW a \in Apps, NEW content \in Contents,
         submit_app(w, a, content)
  PROVE  TypeOK'
<1> DEFINE row(now) == [status |-> "pending", content |-> content,
                        last_submitted_at |-> now, accepted_at |-> 0,
                        submission |-> app[a].submission + 1]
<1>1. PICK now \in Readings(w) : Stamp(now) /\ app' = [app EXCEPT ![a] = row(now)]
  BY DEF submit_app
<1>2. row(now) \in Rows
  BY <1>1, StampType, BoundsAssumption DEF TypeOK, Rows, Statuses, Times
<1>3. app' \in [Apps -> Rows] /\ clock' \in Times
  BY <1>1, <1>2, StampType DEF TypeOK
<1>4. request' \in [Workers -> Requests]
  BY DEF TypeOK, Requests, submit_app
<1> QED BY <1>3, <1>4 DEF TypeOK, submit_app

LEMMA StepType == TypeOK /\ [Next]_vars => TypeOK'
<1> SUFFICES ASSUME TypeOK, [Next]_vars PROVE TypeOK'
  OBVIOUS
<1>1. ASSUME NEW w \in Workers, DeveloperOpens(w)
      PROVE  TypeOK'
  BY <1>1 DEF TypeOK, DeveloperOpens, Load, Requests
<1>2. ASSUME NEW a \in Apps, delete_owner(a)
      PROVE  TypeOK'
  <2>1. [app[a] EXCEPT !.status = "gone"] \in Rows
    BY DEF TypeOK, Rows
  <2>2. app' \in [Apps -> Rows]
    BY <1>2, <2>1 DEF TypeOK, delete_owner
  <2>3. decisions' \in [Apps -> Seq(Decisions)]
    BY <1>2 DEF TypeOK, delete_owner
  <2> QED BY <1>2, <2>2, <2>3 DEF TypeOK, delete_owner
<1>3. ASSUME NEW a \in Apps, NEW w \in Workers, OwnerOpens(w, a) \/ ReviewerOpens(w, a)
      PROVE  TypeOK'
  BY <1>3, OpenType
<1>4. ASSUME NEW a \in Apps, NEW w \in Workers, Commit(w, a)
      PROVE  TypeOK'
  BY <1>4, SubmitType, EditType, MediaType, LifecycleType DEF Commit
<1>5. ASSUME NEW a \in Apps, NEW w \in Workers, notify_decision(w, a)
      PROVE  TypeOK'
  BY <1>5, FinishType DEF TypeOK, notify_decision
<1>6. ASSUME NEW w \in Workers, Abandon(w)
      PROVE  TypeOK'
  BY <1>6 DEF TypeOK, Abandon, Requests
<1>7. CASE UNCHANGED vars
  BY <1>7 DEF TypeOK, vars
<1> QED BY <1>1, <1>2, <1>3, <1>4, <1>5, <1>6, <1>7 DEF Next

\* Every behaviour stays within the types of the rows and the requests.
THEOREM TypeCorrect == Spec => []TypeOK
<1>1. Init => TypeOK
  BY BlankType, BoundsAssumption DEF Init, TypeOK, Rows, Requests, Times
<1> QED BY <1>1, StepType, PTL DEF Spec

-------------------------------------------------------------------------------
(***************************************************************************)
(* What a step can do to one application: five cases, from which both the  *)
(* invariant and the action properties follow.                             *)
(***************************************************************************)
Keeps(a) ==
  /\ app'[a].status = app[a].status
  /\ app'[a].last_submitted_at = app[a].last_submitted_at
  /\ app'[a].accepted_at = app[a].accepted_at
  /\ app'[a].submission = app[a].submission
  /\ decisions'[a] = decisions[a]
  /\ clock' \in {clock, clock + 1}

\* The requests that stamp an entry in the queue.
Queueing == {"submit", "edit", "media", "resubmit"}

\* Worker w finishes a request that stamps a with what it read of the clock.
StampedBy(w, a) ==
  /\ request[w].op \in Queueing
  /\ request'[w] = Idle
  /\ app'[a].last_submitted_at \in Nat
  /\ request[w].since < app'[a].last_submitted_at
  /\ app'[a].last_submitted_at <= clock'

Queues(a) ==
  /\ app'[a].status = "pending"
  /\ \E w \in Workers : StampedBy(w, a)
  /\ app'[a].submission > app[a].submission
  /\ decisions'[a] = decisions[a]
  /\ clock' \in {clock, clock + 1}

Withdraws(a) ==
  /\ app'[a].status = "withdrawn"
  /\ app'[a].last_submitted_at = app[a].last_submitted_at
  /\ app'[a].submission = app[a].submission
  /\ decisions'[a] = decisions[a]
  /\ clock' = clock

Decides(a) ==
  /\ app[a].status = "pending"
  /\ app'[a].last_submitted_at = app[a].last_submitted_at
  /\ app'[a].submission = app[a].submission
  /\ clock' \in {clock, clock + 1}
  /\ \E d \in Decisions :
       /\ decisions'[a] = Append(decisions[a], d)
       /\ d.submission = app[a].submission
       /\ app'[a].status = d.outcome
       /\ d.outcome = "accepted" => app'[a].accepted_at = d.created_at
       /\ d.outcome = "rejected" => d.failed_criteria # {}

Removes(a) ==
  /\ app'[a].status = "gone"
  /\ app'[a].last_submitted_at = app[a].last_submitted_at
  /\ app'[a].submission = app[a].submission
  /\ decisions'[a] = <<>>
  /\ clock' = clock

\* A step changes one application at most.
TouchesOnly(a) ==
  /\ Keeps(a) \/ Queues(a) \/ Withdraws(a) \/ Decides(a) \/ Removes(a)
  /\ \A b \in Apps \ {a} : Keeps(b)

LEMMA OtherAppsKept ==
  ASSUME TypeOK, NEW a \in Apps, NEW row, NEW b \in Apps \ {a},
         app' = [app EXCEPT ![a] = row],
         decisions'[b] = decisions[b],
         clock' \in {clock, clock + 1}
  PROVE  Keeps(b)
BY DEF TypeOK, Keeps

LEMMA UnlockedStep ==
  ASSUME TypeOK, NEW w \in Workers, NEW a \in Apps, NEW changed, NEW content,
         request[w].op \in {"edit", "media"}, request'[w] = Idle,
         WriteUnlocked(w, a, changed, content), UNCHANGED decisions
  PROVE  TouchesOnly(a)
<1> DEFINE written == [app[a] EXCEPT !.content = content]
<1>1. ASSUME NEW now \in Readings(w), Stamp(now),
             app' = [app EXCEPT ![a] = Returned(written, now)]
      PROVE  TouchesOnly(a)
  <2>1. /\ app'[a].status = "pending" /\ app'[a].last_submitted_at = now
        /\ app'[a].submission = app[a].submission + 1 /\ app[a].submission \in Nat
    BY <1>1 DEF TypeOK, Rows, Returned
  <2>2. StampedBy(w, a)
    BY <1>1, <2>1, StampType DEF StampedBy, Queueing
  <2>3. clock' \in {clock, clock + 1}
    BY <1>1, StampType
  <2>4. Queues(a)
    BY <2>1, <2>2, <2>3 DEF Queues
  <2> QED BY <1>1, <2>3, <2>4, OtherAppsKept DEF TouchesOnly
<1>2. CASE app' = [app EXCEPT ![a] = written] /\ UNCHANGED clock
  <2>1. Keeps(a)
    BY <1>2 DEF TypeOK, Rows, Keeps
  <2> QED BY <1>2, <2>1, OtherAppsKept DEF TouchesOnly
<1> QED BY <1>1, <1>2 DEF WriteUnlocked

LEMMA DecidingStep ==
  ASSUME TypeOK, NEW w \in Workers, NEW a \in Apps, accept_app(w, a) \/ reject_app(w, a)
  PROVE  TouchesOnly(a)
<1>1. CASE accept_app(w, a)
  <2>0. PICK now \in ReadingsUnderLock(w, a) :
          /\ Decide(w, a, Decision(a, "accepted", {}, now))
          /\ app' = [app EXCEPT ![a].status = "accepted", ![a].accepted_at = now]
    BY <1>1 DEF accept_app
  <2> DEFINE d == Decision(a, "accepted", {}, now)
  <2>1. d \in Decisions /\ now \in Readings(w) /\ d.created_at = now
    BY DecisionType DEF ReadingsUnderLock, Readings, Decision
  <2>2. app' = [app EXCEPT ![a] = [app[a] EXCEPT !.status = "accepted", !.accepted_at = now]]
    BY <2>0 DEF TypeOK
  <2>3. decisions' = [decisions EXCEPT ![a] = Append(@, d)] /\ clock' \in {clock, clock + 1}
    BY <2>0, <2>1, StampType DEF Decide
  <2>4. Decides(a)
    <3>1. d.submission = app[a].submission /\ d.outcome = "accepted"
          /\ d.created_at = now
      BY DEF Decision
    <3>2. app[a].status = "pending"
      BY <1>1 DEF accept_app, LockPending
    <3>3. decisions'[a] = Append(decisions[a], d)
      BY <2>3 DEF TypeOK
    <3>4. /\ app'[a].status = "accepted"
          /\ app'[a].accepted_at = now
          /\ app'[a].last_submitted_at = app[a].last_submitted_at
          /\ app'[a].submission = app[a].submission
      BY <2>2 DEF TypeOK, Rows
    <3> HIDE DEF d
    <3> QED BY <2>1, <2>3, <3>1, <3>2, <3>3, <3>4 DEF Decides
  <2>5. \A b \in Apps \ {a} : Keeps(b)
    BY <2>2, <2>3, OtherAppsKept DEF TypeOK
  <2> QED BY <2>4, <2>5 DEF TouchesOnly
<1>2. CASE reject_app(w, a)
  <2>0. PICK now \in ReadingsUnderLock(w, a), floors \in (SUBSET Criteria) \ {{}} :
          Decide(w, a, Decision(a, "rejected", floors, now))
    BY <1>2 DEF reject_app
  <2> DEFINE d == Decision(a, "rejected", floors, now)
  <2>1. d \in Decisions /\ now \in Readings(w) /\ d.created_at = now
    BY DecisionType DEF ReadingsUnderLock, Readings, Decision
  <2>2. app' = [app EXCEPT ![a] = [app[a] EXCEPT !.status = "rejected"]]
    BY <1>2 DEF reject_app, TypeOK
  <2>3. decisions' = [decisions EXCEPT ![a] = Append(@, d)] /\ clock' \in {clock, clock + 1}
    BY <2>0, <2>1, StampType DEF Decide
  <2>4. Decides(a)
    <3>1. d.submission = app[a].submission /\ d.outcome = "rejected"
          /\ d.failed_criteria # {}
      <4>1. d.submission = app[a].submission /\ d.outcome = "rejected"
            /\ d.failed_criteria = floors
        BY DEF Decision
      <4>2. floors # {}
        OBVIOUS
      <4> HIDE DEF d
      <4> QED BY <4>1, <4>2
    <3>2. app[a].status = "pending"
      BY <1>2 DEF reject_app, LockPending
    <3>3. decisions'[a] = Append(decisions[a], d)
      BY <2>3 DEF TypeOK
    <3>4. /\ app'[a].status = "rejected"
          /\ app'[a].last_submitted_at = app[a].last_submitted_at
          /\ app'[a].submission = app[a].submission
      BY <2>2 DEF TypeOK, Rows
    <3> HIDE DEF d
    <3> QED BY <2>1, <2>3, <3>1, <3>2, <3>3, <3>4 DEF Decides
  <2>5. \A b \in Apps \ {a} : Keeps(b)
    BY <2>2, <2>3, OtherAppsKept DEF TypeOK
  <2> QED BY <2>4, <2>5 DEF TouchesOnly
<1> QED BY <1>1, <1>2

LEMMA RowStep ==
  ASSUME TypeOK, [Next]_vars
  PROVE  UNCHANGED <<app, decisions, clock>> \/ \E a \in Apps : TouchesOnly(a)
<1>1. ASSUME NEW a \in Apps, NEW w \in Workers, NEW content \in Contents,
             submit_app(w, a, content)
      PROVE  TouchesOnly(a)
  <2> DEFINE row(now) == [status |-> "pending", content |-> content,
                          last_submitted_at |-> now, accepted_at |-> 0,
                          submission |-> app[a].submission + 1]
  <2>1. PICK now \in Readings(w) : Stamp(now) /\ app' = [app EXCEPT ![a] = row(now)]
    BY <1>1 DEF submit_app
  <2>2. app'[a] = row(now) /\ app[a].submission \in Nat
    BY <2>1 DEF TypeOK, Rows
  <2>3. StampedBy(w, a)
    BY <1>1, <2>1, <2>2, StampType DEF StampedBy, Queueing, submit_app, TypeOK
  <2>4. clock' \in {clock, clock + 1}
    BY <2>1, StampType
  <2>5. Queues(a)
    BY <1>1, <2>2, <2>3, <2>4 DEF submit_app, Queues
  <2>6. \A b \in Apps \ {a} : Keeps(b)
    BY <1>1, <2>1, <2>4, OtherAppsKept DEF submit_app
  <2> QED BY <2>5, <2>6 DEF TouchesOnly
<1>2. ASSUME NEW a \in Apps, delete_owner(a)
      PROVE  TouchesOnly(a)
  <2>1. Removes(a)
    BY <1>2 DEF TypeOK, Rows, delete_owner, Removes
  <2>2. app' = [app EXCEPT ![a] = [app[a] EXCEPT !.status = "gone"]]
    BY <1>2 DEF TypeOK, delete_owner
  <2>3. \A b \in Apps \ {a} : Keeps(b)
    BY <1>2, <2>2, OtherAppsKept DEF delete_owner, TypeOK
  <2> QED BY <2>1, <2>3 DEF TouchesOnly
<1>3. ASSUME NEW a \in Apps, NEW w \in Workers, withdraw_app(w, a)
      PROVE  TouchesOnly(a)
  <2>1. app' = [app EXCEPT ![a] = [app[a] EXCEPT !.status = "withdrawn"]]
    BY <1>3 DEF TypeOK, withdraw_app
  <2>2. Withdraws(a)
    BY <1>3, <2>1 DEF TypeOK, Rows, withdraw_app, Withdraws
  <2>3. \A b \in Apps \ {a} : Keeps(b)
    BY <1>3, <2>1, OtherAppsKept DEF withdraw_app
  <2> QED BY <2>2, <2>3 DEF TouchesOnly
<1>4. ASSUME NEW a \in Apps, NEW w \in Workers, resubmit_app(w, a)
      PROVE  TouchesOnly(a)
  <2>1. PICK now \in ReadingsUnderLock(w, a) :
          Stamp(now) /\ app' = [app EXCEPT ![a] = Returned(app[a], now)]
    BY <1>4 DEF TypeOK, resubmit_app
  <2>2. now \in Readings(w)
    BY DEF ReadingsUnderLock
  <2>3. /\ app'[a].status = "pending" /\ app'[a].last_submitted_at = now
        /\ app'[a].submission = app[a].submission + 1 /\ app[a].submission \in Nat
    BY <2>1 DEF TypeOK, Rows, Returned
  <2>4. request[w].op = "resubmit" /\ request'[w] = Idle /\ UNCHANGED decisions
    BY <1>4 DEF resubmit_app, Finish, TypeOK
  <2>5. StampedBy(w, a)
    BY <2>1, <2>2, <2>3, <2>4, StampType DEF StampedBy, Queueing
  <2>6. clock' \in {clock, clock + 1}
    BY <2>1, <2>2, StampType
  <2>7. Queues(a)
    BY <2>3, <2>4, <2>5, <2>6 DEF Queues
  <2>8. \A b \in Apps \ {a} : Keeps(b)
    BY <2>1, <2>4, <2>6, OtherAppsKept
  <2> QED BY <2>7, <2>8 DEF TouchesOnly
<1>5. ASSUME NEW a \in Apps, NEW w \in Workers, edit_app(w, a) \/ change_media(w, a)
      PROVE  TouchesOnly(a)
  <2>1. /\ request[w].op \in {"edit", "media"} /\ request'[w] = Idle /\ UNCHANGED decisions
        /\ \E changed, content : WriteUnlocked(w, a, changed, content)
    BY <1>5 DEF edit_app, change_media, Finish, TypeOK
  <2> QED BY <2>1, UnlockedStep
<1>6. ASSUME NEW a \in Apps, NEW w \in Workers, accept_app(w, a) \/ reject_app(w, a)
      PROVE  TouchesOnly(a)
  BY <1>6, DecidingStep
<1>7. ASSUME NEW a \in Apps, NEW w \in Workers,
             OwnerOpens(w, a) \/ ReviewerOpens(w, a) \/ notify_decision(w, a) \/ Abandon(w)
      PROVE  UNCHANGED <<app, decisions, clock>>
  BY <1>7 DEF OwnerOpens, ReviewerOpens, Load, notify_decision, Abandon
<1>8. ASSUME NEW w \in Workers, DeveloperOpens(w) \/ Abandon(w)
      PROVE  UNCHANGED <<app, decisions, clock>>
  BY <1>8 DEF DeveloperOpens, Load, Abandon
<1>9. CASE Next
  BY <1>9, <1>1, <1>2, <1>3, <1>4, <1>5, <1>6, <1>7, <1>8 DEF Next, Commit
<1> QED BY <1>9 DEF vars

-------------------------------------------------------------------------------
(***************************************************************************)
(* The inductive invariant: the two invariants about the record, and the   *)
(* order of the submissions that makes them inductive.                     *)
(***************************************************************************)
IInv ==
  /\ TypeOK
  /\ RecordOrdered
  /\ OneDecisionPerSubmission
  /\ StatusBackedByDecision

LEMMA IInvInit == Init => IInv
<1> SUFFICES ASSUME Init PROVE IInv
  OBVIOUS
<1>1. TypeOK
  BY BlankType, BoundsAssumption DEF Init, TypeOK, Rows, Requests, Times
<1>2. \A a \in Apps : /\ app[a].status = "absent"
                      /\ app[a].last_submitted_at = 0
                      /\ decisions[a] = <<>>
  BY DEF Init
<1> QED BY <1>1, <1>2 DEF Init, IInv, RecordOrdered, OneDecisionPerSubmission,
                           StatusBackedByDecision

LEMMA IInvStep == IInv /\ [Next]_vars => IInv'
<1> SUFFICES ASSUME IInv, [Next]_vars PROVE IInv'
  OBVIOUS
<1>1. TypeOK'
  BY StepType DEF IInv
<1>2. \A a \in Apps : Keeps(a) \/ Queues(a) \/ Withdraws(a) \/ Decides(a) \/ Removes(a)
  BY RowStep DEF IInv, TouchesOnly, Keeps
<1>3. ASSUME NEW a \in Apps
      PROVE  /\ app[a].last_submitted_at \in Nat
             /\ clock \in Nat
             /\ app[a].submission \in Nat /\ app'[a].submission \in Nat
             /\ decisions[a] \in Seq(Decisions)
             /\ \A i \in DOMAIN decisions[a] : decisions[a][i].submission \in Nat
             /\ app[a].last_submitted_at <= clock
             /\ \A i \in DOMAIN decisions[a] :
                  decisions[a][i].submission <= app[a].submission
  <2>1. Times \subseteq Nat
    BY BoundsAssumption DEF Times
  <2>2. app[a] \in Rows /\ app'[a] \in Rows /\ clock \in Times
        /\ decisions[a] \in Seq(Decisions)
    BY <1>1 DEF IInv, TypeOK
  <2>3. \A i \in DOMAIN decisions[a] : decisions[a][i] \in Decisions
    BY <2>2
  <2> QED BY <2>1, <2>2, <2>3 DEF IInv, RecordOrdered, Rows, Decisions
<1>4. ASSUME NEW a \in Apps, NEW d \in Decisions,
             decisions'[a] = Append(decisions[a], d)
      PROVE  /\ DOMAIN decisions'[a] = 1 .. Len(decisions[a]) + 1
             /\ DOMAIN decisions[a] = 1 .. Len(decisions[a])
             /\ Len(decisions[a]) \in Nat
             /\ \A i \in 1 .. Len(decisions[a]) : decisions'[a][i] = decisions[a][i]
             /\ decisions'[a][Len(decisions[a]) + 1] = d
             /\ LastOf(decisions'[a]) = d
             /\ decisions'[a] # <<>>
  BY <1>3, <1>4 DEF LastOf
<1>5. RecordOrdered'
  <2> SUFFICES ASSUME NEW a \in Apps
               PROVE  /\ app'[a].last_submitted_at <= clock'
                      /\ \A i \in DOMAIN decisions'[a] :
                           decisions'[a][i].submission <= app'[a].submission
    BY DEF RecordOrdered
  <2>1. CASE Keeps(a) \/ Withdraws(a) \/ Removes(a)
    BY <2>1, <1>3 DEF Keeps, Withdraws, Removes
  <2>3. CASE Queues(a)
    BY <2>3, <1>3 DEF Queues, StampedBy
  <2>2. CASE Decides(a)
    BY <2>2, <1>3, <1>4 DEF Decides
  <2> QED BY <1>2, <2>1, <2>2, <2>3
<1>6. OneDecisionPerSubmission'
  <2> SUFFICES ASSUME NEW a \in Apps
               PROVE  /\ \A i, j \in DOMAIN decisions'[a] :
                           i < j => decisions'[a][i].submission < decisions'[a][j].submission
                      /\ app'[a].status = "pending" =>
                           \A i \in DOMAIN decisions'[a] :
                             decisions'[a][i].submission < app'[a].submission
    BY DEF OneDecisionPerSubmission
  <2>1. CASE Keeps(a) \/ Queues(a) \/ Withdraws(a) \/ Removes(a)
    <3>1. app'[a].status = "pending" =>
            \A i \in DOMAIN decisions'[a] : decisions'[a][i].submission < app'[a].submission
      BY <2>1, <1>3 DEF Keeps, Queues, Withdraws, Removes, IInv, OneDecisionPerSubmission
    <3>2. decisions'[a] = decisions[a] \/ decisions'[a] = <<>>
      BY <2>1 DEF Keeps, Queues, Withdraws, Removes
    <3> QED BY <3>1, <3>2 DEF IInv, OneDecisionPerSubmission
  <2>2. CASE Decides(a)
    <3>1. PICK d \in Decisions : /\ decisions'[a] = Append(decisions[a], d)
                                 /\ d.submission = app[a].submission
                                 /\ app'[a].status = d.outcome
      BY <2>2 DEF Decides
    <3>2. \A i \in 1 .. Len(decisions[a]) : decisions[a][i].submission < d.submission
      BY <2>2, <3>1, <1>4 DEF Decides, IInv, OneDecisionPerSubmission
    <3>3. app'[a].status # "pending"
      BY <3>1 DEF Decisions
    <3> QED BY <3>1, <3>2, <3>3, <1>4 DEF IInv, OneDecisionPerSubmission
  <2> QED BY <1>2, <2>1, <2>2
<1>7. StatusBackedByDecision'
  <2> SUFFICES ASSUME NEW a \in Apps
               PROVE  /\ app'[a].status = "accepted" =>
                           /\ decisions'[a] # <<>>
                           /\ LastOf(decisions'[a]).outcome = "accepted"
                           /\ LastOf(decisions'[a]).created_at = app'[a].accepted_at
                      /\ app'[a].status = "rejected" =>
                           /\ decisions'[a] # <<>>
                           /\ LastOf(decisions'[a]).outcome = "rejected"
                           /\ LastOf(decisions'[a]).failed_criteria # {}
    BY DEF StatusBackedByDecision, LastOf
  <2>1. CASE Keeps(a)
    BY <2>1 DEF Keeps, IInv, StatusBackedByDecision
  <2>2. CASE Queues(a) \/ Withdraws(a) \/ Removes(a)
    BY <2>2 DEF Queues, Withdraws, Removes
  <2>3. CASE Decides(a)
    BY <2>3, <1>4 DEF Decides, Decisions
  <2> QED BY <1>2, <2>1, <2>2, <2>3
<1> QED BY <1>1, <1>5, <1>6, <1>7 DEF IInv

LEMMA IInvHolds == Spec => []IInv
BY IInvInit, IInvStep, PTL DEF Spec

\* No submission is ever decided twice, however many reviewers and workers there are.
THEOREM DecidedOnce == Spec => []OneDecisionPerSubmission
<1>1. IInv => OneDecisionPerSubmission
  BY DEF IInv
<1> QED BY <1>1, IInvHolds, PTL

\* An application is accepted, or rejected, on the strength of its latest decision.
THEOREM StatusBacked == Spec => []StatusBackedByDecision
<1>1. IInv => StatusBackedByDecision
  BY DEF IInv
<1> QED BY <1>1, IInvHolds, PTL

(***************************************************************************)
(* The queue.  Who enters it is stamped by a request that ends, with a     *)
(* time later than its opening; all the others keep their places.          *)
(***************************************************************************)
LEMMA SinceType ==
  ASSUME TypeOK, NEW w \in Workers, request[w].op \in Queueing
  PROVE  request[w].since \in Nat /\ request[w] # Idle
BY BoundsAssumption DEF TypeOK, Requests, Idle, Queueing, Times

LEMMA EntryStep ==
  ASSUME IInv, [Next]_vars, NEW a \in Apps, EntersQueue(a), NEW b \in Apps \ {a}
  PROVE  /\ \E w \in Workers : StampedBy(w, a)
         /\ app'[b].last_submitted_at = app[b].last_submitted_at
         /\ app[b].last_submitted_at <= clock
         /\ app[b].last_submitted_at \in Nat /\ clock \in Nat
<1>1. Queues(a) /\ TouchesOnly(a)
  BY RowStep DEF IInv, EntersQueue, TouchesOnly, Keeps, Withdraws, Decides, Removes, Decisions
<1>2. Keeps(b)
  BY <1>1 DEF TouchesOnly
<1>3. app[b].last_submitted_at <= clock /\ app[b].last_submitted_at \in Nat /\ clock \in Nat
  BY BoundsAssumption DEF IInv, RecordOrdered, TypeOK, Rows, Times
<1> QED BY <1>1, <1>2, <1>3 DEF Queues, Keeps

\* Whoever enters the review queue enters it behind everyone stamped before the request
\* that puts it there was opened, however many requests overlap.
THEOREM NoFastLane == Spec => NoneOvertaken
<1> DEFINE Behind ==
      \A a, b \in Apps :
        EntersQueue(a) /\ a # b /\ app'[b].status = "pending" =>
          \E w \in Workers :
            /\ request[w] # Idle /\ request'[w] = Idle
            /\ app'[b].last_submitted_at <= request[w].since => QueuedBehind(a, b)
<1>1. IInv /\ [Next]_vars => [Behind]_vars
  <2> SUFFICES ASSUME IInv, [Next]_vars,
                      NEW a \in Apps, NEW b \in Apps, EntersQueue(a), a # b
               PROVE  \E w \in Workers :
                        /\ request[w] # Idle /\ request'[w] = Idle
                        /\ app'[b].last_submitted_at <= request[w].since => QueuedBehind(a, b)
    OBVIOUS
  <2>1. PICK w \in Workers : StampedBy(w, a)
    BY EntryStep
  <2>2. request[w].since \in Nat /\ request[w] # Idle
    BY <2>1, SinceType DEF StampedBy, IInv
  <2>3. app'[b].last_submitted_at \in Nat
    BY EntryStep
  <2> QED BY <2>1, <2>2, <2>3 DEF StampedBy, QueuedBehind
<1> QED BY <1>1, IInvHolds, PTL DEF Spec, NoneOvertaken

-------------------------------------------------------------------------------
(***************************************************************************)
(* The owner's e-mail.  A step writes one row at most, never one that is   *)
(* gone, and no row disappears; a request is taken up, ended, or goes on   *)
(* to tell the decision it has just written.                               *)
(***************************************************************************)
WritesRow(a) ==
  /\ app[a].status # "gone"
  /\ app'[a].status # "absent"
  /\ \A b \in Apps \ {a} : app'[b] = app[b] /\ decisions'[b] = decisions[b]

LEMMA OneRowWritten ==
  ASSUME TypeOK, [Next]_vars
  PROVE  UNCHANGED <<app, decisions>> \/ \E a \in Apps : WritesRow(a)
<1>1. ASSUME NEW a \in Apps, NEW row,
             app' = [app EXCEPT ![a] = row], row.status # "absent",
             app[a].status # "gone",
             \A b \in Apps \ {a} : decisions'[b] = decisions[b]
      PROVE  WritesRow(a)
  BY <1>1 DEF TypeOK, WritesRow
<1>2. ASSUME NEW a \in Apps, NEW w \in Workers, NEW content \in Contents,
             submit_app(w, a, content)
      PROVE  WritesRow(a)
  BY <1>2 DEF TypeOK, submit_app, WritesRow
<1>3. ASSUME NEW a \in Apps, delete_owner(a)
      PROVE  WritesRow(a)
  <2>1. app' = [app EXCEPT ![a] = [app[a] EXCEPT !.status = "gone"]]
    BY <1>3 DEF TypeOK, delete_owner
  <2>2. [app[a] EXCEPT !.status = "gone"].status = "gone"
    BY DEF TypeOK, Rows
  <2>3. \A b \in Apps \ {a} : decisions'[b] = decisions[b]
    BY <1>3 DEF TypeOK, delete_owner
  <2> QED BY <1>3, <1>1, <2>1, <2>2, <2>3 DEF delete_owner, Exists, Statuses
<1>4. ASSUME NEW a \in Apps, NEW w \in Workers, NEW changed, NEW content,
             WriteUnlocked(w, a, changed, content), Exists(a), UNCHANGED decisions
      PROVE  WritesRow(a)
  <2> DEFINE written == [app[a] EXCEPT !.content = content]
  <2>1. /\ written.status = app[a].status
        /\ \A now : Returned(written, now).status = "pending"
    BY DEF TypeOK, Rows, Returned
  <2>2. app[a].status \notin {"absent", "gone"}
    BY <1>4 DEF Exists, Statuses
  <2>3. \/ \E now : app' = [app EXCEPT ![a] = Returned(written, now)]
        \/ app' = [app EXCEPT ![a] = written]
    BY <1>4 DEF WriteUnlocked
  <2> HIDE DEF written
  <2> QED BY <1>4, <1>1, <2>1, <2>2, <2>3
<1>5. ASSUME NEW a \in Apps, NEW w \in Workers, edit_app(w, a) \/ change_media(w, a)
      PROVE  WritesRow(a)
  BY <1>5, <1>4 DEF edit_app, change_media
<1>6. ASSUME NEW a \in Apps, NEW w \in Workers, withdraw_app(w, a)
      PROVE  WritesRow(a)
  <2>1. app' = [app EXCEPT ![a] = [app[a] EXCEPT !.status = "withdrawn"]]
    BY <1>6 DEF TypeOK, withdraw_app
  <2>2. [app[a] EXCEPT !.status = "withdrawn"].status = "withdrawn"
    BY DEF TypeOK, Rows
  <2> QED BY <1>6, <1>1, <2>1, <2>2 DEF withdraw_app, WithdrawableFrom
<1>7. ASSUME NEW a \in Apps, NEW w \in Workers, resubmit_app(w, a)
      PROVE  WritesRow(a)
  <2>1. PICK now : app' = [app EXCEPT ![a] = Returned(app[a], now)]
    BY <1>7 DEF TypeOK, resubmit_app
  <2>2. Returned(app[a], now).status = "pending"
    BY DEF TypeOK, Rows, Returned
  <2> QED BY <1>7, <1>1, <2>1, <2>2 DEF resubmit_app, ResubmittableFrom
<1>8. ASSUME NEW a \in Apps, NEW w \in Workers, accept_app(w, a) \/ reject_app(w, a)
      PROVE  WritesRow(a)
  <2>1. /\ app[a].status = "pending"
        /\ \A b \in Apps \ {a} : decisions'[b] = decisions[b]
    BY <1>8 DEF TypeOK, accept_app, reject_app, LockPending, Decide
  <2>2. \/ \E now : app' = [app EXCEPT ![a] = [app[a] EXCEPT !.status = "accepted",
                                                              !.accepted_at = now]]
        \/ app' = [app EXCEPT ![a] = [app[a] EXCEPT !.status = "rejected"]]
    BY <1>8 DEF TypeOK, accept_app, reject_app
  <2>3. /\ \A now : [app[a] EXCEPT !.status = "accepted", !.accepted_at = now].status
                       = "accepted"
        /\ [app[a] EXCEPT !.status = "rejected"].status = "rejected"
    BY DEF TypeOK, Rows
  <2> QED BY <1>1, <2>1, <2>2, <2>3
<1>9. ASSUME NEW a \in Apps, NEW w \in Workers,
             OwnerOpens(w, a) \/ ReviewerOpens(w, a) \/ notify_decision(w, a)
      PROVE  UNCHANGED <<app, decisions>>
  BY <1>9 DEF OwnerOpens, ReviewerOpens, Load, notify_decision
<1>10. ASSUME NEW w \in Workers, DeveloperOpens(w) \/ Abandon(w)
       PROVE  UNCHANGED <<app, decisions>>
  BY <1>10 DEF DeveloperOpens, Load, Abandon
<1>11. CASE Next
  BY <1>11, <1>2, <1>3, <1>5, <1>6, <1>7, <1>8, <1>9, <1>10 DEF Next, Commit
<1> QED BY <1>11 DEF vars

Taken(w) ==
  /\ request'[w].op # "notify"
  /\ request'[w].op # "submit" => Exists(request'[w].app) /\ request'[w].app \in Apps
  /\ request'[w].op \in {"edit", "media"} => request'[w].seen = Copy(request'[w].app)
  /\ request'[w].op \in Queueing => request'[w].since = clock
  /\ UNCHANGED <<app, decisions, clock>>

TellsNext(w) ==
  /\ request'[w].op = "notify"
  /\ Exists(request'[w].app)
  /\ request'[w].app \in Apps
  /\ decisions'[request'[w].app] = Append(decisions[request'[w].app], request'[w].decision)

LEMMA RequestStep ==
  ASSUME TypeOK, [Next]_vars, NEW w \in Workers
  PROVE  request'[w] = request[w] \/ request'[w] = Idle \/ Taken(w) \/ TellsNext(w)
<1>1. ASSUME NEW v \in Workers, NEW r, request' = [request EXCEPT ![v] = r]
      PROVE  request'[w] = IF w = v THEN r ELSE request[w]
  BY <1>1 DEF TypeOK
<1>2. ASSUME NEW a \in Apps, NEW v \in Workers, OwnerOpens(v, a) \/ ReviewerOpens(v, a)
      PROVE  request'[w] = request[w] \/ Taken(w)
  <2>1. PICK r : /\ Load(v, r) /\ Exists(a) /\ r.app = a
                 /\ r.op \notin {"notify", "submit"}
                 /\ r.op \in {"edit", "media"} => r.seen = Copy(a)
                 /\ r.op \in Queueing => r.since = clock
    <3>1. CASE \E op \in {"edit", "media"} :
                 Load(v, [op |-> op, app |-> a, since |-> clock, seen |-> Copy(a)])
      BY <1>2, <3>1 DEF OwnerOpens, ReviewerOpens
    <3>3. CASE \/ Load(v, [op |-> "withdraw", app |-> a])
               \/ Load(v, [op |-> "resubmit", app |-> a, since |-> clock])
      BY <1>2, <3>3 DEF OwnerOpens, ReviewerOpens, Queueing
    <3>4. CASE ReviewerOpens(v, a)
      BY <3>4 DEF ReviewerOpens, Queueing
    <3> QED BY <1>2, <3>1, <3>3, <3>4 DEF OwnerOpens
  <2>2. request'[w] = IF w = v THEN r ELSE request[w]
    BY <1>1, <2>1 DEF Load
  <2> QED BY <2>1, <2>2 DEF Load, Taken
<1>3. ASSUME NEW a \in Apps, NEW v \in Workers, accept_app(v, a) \/ reject_app(v, a)
      PROVE  request'[w] = request[w] \/ TellsNext(w)
  <2>1. Exists(a)
    BY <1>3 DEF accept_app, reject_app, LockPending, Exists, Statuses
  <2>2. PICK d : Decide(v, a, d)
    BY <1>3 DEF accept_app, reject_app, ReadingsUnderLock
  <2>3. decisions'[a] = Append(decisions[a], d)
    BY <2>2 DEF Decide, TypeOK
  <2>4. request'[w] = IF w = v THEN [op |-> "notify", app |-> a, decision |-> d] ELSE request[w]
    BY <2>2, <1>1 DEF Decide
  <2> QED BY <2>1, <2>3, <2>4 DEF TellsNext
<1>4. ASSUME NEW a, NEW v \in Workers, NEW op, Finish(v, a, op)
      PROVE  request'[w] = request[w] \/ request'[w] = Idle
  BY <1>1, <1>4 DEF Finish
<1>5. ASSUME NEW v \in Workers, Abandon(v)
      PROVE  request'[w] = request[w] \/ request'[w] = Idle
  BY <1>1, <1>5 DEF Abandon
<1>6. ASSUME NEW a \in Apps, NEW v \in Workers, Commit(v, a) \/ notify_decision(v, a)
      PROVE  request'[w] = request[w] \/ request'[w] = Idle \/ TellsNext(w)
  <2>1. CASE \E content \in Contents : submit_app(v, a, content)
    BY <2>1, <1>1 DEF submit_app
  <2> QED BY <1>6, <1>3, <1>4, <2>1 DEF Commit, edit_app, change_media, withdraw_app,
                                        resubmit_app, notify_decision
<1>7. ASSUME NEW a \in Apps, delete_owner(a)
      PROVE  request' = request
  BY <1>7 DEF delete_owner
<1>9. ASSUME NEW v \in Workers, DeveloperOpens(v)
      PROVE  request'[w] = request[w] \/ Taken(w)
  <2>1. request'[w] = IF w = v THEN [op |-> "submit", since |-> clock] ELSE request[w]
    BY <1>1, <1>9 DEF DeveloperOpens, Load
  <2> QED BY <1>9, <2>1 DEF DeveloperOpens, Load, Taken
<1>8. CASE Next
  BY <1>8, <1>2, <1>5, <1>6, <1>7, <1>9 DEF Next
<1> QED BY <1>8 DEF vars

\* Every request but a submission is about an application that has been submitted.
About(w) == request[w] # Idle /\ request[w].op # "submit"

RequestsKnown ==
  \A w \in Workers : About(w) => app[request[w].app].status # "absent"

MailInv == TypeOK /\ RequestsKnown /\ NotifiesOnlyDecisions

LEMMA RequestApp ==
  ASSUME TypeOK, NEW w \in Workers, About(w)
  PROVE  /\ request[w].app \in Apps
         /\ request[w].op # "none"
         /\ request[w].op = "notify" => request[w].decision \in Decisions
BY DEF TypeOK, Requests, Idle, About

LEMMA KnownStep ==
  ASSUME TypeOK, RequestsKnown, [Next]_vars
  PROVE  RequestsKnown'
<1> SUFFICES ASSUME NEW w \in Workers, About(w)'
             PROVE  app'[request'[w].app].status # "absent"
  BY DEF RequestsKnown
<1>1. \A a \in Apps : app[a].status # "absent" => app'[a].status # "absent"
  BY OneRowWritten DEF WritesRow
<1>2. CASE request'[w] = request[w]
  BY <1>1, <1>2, RequestApp DEF RequestsKnown, About
<1>3. CASE Taken(w) \/ TellsNext(w)
  BY <1>1, <1>3 DEF Taken, TellsNext, Exists, Statuses, About
<1> QED BY <1>2, <1>3, RequestStep DEF About

LEMMA MailStep == MailInv /\ [Next]_vars => MailInv'
<1> SUFFICES ASSUME MailInv, [Next]_vars PROVE MailInv'
  OBVIOUS
<1>1. TypeOK /\ TypeOK'
  BY StepType DEF MailInv
<1>2. RequestsKnown'
  BY KnownStep DEF MailInv
<1>3. ASSUME NEW w \in Workers, (request[w].op = "notify" /\ Exists(request[w].app))'
      PROVE  \E i \in DOMAIN decisions'[request'[w].app] :
               decisions'[request'[w].app][i] = request'[w].decision
  <2> DEFINE b == request'[w].app
  <2>1. request'[w] # Idle
    BY <1>3 DEF Idle
  <2>2. CASE request'[w] = request[w]
    <3>1. b \in Apps /\ app[b].status # "absent" /\ b = request[w].app
      BY <1>3, <2>1, <2>2, RequestApp, <1>1 DEF MailInv, RequestsKnown, About
    <3>2. Exists(b)
      <4>1. app'[b] = app[b] \/ app[b].status # "gone"
        BY <3>1, OneRowWritten, <1>1 DEF WritesRow
      <4>2. app[b].status \in Statuses \cup {"absent", "gone"}
        BY <3>1, <1>1 DEF TypeOK, Rows
      <4> QED BY <4>1, <4>2, <3>1, <1>3 DEF Exists
    <3>3. PICK i \in DOMAIN decisions[b] : decisions[b][i] = request[w].decision
      BY <3>1, <3>2, <2>2, <1>3 DEF MailInv, NotifiesOnlyDecisions
    <3>4. ~ Removes(b)
      BY <1>3 DEF Removes, Exists, Statuses
    <3>5. decisions'[b] = decisions[b]
            \/ \E d \in Decisions : decisions'[b] = Append(decisions[b], d)
      BY <3>1, <3>4, RowStep, <1>1
         DEF TouchesOnly, Keeps, Queues, Withdraws, Decides
    <3>6. decisions[b] \in Seq(Decisions)
      BY <3>1, <1>1 DEF TypeOK
    <3>7. i \in DOMAIN decisions'[b] /\ decisions'[b][i] = decisions[b][i]
      BY <3>3, <3>5, <3>6
    <3> QED BY <3>3, <3>7, <2>2
  <2>3. CASE TellsNext(w)
    <3>1. /\ decisions[b] \in Seq(Decisions)
          /\ decisions'[b] = Append(decisions[b], request'[w].decision)
      BY <2>3, <1>1 DEF TypeOK, TellsNext
    <3>2. request'[w].decision \in Decisions
      BY <1>1, <1>3, <2>1 DEF TypeOK, Requests
    <3>3. /\ Len(decisions[b]) + 1 \in DOMAIN decisions'[b]
          /\ decisions'[b][Len(decisions[b]) + 1] = request'[w].decision
      BY <3>1, <3>2
    <3> QED BY <3>3
  <2> QED BY <1>1, <1>3, <2>1, <2>2, <2>3, RequestStep DEF Taken
<1> QED BY <1>1, <1>2, <1>3 DEF MailInv, NotifiesOnlyDecisions

\* No owner is told of a decision that is not on the record.
THEOREM TellsTheRecord == Spec => []NotifiesOnlyDecisions
<1>1. Init => MailInv
  <2> SUFFICES ASSUME Init PROVE MailInv
    OBVIOUS
  <2>1. TypeOK
    BY BlankType, BoundsAssumption DEF Init, TypeOK, Rows, Requests, Times
  <2> QED BY <2>1 DEF Init, MailInv, RequestsKnown, About, NotifiesOnlyDecisions, Idle
<1>2. MailInv => NotifiesOnlyDecisions
  BY DEF MailInv
<1> QED BY <1>1, <1>2, MailStep, PTL DEF Spec

-------------------------------------------------------------------------------
(***************************************************************************)
(* What unlocked writes can damage.  An edit or a change of screenshots    *)
(* either returns the application to the queue, or leaves its status and,  *)
(* if it was loaded as accepted, every field that gates.                   *)
(***************************************************************************)
Unlocked(w, a) ==
  /\ edit_app(w, a) \/ change_media(w, a)
  /\ request[w].op \in {"edit", "media"}
  /\ request[w].app = a
  /\ request'[w] = Idle
  /\ Exists(a)
  /\ decisions' = decisions
  /\ reviewed' = reviewed
  /\ \/ /\ request[w].seen.status = "accepted"
        /\ app'[a].status = "pending"
        /\ app'[a].last_submitted_at > request[w].since
     \/ /\ app'[a].status = app[a].status
        /\ \/ request[w].seen.status # "accepted"
           \/ \A f \in gate_relevant_fields \cap Fields :
                app'[a].content[f] = app[a].content[f]

LEMMA UnlockedMoves ==
  ASSUME TypeOK, NEW w \in Workers, NEW a \in Apps,
         edit_app(w, a) \/ change_media(w, a)
  PROVE  Unlocked(w, a)
<1>1. ASSUME NEW changed, NEW content,
             WriteUnlocked(w, a, changed, content),
             \A f \in Fields \ changed : content[f] = app[a].content[f]
      PROVE  \/ /\ request[w].seen.status = "accepted"
                /\ app'[a].status = "pending"
                /\ app'[a].last_submitted_at > request[w].since
             \/ /\ app'[a].status = app[a].status
                /\ \/ request[w].seen.status # "accepted"
                   \/ \A f \in gate_relevant_fields \cap Fields :
                        app'[a].content[f] = app[a].content[f]
  <2> DEFINE written == [app[a] EXCEPT !.content = content]
  <2>1. CASE /\ ReturnsToReview(request[w].seen, changed)
             /\ \E now \in Readings(w) :
                  Stamp(now) /\ app' = [app EXCEPT ![a] = Returned(written, now)]
    <3>1. PICK now \in Readings(w) : app'[a] = Returned(written, now)
      BY <2>1 DEF TypeOK
    <3>2. app'[a].status = "pending" /\ app'[a].last_submitted_at > request[w].since
      BY <3>1 DEF TypeOK, Rows, Returned, Readings
    <3> QED BY <2>1, <3>2 DEF ReturnsToReview
  <2>2. CASE /\ ~ ReturnsToReview(request[w].seen, changed)
             /\ app' = [app EXCEPT ![a] = written]
    <3>1. app'[a].status = app[a].status /\ app'[a].content = content
      BY <2>2 DEF TypeOK, Rows
    <3> QED BY <1>1, <2>2, <3>1 DEF ReturnsToReview
  <2> QED BY <1>1, <2>1, <2>2 DEF WriteUnlocked
<1>2. CASE edit_app(w, a)
  <2>0. PICK ask \in Edits :
          LET changed == ChangedFields(app[a], request[w].seen, ask) IN
          WriteUnlocked(w, a, changed,
            [f \in Fields |-> IF f \in changed THEN ask[f] ELSE app[a].content[f]])
    BY <1>2 DEF edit_app
  <2> DEFINE changed == ChangedFields(app[a], request[w].seen, ask)
             content == [f \in Fields |-> IF f \in changed THEN ask[f]
                                                           ELSE app[a].content[f]]
  <2>1. WriteUnlocked(w, a, changed, content)
    BY <2>0
  <2>2. \A f \in Fields \ changed : content[f] = app[a].content[f]
    OBVIOUS
  <2>3. /\ request[w].op = "edit" /\ request[w].app = a /\ request'[w] = Idle
        /\ Exists(a) /\ decisions' = decisions /\ reviewed' = reviewed
    BY <1>2 DEF edit_app, Finish, TypeOK
  <2> HIDE DEF changed, content
  <2> QED BY <1>1, <2>1, <2>2, <2>3 DEF Unlocked
<1>3. CASE change_media(w, a)
  <2>1. PICK screenshots \in Values :
          WriteUnlocked(w, a, {"media"},
                        [app[a].content EXCEPT !["media"] = screenshots])
    BY <1>3 DEF change_media
  <2> DEFINE content == [app[a].content EXCEPT !["media"] = screenshots]
  <2>2. /\ WriteUnlocked(w, a, {"media"}, content)
        /\ \A f \in Fields \ {"media"} : content[f] = app[a].content[f]
    BY <2>1 DEF TypeOK, Rows, Contents
  <2>3. /\ request[w].op = "media" /\ request[w].app = a /\ request'[w] = Idle
        /\ Exists(a) /\ decisions' = decisions /\ reviewed' = reviewed
    BY <1>3 DEF change_media, Finish, TypeOK
  <2> HIDE DEF content
  <2> QED BY <1>1, <2>2, <2>3 DEF Unlocked
<1> QED BY <1>2, <1>3

(***************************************************************************)
(* Everything a step can do to the row of one application.                 *)
(***************************************************************************)
Submits(a)    == app[a].status = "absent" /\ app'[a].status = "pending"
TakesBack(a)  == app[a].status \in WithdrawableFrom /\ app'[a].status = "withdrawn"
Accepts(a)    == /\ app[a].status = "pending"
                 /\ app'[a].status = "accepted"
                 /\ app'[a].content = app[a].content
                 /\ reviewed'[a] = app[a].content
Rejects(a)    == app[a].status = "pending" /\ app'[a].status = "rejected"
GoesAway(a)   == Exists(a) /\ app'[a].status = "gone"
OffersAgain(w, a) == /\ request[w].op = "resubmit"
                     /\ request[w].app = a
                     /\ request'[w] = Idle
                     /\ app[a].status \in ResubmittableFrom
                     /\ app'[a].status = "pending"

LEMMA RowMoves ==
  ASSUME TypeOK, [Next]_vars, NEW a \in Apps
  PROVE  \/ app'[a] = app[a] /\ reviewed'[a] = reviewed[a]
         \/ Submits(a) \/ TakesBack(a) \/ Accepts(a) \/ Rejects(a) \/ GoesAway(a)
         \/ \E w \in Workers : OffersAgain(w, a)
         \/ \E w \in Workers : Unlocked(w, a)
<1> DEFINE Still == app'[a] = app[a] /\ reviewed'[a] = reviewed[a]
<1>1. ASSUME NEW c \in Apps, NEW w \in Workers, NEW content \in Contents,
             submit_app(w, c, content)
      PROVE  Still \/ Submits(a)
  BY <1>1 DEF TypeOK, submit_app, Submits
<1>2. ASSUME NEW c \in Apps, delete_owner(c)
      PROVE  Still \/ GoesAway(a)
  <2>1. c = a => app'[a].status = "gone"
    BY <1>2 DEF delete_owner, TypeOK, Rows
  <2>2. c # a => app'[a] = app[a]
    BY <1>2 DEF delete_owner, TypeOK
  <2> QED BY <1>2, <2>1, <2>2 DEF delete_owner, GoesAway
<1>3. ASSUME NEW c \in Apps, NEW w \in Workers, edit_app(w, c) \/ change_media(w, c)
      PROVE  Still \/ Unlocked(w, a)
  <2>1. c = a => Unlocked(w, a)
    BY <1>3, UnlockedMoves
  <2>2. c # a => Still
    BY <1>3 DEF edit_app, change_media, WriteUnlocked, TypeOK
  <2> QED BY <2>1, <2>2
<1>4. ASSUME NEW c \in Apps, NEW w \in Workers, withdraw_app(w, c)
      PROVE  Still \/ TakesBack(a)
  <2>1. c = a => app'[a].status = "withdrawn"
    BY <1>4 DEF withdraw_app, TypeOK, Rows
  <2>2. c # a => app'[a] = app[a]
    BY <1>4 DEF withdraw_app, TypeOK
  <2> QED BY <1>4, <2>1, <2>2 DEF withdraw_app, TakesBack
<1>5. ASSUME NEW c \in Apps, NEW w \in Workers, resubmit_app(w, c)
      PROVE  Still \/ OffersAgain(w, a)
  <2>1. PICK now : app' = [app EXCEPT ![c] = Returned(app[c], now)]
    BY <1>5 DEF TypeOK, resubmit_app
  <2>2. c = a => app'[a].status = "pending"
    BY <2>1 DEF Returned, TypeOK, Rows
  <2>3. c # a => app'[a] = app[a]
    BY <2>1 DEF TypeOK
  <2>4. /\ request[w].op = "resubmit" /\ request[w].app = c /\ request'[w] = Idle
        /\ app[c].status \in ResubmittableFrom /\ reviewed' = reviewed
    BY <1>5 DEF resubmit_app, Finish, TypeOK
  <2> QED BY <2>2, <2>3, <2>4 DEF OffersAgain
<1>6. ASSUME NEW c \in Apps, NEW w \in Workers, accept_app(w, c)
      PROVE  Still \/ Accepts(a)
  <2>0. PICK now : app' = [app EXCEPT ![c].status = "accepted", ![c].accepted_at = now]
    BY <1>6 DEF accept_app
  <2>1. app' = [app EXCEPT ![c] = [app[c] EXCEPT !.status = "accepted", !.accepted_at = now]]
    BY <2>0 DEF TypeOK
  <2>2. c = a => app'[a].status = "accepted" /\ app'[a].content = app[a].content
    BY <2>1 DEF TypeOK, Rows
  <2>3. c # a => Still
    BY <1>6, <2>1 DEF TypeOK, accept_app
  <2>4. c = a => reviewed'[a] = app[a].content
    BY <1>6 DEF TypeOK, accept_app
  <2> QED BY <1>6, <2>2, <2>3, <2>4 DEF accept_app, LockPending, Accepts
<1>7. ASSUME NEW c \in Apps, NEW w \in Workers, reject_app(w, c)
      PROVE  Still \/ Rejects(a)
  <2>1. app' = [app EXCEPT ![c] = [app[c] EXCEPT !.status = "rejected"]]
    BY <1>7 DEF TypeOK, reject_app
  <2>2. c = a => app'[a].status = "rejected"
    BY <2>1 DEF TypeOK, Rows
  <2>3. c # a => Still
    BY <1>7, <2>1 DEF TypeOK, reject_app
  <2> QED BY <1>7, <2>2, <2>3 DEF reject_app, LockPending, Rejects
<1>8. ASSUME NEW c \in Apps, NEW w \in Workers,
             OwnerOpens(w, c) \/ ReviewerOpens(w, c) \/ notify_decision(w, c)
      PROVE  Still
  BY <1>8 DEF OwnerOpens, ReviewerOpens, Load, notify_decision
<1>9. ASSUME NEW w \in Workers, DeveloperOpens(w) \/ Abandon(w)
      PROVE  Still
  BY <1>9 DEF DeveloperOpens, Load, Abandon
<1> HIDE DEF Still
<1>10. CASE Next
  BY <1>10, <1>1, <1>2, <1>3, <1>4, <1>5, <1>6, <1>7, <1>8, <1>9 DEF Next, Commit, Still
<1> QED BY <1>10 DEF vars, Still

\* However many requests overlap, an application leaves the withdrawn and the rejected
\* ones only by resubmit_app or a stale edit, and is shown with gate-relevant content
\* that nobody accepted only after a stale one.
THEOREM DamageIsStale == Spec => OnlyStaleWritesDamage
<1> DEFINE Only == \A a \in Apps : ReturnsAsOffered(a) /\ DriftsByStaleWrite(a)
<1>1. IInv /\ [Next]_vars => [Only]_vars
  <2> SUFFICES ASSUME IInv, [Next]_vars, NEW a \in Apps
               PROVE  ReturnsAsOffered(a) /\ DriftsByStaleWrite(a)
    OBVIOUS
  <2>1. ReturnsAsOffered(a)
    <3> SUFFICES ASSUME app[a].status \in ResubmittableFrom, app'[a].status \in Statuses,
                        app'[a].status \notin {app[a].status, "withdrawn"}
                 PROVE  Reoffered(a) \/ PullsBack(a)
      BY DEF ReturnsAsOffered
    <3>1. (\E w \in Workers : OffersAgain(w, a)) \/ \E w \in Workers : Unlocked(w, a)
      BY RowMoves DEF IInv, Submits, TakesBack, Accepts, Rejects, GoesAway,
                      ResubmittableFrom, Statuses
    <3>2. ASSUME NEW w \in Workers, OffersAgain(w, a)
          PROVE  Reoffered(a)
      BY <3>2 DEF OffersAgain, Reoffered
    <3>3. ASSUME NEW w \in Workers, Unlocked(w, a)
          PROVE  PullsBack(a)
      BY <3>3 DEF Unlocked, PullsBack, StaleWrite, ResubmittableFrom
    <3> QED BY <3>1, <3>2, <3>3
  <2>2. DriftsByStaleWrite(a)
    <3> SUFFICES ASSUME NEW f \in gate_relevant_fields \cap Fields,
                        app[a].status = "accepted", app'[a].status = "accepted",
                        app'[a].content[f] # app[a].content[f]
                 PROVE  \E w \in Workers : StaleWrite(w, a)
      BY DEF DriftsByStaleWrite
    <3>1. PICK w \in Workers : Unlocked(w, a)
      BY RowMoves DEF IInv, Submits, TakesBack, Accepts, Rejects, GoesAway, OffersAgain
    <3> QED BY <3>1 DEF Unlocked, StaleWrite
  <2> QED BY <2>1, <2>2
<1> QED BY <1>1, IInvHolds, PTL DEF Spec, OnlyStaleWritesDamage

-------------------------------------------------------------------------------
(***************************************************************************)
(* When no write is stale, and so when requests do not overlap, the        *)
(* catalogue shows what was reviewed and the rows implement IntakeGate.    *)
(***************************************************************************)
NoStaleWrite ==
  \A w \in Workers, a \in Apps :
    edit_app(w, a) \/ change_media(w, a) => ~ StaleWrite(w, a)

WritesFresh == [][NoStaleWrite]_vars

Serial == \A v, w \in Workers : v = w

ReviewedInv == TypeOK /\ CataloguedContentWasReviewed

LEMMA ReviewedStep == ReviewedInv /\ [Next]_vars /\ [NoStaleWrite]_vars => ReviewedInv'
<1> SUFFICES ASSUME ReviewedInv, [Next]_vars, [NoStaleWrite]_vars PROVE ReviewedInv'
  OBVIOUS
<1>1. TypeOK /\ TypeOK'
  BY StepType DEF ReviewedInv
<1>2. CASE UNCHANGED vars
  BY <1>1, <1>2 DEF vars, ReviewedInv, CataloguedContentWasReviewed
<1>3. CASE NoStaleWrite
  <2> SUFFICES ASSUME NEW a \in Apps, app'[a].status = "accepted",
                      NEW f \in gate_relevant_fields \cap Fields
               PROVE  app'[a].content[f] = reviewed'[a][f]
    BY <1>1 DEF ReviewedInv, CataloguedContentWasReviewed
  <2>1. CASE app'[a] = app[a] /\ reviewed'[a] = reviewed[a]
    BY <2>1 DEF ReviewedInv, CataloguedContentWasReviewed
  <2>2. CASE Accepts(a)
    BY <2>2 DEF Accepts
  <2>3. ASSUME NEW w \in Workers, Unlocked(w, a)
        PROVE  app'[a].content[f] = reviewed'[a][f]
    BY <1>3, <2>3 DEF NoStaleWrite, StaleWrite, Unlocked, ReviewedInv,
                      CataloguedContentWasReviewed
  <2> QED BY <1>1, <2>1, <2>2, <2>3, RowMoves
             DEF Submits, TakesBack, Rejects, GoesAway, OffersAgain
<1> QED BY <1>2, <1>3

LEMMA ReviewedInit == Init => ReviewedInv
<1> SUFFICES ASSUME Init PROVE ReviewedInv
  OBVIOUS
<1>1. TypeOK
  BY BlankType, BoundsAssumption DEF Init, TypeOK, Rows, Requests, Times
<1> QED BY <1>1 DEF Init, ReviewedInv, CataloguedContentWasReviewed

\* Whatever the number of workers: while no edit is committed on a status that has changed
\* since it was loaded, the catalogue shows what accept_app accepted.
THEOREM ReviewedWhileFresh == Spec /\ WritesFresh => []CataloguedContentWasReviewed
<1>1. ReviewedInv => CataloguedContentWasReviewed
  BY DEF ReviewedInv
<1> QED BY <1>1, ReviewedInit, ReviewedStep, PTL DEF Spec, WritesFresh

(***************************************************************************)
(* The refinement: each kind of step is a step of the gate, or stutters.   *)
(***************************************************************************)
StatusMap == [a \in Apps |-> app[a].status]
VerdictMap == [a \in Apps |-> [i \in DOMAIN decisions[a] |-> decisions[a][i].outcome]]

LEMMA OutcomesAppend ==
  ASSUME NEW log \in Seq(Decisions), NEW d \in Decisions
  PROVE  [i \in DOMAIN Append(log, d) |-> Append(log, d)[i].outcome]
           = Append([i \in DOMAIN log |-> log[i].outcome], d.outcome)
<1> DEFINE old == [i \in DOMAIN log |-> log[i].outcome]
           both == [i \in DOMAIN Append(log, d) |-> Append(log, d)[i].outcome]
<1>1. old \in Seq({"accepted", "rejected"}) /\ Len(old) = Len(log)
  <2>1. DOMAIN log = 1 .. Len(log) /\ Len(log) \in Nat
    OBVIOUS
  <2>2. \A i \in 1 .. Len(log) : old[i] \in {"accepted", "rejected"}
    <3>1. \A i \in 1 .. Len(log) : log[i] \in Decisions
      BY <2>1
    <3> QED BY <2>1, <3>1 DEF Decisions
  <2> QED BY <2>1, <2>2
<1>2. d.outcome \in {"accepted", "rejected"}
  BY DEF Decisions
<1>3. DOMAIN both = 1 .. Len(log) + 1 /\ DOMAIN Append(old, d.outcome) = 1 .. Len(log) + 1
  BY <1>1, <1>2
<1>4. \A i \in 1 .. Len(log) + 1 : both[i] = Append(old, d.outcome)[i]
  BY <1>1, <1>2
<1>5. both = Append(old, d.outcome)
  <2>1. both = [i \in DOMAIN both |-> both[i]]
    OBVIOUS
  <2>2. Append(old, d.outcome)
          = [i \in DOMAIN Append(old, d.outcome) |-> Append(old, d.outcome)[i]]
    BY <1>1, <1>2
  <2> HIDE DEF both, old
  <2> QED BY <2>1, <2>2, <1>3, <1>4
<1> QED BY <1>5

LEMMA GateStep ==
  ASSUME TypeOK, [Next]_vars, [NoStaleWrite]_vars
  PROVE  [Gate!GateNext]_Gate!gateVars
<1>1. CASE UNCHANGED <<app, decisions>>
  BY <1>1 DEF Gate!gateVars
<1>2. ASSUME NEW c \in Apps, WritesRow(c)
      PROVE  Gate!GateNext \/ UNCHANGED <<StatusMap, VerdictMap>>
  <2>1. /\ \A b \in Apps \ {c} : app'[b] = app[b] /\ decisions'[b] = decisions[b]
        /\ app[c].status # "gone"
    BY <1>2 DEF WritesRow
  <2>2. /\ StatusMap' = [StatusMap EXCEPT ![c] = app'[c].status]
        /\ StatusMap[c] = app[c].status
    BY <2>1 DEF StatusMap
  <2>3. ASSUME decisions'[c] = decisions[c] PROVE UNCHANGED VerdictMap
    BY <2>1, <2>3 DEF VerdictMap
  <2>4. CASE app'[c].status = app[c].status /\ decisions'[c] = decisions[c]
    BY <2>1, <2>3, <2>4 DEF StatusMap
  <2>5. CASE Queues(c)
    <3>1. UNCHANGED VerdictMap /\ app'[c].status = "pending"
      BY <2>3, <2>5 DEF Queues
    <3>2. CASE Submits(c)
      BY <2>2, <3>1, <3>2 DEF Submits, StatusMap, VerdictMap,
                              Gate!GateNext, Gate!GateSubmit, Gate!Move
    <3>3. CASE \E w \in Workers : OffersAgain(w, c)
      BY <2>2, <3>1, <3>3 DEF OffersAgain, ResubmittableFrom, StatusMap, VerdictMap,
                              Gate!GateNext, Gate!GateResubmit, Gate!Move
    <3>4. CASE app[c].status = "accepted"
      BY <2>2, <3>1, <3>4 DEF StatusMap, VerdictMap,
                              Gate!GateNext, Gate!GateReReview, Gate!Move
    <3>5. CASE app[c].status = "pending"
      BY <2>4, <2>5, <3>5 DEF Queues
    <3>6. ASSUME NEW w \in Workers, Unlocked(w, c)
          PROVE  app[c].status \in {"accepted", "pending"}
      BY <3>1, <3>6 DEF vars, NoStaleWrite, StaleWrite, Unlocked, Exists
    <3>7. CASE UNCHANGED vars
      BY <3>7, <3>1, <3>5 DEF vars
    <3>8. app'[c] = app[c] => app[c].status = "pending"
      BY <3>1
    <3> QED BY <3>1, <3>2, <3>3, <3>4, <3>5, <3>6, <3>8, RowMoves
               DEF TakesBack, Accepts, Rejects, GoesAway
  <2>6. CASE Withdraws(c)
    <3>1. UNCHANGED VerdictMap /\ app'[c].status = "withdrawn"
      BY <2>3, <2>6 DEF Withdraws
    <3>2. CASE TakesBack(c)
      BY <2>2, <3>1, <3>2 DEF TakesBack, WithdrawableFrom, StatusMap, VerdictMap,
                              Gate!GateNext, Gate!GateWithdraw, Gate!Move
    <3>3. CASE app[c].status = "withdrawn"
      BY <2>4, <2>6, <3>3 DEF Withdraws
    <3> QED BY <3>1, <3>2, <3>3, RowMoves
               DEF Submits, Accepts, Rejects, GoesAway, OffersAgain, Unlocked
  <2>7. CASE Decides(c)
    <3>1. PICK d \in Decisions : /\ decisions'[c] = Append(decisions[c], d)
                                 /\ app'[c].status = d.outcome
      BY <2>7 DEF Decides
    <3>2. decisions[c] \in Seq(Decisions) /\ d.outcome \in Gate!Outcomes
      BY DEF TypeOK, Decisions, Gate!Outcomes
    <3>3. VerdictMap' = [VerdictMap EXCEPT ![c] = Append(@, d.outcome)]
      <4>1. [i \in DOMAIN decisions'[c] |-> decisions'[c][i].outcome]
              = Append(VerdictMap[c], d.outcome)
        BY <3>1, <3>2, OutcomesAppend DEF VerdictMap
      <4> QED BY <2>1, <4>1 DEF VerdictMap
    <3>4. Gate!Move(c, {"pending"}, d.outcome)
      BY <2>2, <2>7, <3>1 DEF Decides, StatusMap, Gate!Move
    <3> QED BY <3>2, <3>3, <3>4 DEF VerdictMap, Gate!GateNext, Gate!GateDecide
  <2>8. CASE Removes(c)
    <3>1. VerdictMap' = [VerdictMap EXCEPT ![c] = <<>>]
      <4>1. [i \in DOMAIN decisions'[c] |-> decisions'[c][i].outcome] = <<>>
        BY <2>8 DEF Removes
      <4> QED BY <2>1, <4>1 DEF VerdictMap
    <3>2. app'[c].status = "gone" /\ Exists(c)
      BY <2>1, <2>8, RowMoves DEF Removes, Submits, TakesBack, Accepts, Rejects, GoesAway,
                                  OffersAgain, Unlocked
    <3> QED BY <2>2, <3>1, <3>2 DEF Exists, Statuses, StatusMap, VerdictMap,
                                    Gate!GateNext, Gate!GateRemove, Gate!Move
  <2>9. Keeps(c) \/ Queues(c) \/ Withdraws(c) \/ Decides(c) \/ Removes(c)
    BY RowStep DEF TouchesOnly, Keeps
  <2> QED BY <2>4, <2>5, <2>6, <2>7, <2>8, <2>9 DEF Keeps
<1> QED BY <1>1, <1>2, OneRowWritten DEF Gate!gateVars, StatusMap, VerdictMap

\* Whatever the number of workers: while no write is stale, the rows and their decisions
\* move only as the intake gate allows.
THEOREM GateWhileFresh == Spec /\ WritesFresh => ImplementsGate
<1>1. Init => Gate!GateInit
  BY DEF Init, Gate!GateInit
<1>2. TypeOK /\ [Next]_vars /\ [NoStaleWrite]_vars => [Gate!GateNext]_Gate!gateVars
  BY GateStep
<1> QED BY <1>1, <1>2, TypeCorrect, PTL
           DEF Spec, WritesFresh, ImplementsGate, Gate!GateSpec

(***************************************************************************)
(* Requests that do not overlap write fresh: only the owner's account      *)
(* going can come between a load and its commit.                           *)
(***************************************************************************)
SeenIsCurrent ==
  \A w \in Workers : request[w].op \in {"edit", "media"} /\ Exists(request[w].app) =>
    request[w].seen = Copy(request[w].app)

SerialInv == TypeOK /\ RequestsKnown /\ SeenIsCurrent

LEMMA CommitMoves ==
  ASSUME TypeOK, NEW w \in Workers, NEW a \in Apps, Commit(w, a)
  PROVE  request'[w] # request[w]
<1>1. CASE accept_app(w, a) \/ reject_app(w, a)
  BY <1>1 DEF accept_app, reject_app, Decide, TypeOK
<1>2. CASE \E content \in Contents : submit_app(w, a, content)
  BY <1>2 DEF submit_app, TypeOK, Idle
<1>3. CASE edit_app(w, a) \/ change_media(w, a) \/ withdraw_app(w, a) \/ resubmit_app(w, a)
  BY <1>3 DEF edit_app, change_media, withdraw_app, resubmit_app, Finish, TypeOK, Idle
<1> QED BY <1>1, <1>2, <1>3 DEF Commit

\* While the one request is not finished, only the owner's account can go.
LEMMA SerialQuiet ==
  ASSUME Serial, TypeOK, [Next]_vars, NEW w \in Workers, request'[w] = request[w]
  PROVE  /\ clock' = clock
         /\ app' = app \/ \E c \in Apps : delete_owner(c)
<1>1. ASSUME NEW c \in Apps, delete_owner(c)
      PROVE  clock' = clock
  BY <1>1 DEF delete_owner
<1>2. ASSUME NEW c \in Apps, NEW v \in Workers, Commit(v, c)
      PROVE  FALSE
  BY <1>2, CommitMoves DEF Serial
<1>3. ASSUME NEW c \in Apps, NEW v \in Workers,
             OwnerOpens(v, c) \/ ReviewerOpens(v, c) \/ notify_decision(v, c)
      PROVE  app' = app /\ clock' = clock
  BY <1>3 DEF OwnerOpens, ReviewerOpens, Load, notify_decision
<1>4. ASSUME NEW v \in Workers, DeveloperOpens(v) \/ Abandon(v)
      PROVE  app' = app /\ clock' = clock
  BY <1>4 DEF DeveloperOpens, Load, Abandon
<1>5. CASE Next
  BY <1>5, <1>1, <1>2, <1>3, <1>4 DEF Next
<1> QED BY <1>5 DEF vars

LEMMA SerialStep == ASSUME Serial PROVE SerialInv /\ [Next]_vars => SerialInv'
<1> SUFFICES ASSUME SerialInv, [Next]_vars PROVE SerialInv'
  OBVIOUS
<1>1. TypeOK /\ TypeOK' /\ RequestsKnown'
  BY StepType, KnownStep DEF SerialInv
<1>2. ASSUME NEW w \in Workers, request'[w].op \in {"edit", "media"},
             (Exists(request[w].app))'
      PROVE  (request[w].seen = Copy(request[w].app))'
  <2> DEFINE b == request'[w].app
  <2>1. CASE Taken(w)
    BY <1>2, <2>1 DEF Taken, Copy
  <2>2. CASE request'[w] = request[w]
    <3>1. request[w] # Idle
      BY <1>2, <2>2 DEF Idle
    <3>2. b \in Apps /\ app[b].status # "absent" /\ b = request[w].app
      BY <3>1, <1>2, <2>2, RequestApp, <1>1 DEF SerialInv, RequestsKnown, About
    <3>3. app'[b] = app[b]
      <4>2. ASSUME NEW c \in Apps, delete_owner(c)
            PROVE  app'[b] = app[b]
        <5>1. app' = [app EXCEPT ![c] = [app[c] EXCEPT !.status = "gone"]]
          BY <4>2, <1>1 DEF delete_owner, TypeOK
        <5>2. c # b
          BY <5>1, <1>2, <1>1 DEF Exists, Statuses, TypeOK, Rows
        <5> QED BY <3>2, <5>1, <5>2, <1>1 DEF TypeOK
      <4> QED BY <1>1, <2>2, <4>2, SerialQuiet
    <3>4. Exists(b) /\ request[w].seen = Copy(b)
      BY <3>2, <3>3, <2>2, <1>2 DEF Exists, SerialInv, SeenIsCurrent
    <3> QED BY <3>2, <3>3, <3>4, <2>2 DEF Copy
  <2> QED BY <1>1, <1>2, <2>1, <2>2, RequestStep DEF TellsNext, Idle
<1> QED BY <1>1, <1>2 DEF SerialInv, SeenIsCurrent

\* With one request at a time every write is on the status it was loaded with.
LEMMA SerialIsFresh == ASSUME Serial PROVE Spec => WritesFresh
<1>1. Init => SerialInv
  <2> SUFFICES ASSUME Init PROVE SerialInv
    OBVIOUS
  <2>1. TypeOK
    BY BlankType, BoundsAssumption DEF Init, TypeOK, Rows, Requests, Times
  <2> QED BY <2>1 DEF Init, SerialInv, RequestsKnown, About, SeenIsCurrent, Idle
<1>2. SerialInv => NoStaleWrite
  <2> SUFFICES ASSUME SerialInv, NEW w \in Workers, NEW a \in Apps,
                      edit_app(w, a) \/ change_media(w, a), StaleWrite(w, a)
               PROVE  FALSE
    BY DEF NoStaleWrite
  <2>1. request[w].op \in {"edit", "media"} /\ request[w].app = a
    BY DEF StaleWrite
  <2>2. Exists(a)
    BY DEF edit_app, change_media
  <2>3. request[w].seen = Copy(a)
    BY <2>1, <2>2 DEF SerialInv, SeenIsCurrent
  <2> QED BY <2>3 DEF Copy, StaleWrite
<1> QED BY <1>1, <1>2, SerialStep, PTL DEF Spec, WritesFresh

\* Requests that do not overlap show only reviewed content.
THEOREM SerialShowsReviewed ==
  ASSUME Serial PROVE Spec => []CataloguedContentWasReviewed
BY SerialIsFresh, ReviewedWhileFresh, PTL

\* Requests that do not overlap implement the intake gate.
THEOREM SerialImplementsGate == ASSUME Serial PROVE Spec => ImplementsGate
BY SerialIsFresh, GateWhileFresh, PTL

(***************************************************************************)
(* With one request at a time nothing is stamped while it is served, and   *)
(* the queue is in the order of the entries.                               *)
(***************************************************************************)
NothingStampedSince ==
  \A w \in Workers : request[w].op \in Queueing => request[w].since = clock

LEMMA SinceStep ==
  ASSUME Serial
  PROVE  TypeOK /\ NothingStampedSince /\ [Next]_vars => NothingStampedSince'
<1> SUFFICES ASSUME TypeOK, NothingStampedSince, [Next]_vars,
                    NEW w \in Workers, request'[w].op \in Queueing
             PROVE  request'[w].since = clock'
  BY DEF NothingStampedSince
<1>1. CASE request'[w] = request[w]
  BY <1>1, SerialQuiet DEF NothingStampedSince
<1>2. CASE Taken(w)
  BY <1>2 DEF Taken
<1> QED BY <1>1, <1>2, RequestStep DEF TellsNext, Idle, Queueing

\* Served one at a time, whoever enters the review queue enters it behind everyone who
\* waits.
THEOREM SerialQueue == ASSUME Serial PROVE Spec => QueuedAtTheBack
<1> DEFINE Behind ==
      \A a, b \in Apps :
        EntersQueue(a) /\ a # b /\ app'[b].status = "pending" => QueuedBehind(a, b)
<1>1. Init => NothingStampedSince
  BY DEF Init, NothingStampedSince, Idle, Queueing
<1>2. IInv => TypeOK
  BY DEF IInv
<1>3. IInv /\ NothingStampedSince /\ [Next]_vars => [Behind]_vars
  <2> SUFFICES ASSUME IInv, NothingStampedSince, [Next]_vars,
                      NEW a \in Apps, NEW b \in Apps, EntersQueue(a), a # b
               PROVE  QueuedBehind(a, b)
    OBVIOUS
  <2>1. PICK w \in Workers : StampedBy(w, a)
    BY EntryStep
  <2>2. request[w].since = clock
    BY <2>1 DEF StampedBy, NothingStampedSince
  <2>3. /\ app'[b].last_submitted_at = app[b].last_submitted_at
        /\ app[b].last_submitted_at <= clock
        /\ app[b].last_submitted_at \in Nat /\ clock \in Nat
    BY EntryStep
  <2> QED BY <2>1, <2>2, <2>3 DEF StampedBy, QueuedBehind
<1> QED BY <1>1, <1>2, <1>3, IInvHolds, SinceStep, PTL DEF Spec, QueuedAtTheBack
===============================================================================
