------------------------------ MODULE LimitsProofs ------------------------------
(***************************************************************************)
(* The limits, the counters and the reader of MCLimitsAndReads, for any    *)
(* number of requests, workers and shows, any applications, limits,        *)
(* faults, days and defaults.  The limiter and the attribution cookie have *)
(* modules of their own, whose lemmas are used here for each of their two  *)
(* instances; the reception page comes last, after the calendar and the    *)
(* sums it rests on.                                                       *)
(***************************************************************************)
EXTENDS MCLimitsAndReads, Sequences, FiniteSetTheorems, FunctionTheorems, WellFoundedInduction, TLAPS

FormsLimiter == INSTANCE RateLimitProofs WITH
  Keys <- <<"ip", "email">>, Limit <- <<2, 1>>, FailOpen <- FALSE, Window <- 2
ReadsLimiter == INSTANCE RateLimitProofs WITH
  Keys <- <<"ip">>, Limit <- <<2>>, FailOpen <- TRUE, Window <- 2
VisitsSource == INSTANCE WidgetSourceProofs WITH
  Requests <- {CHOOSE w \in Workers : TRUE}, Window <- 2, MaxClicks <- 2, LastDay <- 3
TabsSource == INSTANCE WidgetSourceProofs WITH
  Requests <- Workers, Window <- 2, MaxClicks <- 1, LastDay <- 2

\* A step is a step of one part, and leaves the others alone.
LEMMA OnePart ==
  ASSUME [Next]_vars
  PROVE  /\ part' = part
         /\ part = "forms" => [Forms!RateNext]_rate
         /\ part # "forms" => [Reads!RateNext]_rate
         /\ part = "deployment" => [Deployed!DeploymentNext]_deployment
         /\ [NoticeNext]_noticeVars
         /\ [Rollup!RollupNext]_rollup
         /\ part = "visits" => [Visits!SourceNext]_source
         /\ part # "visits" => [Tabs!SourceNext]_source
         /\ part = "reception" => [Page!ReceptionNext]_reception
BY DEF Next, vars, counts, FormsStep, ReadsStep, DeploymentStep, PostsStep, RollupStep, VisitsStep,
       TabsStep, ReceptionStep, Alone, Reading, Counting
-------------------------------------------------------------------------------
(***************************************************************************)
(* The limit on notices.  What a window holds is bounded only together     *)
(* with what is still to come: the posts that have counted and not         *)
(* inserted yet.                                                           *)
(***************************************************************************)
Posting == {w \in Workers : posting[w] = "counted"}

\* The notices of the window and the posts that were let through.
WindowAndPosts ==
  Cardinality(Recent) + Cardinality(Posting) <= MaxPosts + Cardinality(Workers) - 1

LEMMA NoticeTypeInit == NoticeInit => NoticeTypeOK
BY NoticeConstants, FS_EmptySet DEF NoticeAssumption, NoticeInit, NoticeTypeOK

LEMMA NoticeTypeStep ==
  ASSUME NoticeTypeOK, [NoticeNext]_noticeVars
  PROVE  NoticeTypeOK'
<1> USE DEF NoticeTypeOK
<1>1. ASSUME NEW w \in Workers, PassesLimit(w) \/ PostFails(w) PROVE NoticeTypeOK'
  BY <1>1 DEF PassesLimit, PostFails
<1>2. ASSUME NEW w \in Workers, CreateNotice(w) PROVE NoticeTypeOK'
  <2>1. PICK id \in NoticeIds : notices' = notices \cup {[id |-> id, at |-> now]}
    BY <1>2 DEF CreateNotice
  <2>2. IsFiniteSet(notices')
    BY <2>1, FS_AddElement
  <2>3. notices' \subseteq Notices
    BY <2>1 DEF Notices
  <2> QED BY <1>2, <2>2, <2>3 DEF CreateNotice
<1>3. ASSUME NEW n \in notices, withdraw_notice(n) PROVE NoticeTypeOK'
  <2>1. notices' = notices \ {n}
    BY <1>3 DEF withdraw_notice
  <2>2. IsFiniteSet(notices')
    BY <2>1, FS_RemoveElement
  <2> QED BY <1>3, <2>1, <2>2 DEF withdraw_notice
<1>4. CASE AuthorLeaves
  <2>1. IsFiniteSet(notices')
    BY <1>4, FS_EmptySet DEF AuthorLeaves
  <2> QED BY <1>4, <2>1 DEF AuthorLeaves
<1>5. CASE HourPasses
  <2>1. now' \in 0 .. LastHour
    BY <1>5, NoticeConstants DEF HourPasses, NoticeAssumption
  <2> QED BY <1>5, <2>1 DEF HourPasses
<1>6. CASE UNCHANGED noticeVars
  BY <1>6 DEF noticeVars
<1> QED BY <1>1, <1>2, <1>3, <1>4, <1>5, <1>6 DEF NoticeNext

LEMMA Finite ==
  ASSUME NoticeTypeOK
  PROVE  /\ IsFiniteSet(Recent) /\ Cardinality(Recent) \in Nat
         /\ IsFiniteSet(Posting) /\ Cardinality(Posting) \in Nat
         /\ Cardinality(Workers) \in Nat \ {0}
<1>1. Recent \in SUBSET notices /\ IsFiniteSet(notices)
  BY DEF Recent, NoticeTypeOK
<1>2. Posting \in SUBSET Workers /\ IsFiniteSet(Workers) /\ Workers # {}
  BY NoticeConstants DEF Posting, NoticeAssumption
<1>3. IsFiniteSet(Recent) /\ IsFiniteSet(Posting)
  BY <1>1, <1>2, FS_Subset
<1>4. Cardinality(Workers) # 0
  BY <1>2, FS_EmptySet
<1> QED BY <1>2, <1>3, <1>4, FS_CardinalityType

LEMMA OneMore ==
  ASSUME NEW S, NEW x, IsFiniteSet(S)
  PROVE  IsFiniteSet(S \cup {x}) /\ Cardinality(S \cup {x}) <= Cardinality(S) + 1
<1>1. Cardinality(S) \in Nat
  BY FS_CardinalityType
<1>2. CASE x \in S
  <2>1. IsFiniteSet(S \cup {x}) /\ Cardinality(S \cup {x}) = Cardinality(S)
    BY <1>2, FS_AddElement
  <2> QED BY <1>1, <2>1
<1>3. CASE x \notin S
  <2>1. IsFiniteSet(S \cup {x}) /\ Cardinality(S \cup {x}) = Cardinality(S) + 1
    BY <1>3, FS_AddElement
  <2> QED BY <1>1, <2>1
<1> QED BY <1>2, <1>3

\* Who posts no longer is out of the count, and the window has not grown.
LEMMA Shrinks ==
  ASSUME NoticeTypeOK, WindowAndPosts,
         Recent' \subseteq Recent, Posting' \subseteq Posting
  PROVE  WindowAndPosts'
<1>1. Cardinality(Recent') <= Cardinality(Recent) /\ Cardinality(Recent') \in Nat
  BY Finite, FS_Subset, FS_CardinalityType
<1>2. Cardinality(Posting') <= Cardinality(Posting) /\ Cardinality(Posting') \in Nat
  BY Finite, FS_Subset, FS_CardinalityType
<1> QED BY <1>1, <1>2, Finite, NoticeConstants DEF WindowAndPosts, NoticeAssumption

LEMMA WindowStep ==
  ASSUME NoticeTypeOK, WindowAndPosts, [NoticeNext]_noticeVars
  PROVE  WindowAndPosts'
<1>1. ASSUME NEW w \in Workers, PassesLimit(w) PROVE WindowAndPosts'
  <2>1. Recent' = Recent /\ Cardinality(Recent) < MaxPosts
    BY <1>1 DEF PassesLimit, Recent
  <2>2. Posting' \in SUBSET Workers
    BY DEF Posting
  <2>3. Cardinality(Posting') <= Cardinality(Workers) /\ Cardinality(Posting') \in Nat
    BY <2>2, FS_Subset, FS_CardinalityType, NoticeConstants DEF NoticeAssumption
  <2> QED BY <2>1, <2>3, Finite, NoticeConstants DEF WindowAndPosts, NoticeAssumption
<1>2. ASSUME NEW w \in Workers, CreateNotice(w) PROVE WindowAndPosts'
  <2>1. PICK id \in NoticeIds : notices' = notices \cup {[id |-> id, at |-> now]}
    BY <1>2 DEF CreateNotice
  <2> DEFINE row == [id |-> id, at |-> now]
  <2>2. Recent' \subseteq Recent \cup {row}
    BY <1>2, <2>1 DEF CreateNotice, Recent
  <2>3. Posting' = Posting \ {w} /\ w \in Posting
    BY <1>2 DEF CreateNotice, Posting, NoticeTypeOK
  <2>4. /\ IsFiniteSet(Recent \cup {row})
        /\ Cardinality(Recent \cup {row}) <= Cardinality(Recent) + 1
    BY Finite, OneMore
  <2>5. Cardinality(Recent') <= Cardinality(Recent) + 1 /\ Cardinality(Recent') \in Nat
    <3>1. /\ IsFiniteSet(Recent') /\ Cardinality(Recent') <= Cardinality(Recent \cup {row})
      BY <2>2, <2>4, FS_Subset
    <3>2. Cardinality(Recent') \in Nat /\ Cardinality(Recent \cup {row}) \in Nat
      BY <2>4, <3>1, FS_CardinalityType
    <3> QED BY <2>4, <3>1, <3>2, Finite
  <2>6. Cardinality(Posting') = Cardinality(Posting) - 1
    BY <2>3, Finite, FS_RemoveElement
  <2> QED BY <2>5, <2>6, Finite, NoticeConstants DEF WindowAndPosts, NoticeAssumption
<1>3. ASSUME NEW w \in Workers, PostFails(w) PROVE WindowAndPosts'
  <2>1. Recent' = Recent
    BY <1>3 DEF PostFails, Recent
  <2>2. Posting' \subseteq Posting
    BY <1>3 DEF PostFails, Posting, NoticeTypeOK
  <2> QED BY <2>1, <2>2, Shrinks
<1>4. ASSUME NEW n \in notices, withdraw_notice(n) PROVE WindowAndPosts'
  BY <1>4, Shrinks DEF withdraw_notice, Recent, Posting
<1>5. CASE AuthorLeaves
  BY <1>5, Shrinks DEF AuthorLeaves, Recent, Posting
<1>6. CASE HourPasses
  <2>1. \A n \in notices : n.at \in Int
    BY DEF NoticeTypeOK, Notices
  <2>2. Recent' \subseteq Recent
    BY <1>6, <2>1, NoticeConstants DEF HourPasses, Recent, NoticeTypeOK, NoticeAssumption
  <2>3. Posting' = Posting
    BY <1>6 DEF HourPasses, Posting
  <2> QED BY <2>2, <2>3, Shrinks
<1>7. CASE UNCHANGED noticeVars
  BY <1>7, Shrinks DEF noticeVars, Recent, Posting
<1> QED BY <1>1, <1>2, <1>3, <1>4, <1>5, <1>6, <1>7 DEF NoticeNext

\* The posting limit (_enforce_rate_limit) is exceeded by one post at most for each
\* further request that had counted already (PostsBounded), for any limit and any number
\* of requests at once.
THEOREM NoticesBounded == Spec => []PostsBounded
<1> DEFINE IInv == NoticeTypeOK /\ WindowAndPosts
<1>1. Init => IInv
  <2> SUFFICES ASSUME NoticeInit PROVE IInv
    BY DEF Init
  <2>1. Recent = {} /\ Posting = {}
    BY DEF NoticeInit, Recent, Posting
  <2>2. NoticeTypeOK
    BY NoticeTypeInit
  <2>3. WindowAndPosts
    BY <2>1, <2>2, Finite, FS_EmptySet, NoticeConstants DEF WindowAndPosts, NoticeAssumption
  <2> QED BY <2>2, <2>3
<1>2. IInv /\ [Next]_vars => IInv'
  BY OnePart, NoticeTypeStep, WindowStep
<1>3. IInv => PostsBounded
  BY Finite, NoticeConstants DEF WindowAndPosts, PostsBounded, NoticeAssumption
<1> QED BY <1>1, <1>2, <1>3, PTL DEF Spec
-------------------------------------------------------------------------------
(***************************************************************************)
(* The two limiters: their invariant is RateInv of RateLimitProofs.        *)
(***************************************************************************)
LEMMA FormsSame ==
  /\ Forms!RateInit <=> FormsLimiter!RateInit
  /\ [Forms!RateNext]_rate <=> [FormsLimiter!RateNext]_FormsLimiter!rateVars
  /\ Forms!PassesBounded <=> FormsLimiter!PassesBounded
  /\ Forms!RateAssumption <=> FormsLimiter!RateAssumption
  /\ Forms!RateTypeOK <=> FormsLimiter!RateTypeOK
<1> USE DEF Forms!At, FormsLimiter!At, Forms!Move, FormsLimiter!Move, Forms!Present, FormsLimiter!Present,
  Forms!Absent, FormsLimiter!Absent, Forms!NoRequest, FormsLimiter!NoRequest,
  Forms!Finish, FormsLimiter!Finish, Forms!Capped, FormsLimiter!Capped
<1>1. Forms!RateInit <=> FormsLimiter!RateInit
  BY DEF Forms!RateInit, FormsLimiter!RateInit
<1>2. ASSUME NEW w PROVE (Forms!Arrive(w) \/ Forms!Outage(w)) <=> (FormsLimiter!Arrive(w) \/ FormsLimiter!Outage(w))
  BY DEF Forms!Arrive, FormsLimiter!Arrive, Forms!Outage, FormsLimiter!Outage
<1>3. ASSUME NEW w, NEW i, NEW c, NEW b PROVE Forms!Judge(w, i, c, b) <=> FormsLimiter!Judge(w, i, c, b)
  BY DEF Forms!Judge, FormsLimiter!Judge
<1>4. ASSUME NEW w PROVE Forms!Serve(w) <=> FormsLimiter!Serve(w)
  BY <1>3 DEF Forms!Serve, FormsLimiter!Serve, Forms!Seed, FormsLimiter!Seed,
    Forms!Increment, FormsLimiter!Increment, Forms!StartAfresh, FormsLimiter!StartAfresh
<1>5. Forms!TimePasses <=> FormsLimiter!TimePasses
  BY DEF Forms!TimePasses, FormsLimiter!TimePasses
<1>6. [Forms!RateNext]_rate <=> [FormsLimiter!RateNext]_FormsLimiter!rateVars
  BY <1>2, <1>4, <1>5 DEF Forms!RateNext, FormsLimiter!RateNext, rate, FormsLimiter!rateVars
<1>7. /\ Forms!PassesBounded <=> FormsLimiter!PassesBounded
      /\ Forms!RateAssumption <=> FormsLimiter!RateAssumption
  BY DEF Forms!PassesBounded, FormsLimiter!PassesBounded, Forms!RateAssumption, FormsLimiter!RateAssumption,
    Forms!Cardinality, FormsLimiter!Cardinality, Forms!IsFiniteSet, FormsLimiter!IsFiniteSet
<1>8. Forms!RateTypeOK <=> FormsLimiter!RateTypeOK
  BY DEF Forms!RateTypeOK, FormsLimiter!RateTypeOK, Forms!Counters, FormsLimiter!Counters
<1> QED BY <1>1, <1>6, <1>7, <1>8

LEMMA ReadsSame ==
  /\ Reads!RateInit <=> ReadsLimiter!RateInit
  /\ [Reads!RateNext]_rate <=> [ReadsLimiter!RateNext]_ReadsLimiter!rateVars
  /\ Reads!PassesBounded <=> ReadsLimiter!PassesBounded
  /\ Reads!RateAssumption <=> ReadsLimiter!RateAssumption
  /\ Reads!RateTypeOK <=> ReadsLimiter!RateTypeOK
<1> USE DEF Reads!At, ReadsLimiter!At, Reads!Move, ReadsLimiter!Move, Reads!Present, ReadsLimiter!Present,
  Reads!Absent, ReadsLimiter!Absent, Reads!NoRequest, ReadsLimiter!NoRequest,
  Reads!Finish, ReadsLimiter!Finish, Reads!Capped, ReadsLimiter!Capped
<1>1. Reads!RateInit <=> ReadsLimiter!RateInit
  BY DEF Reads!RateInit, ReadsLimiter!RateInit
<1>2. ASSUME NEW w PROVE (Reads!Arrive(w) \/ Reads!Outage(w)) <=> (ReadsLimiter!Arrive(w) \/ ReadsLimiter!Outage(w))
  BY DEF Reads!Arrive, ReadsLimiter!Arrive, Reads!Outage, ReadsLimiter!Outage
<1>3. ASSUME NEW w, NEW i, NEW c, NEW b PROVE Reads!Judge(w, i, c, b) <=> ReadsLimiter!Judge(w, i, c, b)
  BY DEF Reads!Judge, ReadsLimiter!Judge
<1>4. ASSUME NEW w PROVE Reads!Serve(w) <=> ReadsLimiter!Serve(w)
  BY <1>3 DEF Reads!Serve, ReadsLimiter!Serve, Reads!Seed, ReadsLimiter!Seed,
    Reads!Increment, ReadsLimiter!Increment, Reads!StartAfresh, ReadsLimiter!StartAfresh
<1>5. Reads!TimePasses <=> ReadsLimiter!TimePasses
  BY DEF Reads!TimePasses, ReadsLimiter!TimePasses
<1>6. [Reads!RateNext]_rate <=> [ReadsLimiter!RateNext]_ReadsLimiter!rateVars
  BY <1>2, <1>4, <1>5 DEF Reads!RateNext, ReadsLimiter!RateNext, rate, ReadsLimiter!rateVars
<1>7. /\ Reads!PassesBounded <=> ReadsLimiter!PassesBounded
      /\ Reads!RateAssumption <=> ReadsLimiter!RateAssumption
  BY DEF Reads!PassesBounded, ReadsLimiter!PassesBounded, Reads!RateAssumption, ReadsLimiter!RateAssumption,
    Reads!Cardinality, ReadsLimiter!Cardinality, Reads!IsFiniteSet, ReadsLimiter!IsFiniteSet
<1>8. Reads!RateTypeOK <=> ReadsLimiter!RateTypeOK
  BY DEF Reads!RateTypeOK, ReadsLimiter!RateTypeOK, Reads!Counters, ReadsLimiter!Counters
<1> QED BY <1>1, <1>6, <1>7, <1>8

LEMMA LimitersStart ==
  ASSUME Init
  PROVE  /\ part = "forms" => FormsLimiter!RateInv
         /\ part # "forms" => ReadsLimiter!RateInv
<1>1. CASE part = "forms"
  BY <1>1, FormsSame, PartConstants, FormsLimiter!RateStart DEF Init
<1>2. CASE part # "forms"
  BY <1>2, ReadsSame, PartConstants, ReadsLimiter!RateStart DEF Init
<1> QED BY <1>1, <1>2

LEMMA LimitersStep ==
  ASSUME [Next]_vars
  PROVE  /\ part = "forms" /\ FormsLimiter!RateInv => FormsLimiter!RateInv'
         /\ part # "forms" /\ ReadsLimiter!RateInv => ReadsLimiter!RateInv'
<1>1. ASSUME part = "forms", FormsLimiter!RateInv PROVE FormsLimiter!RateInv'
  <2>1. [FormsLimiter!RateNext]_FormsLimiter!rateVars /\ FormsLimiter!RateAssumption
    BY <1>1, OnePart, FormsSame, PartConstants
  <2> QED BY <1>1, <2>1, FormsLimiter!RateStep
<1>2. ASSUME part # "forms", ReadsLimiter!RateInv PROVE ReadsLimiter!RateInv'
  <2>1. [ReadsLimiter!RateNext]_ReadsLimiter!rateVars /\ ReadsLimiter!RateAssumption
    BY <1>2, OnePart, ReadsSame, PartConstants
  <2> QED BY <1>2, <2>1, ReadsLimiter!RateStep
<1> QED BY <1>1, <1>2
-------------------------------------------------------------------------------
(***************************************************************************)
(* The widget: its daily counter, and the credits of one browser, whose    *)
(* invariant is SourceInv of WidgetSourceProofs.                           *)
(***************************************************************************)
RollupInv ==
  /\ count \in Nat /\ counted \in Nat /\ counting \in [Workers -> Rollup!Steps]
  /\ Rollup!CountsExact

LEMMA RollupStep1 ==
  ASSUME RollupInv, [Rollup!RollupNext]_rollup
  PROVE  RollupInv'
<1> USE DEF RollupInv, Rollup!CountsExact, Rollup!Counting, Rollup!Goto, Rollup!Steps
<1>1. ASSUME NEW w \in Workers, Rollup!Begin(w) \/ Rollup!CountFails(w) PROVE RollupInv'
  BY <1>1 DEF Rollup!Begin, Rollup!CountFails
<1>2. ASSUME NEW w \in Workers, Rollup!UpdateRow(w) PROVE RollupInv'
  BY <1>2 DEF Rollup!UpdateRow, Rollup!IncrementExisting
<1>3. ASSUME NEW w \in Workers, Rollup!InsertRow(w) PROVE RollupInv'
  BY <1>3 DEF Rollup!InsertRow
<1>4. ASSUME NEW w \in Workers, Rollup!UpdateAgain(w) PROVE RollupInv'
  BY <1>4 DEF Rollup!UpdateAgain, Rollup!IncrementExisting
<1>5. ASSUME NEW w \in Workers, Rollup!CommitCount(w) PROVE RollupInv'
  BY <1>5 DEF Rollup!CommitCount
<1>6. CASE UNCHANGED rollup
  BY <1>6 DEF rollup
<1> QED BY <1>1, <1>2, <1>3, <1>4, <1>5, <1>6 DEF Rollup!RollupNext

LEMMA VisitsSame ==
  /\ Visits!SourceInit <=> VisitsSource!SourceInit
  /\ [Visits!SourceNext]_source <=> [VisitsSource!SourceNext]_VisitsSource!sourceVars
  /\ Visits!CreditedOnce <=> VisitsSource!CreditedOnce
  /\ Visits!CreditsInWindow <=> VisitsSource!CreditsInWindow
  /\ Visits!SourceAssumption <=> VisitsSource!SourceAssumption
  /\ Visits!SourceTypeOK <=> VisitsSource!SourceTypeOK
<1> USE DEF Visits!NoCookie, VisitsSource!NoCookie, Visits!NoFlight, VisitsSource!NoFlight,
  Visits!Kinds, VisitsSource!Kinds, Visits!Sent, VisitsSource!Sent,
  Visits!Respond, VisitsSource!Respond, Visits!Marker, VisitsSource!Marker
<1>1. Visits!SourceInit <=> VisitsSource!SourceInit
  BY DEF Visits!SourceInit, VisitsSource!SourceInit
<1>2. ASSUME NEW r, NEW errand PROVE Visits!Send(r, errand) <=> VisitsSource!Send(r, errand)
  BY DEF Visits!Send, VisitsSource!Send, Visits!Sendable, VisitsSource!Sendable,
    Visits!NoneOut, VisitsSource!NoneOut
<1>3. ASSUME NEW r PROVE Visits!set_marker(r) <=> VisitsSource!set_marker(r)
  BY DEF Visits!set_marker, VisitsSource!set_marker, Visits!Cardinality, VisitsSource!Cardinality
<1>4. ASSUME NEW r PROVE Visits!Applies(r) <=> VisitsSource!Applies(r)
  BY DEF Visits!Applies, VisitsSource!Applies, Visits!InWindow, VisitsSource!InWindow
<1>5. ASSUME NEW r PROVE Visits!Credit(r) <=> VisitsSource!Credit(r)
  BY <1>4 DEF Visits!Credit, VisitsSource!Credit, Visits!Remaining, VisitsSource!Remaining
<1>6. ASSUME NEW r PROVE Visits!CreditNothing(r) <=> VisitsSource!CreditNothing(r)
  BY <1>4 DEF Visits!CreditNothing, VisitsSource!CreditNothing
<1>7. ASSUME NEW r
      PROVE  (Visits!Degrade(r) <=> VisitsSource!Degrade(r)) /\ (Visits!Receive(r) <=> VisitsSource!Receive(r))
  BY DEF Visits!Degrade, VisitsSource!Degrade, Visits!Receive, VisitsSource!Receive
<1>8. (Visits!DayPasses <=> VisitsSource!DayPasses) /\ Visits!Errands = VisitsSource!Errands
  BY DEF Visits!DayPasses, VisitsSource!DayPasses, Visits!NoneOut, VisitsSource!NoneOut,
    Visits!Errands, VisitsSource!Errands
<1>9. [Visits!SourceNext]_source <=> [VisitsSource!SourceNext]_VisitsSource!sourceVars
  <2>1. Visits!SourceNext <=> VisitsSource!SourceNext
    BY <1>2, <1>3, <1>5, <1>6, <1>7, <1>8 DEF Visits!SourceNext, VisitsSource!SourceNext
  <2> QED BY <2>1 DEF source, VisitsSource!sourceVars
<1>10. /\ Visits!CreditedOnce <=> VisitsSource!CreditedOnce
       /\ Visits!CreditsInWindow <=> VisitsSource!CreditsInWindow
       /\ Visits!SourceAssumption <=> VisitsSource!SourceAssumption
  BY DEF Visits!CreditedOnce, VisitsSource!CreditedOnce, Visits!CreditsInWindow, VisitsSource!CreditsInWindow,
    Visits!SourceAssumption, VisitsSource!SourceAssumption
<1>11. Visits!SourceTypeOK <=> VisitsSource!SourceTypeOK
  BY DEF Visits!SourceTypeOK, VisitsSource!SourceTypeOK, Visits!Cookies, VisitsSource!Cookies, Visits!Markers, VisitsSource!Markers,
    Visits!Flights, VisitsSource!Flights, Visits!Errands, VisitsSource!Errands, Visits!Days, VisitsSource!Days
<1> QED BY <1>1, <1>9, <1>10, <1>11

LEMMA TabsSame ==
  /\ Tabs!SourceInit <=> TabsSource!SourceInit
  /\ [Tabs!SourceNext]_source <=> [TabsSource!SourceNext]_TabsSource!sourceVars
  /\ Tabs!CreditedOnce <=> TabsSource!CreditedOnce
  /\ Tabs!CreditsInWindow <=> TabsSource!CreditsInWindow
  /\ Tabs!SourceAssumption <=> TabsSource!SourceAssumption
  /\ Tabs!SourceTypeOK <=> TabsSource!SourceTypeOK
<1> USE DEF Tabs!NoCookie, TabsSource!NoCookie, Tabs!NoFlight, TabsSource!NoFlight,
  Tabs!Kinds, TabsSource!Kinds, Tabs!Sent, TabsSource!Sent,
  Tabs!Respond, TabsSource!Respond, Tabs!Marker, TabsSource!Marker
<1>1. Tabs!SourceInit <=> TabsSource!SourceInit
  BY DEF Tabs!SourceInit, TabsSource!SourceInit
<1>2. ASSUME NEW r, NEW errand PROVE Tabs!Send(r, errand) <=> TabsSource!Send(r, errand)
  BY DEF Tabs!Send, TabsSource!Send, Tabs!Sendable, TabsSource!Sendable,
    Tabs!NoneOut, TabsSource!NoneOut
<1>3. ASSUME NEW r PROVE Tabs!set_marker(r) <=> TabsSource!set_marker(r)
  BY DEF Tabs!set_marker, TabsSource!set_marker, Tabs!Cardinality, TabsSource!Cardinality
<1>4. ASSUME NEW r PROVE Tabs!Applies(r) <=> TabsSource!Applies(r)
  BY DEF Tabs!Applies, TabsSource!Applies, Tabs!InWindow, TabsSource!InWindow
<1>5. ASSUME NEW r PROVE Tabs!Credit(r) <=> TabsSource!Credit(r)
  BY <1>4 DEF Tabs!Credit, TabsSource!Credit, Tabs!Remaining, TabsSource!Remaining
<1>6. ASSUME NEW r PROVE Tabs!CreditNothing(r) <=> TabsSource!CreditNothing(r)
  BY <1>4 DEF Tabs!CreditNothing, TabsSource!CreditNothing
<1>7. ASSUME NEW r
      PROVE  (Tabs!Degrade(r) <=> TabsSource!Degrade(r)) /\ (Tabs!Receive(r) <=> TabsSource!Receive(r))
  BY DEF Tabs!Degrade, TabsSource!Degrade, Tabs!Receive, TabsSource!Receive
<1>8. (Tabs!DayPasses <=> TabsSource!DayPasses) /\ Tabs!Errands = TabsSource!Errands
  BY DEF Tabs!DayPasses, TabsSource!DayPasses, Tabs!NoneOut, TabsSource!NoneOut,
    Tabs!Errands, TabsSource!Errands
<1>9. [Tabs!SourceNext]_source <=> [TabsSource!SourceNext]_TabsSource!sourceVars
  <2>1. Tabs!SourceNext <=> TabsSource!SourceNext
    BY <1>2, <1>3, <1>5, <1>6, <1>7, <1>8 DEF Tabs!SourceNext, TabsSource!SourceNext
  <2> QED BY <2>1 DEF source, TabsSource!sourceVars
<1>10. /\ Tabs!CreditedOnce <=> TabsSource!CreditedOnce
       /\ Tabs!CreditsInWindow <=> TabsSource!CreditsInWindow
       /\ Tabs!SourceAssumption <=> TabsSource!SourceAssumption
  BY DEF Tabs!CreditedOnce, TabsSource!CreditedOnce, Tabs!CreditsInWindow, TabsSource!CreditsInWindow,
    Tabs!SourceAssumption, TabsSource!SourceAssumption
<1>11. Tabs!SourceTypeOK <=> TabsSource!SourceTypeOK
  BY DEF Tabs!SourceTypeOK, TabsSource!SourceTypeOK, Tabs!Cookies, TabsSource!Cookies, Tabs!Markers, TabsSource!Markers,
    Tabs!Flights, TabsSource!Flights, Tabs!Errands, TabsSource!Errands, Tabs!Days, TabsSource!Days
<1> QED BY <1>1, <1>9, <1>10, <1>11

WidgetInv ==
  /\ RollupInv
  /\ part = "visits" => VisitsSource!SourceInv
  /\ part # "visits" => TabsSource!SourceInv

LEMMA WidgetStart ==
  ASSUME Init
  PROVE  WidgetInv
<1>1. RollupInv
  BY DEF Init, Rollup!RollupInit, RollupInv, Rollup!CountsExact, Rollup!Counting, Rollup!Steps
<1>2. ASSUME part = "visits" PROVE VisitsSource!SourceInv
  BY <1>2, VisitsSame, PartConstants, VisitsSource!SourceStart DEF Init
<1>3. ASSUME part # "visits" PROVE TabsSource!SourceInv
  BY <1>3, TabsSame, PartConstants, TabsSource!SourceStart DEF Init
<1> QED BY <1>1, <1>2, <1>3 DEF WidgetInv

LEMMA WidgetStep ==
  ASSUME WidgetInv, [Next]_vars
  PROVE  /\ WidgetInv'
         /\ Rollup!CountsExact'
         /\ part = "visits" => Visits!CreditedOnce' /\ Visits!CreditsInWindow
         /\ part = "tabs" => Tabs!CreditedOnce' /\ Tabs!CreditsInWindow
<1>1. RollupInv'
  BY OnePart, RollupStep1 DEF WidgetInv
<1>2. ASSUME part = "visits"
      PROVE  VisitsSource!SourceInv' /\ Visits!CreditedOnce' /\ Visits!CreditsInWindow
  <2>1. [VisitsSource!SourceNext]_VisitsSource!sourceVars /\ VisitsSource!SourceAssumption
    BY <1>2, OnePart, VisitsSame, PartConstants
  <2>2. VisitsSource!SourceInv' /\ VisitsSource!CreditsInWindow
    BY <1>2, <2>1, VisitsSource!SourceStep DEF WidgetInv
  <2>3. Visits!CreditedOnce'
    BY <2>2 DEF VisitsSource!SourceInv, VisitsSource!CreditedOnce, Visits!CreditedOnce,
      VisitsSource!Kinds, Visits!Kinds
  <2> QED BY <2>2, <2>3, VisitsSame
<1>3. ASSUME part # "visits"
      PROVE  TabsSource!SourceInv' /\ Tabs!CreditedOnce' /\ Tabs!CreditsInWindow
  <2>1. [TabsSource!SourceNext]_TabsSource!sourceVars /\ TabsSource!SourceAssumption
    BY <1>3, OnePart, TabsSame, PartConstants
  <2>2. TabsSource!SourceInv' /\ TabsSource!CreditsInWindow
    BY <1>3, <2>1, TabsSource!SourceStep DEF WidgetInv
  <2>3. Tabs!CreditedOnce'
    BY <2>2 DEF TabsSource!SourceInv, TabsSource!CreditedOnce, Tabs!CreditedOnce,
      TabsSource!Kinds, Tabs!Kinds
  <2> QED BY <2>2, <2>3, TabsSame
<1>4. part' = part /\ Rollup!CountsExact'
  BY <1>1, OnePart DEF RollupInv
<1> QED BY <1>1, <1>2, <1>3, <1>4 DEF WidgetInv

\* The day's row counts every call of _increment_daily that returned, for any number of
\* requests at once: who lost the race for the first row finds it.  A click is credited
\* (_credit) with each kind once, if the requests of its browser do not overlap, and
\* within its window, whatever overlaps (WidgetCountsHold).
THEOREM WidgetCounts == Spec => WidgetCountsHold
<1>1. Init => WidgetInv
  BY WidgetStart
<1>2. WidgetInv /\ [Next]_vars => WidgetInv'
  BY WidgetStep
<1>3. WidgetInv /\ [Next]_vars =>
        [/\ Rollup!CountsExact'
         /\ part = "visits" => Visits!CreditedOnce' /\ Visits!CreditsInWindow
         /\ part = "tabs" => Tabs!CreditedOnce' /\ Tabs!CreditsInWindow]_vars
  BY WidgetStep
<1> QED BY <1>1, <1>2, <1>3, PTL DEF Spec, WidgetCountsHold
-------------------------------------------------------------------------------
(***************************************************************************)
(* The workers of the deployment.  What they may still let through is the  *)
(* difference between the limits they started with and what they counted:  *)
(* in Redis for all of them that share it, and for each worker on its own. *)
(***************************************************************************)
Sources == [Deployed!Keys -> Deployed!Raw]
Processes ==
  [up : {TRUE}, settings : Sources, os : Sources, found : [1 .. 3 -> Sources]]

\* A worker runs with what it found when it started, and that was valid.
StartedWell(p) ==
  /\ p.settings = p.found[1] /\ p.os = Deployed!LoadDotenv(p.found[2], p.found[3])
  /\ Deployed!ValidateAll(p.settings, p.os)

OnItsOwn(w) == Deployed!Up(w) /\ Deployed!CacheOf(w) # Deployed!Redis

\* The requests that workers with counters of their own have yet to count.
Spare ==
  {s \in Workers \X Nat :
     OnItsOwn(s[1]) /\ tally[s[1]] < s[2] /\ s[2] <= Deployed!Tunable(s[1], Limit)}

Processing ==
  /\ settings \in Sources /\ environment \in Sources /\ file \in Sources
  /\ worker \in [Workers -> {Deployed!Down} \cup Processes]
  /\ \A w \in Workers : Deployed!Up(w) => StartedWell(worker[w])

Tallied ==
  /\ tally \in [Deployed!Stores -> Nat] /\ served \in 0 .. MaxPasses
  /\ shared \in Nat /\ private \in 0 .. MaxPasses
  /\ \A w \in Workers : Deployed!Up(w) /\ ~ OnItsOwn(w) => Deployed!Tunable(w, Limit) <= shared
  /\ tally[Deployed!Redis] <= shared
  /\ IsFiniteSet(Spare)
  /\ private = MaxPasses \/ served + Cardinality(Spare) <= tally[Deployed!Redis] + private

LEMMA DeploymentConstants ==
  /\ Limit \in Tunables /\ Tunables \subseteq Deployed!Keys
  /\ Deployed!Redis \in Deployed!Keys /\ Deployed!Secret \in Deployed!Keys
  /\ Deployed!Redis # Deployed!Secret
  /\ Deployed!Redis \notin Workers /\ Deployed!Stores = Workers \cup {Deployed!Redis}
  /\ Numbers # {} /\ Numbers \subseteq Nat \ {0} /\ \A t \in Tunables : Default[t] \in Nat \ {0}
  /\ MaxPasses \in Nat
BY PartConstants DEF Deployed!DeploymentAssumption, Deployed!Keys, Deployed!Redis, Deployed!Secret,
  Deployed!Stores

\* What a worker runs with is positive, and one of the numbers or the default.
LEMMA Tuned ==
  ASSUME NEW set \in Sources, NEW os \in Sources, Deployed!ValidateAll(set, os), NEW t \in Tunables
  PROVE  /\ Deployed!ResolveRaw(set, os, t) \in Nat \ {0}
         /\ Deployed!ResolveRaw(set, os, t) \in Numbers \cup {Default[t]}
<1>1. t \in Deployed!Keys /\ Default[t] \in Nat \ {0} /\ Numbers \subseteq Nat \ {0}
  BY DeploymentConstants
<1>2. set[t] \in Deployed!Raw /\ os[t] \in Deployed!Raw
  BY <1>1 DEF Sources
<1>3. Deployed!ResolveRaw(set, os, t) > 0
  BY DEF Deployed!ValidateAll, Deployed!PositiveInt
<1>4. ASSUME NEW raw \in Deployed!Raw, raw > 0 PROVE raw \in Numbers
  BY <1>4 DEF Deployed!Raw, Deployed!Unset, Deployed!Invalid
<1>5. Deployed!ResolveRaw(set, os, t) \in {set[t], os[t], Default[t]}
  BY DEF Deployed!ResolveRaw
<1> QED BY <1>1, <1>2, <1>3, <1>4, <1>5

LEMMA ProcessingStart == Deployed!DeploymentInit => Processing
<1> SUFFICES ASSUME Deployed!DeploymentInit PROVE Processing
  OBVIOUS
<1>1. (CHOOSE n \in Numbers : TRUE) \in Numbers
  BY DeploymentConstants
<1>2. settings \in Sources /\ file \in Sources /\ environment \in Sources
  BY <1>1 DEF Deployed!DeploymentInit, Sources, Deployed!Raw, Deployed!Unset
<1>3. worker \in [Workers -> {Deployed!Down} \cup Processes] /\ \A w \in Workers : ~ Deployed!Up(w)
  BY DEF Deployed!DeploymentInit, Deployed!Up, Deployed!Down
<1> QED BY <1>2, <1>3 DEF Processing

LEMMA Merged ==
  ASSUME NEW a \in Sources, NEW b \in Sources
  PROVE  Deployed!LoadDotenv(a, b) \in Sources
BY DEF Sources, Deployed!LoadDotenv

LEMMA ProcessingStep ==
  ASSUME Processing, [Deployed!DeploymentNext]_deployment
  PROVE  Processing'
<1>1. ASSUME NEW k \in Deployed!Keys, NEW raw \in Deployed!Raw, Deployed!Configure(k, raw)
      PROVE  Processing'
  <2>1. settings' \in Sources /\ environment' \in Sources /\ file' \in Sources
    BY <1>1 DEF Deployed!Configure, Processing, Sources
  <2>2. worker' = worker
    BY <1>1 DEF Deployed!Configure
  <2> QED BY <2>1, <2>2 DEF Processing, Deployed!Up
<1>2. CASE Deployed!Outage \/ Deployed!DatabaseReturns
  BY <1>2 DEF Deployed!Outage, Deployed!DatabaseReturns, Processing, Deployed!Up, Deployed!sources
<1>3. ASSUME NEW w \in Workers, Deployed!Start(w) PROVE Processing'
  <2> DEFINE os == Deployed!LoadDotenv(environment, file)
             p == [up |-> TRUE, settings |-> settings, os |-> os,
                   found |-> <<settings, environment, file>>]
  <2>1. UNCHANGED <<settings, environment, file>> /\ worker' = [worker EXCEPT ![w] = p]
        /\ Deployed!ValidateAll(settings, os)
    BY <1>3 DEF Deployed!Start, Deployed!sources
  <2>2. os \in Sources
    BY Merged DEF Processing
  <2>3. p \in Processes /\ StartedWell(p)
    BY <2>1, <2>2 DEF Processes, StartedWell, Processing
  <2>4. worker' \in [Workers -> {Deployed!Down} \cup Processes]
    BY <2>1, <2>3 DEF Processing
  <2>5. \A v \in Workers : worker'[v] = IF v = w THEN p ELSE worker[v]
    BY <2>1 DEF Processing
  <2> QED BY <2>1, <2>3, <2>4, <2>5 DEF Processing, Deployed!Up
<1>4. ASSUME NEW w \in Workers, Deployed!Crash(w) \/ Deployed!ProbeFails(w) PROVE Processing'
  <2>1. UNCHANGED <<settings, environment, file>> /\ worker' = [worker EXCEPT ![w] = Deployed!Down]
    BY <1>4 DEF Deployed!Crash, Deployed!ProbeFails, Deployed!sources
  <2>2. ~ Deployed!Down.up
    BY DEF Deployed!Down
  <2> QED BY <2>1, <2>2 DEF Processing, Deployed!Up
<1>5. ASSUME NEW w \in Workers, Deployed!Request(w) PROVE Processing'
  BY <1>5 DEF Deployed!Request, Processing, Deployed!Up, Deployed!sources
<1>6. CASE UNCHANGED deployment
  BY <1>6 DEF deployment, Processing, Deployed!Up
<1> QED BY <1>1, <1>2, <1>3, <1>4, <1>5, <1>6 DEF Deployed!DeploymentNext

\* A worker that is up runs with what it found, and that is valid.
LEMMA Running ==
  ASSUME Processing, NEW w \in Workers, Deployed!Up(w), NEW t \in Tunables
  PROVE  /\ worker[w] \in Processes /\ StartedWell(worker[w])
         /\ Deployed!Tunable(w, t) \in Nat \ {0}
         /\ Deployed!Tunable(w, t) \in Numbers \cup {Default[t]}
<1>1. worker[w] \in Processes /\ StartedWell(worker[w])
  BY DEF Processing, Deployed!Up, Deployed!Down
<1>2. /\ worker[w].settings \in Sources /\ worker[w].os \in Sources
      /\ Deployed!ValidateAll(worker[w].settings, worker[w].os)
  BY <1>1 DEF Processes, StartedWell
<1> QED BY <1>1, <1>2, Tuned DEF Deployed!Tunable

\* A store's count and the limits move, and the workers stay what they are: Spare is no
\* larger than before.
LEMMA SpareShrinks ==
  ASSUME IsFiniteSet(Spare), Spare' \subseteq Spare
  PROVE  /\ IsFiniteSet(Spare') /\ Cardinality(Spare') \in Nat /\ Cardinality(Spare) \in Nat
         /\ Cardinality(Spare') <= Cardinality(Spare)
BY FS_Subset, FS_CardinalityType

LEMMA TalliedStart == Deployed!DeploymentInit => Tallied
<1> SUFFICES ASSUME Deployed!DeploymentInit PROVE Tallied
  OBVIOUS
<1>1. \A w \in Workers : ~ Deployed!Up(w)
  BY DEF Deployed!DeploymentInit, Deployed!Up, Deployed!Down
<1>2. Spare = {}
  BY <1>1 DEF Spare, OnItsOwn
<1>3. tally \in [Deployed!Stores -> Nat] /\ tally[Deployed!Redis] = 0
  BY DeploymentConstants DEF Deployed!DeploymentInit
<1> QED BY <1>1, <1>2, <1>3, FS_EmptySet, DeploymentConstants DEF Tallied, Deployed!DeploymentInit

\* A step that counts nothing and starts nothing: a worker that goes takes its part along.
LEMMA NothingCounted ==
  ASSUME Tallied, UNCHANGED <<tally, served, shared, private>>,
         \A w \in Workers : Deployed!Up(w)' => Deployed!Up(w) /\ worker'[w] = worker[w]
  PROVE  Tallied'
<1>1. ASSUME NEW w \in Workers, Deployed!Up(w)'
      PROVE  /\ OnItsOwn(w)' <=> OnItsOwn(w)
             /\ Deployed!Tunable(w, Limit)' = Deployed!Tunable(w, Limit)
  BY <1>1 DEF OnItsOwn, Deployed!Up, Deployed!CacheOf, Deployed!Tunable, Deployed!ResolveRaw
<1>2. Spare' \subseteq Spare
  BY <1>1 DEF Spare, OnItsOwn
<1>3. served + Cardinality(Spare) <= tally[Deployed!Redis] + private
        => served + Cardinality(Spare') <= tally[Deployed!Redis] + private
  BY <1>2, SpareShrinks, DeploymentConstants DEF Tallied
<1> QED BY <1>1, <1>2, <1>3, SpareShrinks DEF Tallied

LEMMA Counted ==
  ASSUME Processing, Tallied, NEW w \in Workers, Deployed!Request(w)
  PROVE  Tallied'
<1>1. /\ worker' = worker /\ shared' = shared /\ private' = private
      /\ served' = served + 1 /\ served < MaxPasses /\ Deployed!Up(w)
      /\ tally[Deployed!CacheOf(w)] < Deployed!Tunable(w, Limit)
      /\ tally' = [tally EXCEPT ![Deployed!CacheOf(w)] = @ + 1]
  BY DEF Deployed!Request
<1>2. \A v \in Workers : (OnItsOwn(v)' <=> OnItsOwn(v)) /\ (Deployed!Up(v)' <=> Deployed!Up(v))
        /\ Deployed!Tunable(v, Limit)' = Deployed!Tunable(v, Limit)
  BY <1>1 DEF OnItsOwn, Deployed!Up, Deployed!CacheOf, Deployed!Tunable, Deployed!ResolveRaw
<1>3. tally' \in [Deployed!Stores -> Nat] /\ served' \in 0 .. MaxPasses
  BY <1>1, DeploymentConstants DEF Tallied, Deployed!CacheOf
<1>4. CASE OnItsOwn(w)
  <2>1. Deployed!CacheOf(w) = w /\ w # Deployed!Redis
    BY <1>4, DeploymentConstants DEF OnItsOwn, Deployed!CacheOf
  <2> DEFINE next == <<w, tally[w] + 1>>
  <2>2. tally'[w] = tally[w] + 1 /\ (\A s \in Deployed!Stores \ {w} : tally'[s] = tally[s])
        /\ tally[w] \in Nat
    BY <1>1, <2>1, DeploymentConstants DEF Tallied
  <2>3. Deployed!Tunable(w, Limit) \in Nat
    BY <1>1, Running, DeploymentConstants
  <2>4. next \in Spare
    BY <1>1, <1>4, <2>1, <2>2, <2>3 DEF Spare
  <2>5. Spare' \subseteq Spare \ {next}
    <3>1. ASSUME NEW s \in Spare' PROVE s \in Spare /\ s # next
      <4>1. s \in Workers \X Nat /\ OnItsOwn(s[1]) /\ tally'[s[1]] < s[2]
            /\ s[2] <= Deployed!Tunable(s[1], Limit)
        BY <1>2, <3>1 DEF Spare
      <4>2. CASE s[1] = w
        BY <2>2, <4>1, <4>2 DEF Spare
      <4>3. CASE s[1] # w
        BY <2>2, <4>1, <4>3, DeploymentConstants DEF Spare
      <4> QED BY <4>2, <4>3
    <3> QED BY <3>1
  <2>6. /\ IsFiniteSet(Spare') /\ Cardinality(Spare') <= Cardinality(Spare) - 1
        /\ Cardinality(Spare) \in Nat /\ Cardinality(Spare') \in Nat
    <3>1. IsFiniteSet(Spare \ {next}) /\ Cardinality(Spare \ {next}) = Cardinality(Spare) - 1
      BY <2>4, FS_RemoveElement DEF Tallied
    <3> QED BY <2>5, <3>1, FS_Subset, FS_CardinalityType DEF Tallied
  <2>7. tally'[Deployed!Redis] = tally[Deployed!Redis] /\ tally[Deployed!Redis] \in Nat
    BY <2>1, <2>2, DeploymentConstants DEF Tallied
  <2>8. private = MaxPasses \/ served' + Cardinality(Spare') <= tally'[Deployed!Redis] + private
    BY <1>1, <2>6, <2>7, DeploymentConstants DEF Tallied
  <2> QED BY <1>1, <1>2, <1>3, <2>6, <2>7, <2>8 DEF Tallied
<1>5. CASE ~ OnItsOwn(w)
  <2>1. Deployed!CacheOf(w) = Deployed!Redis
    BY <1>1, <1>5 DEF OnItsOwn
  <2>2. /\ tally'[Deployed!Redis] = tally[Deployed!Redis] + 1 /\ tally[Deployed!Redis] \in Nat
        /\ \A v \in Workers : tally'[v] = tally[v]
    BY <1>1, <2>1, DeploymentConstants DEF Tallied
  <2>3. Deployed!Tunable(w, Limit) \in Nat
    BY <1>1, Running, DeploymentConstants
  <2>4. tally'[Deployed!Redis] <= shared
    BY <1>1, <1>5, <2>1, <2>2, <2>3 DEF Tallied
  <2>5. Spare' \subseteq Spare
    BY <1>2, <2>2 DEF Spare
  <2>6. private = MaxPasses \/ served' + Cardinality(Spare') <= tally'[Deployed!Redis] + private
    BY <1>1, <2>2, <2>5, SpareShrinks, DeploymentConstants DEF Tallied
  <2> QED BY <1>1, <1>2, <1>3, <2>4, <2>5, <2>6, SpareShrinks DEF Tallied
<1> QED BY <1>4, <1>5

LEMMA Larger ==
  ASSUME NEW a \in Nat, NEW b \in Nat
  PROVE  /\ Deployed!Max({a, b}) = IF a >= b THEN a ELSE b
         /\ Deployed!Min({a, b}) = IF a <= b THEN a ELSE b
BY DEF Deployed!Max, Deployed!Min

LEMMA Started ==
  ASSUME Processing, Processing', Tallied, NEW w \in Workers, Deployed!Start(w)
  PROVE  Tallied'
<1> DEFINE os == Deployed!LoadDotenv(environment, file)
           url == environment[Deployed!Redis] > 0
                    \/ (environment[Deployed!Redis] = Deployed!Unset /\ file[Deployed!Redis] > 0)
<1>1. PICK limit : limit = Deployed!ResolveRaw(settings, os, Limit)
  OBVIOUS
<1>2. /\ ~ Deployed!Up(w) /\ served' = served /\ tally' = [tally EXCEPT ![w] = 0]
      /\ Deployed!ValidateAll(settings, os)
      /\ worker' = [worker EXCEPT ![w] = [up |-> TRUE, settings |-> settings, os |-> os,
                                           found |-> <<settings, environment, file>>]]
      /\ IF url THEN shared' = Deployed!Max({shared, limit}) /\ private' = private
                ELSE private' = Deployed!Min({private + limit, MaxPasses}) /\ shared' = shared
  BY <1>1 DEF Deployed!Start
<1>3. worker'[w].os = os /\ worker'[w].settings = settings /\ worker'[w].up
      /\ \A v \in Workers \ {w} : worker'[v] = worker[v]
  BY <1>2 DEF Processing
<1>4. Deployed!Up(w)' /\ Deployed!Tunable(w, Limit)' = limit
  BY <1>1, <1>3 DEF Deployed!Up, Deployed!Tunable, Deployed!ResolveRaw
<1>5. limit \in Nat
  BY <1>1, <1>2, Merged, Tuned, DeploymentConstants DEF Processing
<1>6. OnItsOwn(w)' <=> ~ url
  <2>1. environment[Deployed!Redis] \in Deployed!Raw /\ file[Deployed!Redis] \in Deployed!Raw
    BY DeploymentConstants DEF Processing, Sources
  <2>2. \A raw \in Deployed!Raw : raw > 0 <=> raw \notin {Deployed!Unset, Deployed!Invalid}
    BY DeploymentConstants DEF Deployed!Raw, Deployed!Unset, Deployed!Invalid
  <2>3. os[Deployed!Redis] = IF environment[Deployed!Redis] # Deployed!Unset
                               THEN environment[Deployed!Redis] ELSE file[Deployed!Redis]
    BY DeploymentConstants DEF Deployed!LoadDotenv
  <2>4. url <=> os[Deployed!Redis] \notin {Deployed!Unset, Deployed!Invalid}
    BY <2>1, <2>2, <2>3
  <2> QED BY <1>3, <1>4, <2>4, DeploymentConstants DEF OnItsOwn, Deployed!CacheOf
<1>7. \A v \in Workers \ {w} :
        /\ OnItsOwn(v)' <=> OnItsOwn(v)
        /\ Deployed!Up(v)' <=> Deployed!Up(v)
        /\ Deployed!Tunable(v, Limit)' = Deployed!Tunable(v, Limit)
  BY <1>3 DEF OnItsOwn, Deployed!Up, Deployed!CacheOf, Deployed!Tunable, Deployed!ResolveRaw
<1>8. /\ tally' \in [Deployed!Stores -> Nat] /\ tally'[w] = 0
      /\ \A s \in Deployed!Stores \ {w} : tally'[s] = tally[s]
      /\ tally'[Deployed!Redis] = tally[Deployed!Redis] /\ tally[Deployed!Redis] \in Nat
  BY <1>2, DeploymentConstants DEF Tallied
<1>9. \A s \in Spare' : s[1] # w => s \in Spare
  BY <1>7, <1>8, DeploymentConstants DEF Spare
<1>10. CASE url
  <2>1. Spare' \subseteq Spare
    BY <1>6, <1>9, <1>10 DEF Spare
  <2>2. shared' \in Nat /\ shared' >= shared /\ shared' >= limit /\ private' = private
    BY <1>2, <1>5, <1>10, Larger DEF Tallied
  <2>3. \A v \in Workers : Deployed!Up(v)' /\ ~ OnItsOwn(v)' => Deployed!Tunable(v, Limit)' <= shared'
    <3>1. ASSUME NEW v \in Workers \ {w}, Deployed!Up(v)', ~ OnItsOwn(v)'
          PROVE  Deployed!Tunable(v, Limit)' <= shared'
      <4>1. Deployed!Tunable(v, Limit) <= shared /\ Deployed!Tunable(v, Limit) \in Nat
        BY <1>7, <3>1, Running, DeploymentConstants DEF Tallied
      <4> QED BY <1>7, <2>2, <4>1 DEF Tallied
    <3> QED BY <1>4, <2>2, <3>1
  <2>4. private = MaxPasses \/ served + Cardinality(Spare') <= tally[Deployed!Redis] + private
    BY <1>8, <2>1, SpareShrinks, DeploymentConstants DEF Tallied
  <2>5. tally'[Deployed!Redis] <= shared'
    BY <1>8, <2>2 DEF Tallied
  <2> QED BY <1>2, <1>8, <2>1, <2>2, <2>3, <2>4, <2>5, SpareShrinks DEF Tallied
<1>11. CASE ~ url
  <2> DEFINE new == {w} \X (1 .. limit)
  <2>1. Spare' \subseteq Spare \cup new
    <3>1. ASSUME NEW s \in Spare', s[1] = w PROVE s \in new
      <4>1. s \in Workers \X Nat /\ 0 < s[2] /\ s[2] <= limit
        BY <1>4, <1>8, <3>1 DEF Spare
      <4> QED BY <3>1, <4>1, <1>5
    <3> QED BY <1>9, <3>1
  <2>2. IsFiniteSet(new) /\ Cardinality(new) = limit
    <3>1. IsFiniteSet(1 .. limit) /\ Cardinality(1 .. limit) = IF 1 > limit THEN 0 ELSE limit - 1 + 1
      BY <1>5, FS_Interval
    <3>2. IsFiniteSet({w}) /\ Cardinality({w}) = 1
      BY FS_Singleton
    <3>3. IsFiniteSet(new) /\ Cardinality(new) = Cardinality({w}) * Cardinality(1 .. limit)
      BY <3>1, <3>2, FS_Product
    <3> QED BY <1>5, <3>1, <3>2, <3>3
  <2>3. /\ IsFiniteSet(Spare') /\ Cardinality(Spare') \in Nat /\ Cardinality(Spare) \in Nat
        /\ Cardinality(Spare') <= Cardinality(Spare) + limit
    <3>1. /\ IsFiniteSet(Spare \cup new) /\ Cardinality(Spare \cup new) \in Nat
          /\ Cardinality(Spare) \in Nat /\ Cardinality(Spare \cap new) \in Nat
          /\ Cardinality(Spare \cup new)
               = Cardinality(Spare) + Cardinality(new) - Cardinality(Spare \cap new)
      BY <2>2, FS_Union, FS_Subset, FS_CardinalityType DEF Tallied
    <3>2. IsFiniteSet(Spare') /\ Cardinality(Spare') <= Cardinality(Spare \cup new)
      BY <2>1, <3>1, FS_Subset
    <3>3. Cardinality(Spare') \in Nat
      BY <3>2, FS_CardinalityType
    <3> QED BY <1>5, <2>2, <3>1, <3>2, <3>3
  <2>4. /\ shared' = shared /\ private' \in 0 .. MaxPasses
        /\ private' = MaxPasses \/ private' = private + limit
        /\ private = MaxPasses => private' = MaxPasses
    <3>1. private + limit \in Nat /\ MaxPasses \in Nat /\ private \in 0 .. MaxPasses
      BY <1>5, DeploymentConstants DEF Tallied
    <3>2. Deployed!Min({private + limit, MaxPasses})
            = IF private + limit <= MaxPasses THEN private + limit ELSE MaxPasses
      BY <3>1, Larger
    <3> QED BY <1>2, <1>5, <1>11, <3>1, <3>2
  <2>5. private' = MaxPasses \/ served + Cardinality(Spare') <= tally[Deployed!Redis] + private'
    BY <1>5, <1>8, <2>3, <2>4, DeploymentConstants DEF Tallied
  <2>6. \A v \in Workers : Deployed!Up(v)' /\ ~ OnItsOwn(v)' => Deployed!Tunable(v, Limit)' <= shared
    BY <1>6, <1>7, <1>11 DEF Tallied
  <2> QED BY <1>2, <1>8, <2>3, <2>4, <2>5, <2>6 DEF Tallied
<1> QED BY <1>10, <1>11

LEMMA TalliedStep ==
  ASSUME Processing, Tallied, [Deployed!DeploymentNext]_deployment
  PROVE  Tallied'
<1>1. ASSUME NEW k \in Deployed!Keys, NEW raw \in Deployed!Raw, Deployed!Configure(k, raw)
      PROVE  Tallied'
  BY <1>1, NothingCounted DEF Deployed!Configure, Deployed!history, Deployed!Up
<1>2. CASE Deployed!Outage \/ Deployed!DatabaseReturns
  BY <1>2, NothingCounted DEF Deployed!Outage, Deployed!DatabaseReturns, Deployed!history, Deployed!Up
<1>3. ASSUME NEW w \in Workers, Deployed!Start(w) PROVE Tallied'
  BY <1>3, Started, ProcessingStep
<1>4. ASSUME NEW w \in Workers, Deployed!Crash(w) \/ Deployed!ProbeFails(w) PROVE Tallied'
  <2>1. /\ UNCHANGED <<tally, served, shared, private>>
        /\ \A v \in Workers : worker'[v] = IF v = w THEN Deployed!Down ELSE worker[v]
    BY <1>4 DEF Deployed!Crash, Deployed!ProbeFails, Deployed!history, Processing
  <2>2. ~ Deployed!Down.up
    BY DEF Deployed!Down
  <2> QED BY <2>1, <2>2, NothingCounted DEF Deployed!Up
<1>5. ASSUME NEW w \in Workers, Deployed!Request(w) PROVE Tallied'
  BY <1>5, Counted
<1>6. CASE UNCHANGED deployment
  BY <1>6, NothingCounted DEF deployment, Deployed!Up
<1> QED BY <1>1, <1>2, <1>3, <1>4, <1>5, <1>6 DEF Deployed!DeploymentNext

\* The least of what spoke is what LoadDotenv and _resolve_raw come upon first.
LEMMA Configured ==
  ASSUME NEW p \in Processes, StartedWell(p), NEW t \in Tunables
  PROVE  Deployed!ResolveRaw(p.settings, p.os, t) = Deployed!MostSpecific(p.found, t)
<1>1. t \in Deployed!Keys
  BY DeploymentConstants
<1>2. PICK one, two, three : one = p.found[1][t] /\ two = p.found[2][t] /\ three = p.found[3][t]
  OBVIOUS
<1>3. DOMAIN p.found = {1, 2, 3}
  BY DEF Processes
<1>4. Deployed!ResolveRaw(p.settings, p.os, t) =
        IF one # Deployed!Unset THEN one ELSE IF two # Deployed!Unset THEN two
        ELSE IF three # Deployed!Unset THEN three ELSE Default[t]
  BY <1>1, <1>2 DEF StartedWell, Deployed!ResolveRaw, Deployed!LoadDotenv
<1>5. PICK said : said = {i \in {1, 2, 3} : p.found[i][t] # Deployed!Unset}
  OBVIOUS
<1>6. Deployed!MostSpecific(p.found, t) = IF said = {} THEN Default[t] ELSE p.found[Deployed!Min(said)][t]
  BY <1>3, <1>5 DEF Deployed!MostSpecific
<1>7. CASE one # Deployed!Unset
  <2>1. Deployed!Min(said) = 1 /\ said # {}
    BY <1>2, <1>5, <1>7 DEF Deployed!Min
  <2> QED BY <1>2, <1>4, <1>6, <1>7, <2>1
<1>8. CASE one = Deployed!Unset /\ two # Deployed!Unset
  <2>1. Deployed!Min(said) = 2 /\ said # {}
    <3>1. said = {2} \/ said = {2, 3}
      BY <1>2, <1>5, <1>8
    <3>2. Deployed!Min({2}) = 2 /\ Deployed!Min({2, 3}) = 2
      BY DEF Deployed!Min
    <3> QED BY <3>1, <3>2
  <2> QED BY <1>2, <1>4, <1>6, <1>8, <2>1
<1>9. CASE one = Deployed!Unset /\ two = Deployed!Unset /\ three # Deployed!Unset
  <2>1. said = {3}
    BY <1>2, <1>5, <1>9
  <2>2. Deployed!Min({3}) = 3
    BY DEF Deployed!Min
  <2> QED BY <1>2, <1>4, <1>6, <1>9, <2>1, <2>2
<1>10. CASE one = Deployed!Unset /\ two = Deployed!Unset /\ three = Deployed!Unset
  <2>1. said = {}
    BY <1>2, <1>5, <1>10
  <2> QED BY <1>4, <1>6, <1>10, <2>1
<1> QED BY <1>7, <1>8, <1>9, <1>10

LEMMA DeploymentHolds ==
  ASSUME Processing, Tallied
  PROVE  Deployed!ServesAsConfigured /\ Deployed!LimitAcrossWorkers
<1>1. ASSUME NEW w \in Workers, NEW t \in Tunables, Deployed!Up(w)
      PROVE  /\ Deployed!Tunable(w, t) = Deployed!MostSpecific(worker[w].found, t)
             /\ Deployed!Tunable(w, t) \in Numbers \cup {Default[t]}
  <2>1. worker[w] \in Processes /\ StartedWell(worker[w])
        /\ Deployed!Tunable(w, t) \in Numbers \cup {Default[t]}
    BY <1>1, Running
  <2> QED BY <2>1, Configured DEF Deployed!Tunable
<1>2. tally[Deployed!Redis] \in Nat /\ Cardinality(Spare) \in Nat
  BY DeploymentConstants, FS_CardinalityType DEF Tallied
<1>3. served <= shared + private
  BY <1>2, DeploymentConstants DEF Tallied
<1> QED BY <1>1, <1>3 DEF Deployed!ServesAsConfigured, Deployed!LimitAcrossWorkers

\* What a limiter (_exceeds_limit) lets through on one counter is bounded, however its
\* requests interleave and whenever the cache fails; the workers of a deployment let
\* through together no more than the limits they started with, each of them valid and
\* the most specific one configured then (LimitsHold), for any workers and tunables.
THEOREM LimitsKept == Spec => []LimitsHold
<1> DEFINE IInv == /\ part = "forms" => FormsLimiter!RateInv
                   /\ part # "forms" => ReadsLimiter!RateInv
                   /\ part = "deployment" => Processing /\ Tallied
<1>1. Init => IInv
  BY LimitersStart, ProcessingStart, TalliedStart DEF Init
<1>2. IInv /\ [Next]_vars => IInv'
  BY OnePart, LimitersStep, ProcessingStep, TalliedStep
<1>3. IInv => LimitsHold
  <2>1. ASSUME part = "forms", IInv PROVE Forms!PassesBounded
    BY <2>1, FormsSame, PartConstants, FormsLimiter!RateHolds
  <2>2. ASSUME part = "reads", IInv PROVE Reads!PassesBounded
    BY <2>2, ReadsSame, PartConstants, ReadsLimiter!RateHolds
  <2> QED BY <2>1, <2>2, DeploymentHolds DEF LimitsHold
<1> QED BY <1>1, <1>2, <1>3, PTL DEF Spec
-------------------------------------------------------------------------------
(***************************************************************************)
(* The reception page.  Its numbers are numbers of shows, counted by the   *)
(* surface or by the bucket of the axis they lie in: that they agree rests *)
(* on the calendar having one bucket for each day, and on the axis holding *)
(* every bucket of the window.  First, counting from one number on.        *)
(***************************************************************************)
\* The numbers, by the one among them that comes first.
LEMMA FirstNumber ==
  ASSUME NEW T, T \subseteq Nat, T # {}
  PROVE  \E n \in T : \A m \in T : n <= m
<1> DEFINE Below(n) == 0 .. n
           family == {Below(n) : n \in T}
<1>1. family \subseteq FiniteSubsetsOf(Nat) /\ family # {}
  <2>1. \A n \in T : Below(n) \subseteq Nat /\ IsFiniteSet(Below(n))
    BY FS_Interval
  <2> QED BY <2>1 DEF FiniteSubsetsOf
<1>2. PICK n \in T :
        \A m \in T : ~ (<<Below(m), Below(n)>> \in StrictSubsetOrdering(Nat))
  <2> HIDE DEF Below
  <2>1. PICK x \in family : \A y \in family : ~ (<<y, x>> \in StrictSubsetOrdering(Nat))
    <3> HIDE DEF family
    <3> QED BY <1>1, WFMin, FS_StrictSubsetOrderingWellFounded, Zenon
  <2> QED BY <2>1
<1>3. ASSUME NEW m \in T, m < n PROVE FALSE
  <2>1. Below(m) \subseteq Below(n) /\ n \in Below(n) /\ n \notin Below(m)
    BY <1>3
  <2>2. /\ Below(m) \subseteq Nat /\ IsFiniteSet(Below(m))
        /\ Below(n) \subseteq Nat /\ IsFiniteSet(Below(n))
    BY FS_Interval
  <2> HIDE DEF Below
  <2> QED BY <1>2, <2>1, <2>2 DEF StrictSubsetOrdering
<1> QED BY <1>3

LEMMA OneAfterAnother ==
  ASSUME NEW S, 0 \in S, \A n \in Nat : n \in S => n + 1 \in S
  PROVE  Nat \subseteq S
<1> SUFFICES ASSUME Nat \ S # {} PROVE FALSE
  OBVIOUS
<1>1. PICK n \in Nat \ S : \A m \in Nat \ S : n <= m
  BY FirstNumber
<1>2. n - 1 \in Nat /\ n - 1 \in S
  BY <1>1
<1> QED BY <1>1, <1>2

LEMMA PageWords ==
  /\ \A S : Page!IsFiniteSet(S) <=> IsFiniteSet(S)
  /\ \A S : Page!Cardinality(S) = Cardinality(S)
BY DEF Page!IsFiniteSet, IsFiniteSet, Page!Cardinality, Cardinality
-------------------------------------------------------------------------------
(***************************************************************************)
(* The calendar.  Every day lies in one month.                             *)
(***************************************************************************)
First(m) == Page!FirstOfMonth[m]

\* The days before a month of the year, and whether a leap year has had its day.
Before(r) == <<0, 31, 59, 90, 120, 151, 181, 212, 243, 273, 304, 334>>[r + 1]
Year(y) == 365 * y + ((y + 2) \div 4)
Leap(y, r) == IF y % 4 = 1 /\ r + 1 > 2 THEN 1 ELSE 0

LEMMA MonthOfYear ==
  ASSUME NEW y \in Nat, NEW r \in 0 .. 11
  PROVE  First(12 * y + r) = Year(y) + Before(r) + Leap(y, r)
<1>1. 12 * y + r \in Nat /\ (12 * y + r) \div 12 = y /\ (12 * y + r) % 12 = r
  OBVIOUS
<1> QED BY <1>1 DEF First, Page!FirstOfMonth, Before, Year, Leap

LEMMA DaysBefore ==
  /\ Before(0) = 0 /\ Before(1) = 31 /\ Before(2) = 59 /\ Before(3) = 90
  /\ Before(4) = 120 /\ Before(5) = 151 /\ Before(6) = 181 /\ Before(7) = 212
  /\ Before(8) = 243 /\ Before(9) = 273 /\ Before(10) = 304 /\ Before(11) = 334
BY DEF Before

LEMMA Years ==
  ASSUME NEW y \in Nat
  PROVE  /\ Year(y) \in Nat /\ 336 * y <= Year(y) /\ Year(y) <= 366 * y
         /\ Year(y + 1) = Year(y) + (IF y % 4 = 1 THEN 366 ELSE 365)
BY DEF Year

LEMMA MonthsOf ==
  ASSUME NEW m \in Nat
  PROVE  /\ First(m) \in Nat /\ 28 * m <= First(m) /\ First(m) <= 31 * m
         /\ First(m) + 28 <= First(m + 1) /\ First(m + 1) <= First(m) + 31
<1> DEFINE y == m \div 12
           r == m % 12
<1>1. y \in Nat /\ r \in 0 .. 11 /\ m = 12 * y + r
  OBVIOUS
<1> HIDE DEF y, r
<1>2. First(m) = Year(y) + Before(r) + Leap(y, r)
  BY <1>1, MonthOfYear
<1>3. r < 11 => First(m + 1) = Year(y) + Before(r + 1) + Leap(y, r + 1)
  <2>1. r < 11 => r + 1 \in 0 .. 11 /\ m + 1 = 12 * y + (r + 1)
    BY <1>1
  <2> QED BY <1>1, <2>1, MonthOfYear
<1>4. r = 11 => First(m + 1) = Year(y + 1)
  <2>1. r = 11 => m + 1 = 12 * (y + 1) + 0 /\ y + 1 \in Nat /\ 0 \in 0 .. 11
    BY <1>1
  <2>2. Before(0) = 0 /\ Leap(y + 1, 0) = 0 /\ Year(y + 1) \in Nat
    <3>1. y + 1 \in Nat
      BY <1>1
    <3>2. Year(y + 1) \in Nat
      BY <3>1, Years
    <3>3. Leap(y + 1, 0) = 0
      BY DEF Leap
    <3> QED BY <3>2, <3>3, DaysBefore
  <2>3. r = 11 => First(m + 1) = Year(y + 1) + Before(0) + Leap(y + 1, 0)
    BY <2>1, MonthOfYear
  <2> QED BY <2>2, <2>3
<1>5. r = 0 \/ r = 1 \/ r = 2 \/ r = 3 \/ r = 4 \/ r = 5 \/ r = 6 \/ r = 7 \/ r = 8 \/ r = 9
        \/ r = 10 \/ r = 11
  BY <1>1
<1>6. /\ Year(y) \in Nat /\ 336 * y <= Year(y) /\ Year(y) <= 366 * y
      /\ Year(y + 1) = Year(y) + (IF y % 4 = 1 THEN 366 ELSE 365)
  BY <1>1, Years
<1>7. Leap(y, r) = IF y % 4 = 1 /\ r > 1 THEN 1 ELSE 0
  BY <1>1 DEF Leap
<1>8. r < 11 => Leap(y, r + 1) = IF y % 4 = 1 /\ r > 0 THEN 1 ELSE 0
  BY <1>1 DEF Leap
<1> QED BY <1>1, <1>2, <1>3, <1>4, <1>5, <1>6, <1>7, <1>8, DaysBefore

LEMMA MonthsGrow ==
  ASSUME NEW m \in Nat
  PROVE  First(m) \in Nat /\ First(m + 1) \in Nat /\ First(m) < First(m + 1)
<1>1. m + 1 \in Nat
  OBVIOUS
<1>2. First(m + 1) \in Nat
  BY <1>1, MonthsOf
<1>3. First(m) \in Nat /\ First(m) + 28 <= First(m + 1)
  BY MonthsOf
<1> QED BY <1>2, <1>3

\* A later month begins later.
LEMMA MonthsInOrder ==
  ASSUME NEW m \in Nat, NEW n \in Nat, m < n
  PROVE  First(m + 1) <= First(n)
<1> DEFINE S == {k \in Nat : First(m + 1) <= First(m + 1 + k)}
<1>1. 0 \in S
  BY MonthsOf
<1>2. ASSUME NEW k \in Nat, k \in S PROVE k + 1 \in S
  <2>1. First(m + 1 + k) \in Nat /\ First(m + 1 + k) <= First(m + 1 + k + 1)
    BY MonthsOf
  <2>2. m + 1 + (k + 1) = m + 1 + k + 1 /\ First(m + 1) \in Nat /\ First(m + 1 + k + 1) \in Nat
    BY MonthsOf
  <2> QED BY <1>2, <2>1, <2>2
<1>3. Nat \subseteq S
  BY <1>1, <1>2, OneAfterAnother
<1>4. n - m - 1 \in Nat /\ m + 1 + (n - m - 1) = n
  OBVIOUS
<1> QED BY <1>3, <1>4

LEMMA MonthFound ==
  ASSUME NEW d \in Nat
  PROVE  /\ Page!MonthOf(d) \in Nat
         /\ First(Page!MonthOf(d)) <= d /\ d < First(Page!MonthOf(d) + 1)
<1> DEFINE In(m, e) == First(m) <= e /\ e < First(m + 1)
           S == {e \in Nat : \E m \in Nat : In(m, e)}
<1>1. 0 \in S
  BY MonthsOf
<1>2. ASSUME NEW e \in Nat, e \in S PROVE e + 1 \in S
  <2>1. PICK m \in Nat : In(m, e)
    BY <1>2
  <2>2. /\ First(m) \in Nat /\ First(m + 1) \in Nat /\ First(m + 2) \in Nat
        /\ First(m + 1) < First(m + 2) /\ (m + 1) + 1 = m + 2
    <3>1. m + 1 \in Nat /\ (m + 1) + 1 = m + 2 /\ m + 2 \in Nat
      OBVIOUS
    <3>2. First(m) \in Nat /\ First(m + 2) \in Nat
      BY <3>1, MonthsOf
    <3>3. First(m + 1) \in Nat /\ First(m + 1) + 28 <= First(m + 2)
      BY <3>1, MonthsOf
    <3> QED BY <3>1, <3>2, <3>3
  <2>3. In(m, e + 1) \/ In(m + 1, e + 1)
    BY <2>1, <2>2
  <2> QED BY <2>3
<1>3. Nat \subseteq S
  BY <1>1, <1>2, OneAfterAnother
<1>4. PICK m \in Nat : In(m, d)
  BY <1>3
<1>5. m \in (d \div 31) .. (d \div 28)
  <2>1. 28 * m <= d /\ d < 31 * (m + 1)
    <3>1. First(m) \in Nat /\ 28 * m <= First(m) /\ First(m + 1) \in Nat /\ First(m + 1) <= 31 * (m + 1)
      BY MonthsOf
    <3> QED BY <1>4, <3>1
  <2> QED BY <2>1
<1>6. Page!MonthOf(d) = CHOOSE k \in (d \div 31) .. (d \div 28) : In(k, d)
  BY DEF Page!MonthOf, First
<1>7. (d \div 31) .. (d \div 28) \subseteq Nat
  OBVIOUS
<1> HIDE DEF In
<1>8. Page!MonthOf(d) \in (d \div 31) .. (d \div 28) /\ In(Page!MonthOf(d), d)
  BY <1>4, <1>5, <1>6
<1> QED BY <1>7, <1>8 DEF In
-------------------------------------------------------------------------------
(***************************************************************************)
(* Buckets.  The buckets of a grain are numbered: a bucket begins with the *)
(* day BucketDay and ends before the next, and a day is in one of them.    *)
(***************************************************************************)
Grains == {"day", "week", "month"}

Bucket(d, grain) ==
  CASE grain = "day" -> d
    [] grain = "week" -> (d + 6) \div 7
    [] grain = "month" -> Page!MonthOf(d)

BucketDay(n, grain) ==
  CASE grain = "day" -> n
    [] grain = "week" -> 7 * n - 6
    [] grain = "month" -> First(n)

\* The first Monday of the calendar is its second day.
Dated(d, grain) == d \in Nat /\ (grain = "week" => d >= 1)
Start(n, grain) == 2 * BucketDay(n, grain)

LEMMA BucketsOf ==
  ASSUME NEW d, NEW g \in Grains, Dated(d, g)
  PROVE  /\ Bucket(d, g) \in Nat
         /\ BucketDay(Bucket(d, g), g) <= d /\ d < BucketDay(Bucket(d, g) + 1, g)
         /\ Dated(BucketDay(Bucket(d, g), g), g)
<1>1. CASE g = "day"
  BY <1>1 DEF Dated, Bucket, BucketDay
<1>2. CASE g = "week"
  BY <1>2 DEF Dated, Bucket, BucketDay
<1>3. CASE g = "month"
  BY <1>3, MonthFound, MonthsOf DEF Dated, Bucket, BucketDay
<1> QED BY <1>1, <1>2, <1>3 DEF Grains

LEMMA BucketDays ==
  ASSUME NEW n \in Nat, NEW g \in Grains
  PROVE  BucketDay(n, g) \in Int
<1>1. CASE g = "month"
  BY <1>1, MonthsOf DEF BucketDay
<1> QED BY <1>1 DEF Grains, BucketDay

LEMMA BucketsInOrder ==
  ASSUME NEW m \in Nat, NEW n \in Nat, m < n, NEW g \in Grains
  PROVE  BucketDay(m, g) < BucketDay(m + 1, g) /\ BucketDay(m + 1, g) <= BucketDay(n, g)
<1>1. CASE g = "month"
  <2>1. /\ First(m) \in Nat /\ First(m + 1) \in Nat /\ First(n) \in Nat /\ First(m) < First(m + 1)
        /\ First(m + 1) <= First(n)
    BY MonthsInOrder, MonthsGrow
  <2> QED BY <1>1, <2>1 DEF BucketDay
<1> QED BY <1>1 DEF Grains, BucketDay

\* A day is in one bucket only, a later one in no earlier bucket.
LEMMA BucketIs ==
  ASSUME NEW d, NEW g \in Grains, Dated(d, g), NEW n \in Nat,
         BucketDay(n, g) <= d, d < BucketDay(n + 1, g)
  PROVE  Bucket(d, g) = n
<1> DEFINE b == Bucket(d, g)
<1>1. b \in Nat /\ BucketDay(b, g) <= d /\ d < BucketDay(b + 1, g) /\ d \in Nat
  BY BucketsOf DEF Dated
<1> HIDE DEF b
<1>2. /\ BucketDay(b, g) \in Int /\ BucketDay(n, g) \in Int
      /\ BucketDay(b + 1, g) \in Int /\ BucketDay(n + 1, g) \in Int
  BY <1>1, BucketDays
<1>3. b < n => BucketDay(b + 1, g) <= BucketDay(n, g)
  BY <1>1, BucketsInOrder
<1>4. n < b => BucketDay(n + 1, g) <= BucketDay(b, g)
  BY <1>1, BucketsInOrder
<1>5. b = n
  BY <1>1, <1>2, <1>3, <1>4
<1> QED BY <1>5 DEF b

LEMMA LaterBucket ==
  ASSUME NEW d, NEW e, NEW g \in Grains, Dated(d, g), Dated(e, g), d <= e
  PROVE  Bucket(d, g) <= Bucket(e, g)
<1> DEFINE b == Bucket(d, g)
           c == Bucket(e, g)
<1>1. /\ b \in Nat /\ BucketDay(b, g) <= d /\ d \in Nat
      /\ c \in Nat /\ e < BucketDay(c + 1, g) /\ e \in Nat
  BY BucketsOf DEF Dated
<1> HIDE DEF b, c
<1>2. BucketDay(b, g) \in Int /\ BucketDay(c + 1, g) \in Int
  BY <1>1, BucketDays
<1>3. c < b => BucketDay(c + 1, g) <= BucketDay(b, g)
  BY <1>1, BucketsInOrder
<1>4. b <= c
  BY <1>1, <1>2, <1>3
<1> QED BY <1>4 DEF b, c

\* Both the database and the program cut a moment to the start of its bucket.
LEMMA Truncated ==
  ASSUME NEW t \in Nat, NEW g \in Grains, Dated(t \div 2, g)
  PROVE  /\ Page!Trunc(t, g) = Start(Bucket(t \div 2, g), g)
         /\ Page!truncate(t, g) = Start(Bucket(t \div 2, g), g)
<1> DEFINE d == t \div 2
<1>1. d \in Nat /\ t \div Page!TicksPerDay = d
  BY DEF Page!TicksPerDay
<1>2. CASE g = "day"
  BY <1>1, <1>2 DEF Page!Trunc, Page!truncate, Page!TicksPerDay, Start, Bucket, BucketDay
<1>3. CASE g = "month"
  BY <1>1, <1>3 DEF Page!Trunc, Page!truncate, Page!TicksPerDay, Start, Bucket, BucketDay, First
<1>4. CASE g = "week"
  <2> DEFINE c == d - ((d + 6) % 7)
             Mondays == {e \in (IF d < 6 THEN 0 ELSE d - 6) .. d : Page!Weekday(e) = 0}
  <2>1. d >= 1
    BY <1>4 DEF Dated
  <2> HIDE DEF d
  <2>2. c = 7 * ((d + 6) \div 7) - 6 /\ c \in Nat
    BY <1>1, <2>1
  <2>3. c \in Mondays
    <3>1. (c + 6) % 7 = 0
      <4> DEFINE q == (d + 6) \div 7
      <4>1. q \in Nat /\ c + 6 = 7 * q
        BY <1>1, <2>2
      <4> HIDE DEF q
      <4>2. (7 * q) % 7 = 0
        BY <4>1
      <4> QED BY <4>1, <4>2
    <3>2. c \in (IF d < 6 THEN 0 ELSE d - 6) .. d
      BY <1>1, <2>1, <2>2
    <3> QED BY <3>1, <3>2 DEF Page!Weekday
  <2>4. ASSUME NEW e \in Mondays PROVE e <= c
    <3>1. e \in Nat /\ e <= d /\ (e + 6) % 7 = 0
      BY <1>1 DEF Page!Weekday
    <3> QED BY <1>1, <3>1, <2>2
  <2>5. Mondays \subseteq Nat
    BY <1>1
  <2> HIDE DEF c, Mondays
  <2>6. Page!Max(Mondays) = c
    <3>1. \A e \in Mondays : (\A f \in Mondays : e >= f) <=> e = c
      BY <2>3, <2>4, <2>5
    <3> QED BY <2>3, <3>1 DEF Page!Max
  <2>7. Page!Trunc(t, g) = 2 * c
    BY <1>1, <1>4, <2>6 DEF Page!Trunc, Page!TicksPerDay, Mondays
  <2>8. Page!truncate(t, g) = 2 * c
    BY <1>1, <1>4 DEF Page!truncate, Page!TicksPerDay, Page!Weekday, c
  <2>9. Start(Bucket(d, g), g) = 2 * c
    BY <1>1, <1>4, <2>2 DEF Start, Bucket, BucketDay
  <2> QED BY <2>7, <2>8, <2>9 DEF d
<1> QED BY <1>2, <1>3, <1>4 DEF Grains

\* The start of a bucket is in it, and the next bucket is the next number.
LEMMA NextBucket ==
  ASSUME NEW n \in Nat, NEW g \in Grains, Dated(BucketDay(n, g), g)
  PROVE  Page!next_bucket(Start(n, g), g) = Start(n + 1, g)
<1> DEFINE d == BucketDay(n, g)
<1>1. d \in Nat /\ Start(n, g) \div Page!TicksPerDay = d
  BY DEF Dated, Start, Page!TicksPerDay
<1>2. Bucket(d, g) = n
  <2>1. d < BucketDay(n + 1, g)
    BY <1>1, BucketsInOrder
  <2> QED BY <1>1, <2>1, BucketIs
<1>3. CASE g = "day"
  BY <1>1, <1>3 DEF Page!next_bucket, Page!TicksPerDay, Start, BucketDay
<1>4. CASE g = "week"
  BY <1>1, <1>4 DEF Page!next_bucket, Page!TicksPerDay, Start, BucketDay
<1>5. CASE g = "month"
  <2>1. Page!next_bucket(Start(n, g), g) = Page!FirstOfMonth[Page!MonthOf(d) + 1] * Page!TicksPerDay
    BY <1>1, <1>5 DEF Page!next_bucket
  <2>2. Page!next_bucket(Start(n, g), g) = First(n + 1) * 2
    BY <1>2, <1>5, <2>1 DEF Bucket, First, Page!TicksPerDay
  <2>3. Start(n + 1, g) = 2 * First(n + 1) /\ First(n + 1) \in Nat
    BY <1>5, MonthsOf DEF Start, BucketDay, First
  <2> QED BY <2>2, <2>3
<1> QED BY <1>3, <1>4, <1>5 DEF Grains
\* Of a bucket's day only what Dated says matters.
LEMMA DatedAfter ==
  ASSUME NEW m \in Nat, NEW k \in Nat, NEW g \in Grains, Dated(BucketDay(m, g), g)
  PROVE  Dated(BucketDay(m + k, g), g)
<1>1. k = 0 \/ m < m + k
  OBVIOUS
<1>2. BucketDay(m, g) \in Int /\ BucketDay(m + k, g) \in Int /\ BucketDay(m + 1, g) \in Int
  BY BucketDays
<1>3. m < m + k => BucketDay(m, g) <= BucketDay(m + k, g)
  <2>1. m < m + k => BucketDay(m, g) < BucketDay(m + 1, g) /\ BucketDay(m + 1, g) <= BucketDay(m + k, g)
    BY BucketsInOrder
  <2> QED BY <1>2, <2>1
<1> QED BY <1>1, <1>2, <1>3 DEF Dated

\* The axis holds the buckets from the first to the last, one after the other.
Onward(g) == [bucket \in Nat |-> Page!next_bucket(bucket, g)]
IsAxis(f, lower, g) ==
  f = [k \in 1 .. 60 |-> IF k = 1 THEN lower ELSE Onward(g)[f[k - 1]]]

LEMMA AxisOnward ==
  ASSUME NEW m \in Nat, NEW g \in Grains, Dated(BucketDay(m, g), g), NEW f, IsAxis(f, Start(m, g), g)
  PROVE  \A k \in 1 .. 60 : f[k] = Start(m + k - 1, g)
<1> DEFINE Next1(x) == Onward(g)[x]
<1>1. f = [k \in 1 .. 60 |-> IF k = 1 THEN Start(m, g) ELSE Next1(f[k - 1])]
  BY DEF IsAxis
<1>2. \A k \in Nat : Next1(Start(m + k, g)) = Start(m + k + 1, g)
  <2> TAKE k \in Nat
  <2>1. Dated(BucketDay(m + k, g), g) /\ m + k \in Nat
    BY DatedAfter
  <2>2. Start(m + k, g) \in Nat
    BY <2>1 DEF Start, Dated
  <2> QED BY <2>1, <2>2, NextBucket DEF Onward
<1> HIDE DEF Next1
<1> DEFINE S == {k \in Nat : k + 1 <= 60 => f[k + 1] = Start(m + k, g)}
<1>3. 0 \in S
  BY <1>1
<1>4. ASSUME NEW k \in Nat, k \in S PROVE k + 1 \in S
  <2>1. CASE k + 2 <= 60
    <3>1. k + 2 \in 1 .. 60 /\ k + 2 # 1 /\ (k + 2) - 1 = k + 1
      BY <2>1
    <3>2. f[k + 2] = Next1(f[k + 1])
      BY <1>1, <3>1
    <3>3. f[k + 1] = Start(m + k, g)
      BY <1>4, <2>1
    <3>4. f[k + 2] = Start(m + k + 1, g)
      BY <1>2, <3>2, <3>3
    <3> QED BY <3>4
  <2> QED BY <2>1
<1>5. Nat \subseteq S
  BY <1>3, <1>4, OneAfterAnother
<1> SUFFICES ASSUME NEW k \in 1 .. 60 PROVE f[k] = Start(m + k - 1, g)
  OBVIOUS
<1>6. k - 1 \in Nat /\ (k - 1) + 1 = k /\ m + (k - 1) = m + k - 1
  OBVIOUS
<1> QED BY <1>5, <1>6

LEMMA AxisThere ==
  ASSUME NEW m \in Nat, NEW g \in Grains, Dated(BucketDay(m, g), g)
  PROVE  \E f : IsAxis(f, Start(m, g), g)
<1> DEFINE f == [k \in 1 .. 60 |-> Start(m + k - 1, g)]
<1>1. ASSUME NEW k \in 1 .. 60, k # 1 PROVE Start(m + k - 1, g) = Onward(g)[f[k - 1]]
  <2>1. k - 2 \in Nat /\ k - 1 \in 1 .. 60 /\ m + (k - 1) - 1 = m + (k - 2) /\ m + (k - 2) + 1 = m + k - 1
    BY <1>1
  <2>2. f[k - 1] = Start(m + (k - 2), g)
    BY <2>1
  <2>3. Dated(BucketDay(m + (k - 2), g), g) /\ m + (k - 2) \in Nat
    BY <2>1, DatedAfter
  <2>4. Page!next_bucket(Start(m + (k - 2), g), g) = Start(m + (k - 2) + 1, g)
    BY <2>3, NextBucket
  <2>5. Start(m + (k - 2), g) \in Nat
    BY <2>3 DEF Start, Dated
  <2> QED BY <2>1, <2>2, <2>4, <2>5 DEF Onward
<1>2. Start(m + 1 - 1, g) = Start(m, g)
  OBVIOUS
<1>3. f = [k \in 1 .. 60 |-> IF k = 1 THEN Start(m, g) ELSE Onward(g)[f[k - 1]]]
  BY <1>1, <1>2
<1> QED BY <1>3 DEF IsAxis

LEMMA AxisIs ==
  ASSUME NEW m \in Nat, NEW n \in Nat, m <= n, n - m < 60, NEW g \in Grains,
         Dated(BucketDay(m, g), g)
  PROVE  Page!bucket_axis(Start(m, g), Start(n, g), g)
           = [k \in 1 .. (n - m + 1) |-> Start(m + k - 1, g)]
<1> DEFINE f == CHOOSE h : IsAxis(h, Start(m, g), g)
           Ends(x) == (x # 0 => f[x] <= Start(n, g)) /\ (x # 60 => Start(n, g) < f[x + 1])
           N == CHOOSE x \in 0 .. 60 : Ends(x)
<1>1. Page!bucket_axis(Start(m, g), Start(n, g), g) = [k \in 1 .. N |-> f[k]]
  BY DEF Page!bucket_axis, Page!Axis, Page!LastMonth, IsAxis, Onward
<1>2. \A k \in 1 .. 60 : f[k] = Start(m + k - 1, g)
  BY AxisThere, AxisOnward
<1> HIDE DEF f
<1>3. \A j \in 1 .. 60 : f[j] <= Start(n, g) <=> j <= n - m + 1
  <2> TAKE j \in 1 .. 60
  <2>1. m + j - 1 \in Nat /\ (j <= n - m + 1 <=> m + j - 1 <= n)
    OBVIOUS
  <2> DEFINE i == m + j - 1
  <2>2. f[j] = Start(i, g) /\ i \in Nat /\ (j <= n - m + 1 <=> i <= n)
    BY <1>2, <2>1
  <2> HIDE DEF i
  <2>3. BucketDay(i, g) \in Int /\ BucketDay(n, g) \in Int /\ BucketDay(i + 1, g) \in Int
        /\ BucketDay(n + 1, g) \in Int
    <3>1. i + 1 \in Nat /\ n + 1 \in Nat
      BY <2>2
    <3> QED BY <2>2, <3>1, BucketDays
  <2>4. i < n => BucketDay(i, g) < BucketDay(i + 1, g) /\ BucketDay(i + 1, g) <= BucketDay(n, g)
    BY <2>2, BucketsInOrder
  <2>5. n < i => BucketDay(n, g) < BucketDay(n + 1, g) /\ BucketDay(n + 1, g) <= BucketDay(i, g)
    BY <2>2, BucketsInOrder
  <2> QED BY <2>2, <2>3, <2>4, <2>5 DEF Start
<1>4. \A x \in 0 .. 60 : Ends(x) <=> x = n - m + 1
  <2> TAKE x \in 0 .. 60
  <2>1. n - m + 1 \in 1 .. 60
    OBVIOUS
  <2>2. x # 0 => (f[x] <= Start(n, g) <=> x <= n - m + 1)
    BY <1>3
  <2>3. x # 60 => (Start(n, g) < f[x + 1] <=> n - m + 1 < x + 1)
    <3>1. ASSUME x # 60 PROVE f[x + 1] \in Int /\ Start(n, g) \in Int /\ x + 1 \in 1 .. 60
      <4>1. x + 1 \in 1 .. 60 /\ m + (x + 1) - 1 \in Nat
        BY <3>1
      <4> QED BY <1>2, <4>1, BucketDays DEF Start
    <3> QED BY <1>3, <3>1
  <2> QED BY <2>1, <2>2, <2>3
<1>5. N = n - m + 1
  <2> HIDE DEF Ends
  <2>1. n - m + 1 \in 0 .. 60
    OBVIOUS
  <2> QED BY <1>4, <2>1
<1> HIDE DEF N
<1>6. \A k \in 1 .. (n - m + 1) : f[k] = Start(m + k - 1, g)
  BY <1>2
<1> QED BY <1>1, <1>5, <1>6
-------------------------------------------------------------------------------
(***************************************************************************)
(* Sums.  If what is counted falls into classes, the sum of the counts by  *)
(* class is the number of what is counted.                                 *)
(***************************************************************************)
InClass(W, class, s) == {i \in W : class[i] = s}

LEMMA TotalOf ==
  ASSUME NEW W, IsFiniteSet(W), NEW S, NEW class, \A i \in W : class[i] \in S,
         NEW sizes, \A s \in S : sizes[s] = Cardinality(InClass(W, class, s))
  PROVE  Page!Total(sizes, S) = Cardinality(W)
<1> DEFINE In(s) == InClass(W, class, s)
           U == UNION {{s} \X (1 .. sizes[s]) : s \in S}
           number == [s \in S |-> CHOOSE h : h \in Bijection(In(s), 1 .. sizes[s])]
           f == [i \in W |-> <<class[i], number[class[i]][i]>>]
<1>1. ASSUME NEW s \in S PROVE number[s] \in Bijection(In(s), 1 .. sizes[s])
  <2>1. IsFiniteSet(In(s))
    BY FS_Subset DEF InClass
  <2>2. ExistsBijection(1 .. Cardinality(In(s)), In(s))
    BY <2>1, FS_CardinalityType
  <2>3. ExistsBijection(In(s), 1 .. Cardinality(In(s)))
    BY <2>2, Fun_ExistsBijSymmetric
  <2>4. \E h : h \in Bijection(In(s), 1 .. sizes[s])
    BY <2>3 DEF ExistsBijection
  <2> HIDE DEF In
  <2> QED BY <2>4
<1> HIDE DEF number
<1>2. \A s \in S : /\ number[s] \in [In(s) -> 1 .. sizes[s]]
                   /\ \A i, j \in In(s) : number[s][i] = number[s][j] => i = j
                   /\ \A k \in 1 .. sizes[s] : \E i \in In(s) : number[s][i] = k
  BY <1>1 DEF Bijection, Injection, Surjection, IsInjective
<1>3. \A p : p \in U <=> \E s \in S : \E k \in 1 .. sizes[s] : p = <<s, k>>
  OBVIOUS
<1> HIDE DEF U
<1>4. \A i \in W : f[i] \in U
  <2> TAKE i \in W
  <2>1. class[i] \in S /\ i \in In(class[i])
    BY DEF InClass
  <2>2. number[class[i]][i] \in 1 .. sizes[class[i]]
    <3> DEFINE s == class[i]
    <3> HIDE DEF s, In
    <3>1. number[s] \in [In(s) -> 1 .. sizes[s]] /\ i \in In(s)
      BY <1>2, <2>1 DEF s
    <3>2. number[s][i] \in 1 .. sizes[s]
      BY <3>1
    <3> QED BY <3>2 DEF s
  <2> QED BY <1>3, <2>1, <2>2
<1>5. \A i, j \in W : f[i] = f[j] => i = j
  <2> SUFFICES ASSUME NEW i \in W, NEW j \in W, f[i] = f[j] PROVE i = j
    OBVIOUS
  <2>1. class[i] = class[j] /\ number[class[i]][i] = number[class[j]][j]
    OBVIOUS
  <2> DEFINE s == class[i]
  <2>2. s \in S /\ i \in In(s) /\ j \in In(s) /\ number[s][i] = number[s][j]
    BY <2>1 DEF InClass
  <2> HIDE DEF s, In
  <2> QED BY <1>2, <2>2
<1>6. \A p \in U : \E i \in W : f[i] = p
  <2> TAKE p \in U
  <2>1. PICK s \in S : \E k \in 1 .. sizes[s] : p = <<s, k>>
    BY <1>3
  <2>4. PICK k \in 1 .. sizes[s] : p = <<s, k>>
    BY <2>1
  <2>2. PICK i \in In(s) : number[s][i] = k
    BY <1>2
  <2>3. i \in W /\ class[i] = s
    BY DEF InClass
  <2> QED BY <2>4, <2>2, <2>3
<1>7. f \in [W -> U]
  BY <1>4
<1> HIDE DEF f
<1>8. f \in Bijection(W, U)
  BY <1>5, <1>6, <1>7, Fun_IsBij
<1>9. Cardinality(U) = Cardinality(W)
  <2>1. ExistsBijection(W, U)
    BY <1>8 DEF ExistsBijection
  <2> QED BY <2>1, FS_Bijection
<1> QED BY <1>9, PageWords DEF Page!Total, U
-------------------------------------------------------------------------------
(***************************************************************************)
(* The reads of a page.  Breakdown and trend add up to the impressions     *)
(* that are in the window when they are read, and so do their curated      *)
(* parts.                                                                  *)
(***************************************************************************)
OnPages == {"digest", "app_page"}
Everywhere == OnPages \cup {"widget"}
CuratedOf(V) == {i \in V : shows[i].surface \in {"digest"}}

ShowsTyped == shows \in [Shows -> {None} \cup [at : Nat, surface : Everywhere]]

WindowOK(w) ==
  /\ w.grain \in Grains /\ w.allTime \in BOOLEAN
  /\ w.start \in Nat /\ w.end \in Nat /\ w.start <= w.end /\ w.end < 2 * First(60)
  /\ w.allTime => w.grain = "month"
  /\ w.grain = "day" => w.end - w.start <= 60
  /\ w.grain = "week" => w.start >= 2 /\ w.end - w.start <= 360

LEMMA PageConstants ==
  /\ IsFiniteSet(Shows) /\ None \notin [at : Nat, surface : Everywhere]
  /\ Todays \subseteq Nat /\ Ages \subseteq Nat
  /\ \A t \in Todays : /\ 2190 <= t /\ t + 1 < 2 * First(60)
                       /\ \A a \in Ages : a <= t
<1>1. Page!ReceptionAssumption
  BY PartConstants
<1>2. First(60) \in Nat
  BY MonthsGrow
<1> QED BY <1>1, <1>2, PageWords
       DEF Page!ReceptionAssumption, Page!TicksPerDay, Page!LastMonth, First, Everywhere, OnPages

LEMMA InTheWindow ==
  ASSUME ShowsTyped, NEW w, WindowOK(w), NEW W, W = Page!InWindow(w)
  PROVE  /\ IsFiniteSet(W) /\ Cardinality(W) \in Nat
         /\ IsFiniteSet(CuratedOf(W)) /\ Cardinality(CuratedOf(W)) \in Nat
         /\ \A i \in W : /\ i \in Shows /\ shows[i] \in [at : Nat, surface : Everywhere]
                         /\ shows[i].at \in Nat /\ shows[i].surface \in OnPages
                         /\ w.start <= shows[i].at /\ shows[i].at <= w.end
<1>1. W = {i \in Shows : shows[i] # None /\ shows[i].surface \in OnPages
                           /\ shows[i].at \in w.start .. w.end}
  BY DEF Page!InWindow, Page!Between, OnPages
<1>2. W \subseteq Shows /\ CuratedOf(W) \subseteq W
  BY <1>1 DEF CuratedOf
<1>3. IsFiniteSet(W) /\ IsFiniteSet(CuratedOf(W))
  BY <1>2, PageConstants, FS_Subset
<1>4. Cardinality(W) \in Nat /\ Cardinality(CuratedOf(W)) \in Nat
  BY <1>3, FS_CardinalityType
<1>5. \A i \in W : shows[i] \in [at : Nat, surface : Everywhere]
  BY <1>1 DEF ShowsTyped
<1> QED BY <1>1, <1>3, <1>4, <1>5 DEF WindowOK

\* Counts by surface add up, and those of the curated surfaces to the curated part.
LEMMA BySurface ==
  ASSUME NEW V, IsFiniteSet(V), \A i \in V : shows[i].surface \in OnPages,
         NEW sizes,
         \A s \in OnPages : sizes[s] = Cardinality({i \in V : shows[i].surface = s})
  PROVE  /\ Page!Total(sizes, OnPages) = Cardinality(V)
         /\ Page!curated_total(sizes) = Cardinality(CuratedOf(V))
<1> DEFINE class == [i \in V |-> shows[i].surface]
           C == CuratedOf(V)
           curated == [i \in C |-> shows[i].surface]
<1>1. Page!Total(sizes, OnPages) = Cardinality(V)
  <2>1. \A i \in V : class[i] \in OnPages
    OBVIOUS
  <2>2. \A s \in OnPages : sizes[s] = Cardinality(InClass(V, class, s))
    <3> TAKE s \in OnPages
    <3>1. InClass(V, class, s) = {i \in V : shows[i].surface = s}
      BY DEF InClass
    <3> QED BY <3>1
  <2> HIDE DEF class
  <2> QED BY <2>1, <2>2, TotalOf
<1>2. Page!Total(sizes, {"digest"}) = Cardinality(C)
  <2>1. IsFiniteSet(C)
    BY FS_Subset DEF CuratedOf
  <2>2. \A i \in C : curated[i] \in {"digest"}
    BY DEF CuratedOf
  <2>3. \A s \in {"digest"} : sizes[s] = Cardinality(InClass(C, curated, s))
    <3> TAKE s \in {"digest"}
    <3>1. InClass(C, curated, s) = {i \in V : shows[i].surface = s}
      BY DEF CuratedOf, InClass
    <3>2. s \in OnPages
      BY DEF OnPages
    <3> QED BY <3>1, <3>2
  <2> HIDE DEF curated, C
  <2> QED BY <2>1, <2>2, <2>3, TotalOf
<1> QED BY <1>1, <1>2 DEF Page!curated_total

LEMMA BreakdownIs ==
  ASSUME ShowsTyped, NEW w, WindowOK(w)
  PROVE  /\ Page!Total(Page!impression_breakdown(w), OnPages) = Cardinality(Page!InWindow(w))
         /\ Page!curated_total(Page!impression_breakdown(w)) = Cardinality(CuratedOf(Page!InWindow(w)))
<1> DEFINE W == Page!InWindow(w)
           sizes == Page!impression_breakdown(w)
<1>1. IsFiniteSet(W) /\ \A i \in W : shows[i].surface \in OnPages
  BY InTheWindow
<1>2. sizes = [s \in OnPages |-> Cardinality({i \in W : shows[i].surface = s})]
  BY PageWords DEF Page!impression_breakdown, OnPages
<1> HIDE DEF W, sizes
<1>3. \A s \in OnPages : sizes[s] = Cardinality({i \in W : shows[i].surface = s})
  BY <1>2
<1>4. /\ Page!Total(sizes, OnPages) = Cardinality(W)
      /\ Page!curated_total(sizes) = Cardinality(CuratedOf(W))
  BY <1>1, <1>3, BySurface
<1> QED BY <1>4 DEF W, sizes
\* The buckets that hold something, by their starts.
Cut(i, g) == Page!Trunc(shows[i].at, g)
CutAt(W, g, b) == {i \in W : Cut(i, g) = b}
Cuts(W, g) == {Cut(i, g) : i \in W}

LEMMA SparseIs ==
  ASSUME ShowsTyped, NEW w, WindowOK(w), NEW W, W = Page!InWindow(w),
         NEW sparse, sparse = Page!impression_trend(w)
  PROVE  /\ DOMAIN sparse = Cuts(W, w.grain)
         /\ \A b \in Cuts(W, w.grain) :
              /\ Page!Total(sparse[b], OnPages) = Cardinality(CutAt(W, w.grain, b))
              /\ Page!curated_total(sparse[b]) = Cardinality(CuratedOf(CutAt(W, w.grain, b)))
<1> DEFINE g == w.grain
           BothAt(b, s) == {i \in W : Cut(i, g) = b /\ shows[i].surface = s}
<1>1. sparse = [b \in Cuts(W, g) |-> [s \in OnPages |-> Cardinality(BothAt(b, s))]]
  BY PageWords DEF Page!impression_trend, Cut, Cuts, OnPages
<1>2. ASSUME NEW b \in Cuts(W, g)
      PROVE  /\ Page!Total(sparse[b], OnPages) = Cardinality(CutAt(W, g, b))
             /\ Page!curated_total(sparse[b]) = Cardinality(CuratedOf(CutAt(W, g, b)))
  <2> DEFINE V == CutAt(W, g, b)
             sizes == sparse[b]
  <2>1. IsFiniteSet(V) /\ \A i \in V : shows[i].surface \in OnPages
    <3>1. V \subseteq W
      BY DEF CutAt
    <3>2. IsFiniteSet(W) /\ \A i \in W : shows[i].surface \in OnPages
      BY InTheWindow
    <3> QED BY <3>1, <3>2, FS_Subset
  <2>2. ASSUME NEW s \in OnPages PROVE sizes[s] = Cardinality({i \in V : shows[i].surface = s})
    <3>1. BothAt(b, s) = {i \in V : shows[i].surface = s}
      BY DEF CutAt
    <3>2. sizes[s] = Cardinality(BothAt(b, s))
      <4> HIDE DEF BothAt, g
      <4> QED BY <1>1
    <3> QED BY <3>1, <3>2
  <2> HIDE DEF V, sizes
  <2>3. /\ Page!Total(sizes, OnPages) = Cardinality(V)
        /\ Page!curated_total(sizes) = Cardinality(CuratedOf(V))
    BY <2>1, <2>2, BySurface
  <2> QED BY <2>3 DEF V, sizes
<1>3. DOMAIN sparse = Cuts(W, g)
  <2> HIDE DEF BothAt, g
  <2> QED BY <1>1
<1> QED BY <1>2, <1>3

\* The bucket of an impression, and the last bucket of a window.
No(i, g) == Bucket(shows[i].at \div 2, g)
Last(w) == Bucket(w.end \div 2, w.grain)

LEMMA Numbered ==
  ASSUME ShowsTyped, NEW w, WindowOK(w), NEW i \in Page!InWindow(w)
  PROVE  /\ No(i, w.grain) \in Nat /\ Dated(BucketDay(No(i, w.grain), w.grain), w.grain)
         /\ Cut(i, w.grain) = Start(No(i, w.grain), w.grain)
         /\ No(i, w.grain) <= Last(w)
         /\ Bucket(w.start \div 2, w.grain) <= No(i, w.grain)
<1> DEFINE g == w.grain
           t == shows[i].at
<1>1. g \in Grains /\ t \in Nat /\ w.start <= t /\ t <= w.end /\ w.start \in Nat /\ w.end \in Nat
      /\ (g = "week" => w.start >= 2)
  BY InTheWindow DEF WindowOK
<1> HIDE DEF g, t
<1>2. /\ t \div 2 \in Nat /\ w.start \div 2 \in Nat /\ w.end \div 2 \in Nat
      /\ w.start \div 2 <= t \div 2 /\ t \div 2 <= w.end \div 2
      /\ Dated(t \div 2, g) /\ Dated(w.start \div 2, g) /\ Dated(w.end \div 2, g)
  BY <1>1 DEF Dated
<1>3. Bucket(t \div 2, g) <= Bucket(w.end \div 2, g) /\ Bucket(w.start \div 2, g) <= Bucket(t \div 2, g)
  BY <1>1, <1>2, LaterBucket
<1>4. Bucket(t \div 2, g) \in Nat /\ Dated(BucketDay(Bucket(t \div 2, g), g), g)
  BY <1>1, <1>2, BucketsOf
<1>5. Page!Trunc(t, g) = Start(Bucket(t \div 2, g), g)
  BY <1>1, <1>2, Truncated
<1> QED BY <1>3, <1>4, <1>5 DEF No, Cut, Last, g, t

\* The buckets of a window, the first and the last, and how many they are.
Buckets(w, first) ==
  /\ first \in Nat /\ Last(w) \in Nat /\ first <= Last(w)
  /\ Dated(BucketDay(first, w.grain), w.grain)
  /\ w.grain = "day" => Last(w) - first <= 30
  /\ w.grain = "week" => Last(w) - first <= 26
  /\ Last(w) - first < 60

LEMMA LastIs ==
  ASSUME NEW w, WindowOK(w)
  PROVE  /\ Last(w) \in Nat /\ (w.grain = "month" => Last(w) < 60)
         /\ Page!truncate(w.end, w.grain) = Start(Last(w), w.grain)
<1> DEFINE g == w.grain
           d == w.end \div 2
           n == Last(w)
<1>1. g \in Grains /\ w.end \in Nat /\ d \in Nat /\ Dated(d, g) /\ d < First(60)
  <2>1. First(60) \in Nat
    BY MonthsGrow
  <2> QED BY <2>1 DEF WindowOK, Dated
<1> HIDE DEF g, d
<1>2. n = Bucket(d, g)
  BY DEF Last, d, g
<1>3. n \in Nat /\ BucketDay(n, g) <= d /\ Page!truncate(w.end, g) = Start(n, g)
  BY <1>1, <1>2, BucketsOf, Truncated DEF d
<1> HIDE DEF n
<1>4. g = "month" => n < 60
  <2> SUFFICES ASSUME g = "month", 60 <= n PROVE FALSE
    BY <1>3
  <2>1. First(60) <= First(n)
    <3>1. n = 60 \/ 60 < n
      BY <1>3
    <3>2. 60 < n => First(60 + 1) <= First(n)
      BY <1>3, MonthsInOrder
    <3>3. First(60) \in Nat /\ First(60) < First(60 + 1) /\ First(60 + 1) \in Nat /\ First(n) \in Nat
      BY <1>3, MonthsGrow
    <3> QED BY <3>1, <3>2, <3>3
  <2>2. First(n) <= d /\ First(n) \in Nat /\ First(60) \in Nat
    BY <1>3, MonthsGrow DEF BucketDay
  <2> QED BY <1>1, <2>1, <2>2
<1> QED BY <1>3, <1>4 DEF n, g

LEMMA FirstOfWindow ==
  ASSUME NEW w, WindowOK(w), ~ w.allTime
  PROVE  LET first == Bucket(w.start \div 2, w.grain)
         IN Buckets(w, first) /\ Page!truncate(w.start, w.grain) = Start(first, w.grain)
<1> DEFINE g == w.grain
           d == w.start \div 2
           e == w.end \div 2
           m == Bucket(d, g)
           n == Last(w)
<1>1. /\ g \in Grains /\ w.start \in Nat /\ w.end \in Nat /\ d \in Nat /\ e \in Nat /\ d <= e
      /\ Dated(d, g) /\ Dated(e, g)
      /\ (g = "day" => e - d <= 30) /\ (g = "week" => e - d <= 180)
  BY DEF WindowOK, Dated
<1> HIDE DEF g, d, e
<1>2. m \in Nat /\ Dated(BucketDay(m, g), g) /\ Page!truncate(w.start, g) = Start(m, g)
  BY <1>1, BucketsOf, Truncated DEF d
<1>3. n \in Nat /\ (g = "month" => n < 60)
  BY LastIs DEF g
<1>4. n = Bucket(e, g)
  BY DEF Last, e, g
<1>5. m <= n
  BY <1>1, <1>4, LaterBucket
<1>6. (g = "day" => n - m <= 30) /\ (g = "week" => n - m <= 26)
  BY <1>1, <1>4 DEF Bucket
<1> HIDE DEF m, n
<1>7. n - m < 60
  BY <1>1, <1>2, <1>3, <1>5, <1>6 DEF Grains
<1> QED BY <1>2, <1>3, <1>5, <1>6, <1>7 DEF Buckets, m, n, g, d
LEMMA FirstOfAll ==
  ASSUME ShowsTyped, NEW w, WindowOK(w), w.allTime, NEW W, W = Page!InWindow(w), W # {}
  PROVE  \E first \in Nat : /\ Buckets(w, first) /\ Page!Min(Cuts(W, w.grain)) = Start(first, w.grain)
                            /\ \A i \in W : first <= No(i, w.grain)
<1> DEFINE g == w.grain
           T == Cuts(W, g)
<1>1. g = "month" /\ g \in Grains
  BY DEF WindowOK
<1> HIDE DEF g
<1>2. \A i \in W : /\ No(i, g) \in Nat /\ Dated(BucketDay(No(i, g), g), g)
                   /\ Cut(i, g) = Start(No(i, g), g) /\ No(i, g) <= Last(w)
  BY Numbered DEF g
<1>3. T \subseteq Nat /\ T # {}
  <2>1. \A i \in W : Start(No(i, g), g) \in Nat
    BY <1>2 DEF Start, Dated
  <2> QED BY <1>2, <2>1 DEF Cuts
<1>4. PICK lower \in T : \A b \in T : lower <= b
  BY <1>3, FirstNumber
<1>5. Page!Min(T) = lower
  <2> HIDE DEF T
  <2>1. \A b \in T : (\A c \in T : b <= c) <=> b = lower
    BY <1>3, <1>4
  <2> QED BY <1>4, <2>1 DEF Page!Min
<1>6. PICK j \in W : lower = Cut(j, g)
  BY DEF Cuts
<1>7. ASSUME NEW i \in W PROVE No(j, g) <= No(i, g)
  <2> DEFINE m == No(j, g)
             n == No(i, g)
  <2>1. m \in Nat /\ n \in Nat /\ Start(m, g) <= Start(n, g)
    BY <1>2, <1>4, <1>6 DEF Cuts
  <2> HIDE DEF m, n
  <2>2. BucketDay(m, g) \in Int /\ BucketDay(n, g) \in Int /\ BucketDay(n + 1, g) \in Int
    BY <1>1, <2>1, BucketDays
  <2>3. n < m => BucketDay(n, g) < BucketDay(n + 1, g) /\ BucketDay(n + 1, g) <= BucketDay(m, g)
    BY <1>1, <2>1, BucketsInOrder
  <2>4. m <= n
    BY <2>1, <2>2, <2>3 DEF Start
  <2> QED BY <2>4 DEF m, n
<1>8. Buckets(w, No(j, g))
  <2>1. Last(w) \in Nat /\ Last(w) < 60
    BY <1>1, LastIs DEF g
  <2> QED BY <1>1, <1>2, <2>1 DEF Buckets, g
<1> QED BY <1>2, <1>5, <1>6, <1>7, <1>8 DEF g

\* A trend adds up to what was in the window, and so does its curated part; it is short.
TrendOf(t, W) ==
  /\ Page!Total([k \in DOMAIN t |-> t[k].total], DOMAIN t) = Cardinality(W)
  /\ Page!Total([k \in DOMAIN t |-> t[k].curated], DOMAIN t) = Cardinality(CuratedOf(W))

Short(t, grain) ==
  t # <<>> => CASE grain = "day" -> Len(t) <= 31
                [] grain = "week" -> Len(t) <= 27
                [] grain = "month" -> Len(t) <= Page!LastMonth

LEMMA Long ==
  ASSUME NEW t, NEW N \in Nat, t = [k \in 1 .. N |-> t[k]]
  PROVE  Len(t) = N
<1> DEFINE S == {t[k] : k \in 1 .. N}
<1>1. \A k \in 1 .. N : t[k] \in S
  OBVIOUS
<1> HIDE DEF S
<1>2. t \in Seq(S) /\ Len(t) = N
  BY <1>1
<1> QED BY <1>2

\* A trend counts in each of its places what belongs there.
Counts(t, W, class, K) ==
  /\ DOMAIN t = K /\ IsFiniteSet(W) /\ \A i \in W : class[i] \in K
  /\ \A k \in K : /\ t[k].total = Cardinality(InClass(W, class, k))
                  /\ t[k].curated = Cardinality(CuratedOf(InClass(W, class, k)))

LEMMA Added ==
  ASSUME NEW t, NEW W, NEW class, NEW K, Counts(t, W, class, K)
  PROVE  TrendOf(t, W)
<1>0. /\ DOMAIN t = K /\ IsFiniteSet(W) /\ \A i \in W : class[i] \in K
      /\ \A k \in K : t[k].total = Cardinality(InClass(W, class, k))
      /\ \A k \in K : t[k].curated = Cardinality(CuratedOf(InClass(W, class, k)))
  BY DEF Counts
<1>1. Page!Total([k \in DOMAIN t |-> t[k].total], DOMAIN t) = Cardinality(W)
  <2> DEFINE sizes == [k \in DOMAIN t |-> t[k].total]
  <2>1. \A k \in K : sizes[k] = Cardinality(InClass(W, class, k))
    BY <1>0
  <2> HIDE DEF sizes
  <2>2. Page!Total(sizes, K) = Cardinality(W)
    BY <1>0, <2>1, TotalOf
  <2> QED BY <1>0, <2>2 DEF sizes
<1>2. Page!Total([k \in DOMAIN t |-> t[k].curated], DOMAIN t) = Cardinality(CuratedOf(W))
  <2> DEFINE sizes == [k \in DOMAIN t |-> t[k].curated]
             C == CuratedOf(W)
  <2>1. IsFiniteSet(C) /\ \A i \in C : class[i] \in K
    BY <1>0, FS_Subset DEF CuratedOf
  <2>2. \A k : CuratedOf(InClass(W, class, k)) = InClass(C, class, k)
    BY DEF CuratedOf, InClass
  <2>3. \A k \in K : sizes[k] = Cardinality(InClass(C, class, k))
    BY <1>0, <2>2
  <2> HIDE DEF sizes, C
  <2>4. Page!Total(sizes, K) = Cardinality(C)
    BY <2>1, <2>3, TotalOf
  <2> QED BY <1>0, <2>4 DEF sizes, C
<1> QED BY <1>1, <1>2 DEF TrendOf

\* Laid on the axis: every impression is in the place of its bucket.
LEMMA Laid ==
  ASSUME ShowsTyped, NEW w, WindowOK(w), NEW W, W = Page!InWindow(w),
         NEW sparse, sparse = Page!impression_trend(w),
         NEW first, Buckets(w, first), \A i \in W : first <= No(i, w.grain),
         NEW axis, axis = Page!bucket_axis(Start(first, w.grain), Start(Last(w), w.grain), w.grain),
         NEW t,
         t = [k \in DOMAIN axis |->
                IF axis[k] \in DOMAIN sparse
                THEN [total |-> Page!Total(sparse[axis[k]], OnPages),
                      curated |-> Page!curated_total(sparse[axis[k]])]
                ELSE [total |-> 0, curated |-> 0]]
  PROVE  TrendOf(t, W) /\ Short(t, w.grain)
<1> DEFINE g == w.grain
           N == Last(w) - first + 1
           class == [i \in W |-> No(i, g) - first + 1]
<1>1. g \in Grains /\ first \in Nat /\ Last(w) \in Nat /\ N \in Nat /\ N # 0 /\ N <= 60
      /\ (g = "day" => N <= 31) /\ (g = "week" => N <= 27)
  BY DEF Buckets, WindowOK
<1>2. axis = [k \in 1 .. N |-> Start(first + k - 1, g)]
  BY <1>1, AxisIs DEF Buckets
<1> HIDE DEF g, N
<1>3. \A i \in W : No(i, g) \in Nat /\ Cut(i, g) = Start(No(i, g), g) /\ No(i, g) - first + 1 \in 1 .. N
  <2>1. \A i \in W : /\ No(i, g) \in Nat /\ Cut(i, g) = Start(No(i, g), g)
                     /\ No(i, g) <= Last(w) /\ first <= No(i, g)
    BY Numbered DEF g
  <2> QED BY <1>1, <2>1 DEF N
<1>4. DOMAIN t = 1 .. N
  BY <1>2
<1>5. ASSUME NEW k \in 1 .. N
      PROVE  CutAt(W, g, axis[k]) = InClass(W, class, k)
  <2>1. axis[k] = Start(first + k - 1, g) /\ first + k - 1 \in Nat
    BY <1>1, <1>2
  <2>2. ASSUME NEW i \in W PROVE Cut(i, g) = axis[k] <=> class[i] = k
    <3> DEFINE m == No(i, g)
               n == first + k - 1
    <3>1. m \in Nat /\ n \in Nat /\ Cut(i, g) = Start(m, g) /\ axis[k] = Start(n, g)
      BY <1>3, <2>1
    <3>2. class[i] = k <=> m = n
      BY <1>1, <1>3
    <3> HIDE DEF m, n
    <3>3. /\ BucketDay(m, g) \in Int /\ BucketDay(n, g) \in Int
          /\ BucketDay(m + 1, g) \in Int /\ BucketDay(n + 1, g) \in Int
      BY <1>1, <3>1, BucketDays
    <3>4. /\ n < m => BucketDay(n, g) < BucketDay(n + 1, g) /\ BucketDay(n + 1, g) <= BucketDay(m, g)
          /\ m < n => BucketDay(m, g) < BucketDay(m + 1, g) /\ BucketDay(m + 1, g) <= BucketDay(n, g)
      BY <1>1, <3>1, BucketsInOrder
    <3>5. Start(m, g) = Start(n, g) <=> m = n
      BY <3>1, <3>3, <3>4 DEF Start
    <3> QED BY <3>1, <3>2, <3>5
  <2> HIDE DEF class
  <2> QED BY <2>2 DEF CutAt, InClass
<1>6. ASSUME NEW k \in 1 .. N
      PROVE  /\ t[k].total = Cardinality(InClass(W, class, k))
             /\ t[k].curated = Cardinality(CuratedOf(InClass(W, class, k)))
  <2>1. DOMAIN sparse = Cuts(W, g)
    BY SparseIs DEF g
  <2>2. k \in DOMAIN axis
    BY <1>2
  <2>3. CASE axis[k] \in DOMAIN sparse
    <3>1. /\ Page!Total(sparse[axis[k]], OnPages) = Cardinality(CutAt(W, g, axis[k]))
          /\ Page!curated_total(sparse[axis[k]]) = Cardinality(CuratedOf(CutAt(W, g, axis[k])))
      BY <2>1, <2>3, SparseIs DEF g
    <3>2. /\ t[k].total = Page!Total(sparse[axis[k]], OnPages)
          /\ t[k].curated = Page!curated_total(sparse[axis[k]])
      BY <2>2, <2>3
    <3> HIDE DEF class
    <3> QED BY <1>5, <3>1, <3>2
  <2>4. CASE axis[k] \notin DOMAIN sparse
    <3>1. CutAt(W, g, axis[k]) = {} /\ CuratedOf({}) = {}
      BY <2>1, <2>4 DEF CutAt, Cuts, CuratedOf
    <3>2. t[k].total = 0 /\ t[k].curated = 0
      BY <2>2, <2>4
    <3> HIDE DEF class
    <3>3. InClass(W, class, k) = {}
      BY <1>5, <3>1
    <3> QED BY <3>1, <3>2, <3>3, FS_EmptySet
  <2> QED BY <2>3, <2>4
<1>7. IsFiniteSet(W) /\ \A i \in W : class[i] \in 1 .. N
  BY <1>3, InTheWindow
<1> HIDE DEF class
<1>8. TrendOf(t, W)
  <2>1. Counts(t, W, class, 1 .. N)
    BY <1>4, <1>6, <1>7 DEF Counts
  <2> QED BY <2>1, Added
<1>9. Short(t, g)
  <2>1. t = [k \in 1 .. N |-> t[k]]
    BY <1>2
  <2>2. Len(t) = N
    BY <1>1, <2>1, Long
  <2> QED BY <1>1, <2>2 DEF Short, Grains, Page!LastMonth
<1> QED BY <1>8, <1>9 DEF g

LEMMA TrendIs ==
  ASSUME ShowsTyped, NEW w, WindowOK(w)
  PROVE  LET t == Page!densify(Page!impression_trend(w), w)
         IN TrendOf(t, Page!InWindow(w)) /\ Short(t, w.grain)
<1> DEFINE W == Page!InWindow(w)
           sparse == Page!impression_trend(w)
           t == Page!densify(sparse, w)
<1> SUFFICES TrendOf(t, W) /\ Short(t, w.grain)
  OBVIOUS
<1> HIDE DEF W, sparse
<1>1. DOMAIN sparse = Cuts(W, w.grain)
  BY SparseIs DEF W, sparse
<1>2. CASE W = {}
  <2>1. t = <<>>
    BY <1>1, <1>2 DEF Page!densify, Cuts
  <2> HIDE DEF t
  <2>2. DOMAIN t = {} /\ CuratedOf(W) = {} /\ IsFiniteSet(W)
    BY <1>2, <2>1, FS_EmptySet DEF CuratedOf
  <2>3. \A sizes : Page!Total(sizes, {}) = Cardinality(W)
    <3> TAKE sizes
    <3>1. /\ \A i \in W : <<>>[i] \in {}
          /\ \A s \in {} : sizes[s] = Cardinality(InClass(W, <<>>, s))
      BY <1>2
    <3> QED BY <2>2, <3>1, TotalOf
  <2> QED BY <1>2, <2>1, <2>2, <2>3 DEF TrendOf, Short
<1>3. CASE W # {}
  <2> DEFINE lower == IF w.allTime THEN Page!Min(DOMAIN sparse) ELSE Page!truncate(w.start, w.grain)
             axis == Page!bucket_axis(lower, Page!truncate(w.end, w.grain), w.grain)
  <2>1. DOMAIN sparse # {}
    BY <1>1, <1>3 DEF Cuts
  <2>2. t = [k \in DOMAIN axis |->
                IF axis[k] \in DOMAIN sparse
                THEN [total |-> Page!Total(sparse[axis[k]], OnPages),
                      curated |-> Page!curated_total(sparse[axis[k]])]
                ELSE [total |-> 0, curated |-> 0]]
    BY <2>1 DEF Page!densify, OnPages
  <2>3. \E first \in Nat : /\ Buckets(w, first) /\ lower = Start(first, w.grain)
                           /\ \A i \in W : first <= No(i, w.grain)
    <3>1. CASE w.allTime
      BY <1>1, <1>3, <3>1, FirstOfAll DEF W
    <3>2. CASE ~ w.allTime
      <4> DEFINE first == Bucket(w.start \div 2, w.grain)
      <4>1. Buckets(w, first) /\ lower = Start(first, w.grain)
        BY <3>2, FirstOfWindow
      <4>2. \A i \in W : first <= No(i, w.grain)
        BY Numbered DEF W
      <4>3. first \in Nat
        BY <4>1 DEF Buckets
      <4> HIDE DEF first
      <4> QED BY <4>1, <4>2, <4>3
    <3> QED BY <3>1, <3>2
  <2>4. PICK first \in Nat : /\ Buckets(w, first) /\ lower = Start(first, w.grain)
                             /\ \A i \in W : first <= No(i, w.grain)
    BY <2>3
  <2>5. axis = Page!bucket_axis(Start(first, w.grain), Start(Last(w), w.grain), w.grain)
    BY <2>4, LastIs
  <2> HIDE DEF t, axis, lower
  <2> QED BY <2>2, <2>4, <2>5, Laid DEF W, sparse
<1> QED BY <1>2, <1>3
-------------------------------------------------------------------------------
(***************************************************************************)
(* The page.  What one read counted is in the window at the next one, and  *)
(* what is there besides was committed in between, which the page counts   *)
(* as late.  A commit adds one impression to the window at most, since it  *)
(* is of an impression that was not there.                                 *)
(***************************************************************************)
InNow(w) == Cardinality(Page!InWindow(w))
CuratedNow(w) == Cardinality(CuratedOf(Page!InWindow(w)))

\* No read knows more than a later one, nor less than it by more than came late.
Near(earlier, later, late) ==
  /\ earlier \in Nat /\ later \in Nat /\ late \in Nat
  /\ earlier <= later /\ later <= earlier + late

Reached(p) == Page!Total(p.reach, OnPages)
CuratedReach(p) == Page!curated_total(p.reach)
Trended(p) == Page!Total([k \in DOMAIN p.trend |-> p.trend[k].total], DOMAIN p.trend)
CuratedTrend(p) == Page!Total([k \in DOMAIN p.trend |-> p.trend[k].curated], DOMAIN p.trend)

\* What page p knows, when the window holds n impressions, and c on curated surfaces.
Knows(p, n, c) ==
  /\ p.at = "reach" => Near(Reached(p), n, p.late) /\ Near(CuratedReach(p), c, p.late)
  /\ p.at = "trend" => /\ Near(Reached(p), n, p.late)
                       /\ Trended(p) \in Nat /\ Reached(p) <= Trended(p) /\ Trended(p) <= n
                       /\ Near(CuratedReach(p), CuratedTrend(p), p.late)
  /\ p.at \in {"funnel", "shown"} =>
       /\ Near(Reached(p), p.funnel, p.late)
       /\ Reached(p) <= Trended(p) /\ Trended(p) <= p.funnel
       /\ Near(CuratedReach(p), CuratedTrend(p), p.late)
  /\ p.at = "funnels" => Near(p.funnel, n, p.late)
  /\ p.at \in {"totals", "listed"} => Near(p.funnel, Reached(p), p.late)

\* The days of the widget cover the window, and add what its first day and its last have.
WidgetTold(p) ==
  p.widget # None =>
    /\ p.widget >= p.precise
    /\ p.widget <= p.precise
         + Cardinality(Page!Between(Page!StartOfDay(p.window.start), p.window.start, {"widget"}))
         + Cardinality(Page!Between(p.window.end + 1, Page!EndOfDay(p.window.end), {"widget"}))

PageFields == {"at", "window", "reach", "trend", "funnel", "reviews", "widget", "precise", "late"}

PageTyped(p) ==
  /\ p.at \in Page!Steps /\ DOMAIN p = PageFields /\ p.late \in Nat
  /\ p.at # "closed" => WindowOK(p.window)
  /\ p.at \notin {"shown", "listed"} => p.precise = 0
  /\ Short(p.trend, p.window.grain)

StoreTyped ==
  /\ moment \in UNION {{t, t + 1} : t \in Todays}
  /\ shows \in [Shows -> Page!Stored] /\ pending \in [Shows -> Page!Stored]
  /\ \A i \in Shows : pending[i] # None => shows[i] = None

ReachInv ==
  /\ StoreTyped /\ PageTyped(page)
  /\ page.at # "closed" => Knows(page, InNow(page.window), CuratedNow(page.window))
  /\ page.at \in {"shown", "listed"} => WidgetTold(page)

LEMMA Moments ==
  ASSUME StoreTyped
  PROVE  /\ moment \in Nat /\ 2190 <= moment /\ moment < 2 * First(60)
         /\ moment \in UNION {0 .. t + 1 : t \in Todays}
<1>1. PICK t \in Todays : moment = t \/ moment = t + 1
  BY DEF StoreTyped
<1>2. t \in Nat /\ 2190 <= t /\ t + 1 < 2 * First(60) /\ First(60) \in Nat
  BY PageConstants, MonthsGrow
<1>3. moment \in 0 .. t + 1
  BY <1>1, <1>2
<1> QED BY <1>1, <1>2, <1>3

LEMMA StoreHolds ==
  ASSUME StoreTyped
  PROVE  ShowsTyped
<1>1. Page!Stored \subseteq {None} \cup [at : Nat, surface : Everywhere]
  <2>1. UNION {0 .. t + 1 : t \in Todays} \subseteq Nat
    BY PageConstants
  <2>2. [at : UNION {0 .. t + 1 : t \in Todays}, surface : Everywhere]
          \subseteq [at : Nat, surface : Everywhere]
    BY <2>1
  <2>3. Page!Stored = {None} \cup [at : UNION {0 .. t + 1 : t \in Todays}, surface : Everywhere]
    BY DEF Page!Stored, Page!Places, Everywhere, OnPages
  <2> QED BY <2>2, <2>3
<1> QED BY <1>1 DEF StoreTyped, ShowsTyped

LEMMA StoreStart ==
  ASSUME Page!ReceptionInit
  PROVE  StoreTyped
<1>1. moment \in Todays /\ pending = [i \in Shows |-> None]
  BY DEF Page!ReceptionInit
<1>2. moment \in Nat /\ \A a \in Ages : a \in Nat /\ moment - a \in 0 .. moment + 1
  BY <1>1, PageConstants
<1>3. shows \in [Shows -> Page!Stored]
  <2>1. [at : {moment - age : age \in Ages}, surface : Page!Places] \subseteq Page!Stored
    BY <1>1, <1>2 DEF Page!Stored
  <2>2. shows \in [Shows -> {None} \cup [at : {moment - age : age \in Ages}, surface : Page!Places]]
    BY DEF Page!ReceptionInit
  <2> QED BY <2>1, <2>2 DEF Page!Stored
<1>4. None \in Page!Stored
  BY DEF Page!Stored
<1> QED BY <1>1, <1>3, <1>4 DEF StoreTyped

LEMMA StoreStep ==
  ASSUME StoreTyped, [Page!ReceptionNext]_reception
  PROVE  StoreTyped'
<1> USE DEF StoreTyped
<1>1. ASSUME NEW i \in Shows, Page!Stamp(i) PROVE StoreTyped'
  <2>1. PICK s \in Page!Places : pending' = [pending EXCEPT ![i] = [at |-> moment, surface |-> s]]
    BY <1>1 DEF Page!Stamp
  <2>2. [at |-> moment, surface |-> s] \in Page!Stored
    BY Moments DEF Page!Stored
  <2> QED BY <1>1, <2>1, <2>2 DEF Page!Stamp
<1>2. ASSUME NEW i \in Shows, Page!Commit(i) PROVE StoreTyped'
  <2>1. None \in Page!Stored
    BY DEF Page!Stored
  <2> QED BY <1>2, <2>1 DEF Page!Commit
<1>3. CASE Page!TimePasses
  BY <1>3 DEF Page!TimePasses
<1>4. CASE UNCHANGED <<moment, shows, pending>>
  BY <1>4
<1>5. CASE ~ (Page!TimePasses \/ \E i \in Shows : Page!Stamp(i) \/ Page!Commit(i))
  <2>1. UNCHANGED <<moment, shows, pending>>
    BY <1>5 DEF Page!ReceptionNext, Page!OpenReception, Page!BuildReach, Page!BuildTrend,
      Page!BuildFunnel, Page!BuildSlots, Page!ListFunnels, Page!ListBreakdowns, Page!ListColumn,
      Page!ReadFails, Page!ReadPage, reception
  <2> QED BY <1>4, <2>1
<1> QED BY <1>1, <1>2, <1>3, <1>5
\* The window of a request, whatever its key.
LEMMA WindowResolved ==
  ASSUME StoreTyped, NEW key
  PROVE  WindowOK(Page!resolve_window(key))
<1> DEFINE window == Page!Windows[IF key \in DOMAIN Page!Windows THEN key ELSE "m1"]
           w == Page!resolve_window(key)
<1>1. \/ window.days \in {7, 14, 30} /\ window.grain = "day"
      \/ window.days \in {90, 180} /\ window.grain = "week"
      \/ window.days \in {365, 1095, 0} /\ window.grain = "month"
  <2> DEFINE k == IF key \in DOMAIN Page!Windows THEN key ELSE "m1"
  <2>1. k \in {"w1", "w2", "m1", "m3", "m6", "y1", "y3", "all"}
    BY DEF Page!Windows
  <2> HIDE DEF k
  <2> QED BY <2>1 DEF Page!Windows, k
<1> HIDE DEF window
<1>2. /\ w.grain = window.grain /\ w.allTime = (window.days = 0) /\ w.end = moment
      /\ w.start = IF window.days = 0 THEN 0 ELSE moment - window.days * 2
  BY DEF Page!resolve_window, Page!TicksPerDay, window
<1> HIDE DEF w
<1>3. moment \in Nat /\ 2190 <= moment /\ moment < 2 * First(60) /\ First(60) \in Nat
  BY Moments, MonthsGrow
<1>4. w.allTime \in BOOLEAN /\ (w.allTime => window.days = 0)
  BY <1>2
<1>5. CASE window.days = 0
  <2>1. window.grain = "month"
    BY <1>1, <1>5
  <2> QED BY <1>2, <1>3, <1>4, <1>5, <2>1 DEF WindowOK, Grains, w
<1>6. CASE window.days # 0
  <2>1. PICK d \in {7, 14, 30, 90, 180, 365, 1095} : d = window.days
    BY <1>1, <1>6
  <2>2. w.start = moment - 2 * d /\ w.start \in Nat /\ w.start <= moment /\ moment - w.start = 2 * d
        /\ (d <= 180 => w.start >= 2)
    BY <1>2, <1>3, <1>6, <2>1
  <2>3. /\ (w.grain = "day" /\ d <= 30) \/ (w.grain = "week" /\ d <= 180) \/ w.grain = "month"
        /\ ~ w.allTime
    BY <1>1, <1>2, <1>4, <1>6, <2>1
  <2> QED BY <1>2, <1>3, <1>4, <2>1, <2>2, <2>3 DEF WindowOK, Grains, w
<1> QED BY <1>5, <1>6

LEMMA Joined ==
  ASSUME NEW S, NEW T, IsFiniteSet(S), IsFiniteSet(T)
  PROVE  /\ IsFiniteSet(S \cup T) /\ Cardinality(S \cup T) \in Nat
         /\ Cardinality(S \cup T) <= Cardinality(S) + Cardinality(T)
<1>1. IsFiniteSet(S \cup T) /\ IsFiniteSet(S \cap T)
  BY FS_Union, FS_Subset
<1>2. Cardinality(S \cup T) = Cardinality(S) + Cardinality(T) - Cardinality(S \cap T)
  BY FS_Union
<1>3. /\ Cardinality(S \cup T) \in Nat /\ Cardinality(S) \in Nat /\ Cardinality(T) \in Nat
      /\ Cardinality(S \cap T) \in Nat
  BY <1>1, FS_CardinalityType
<1> QED BY <1>1, <1>2, <1>3

LEMMA Few ==
  ASSUME NEW first, NEW last, NEW places
  PROVE  LET B == Page!Between(first, last, places)
         IN IsFiniteSet(B) /\ Cardinality(B) \in Nat
<1>1. Page!Between(first, last, places) \subseteq Shows
  BY DEF Page!Between
<1> QED BY <1>1, PageConstants, FS_Subset, FS_CardinalityType

\* Whole days hold the window, and besides only the rest of its first and of its last day.
LEMMA WholeDays ==
  ASSUME ShowsTyped, NEW w, WindowOK(w), NEW p, p.window = w,
         p.widget \in {None, Page!widget_reach(w)},
         p.precise = Cardinality(Page!Between(w.start, w.end, {"widget"}))
  PROVE  WidgetTold(p)
<1> DEFINE a == w.start
           b == w.end
           A == Page!StartOfDay(a)
           B == Page!EndOfDay(b)
           Here(first, last) == Page!Between(first, last, {"widget"})
<1>1. /\ a \in Nat /\ b \in Nat /\ a <= b /\ A \in Nat /\ B \in Nat /\ A <= a /\ b <= B
  BY DEF WindowOK, Page!StartOfDay, Page!EndOfDay, Page!TicksPerDay
<1> HIDE DEF a, b, A, B
<1>2. \A first, last \in Nat : \A i : i \in Here(first, last) <=>
        /\ i \in Shows /\ shows[i] # None /\ shows[i].surface = "widget"
        /\ shows[i].at \in Nat /\ first <= shows[i].at /\ shows[i].at <= last
  <2>1. \A i \in Shows : shows[i] # None => shows[i].at \in Nat
    BY DEF ShowsTyped
  <2> QED BY <2>1 DEF Page!Between
<1> HIDE DEF Here
<1>3. Here(a, b) \subseteq Here(A, B)
  BY <1>1, <1>2
<1>4. Here(A, B) \subseteq Here(a, b) \cup (Here(A, a) \cup Here(b + 1, B))
  <2>1. b + 1 \in Nat
    BY <1>1
  <2>2. \A t \in Nat : A <= t /\ t <= B => (a <= t /\ t <= b) \/ (A <= t /\ t <= a) \/ (b + 1 <= t /\ t <= B)
    BY <1>1
  <2> QED BY <1>1, <1>2, <2>1, <2>2
<1>5. /\ IsFiniteSet(Here(a, b)) /\ IsFiniteSet(Here(A, B)) /\ IsFiniteSet(Here(A, a))
      /\ IsFiniteSet(Here(b + 1, B))
      /\ Cardinality(Here(a, b)) \in Nat /\ Cardinality(Here(A, B)) \in Nat
      /\ Cardinality(Here(A, a)) \in Nat /\ Cardinality(Here(b + 1, B)) \in Nat
  BY Few DEF Here
<1>6. Cardinality(Here(a, b)) <= Cardinality(Here(A, B))
  BY <1>3, <1>5, FS_Subset
<1>7. Cardinality(Here(A, B))
        <= Cardinality(Here(a, b)) + Cardinality(Here(A, a)) + Cardinality(Here(b + 1, B))
  <2>1. /\ IsFiniteSet(Here(A, a) \cup Here(b + 1, B))
        /\ Cardinality(Here(A, a) \cup Here(b + 1, B)) \in Nat
        /\ Cardinality(Here(A, a) \cup Here(b + 1, B))
             <= Cardinality(Here(A, a)) + Cardinality(Here(b + 1, B))
    BY <1>5, Joined
  <2>2. /\ IsFiniteSet(Here(a, b) \cup (Here(A, a) \cup Here(b + 1, B)))
        /\ Cardinality(Here(a, b) \cup (Here(A, a) \cup Here(b + 1, B))) \in Nat
        /\ Cardinality(Here(a, b) \cup (Here(A, a) \cup Here(b + 1, B)))
             <= Cardinality(Here(a, b)) + Cardinality(Here(A, a) \cup Here(b + 1, B))
    BY <1>5, <2>1, Joined
  <2>3. Cardinality(Here(A, B)) <= Cardinality(Here(a, b) \cup (Here(A, a) \cup Here(b + 1, B)))
    BY <1>4, <2>2, FS_Subset
  <2> QED BY <1>5, <2>1, <2>2, <2>3
<1>8. Page!widget_reach(w) = Cardinality(Here(A, B))
  BY PageWords DEF Page!widget_reach, Here, A, B, a, b
<1>9. p.widget # None => p.widget = Cardinality(Here(A, B))
  BY <1>8
<1>10. p.precise = Cardinality(Here(a, b))
  BY DEF Here, a, b
<1>11. p.widget # None => /\ p.widget >= p.precise
                         /\ p.widget <= p.precise + Cardinality(Here(A, a)) + Cardinality(Here(b + 1, B))
  BY <1>5, <1>6, <1>7, <1>9, <1>10
<1> QED BY <1>11 DEF WidgetTold, Here, A, B, a, b
LEMMA OneAtMost ==
  ASSUME NEW S, NEW T, NEW x, IsFiniteSet(S), S \subseteq T, T \subseteq S \cup {x}
  PROVE  /\ Cardinality(S) \in Nat /\ Cardinality(T) \in Nat
         /\ Cardinality(S) <= Cardinality(T) /\ Cardinality(T) <= Cardinality(S) + 1
<1>1. IsFiniteSet(S \cup {x}) /\ Cardinality(S \cup {x}) <= Cardinality(S) + 1
  BY OneMore
<1>2. IsFiniteSet(T) /\ Cardinality(T) <= Cardinality(S \cup {x})
  BY <1>1, FS_Subset
<1>3. Cardinality(S) <= Cardinality(T)
  BY <1>2, FS_Subset
<1>4. Cardinality(S) \in Nat /\ Cardinality(T) \in Nat /\ Cardinality(S \cup {x}) \in Nat
  BY <1>1, <1>2, FS_CardinalityType
<1> QED BY <1>1, <1>2, <1>3, <1>4

LEMMA CommitAdds ==
  ASSUME StoreTyped, NEW i \in Shows, Page!Commit(i), NEW w, WindowOK(w)
  PROVE  /\ InNow(w) \in Nat /\ InNow(w)' \in Nat
         /\ InNow(w) <= InNow(w)' /\ InNow(w)' <= InNow(w) + 1
         /\ CuratedNow(w) \in Nat /\ CuratedNow(w)' \in Nat
         /\ CuratedNow(w) <= CuratedNow(w)' /\ CuratedNow(w)' <= CuratedNow(w) + 1
<1> DEFINE W == Page!InWindow(w)
<1>1. shows[i] = None /\ \A j \in Shows : j # i => shows'[j] = shows[j]
  BY DEF Page!Commit, StoreTyped
<1>2. \A j : j \in W <=> /\ j \in Shows /\ shows[j] # None
                         /\ shows[j].surface \in OnPages /\ shows[j].at \in w.start .. w.end
  BY DEF Page!InWindow, Page!Between, OnPages
<1>3. \A j : j \in W' <=> /\ j \in Shows /\ shows'[j] # None
                          /\ shows'[j].surface \in OnPages /\ shows'[j].at \in w.start .. w.end
  BY DEF Page!InWindow, Page!Between, OnPages
<1>4. \A j \in Shows : j # i => (j \in W' <=> j \in W)
  <2> HIDE DEF W
  <2> QED BY <1>1, <1>2, <1>3
<1>5. W \subseteq Shows /\ W' \subseteq Shows /\ i \notin W
  BY <1>1, <1>2, <1>3
<1>6. CuratedOf(W) = {j \in W : shows[j].surface \in {"digest"}}
  BY DEF CuratedOf
<1>7. CuratedOf(W)' = {j \in W' : shows'[j].surface \in {"digest"}}
  BY DEF CuratedOf
<1>8. IsFiniteSet(W) /\ IsFiniteSet(CuratedOf(W))
  BY StoreHolds, InTheWindow
<1> HIDE DEF W
<1>9. W \subseteq W' /\ W' \subseteq W \cup {i}
  BY <1>4, <1>5
<1>10. CuratedOf(W) \subseteq CuratedOf(W)' /\ CuratedOf(W)' \subseteq CuratedOf(W) \cup {i}
  BY <1>1, <1>5, <1>6, <1>7, <1>9
<1>11. /\ Cardinality(W) \in Nat /\ Cardinality(W') \in Nat
       /\ Cardinality(W) <= Cardinality(W') /\ Cardinality(W') <= Cardinality(W) + 1
  BY <1>8, <1>9, OneAtMost
<1>12. /\ Cardinality(CuratedOf(W)) \in Nat /\ Cardinality(CuratedOf(W)') \in Nat
       /\ Cardinality(CuratedOf(W)) <= Cardinality(CuratedOf(W)')
       /\ Cardinality(CuratedOf(W)') <= Cardinality(CuratedOf(W)) + 1
  BY <1>8, <1>10, OneAtMost
<1> QED BY <1>11, <1>12 DEF InNow, CuratedNow, W

\* A commit: what a page that goes on reading knows, it knows of a window with one more.
LEMMA PageCommit ==
  ASSUME ReachInv, NEW i \in Shows, Page!Commit(i)
  PROVE  ReachInv'
<1>1. /\ StoreTyped /\ PageTyped(page)
      /\ page.at # "closed" => Knows(page, InNow(page.window), CuratedNow(page.window))
  BY DEF ReachInv
<1>2. StoreTyped'
  BY <1>1, StoreStep DEF Page!ReceptionNext
<1>3. /\ page.at \notin {"shown", "listed"}
      /\ page' = IF page.at \in {"reach", "trend", "funnels"} THEN [page EXCEPT !.late = @ + 1] ELSE page
  BY DEF Page!Commit, Page!Unfinished
<1>4. PICK w : w = page.window
  OBVIOUS
<1>5. /\ DOMAIN page' = DOMAIN page /\ page'.at = page.at /\ page'.window = w
      /\ page'.reach = page.reach /\ page'.trend = page.trend /\ page'.funnel = page.funnel
      /\ page'.precise = page.precise
      /\ page'.late = IF page.at \in {"reach", "trend", "funnels"} THEN page.late + 1 ELSE page.late
  BY <1>1, <1>3, <1>4 DEF PageTyped, PageFields
<1>6. PageTyped(page')
  BY <1>1, <1>4, <1>5 DEF PageTyped
<1>7. ASSUME page.at # "closed"
      PROVE  Knows(page', InNow(w)', CuratedNow(w)')
  <2>1. WindowOK(w) /\ page.late \in Nat
    BY <1>1, <1>4, <1>7 DEF PageTyped
  <2> DEFINE n == InNow(w)
             c == CuratedNow(w)
  <2>2. /\ n \in Nat /\ n' \in Nat /\ n <= n' /\ n' <= n + 1
        /\ c \in Nat /\ c' \in Nat /\ c <= c' /\ c' <= c + 1
    BY <1>1, <2>1, CommitAdds
  <2>3. Knows(page, n, c)
    BY <1>1, <1>4, <1>7
  <2>4. /\ Reached(page') = Reached(page) /\ CuratedReach(page') = CuratedReach(page)
        /\ Trended(page') = Trended(page) /\ CuratedTrend(page') = CuratedTrend(page)
    BY <1>5 DEF Reached, CuratedReach, Trended, CuratedTrend
  <2> HIDE DEF n, c
  <2>5. Knows(page', n', c')
    BY <1>5, <2>1, <2>2, <2>3, <2>4 DEF Knows, Near
  <2> QED BY <2>5 DEF n, c
<1> QED BY <1>2, <1>3, <1>4, <1>5, <1>6, <1>7 DEF ReachInv
\* The store does not move: the page counts as before.
LEMMA NothingShown ==
  ASSUME ReachInv, UNCHANGED shows, StoreTyped', UNCHANGED page
  PROVE  ReachInv'
<1>1. \A w : InNow(w)' = InNow(w) /\ CuratedNow(w)' = CuratedNow(w)
  BY DEF InNow, CuratedNow, CuratedOf, Page!InWindow, Page!Between
<1>2. WidgetTold(page)' <=> WidgetTold(page)
  BY DEF WidgetTold, Page!Between, Page!StartOfDay, Page!EndOfDay
<1>3. PageTyped(page)' <=> PageTyped(page)
  BY DEF PageTyped
<1> QED BY <1>1, <1>2, <1>3 DEF ReachInv

\* What a read leaves of the page.
Kept(p, q, fields) == DOMAIN q = PageFields /\ \A f \in PageFields \ fields : q[f] = p[f]

\* A read that is done: the page is typed, and tells what it knows.
LEMMA PageRead ==
  ASSUME ReachInv, UNCHANGED <<moment, shows, pending>>,
         PageTyped(page'),
         page'.at # "closed" => Knows(page', InNow(page'.window), CuratedNow(page'.window)),
         page'.at \in {"shown", "listed"} => WidgetTold(page')
  PROVE  ReachInv'
<1>1. StoreTyped'
  BY DEF ReachInv, StoreTyped
<1>2. InNow(page.window)' = InNow(page'.window) /\ CuratedNow(page.window)' = CuratedNow(page'.window)
  BY DEF InNow, CuratedNow, CuratedOf, Page!InWindow, Page!Between
<1>3. WidgetTold(page)' <=> WidgetTold(page')
  BY DEF WidgetTold, Page!Between, Page!StartOfDay, Page!EndOfDay
<1>4. PageTyped(page)' <=> PageTyped(page')
  BY DEF PageTyped
<1>5. ASSUME page'.at # "closed" PROVE Knows(page, InNow(page.window), CuratedNow(page.window))'
  BY <1>2, <1>5 DEF Knows, Near, Reached, CuratedReach, Trended, CuratedTrend
<1> QED BY <1>1, <1>2, <1>3, <1>4, <1>5 DEF ReachInv

LEMMA ClosedTyped ==
  /\ PageTyped(Page!Closed) /\ Page!Closed.at = "closed"
  /\ DOMAIN Page!Closed = PageFields /\ Page!Closed.trend = <<>> /\ Page!Closed.late = 0
  /\ Page!Closed.precise = 0
BY DEF PageTyped, Page!Closed, Page!Steps, PageFields, Short

LEMMA OpenedWell ==
  ASSUME ReachInv, Page!OpenReception
  PROVE  ReachInv'
<1>1. PICK key \in DOMAIN Page!Windows \cup {"unknown"} :
        Page!ReadPage("closed", "opened", [Page!Closed EXCEPT !.window = Page!resolve_window(key)])
  BY DEF Page!OpenReception
<1>2. PICK w : w = Page!resolve_window(key)
  OBVIOUS
<1>3. WindowOK(w)
  BY <1>2, WindowResolved DEF ReachInv
<1>4. /\ UNCHANGED <<moment, shows, pending>>
      /\ page' = [[Page!Closed EXCEPT !.window = w] EXCEPT !.at = "opened"]
  BY <1>1, <1>2 DEF Page!ReadPage
<1>5. /\ DOMAIN page' = PageFields /\ page'.at = "opened" /\ page'.window = w
      /\ page'.trend = <<>> /\ page'.late = 0 /\ page'.precise = 0
  BY <1>4, ClosedTyped DEF PageFields
<1>6. PageTyped(page')
  BY <1>3, <1>5 DEF PageTyped, Page!Steps, Short
<1>7. Knows(page', InNow(w), CuratedNow(w))
  BY <1>5 DEF Knows
<1> QED BY <1>4, <1>5, <1>6, <1>7, PageRead

LEMMA InNowIs ==
  ASSUME StoreTyped, NEW w, WindowOK(w)
  PROVE  InNow(w) \in Nat /\ CuratedNow(w) \in Nat
BY StoreHolds, InTheWindow DEF InNow, CuratedNow

LEMMA ReachBuilt ==
  ASSUME ReachInv, Page!BuildReach
  PROVE  ReachInv'
<1>1. PICK w, x : w = page.window /\ x = Page!impression_breakdown(page.window)
  OBVIOUS
<1>2. /\ page.at = "opened" /\ UNCHANGED <<moment, shows, pending>>
      /\ page' = [[page EXCEPT !.reach = x] EXCEPT !.at = "reach"]
  BY <1>1 DEF Page!BuildReach, Page!ReadPage
<1>3. StoreTyped /\ PageTyped(page) /\ WindowOK(w) /\ DOMAIN page = PageFields /\ page.late \in Nat
  BY <1>1, <1>2 DEF ReachInv, PageTyped
<1>4. Kept(page, page', {"reach", "at"}) /\ page'.reach = x /\ page'.at = "reach"
  BY <1>2, <1>3 DEF Kept, PageFields
<1>5. /\ DOMAIN page' = PageFields /\ page'.window = w /\ page'.trend = page.trend
      /\ page'.late = page.late /\ page'.precise = page.precise
  BY <1>1, <1>4 DEF Kept, PageFields
<1>6. PageTyped(page')
  BY <1>1, <1>2, <1>3, <1>4, <1>5 DEF PageTyped, Page!Steps
<1>7. Reached(page') = InNow(w) /\ CuratedReach(page') = CuratedNow(w)
  BY <1>1, <1>3, <1>4, BreakdownIs, StoreHolds DEF Reached, CuratedReach, InNow, CuratedNow
<1>8. Knows(page', InNow(w), CuratedNow(w))
  BY <1>3, <1>4, <1>5, <1>7, InNowIs DEF Knows, Near
<1> QED BY <1>2, <1>4, <1>5, <1>6, <1>8, PageRead

LEMMA TrendBuilt ==
  ASSUME ReachInv, Page!BuildTrend
  PROVE  ReachInv'
<1>1. PICK w, x : w = page.window
                  /\ x = Page!densify(Page!impression_trend(page.window), page.window)
  OBVIOUS
<1>2. /\ page.at = "reach" /\ UNCHANGED <<moment, shows, pending>>
      /\ page' = [[page EXCEPT !.trend = x] EXCEPT !.at = "trend"]
  BY <1>1 DEF Page!BuildTrend, Page!ReadPage
<1>3. /\ StoreTyped /\ PageTyped(page) /\ WindowOK(w) /\ DOMAIN page = PageFields /\ page.late \in Nat
      /\ Knows(page, InNow(w), CuratedNow(w))
  BY <1>1, <1>2 DEF ReachInv, PageTyped
<1>4. Kept(page, page', {"trend", "at"}) /\ page'.trend = x /\ page'.at = "trend"
  BY <1>2, <1>3 DEF Kept, PageFields
<1>5. /\ DOMAIN page' = PageFields /\ page'.window = w /\ page'.reach = page.reach
      /\ page'.late = page.late /\ page'.precise = page.precise
  BY <1>1, <1>4 DEF Kept, PageFields
<1>6. TrendOf(x, Page!InWindow(w)) /\ Short(x, w.grain)
  BY <1>1, <1>3, StoreHolds, TrendIs
<1>7. PageTyped(page')
  BY <1>1, <1>2, <1>3, <1>4, <1>5, <1>6 DEF PageTyped, Page!Steps
<1>8. Trended(page') = InNow(w) /\ CuratedTrend(page') = CuratedNow(w)
  BY <1>4, <1>6 DEF TrendOf, Trended, CuratedTrend, InNow, CuratedNow
<1>9. Reached(page') = Reached(page) /\ CuratedReach(page') = CuratedReach(page)
  BY <1>5 DEF Reached, CuratedReach
<1>10. Knows(page', InNow(w), CuratedNow(w))
  <2>1. Near(Reached(page), InNow(w), page.late) /\ Near(CuratedReach(page), CuratedNow(w), page.late)
    BY <1>2, <1>3 DEF Knows
  <2> QED BY <1>3, <1>4, <1>5, <1>8, <1>9, <2>1, InNowIs DEF Knows, Near
<1> QED BY <1>2, <1>4, <1>5, <1>7, <1>10, PageRead

LEMMA FunnelBuilt ==
  ASSUME ReachInv, Page!BuildFunnel
  PROVE  ReachInv'
<1>1. PICK w, x : w = page.window /\ x = InNow(page.window)
  OBVIOUS
<1>2. /\ page.at = "trend" /\ UNCHANGED <<moment, shows, pending>>
      /\ page' = [[page EXCEPT !.funnel = x] EXCEPT !.at = "funnel"]
  BY <1>1, PageWords DEF Page!BuildFunnel, Page!ReadPage, InNow
<1>3. /\ StoreTyped /\ PageTyped(page) /\ WindowOK(w) /\ DOMAIN page = PageFields /\ page.late \in Nat
      /\ Knows(page, InNow(w), CuratedNow(w))
  BY <1>1, <1>2 DEF ReachInv, PageTyped
<1>4. Kept(page, page', {"funnel", "at"}) /\ page'.funnel = x /\ page'.at = "funnel"
  BY <1>2, <1>3 DEF Kept, PageFields
<1>5. /\ DOMAIN page' = PageFields /\ page'.window = w /\ page'.reach = page.reach
      /\ page'.trend = page.trend /\ page'.late = page.late /\ page'.precise = page.precise
  BY <1>1, <1>4 DEF Kept, PageFields
<1>6. PageTyped(page')
  BY <1>1, <1>2, <1>3, <1>4, <1>5 DEF PageTyped, Page!Steps
<1>7. /\ Reached(page') = Reached(page) /\ CuratedReach(page') = CuratedReach(page)
      /\ Trended(page') = Trended(page) /\ CuratedTrend(page') = CuratedTrend(page)
  BY <1>5 DEF Reached, CuratedReach, Trended, CuratedTrend
<1>8. Knows(page', InNow(w), CuratedNow(w))
  BY <1>1, <1>2, <1>3, <1>4, <1>5, <1>7 DEF Knows, Near
<1> QED BY <1>2, <1>4, <1>5, <1>6, <1>8, PageRead
LEMMA SlotsBuilt ==
  ASSUME ReachInv, Page!BuildSlots
  PROVE  ReachInv'
<1>1. PICK w, n : w = page.window /\ n = Cardinality(Page!Between(w.start, w.end, {"widget"}))
  OBVIOUS
<1>2. page.at = "funnel" /\ UNCHANGED <<moment, shows, pending>>
  BY DEF Page!BuildSlots, Page!ReadPage
<1>3. PICK reviews \in BOOLEAN, x \in {None, Page!widget_reach(w)} :
        page' = [[page EXCEPT !.reviews = reviews, !.widget = x, !.precise = n] EXCEPT !.at = "shown"]
  BY <1>1, PageWords DEF Page!BuildSlots, Page!ReadPage, Page!Precise
<1>4. /\ StoreTyped /\ PageTyped(page) /\ WindowOK(w) /\ DOMAIN page = PageFields /\ page.late \in Nat
      /\ Knows(page, InNow(w), CuratedNow(w))
  BY <1>1, <1>2 DEF ReachInv, PageTyped
<1>5. /\ Kept(page, page', {"reviews", "widget", "precise", "at"})
      /\ page'.widget = x /\ page'.precise = n /\ page'.at = "shown"
  BY <1>3, <1>4 DEF Kept, PageFields
<1>6. /\ DOMAIN page' = PageFields /\ page'.window = w /\ page'.reach = page.reach
      /\ page'.trend = page.trend /\ page'.funnel = page.funnel /\ page'.late = page.late
  BY <1>1, <1>5 DEF Kept, PageFields
<1>7. PageTyped(page')
  BY <1>1, <1>2, <1>4, <1>5, <1>6 DEF PageTyped, Page!Steps
<1>8. /\ Reached(page') = Reached(page) /\ CuratedReach(page') = CuratedReach(page)
      /\ Trended(page') = Trended(page) /\ CuratedTrend(page') = CuratedTrend(page)
  BY <1>6 DEF Reached, CuratedReach, Trended, CuratedTrend
<1>9. Knows(page', InNow(w), CuratedNow(w))
  BY <1>2, <1>4, <1>5, <1>6, <1>8 DEF Knows
<1>10. WidgetTold(page')
  <2>1. ShowsTyped
    BY <1>4, StoreHolds
  <2> QED BY <1>1, <1>3, <1>4, <1>5, <1>6, <2>1, WholeDays
<1> QED BY <1>2, <1>5, <1>6, <1>7, <1>9, <1>10, PageRead

LEMMA FunnelsListed ==
  ASSUME ReachInv, Page!ListFunnels
  PROVE  ReachInv'
<1>1. PICK w, x : w = page.window /\ x = InNow(page.window)
  OBVIOUS
<1>2. /\ page.at = "opened" /\ UNCHANGED <<moment, shows, pending>>
      /\ page' = [[page EXCEPT !.funnel = x] EXCEPT !.at = "funnels"]
  BY <1>1, PageWords DEF Page!ListFunnels, Page!ReadPage, InNow
<1>3. StoreTyped /\ PageTyped(page) /\ WindowOK(w) /\ DOMAIN page = PageFields /\ page.late \in Nat
  BY <1>1, <1>2 DEF ReachInv, PageTyped
<1>4. Kept(page, page', {"funnel", "at"}) /\ page'.funnel = x /\ page'.at = "funnels"
  BY <1>2, <1>3 DEF Kept, PageFields
<1>5. /\ DOMAIN page' = PageFields /\ page'.window = w
      /\ page'.trend = page.trend /\ page'.late = page.late /\ page'.precise = page.precise
  BY <1>1, <1>4 DEF Kept, PageFields
<1>6. PageTyped(page')
  BY <1>1, <1>2, <1>3, <1>4, <1>5 DEF PageTyped, Page!Steps
<1>7. Knows(page', InNow(w), CuratedNow(w))
  BY <1>1, <1>3, <1>4, <1>5, InNowIs DEF Knows, Near
<1> QED BY <1>2, <1>4, <1>5, <1>6, <1>7, PageRead

LEMMA BreakdownsListed ==
  ASSUME ReachInv, Page!ListBreakdowns
  PROVE  ReachInv'
<1>1. PICK w, x : w = page.window /\ x = Page!impression_breakdown(page.window)
  OBVIOUS
<1>2. /\ page.at = "funnels" /\ UNCHANGED <<moment, shows, pending>>
      /\ page' = [[page EXCEPT !.reach = x] EXCEPT !.at = "totals"]
  BY <1>1 DEF Page!ListBreakdowns, Page!ReadPage
<1>3. /\ StoreTyped /\ PageTyped(page) /\ WindowOK(w) /\ DOMAIN page = PageFields /\ page.late \in Nat
      /\ Knows(page, InNow(w), CuratedNow(w))
  BY <1>1, <1>2 DEF ReachInv, PageTyped
<1>4. Kept(page, page', {"reach", "at"}) /\ page'.reach = x /\ page'.at = "totals"
  BY <1>2, <1>3 DEF Kept, PageFields
<1>5. /\ DOMAIN page' = PageFields /\ page'.window = w /\ page'.trend = page.trend
      /\ page'.funnel = page.funnel /\ page'.late = page.late /\ page'.precise = page.precise
  BY <1>1, <1>4 DEF Kept, PageFields
<1>6. PageTyped(page')
  BY <1>1, <1>2, <1>3, <1>4, <1>5 DEF PageTyped, Page!Steps
<1>7. Reached(page') = InNow(w)
  BY <1>1, <1>3, <1>4, BreakdownIs, StoreHolds DEF Reached, InNow
<1>8. Knows(page', InNow(w), CuratedNow(w))
  BY <1>2, <1>3, <1>4, <1>5, <1>7 DEF Knows
<1> QED BY <1>2, <1>4, <1>5, <1>6, <1>8, PageRead

\* The column of the widget, or zeros in its place.
LEMMA ColumnListed ==
  ASSUME ReachInv, Page!ListColumn
  PROVE  ReachInv'
<1>1. PICK w, n : w = page.window /\ n = Cardinality(Page!Between(w.start, w.end, {"widget"}))
  OBVIOUS
<1>2. page.at = "totals" /\ UNCHANGED <<moment, shows, pending>>
  BY DEF Page!ListColumn, Page!ReadPage
<1>3. /\ StoreTyped /\ PageTyped(page) /\ WindowOK(w) /\ DOMAIN page = PageFields /\ page.late \in Nat
      /\ Knows(page, InNow(w), CuratedNow(w)) /\ page.precise = 0
  BY <1>1, <1>2 DEF ReachInv, PageTyped
<1>4. PICK x, m : /\ <<x, m>> \in {<<Page!widget_reach(w), n>>, <<0, 0>>}
                  /\ Kept(page, page', {"widget", "precise", "at"})
                  /\ page'.widget = x /\ page'.precise = m /\ page'.at = "listed"
  <2> DEFINE Is(x, m) == /\ Kept(page, page', {"widget", "precise", "at"})
                         /\ page'.widget = x /\ page'.precise = m /\ page'.at = "listed"
  <2>1. ASSUME page' = [[page EXCEPT !.widget = Page!widget_reach(w), !.precise = n] EXCEPT !.at = "listed"]
        PROVE  Is(Page!widget_reach(w), n)
    BY <1>3, <2>1 DEF Kept, PageFields
  <2>2. ASSUME page' = [[page EXCEPT !.widget = 0] EXCEPT !.at = "listed"]
        PROVE  Is(0, 0)
    BY <1>3, <2>2 DEF Kept, PageFields
  <2>3. \/ page' = [[page EXCEPT !.widget = Page!widget_reach(w), !.precise = n] EXCEPT !.at = "listed"]
        \/ page' = [[page EXCEPT !.widget = 0] EXCEPT !.at = "listed"]
    BY <1>1, PageWords DEF Page!ListColumn, Page!ReadPage, Page!Precise
  <2> QED BY <2>1, <2>2, <2>3
<1>5. /\ DOMAIN page' = PageFields /\ page'.window = w /\ page'.reach = page.reach
      /\ page'.trend = page.trend /\ page'.funnel = page.funnel /\ page'.late = page.late
  BY <1>1, <1>4 DEF Kept, PageFields
<1>6. PageTyped(page')
  BY <1>1, <1>2, <1>3, <1>4, <1>5 DEF PageTyped, Page!Steps
<1>7. Reached(page') = Reached(page)
  BY <1>5 DEF Reached
<1>8. Knows(page', InNow(w), CuratedNow(w))
  BY <1>2, <1>3, <1>4, <1>5, <1>7 DEF Knows
<1>9. WidgetTold(page')
  <2>1. CASE <<x, m>> = <<Page!widget_reach(w), n>>
    <3>1. ShowsTyped
      BY <1>3, StoreHolds
    <3> QED BY <1>1, <1>3, <1>4, <1>5, <2>1, <3>1, WholeDays
  <2>2. CASE <<x, m>> = <<0, 0>>
    <3>1. \A first, last : Cardinality(Page!Between(first, last, {"widget"})) \in Nat
      BY Few
    <3>2. page'.widget = 0 /\ page'.precise = 0
      BY <1>4, <2>2
    <3> QED BY <3>1, <3>2 DEF WidgetTold
  <2> QED BY <1>4, <2>1, <2>2
<1> QED BY <1>2, <1>4, <1>5, <1>6, <1>8, <1>9, PageRead

LEMMA ReadFailed ==
  ASSUME ReachInv, Page!ReadFails
  PROVE  ReachInv'
<1>1. UNCHANGED <<moment, shows, pending>> /\ page' = [Page!Closed EXCEPT !.at = "closed"]
  BY DEF Page!ReadFails, Page!ReadPage
<1>2. page' = Page!Closed
  BY <1>1 DEF Page!Closed
<1> QED BY <1>1, <1>2, ClosedTyped, PageRead

LEMMA ReachStep ==
  ASSUME ReachInv, [Page!ReceptionNext]_reception
  PROVE  ReachInv'
<1>1. StoreTyped'
  BY StoreStep DEF ReachInv
<1>2. ASSUME NEW i \in Shows, Page!Stamp(i) PROVE ReachInv'
  BY <1>1, <1>2, NothingShown DEF Page!Stamp
<1>3. ASSUME NEW i \in Shows, Page!Commit(i) PROVE ReachInv'
  BY <1>3, PageCommit
<1>4. CASE Page!TimePasses
  BY <1>1, <1>4, NothingShown DEF Page!TimePasses
<1>5. CASE UNCHANGED reception
  BY <1>1, <1>5, NothingShown DEF reception
<1> QED BY <1>2, <1>3, <1>4, <1>5, OpenedWell, ReachBuilt, TrendBuilt, FunnelBuilt, SlotsBuilt,
           FunnelsListed, BreakdownsListed, ColumnListed, ReadFailed DEF Page!ReceptionNext

LEMMA ReachStart ==
  ASSUME Page!ReceptionInit
  PROVE  ReachInv
<1>1. StoreTyped /\ page = Page!Closed
  BY StoreStart DEF Page!ReceptionInit
<1> QED BY <1>1, ClosedTyped DEF ReachInv

LEMMA ReachHolds ==
  ASSUME ReachInv
  PROVE  Page!PageTellsOneReach /\ Page!ReceptionTypeOK
<1>1. Page!ReceptionTypeOK
  BY DEF ReachInv, StoreTyped, PageTyped, Page!ReceptionTypeOK, Short
<1>2. /\ Page!ReachTotal = Reached(page)
      /\ Page!TrendTotal = Trended(page) /\ Page!TrendCurated = CuratedTrend(page)
      /\ Page!curated_total(page.reach) = CuratedReach(page)
  BY DEF Page!ReachTotal, Page!TrendTotal, Page!TrendCurated, Reached, Trended, CuratedTrend,
    CuratedReach, OnPages
<1>3. page.at # "closed" => Knows(page, InNow(page.window), CuratedNow(page.window))
  BY DEF ReachInv
<1>4. page.at \in {"shown", "listed"} => WidgetTold(page)
  BY DEF ReachInv
<1> QED BY <1>1, <1>2, <1>3, <1>4, PageWords DEF Page!PageTellsOneReach, Knows, Near, WidgetTold

\* The reach, the trend and the funnel of a reception page, and the widget's number, tell
\* the impressions of one window, up to what was committed while build_app_reception read
\* them one after another (PageTellsOneReach), for any shows, any day within the calendar
\* and any window that _resolve_window gives.
THEOREM ReachTold == Spec => []PageTellsOneReach
<1> DEFINE IInv == part = "reception" => ReachInv
<1>1. Init => IInv
  BY ReachStart DEF Init
<1>2. IInv /\ [Next]_vars => IInv'
  BY OnePart, ReachStep
<1>3. IInv => PageTellsOneReach
  BY ReachHolds DEF PageTellsOneReach
<1> QED BY <1>1, <1>2, <1>3, PTL DEF Spec
-------------------------------------------------------------------------------
(***************************************************************************)
(* The types of the parts.  Two of them bound a history variable, which    *)
(* stays within its bound only with what is still to come: the increments  *)
(* that have begun, and the requests that one store has counted.           *)
(***************************************************************************)
Busy == {w \in Workers : ~ Rollup!Counting(w, "idle")}
RollupRoom == counted + Cardinality(Busy) <= MaxCount

LEMMA RollupWords ==
  /\ Rollup!Cardinality(Busy) = Cardinality(Busy)
  /\ IsFiniteSet(Busy) /\ Cardinality(Busy) \in Nat /\ MaxCount \in Nat
<1>1. Busy \in SUBSET Workers /\ IsFiniteSet(Workers)
  BY NoticeConstants DEF Busy, NoticeAssumption
<1> QED BY <1>1, FS_Subset, FS_CardinalityType, PartConstants
        DEF Rollup!Cardinality, Cardinality, Forms!RateAssumption

LEMMA RoomStart ==
  ASSUME Rollup!RollupInit
  PROVE  RollupRoom
<1>1. Busy = {} /\ counted = 0
  BY DEF Rollup!RollupInit, Busy, Rollup!Counting
<1> QED BY <1>1, RollupWords, FS_EmptySet DEF RollupRoom

\* Who leaves makes room for the one increment it may have made.
LEMMA Leaves ==
  ASSUME RollupInv, RollupRoom, NEW w \in Busy, Rollup!Goto(w, "idle"), counted' \in {counted, counted + 1}
  PROVE  RollupRoom'
<1>1. Busy' = Busy \ {w}
  BY DEF Busy, Rollup!Goto, Rollup!Counting, RollupInv
<1>2. Cardinality(Busy') = Cardinality(Busy) - 1
  BY <1>1, RollupWords, FS_RemoveElement
<1> QED BY <1>2, RollupWords DEF RollupRoom, RollupInv

LEMMA RoomStep ==
  ASSUME RollupInv, RollupRoom, [Rollup!RollupNext]_rollup
  PROVE  RollupRoom'
<1>1. ASSUME NEW w \in Workers, Rollup!Begin(w) PROVE RollupRoom'
  <2>1. counted' = counted /\ counted + Cardinality(Busy) < MaxCount
    BY <1>1, RollupWords DEF Rollup!Begin, Busy
  <2>2. Busy' = Busy \cup {w}
    BY <1>1 DEF Rollup!Begin, Busy, Rollup!Goto, Rollup!Counting, RollupInv
  <2>3. Cardinality(Busy') <= Cardinality(Busy) + 1 /\ Cardinality(Busy') \in Nat
    BY <2>2, RollupWords, OneMore, FS_CardinalityType
  <2> QED BY <2>1, <2>3, RollupWords DEF RollupRoom, RollupInv
<1>2. ASSUME NEW w \in Workers, Rollup!UpdateRow(w) \/ Rollup!InsertRow(w) \/ Rollup!UpdateAgain(w)
      PROVE  RollupRoom'
  <2>1. counted' = counted /\ Busy' = Busy
    BY <1>2 DEF Rollup!UpdateRow, Rollup!InsertRow, Rollup!UpdateAgain, Rollup!IncrementExisting,
      Busy, Rollup!Goto, Rollup!Counting, RollupInv
  <2> QED BY <2>1 DEF RollupRoom
<1>3. ASSUME NEW w \in Workers, Rollup!CommitCount(w) PROVE RollupRoom'
  <2>1. w \in Busy
    BY <1>3 DEF Rollup!CommitCount, Busy, Rollup!Counting
  <2> QED BY <1>3, <2>1, Leaves DEF Rollup!CommitCount
<1>4. ASSUME NEW w \in Workers, Rollup!CountFails(w) PROVE RollupRoom'
  <2>1. w \in Busy
    BY <1>4 DEF Rollup!CountFails, Busy
  <2> QED BY <1>4, <2>1, Leaves DEF Rollup!CountFails
<1>5. CASE UNCHANGED rollup
  <2>1. counted' = counted /\ Busy' = Busy
    BY <1>5 DEF rollup, Busy, Rollup!Counting
  <2> QED BY <2>1 DEF RollupRoom
<1> QED BY <1>1, <1>2, <1>3, <1>4, <1>5 DEF Rollup!RollupNext

\* What is outside the workers, and no store's count above what all let through.
Struck ==
  /\ database \in BOOLEAN /\ mail \in BOOLEAN
  /\ faults \in 0 .. MaxFaults
  /\ \A s \in Deployed!Stores : tally[s] <= served

LEMMA StruckStart ==
  ASSUME Deployed!DeploymentInit
  PROVE  Struck
<1>1. MaxFaults \in Nat
  BY PartConstants DEF Deployed!DeploymentAssumption
<1> QED BY <1>1 DEF Deployed!DeploymentInit, Struck

LEMMA StruckStep ==
  ASSUME Tallied, Struck, [Deployed!DeploymentNext]_deployment
  PROVE  Struck'
<1>1. MaxFaults \in Nat /\ MaxPasses \in Nat
  BY PartConstants DEF Deployed!DeploymentAssumption
<1>2. served \in Nat /\ \A s \in Deployed!Stores : tally[s] \in Nat
  BY <1>1 DEF Tallied
<1>3. ASSUME NEW k \in Deployed!Keys, NEW raw \in Deployed!Raw, Deployed!Configure(k, raw)
      PROVE  Struck'
  BY <1>1, <1>3 DEF Deployed!Configure, Deployed!Fault, Deployed!outside, Deployed!history, Struck
<1>4. CASE Deployed!Outage
  <2>1. faults' \in 0 .. MaxFaults
    BY <1>1, <1>4 DEF Deployed!Outage, Deployed!Fault, Struck
  <2>2. database' \in BOOLEAN /\ mail' \in BOOLEAN
    BY <1>4 DEF Deployed!Outage, Struck
  <2>3. tally' = tally /\ served' = served
    BY <1>4 DEF Deployed!Outage, Deployed!history
  <2> QED BY <2>1, <2>2, <2>3 DEF Struck
<1>5. CASE Deployed!DatabaseReturns
  BY <1>5 DEF Deployed!DatabaseReturns, Deployed!history, Struck
<1>6. ASSUME NEW w \in Workers, Deployed!Start(w) PROVE Struck'
  <2>1. served' = served /\ tally' = [tally EXCEPT ![w] = 0]
        /\ UNCHANGED <<database, mail, faults>>
    BY <1>6 DEF Deployed!Start, Deployed!outside
  <2>2. \A s \in Deployed!Stores : tally'[s] <= served
    BY <1>2, <2>1 DEF Tallied, Struck
  <2> QED BY <2>1, <2>2 DEF Struck
<1>7. ASSUME NEW w \in Workers, Deployed!Crash(w) PROVE Struck'
  BY <1>1, <1>7 DEF Deployed!Crash, Deployed!Fault, Deployed!outside, Deployed!history, Struck
<1>8. ASSUME NEW w \in Workers, Deployed!ProbeFails(w) PROVE Struck'
  BY <1>8 DEF Deployed!ProbeFails, Deployed!outside, Deployed!history, Struck
<1>9. ASSUME NEW w \in Workers, Deployed!Request(w) PROVE Struck'
  <2>1. PICK store : tally' = [tally EXCEPT ![store] = @ + 1]
    BY <1>9 DEF Deployed!Request
  <2>2. served' = served + 1 /\ UNCHANGED <<database, mail, faults>>
    BY <1>9 DEF Deployed!Request, Deployed!outside
  <2>3. \A s \in Deployed!Stores : tally'[s] <= served + 1
    BY <1>2, <2>1 DEF Tallied, Struck
  <2> QED BY <2>2, <2>3 DEF Struck
<1>10. CASE UNCHANGED deployment
  BY <1>10 DEF deployment, Struck
<1> QED BY <1>3, <1>4, <1>5, <1>6, <1>7, <1>8, <1>9, <1>10 DEF Deployed!DeploymentNext

LEMMA DeploymentTyped ==
  ASSUME Processing, Tallied, Struck
  PROVE  Deployed!DeploymentTypeOK
<1>1. MaxPasses \in Nat
  BY DeploymentConstants
<1>2. tally \in [Deployed!Stores -> 0 .. MaxPasses + 1]
  <2>1. ASSUME NEW s \in Deployed!Stores PROVE tally[s] \in 0 .. MaxPasses + 1
    BY <1>1 DEF Tallied, Struck
  <2> QED BY <2>1 DEF Tallied
<1> QED BY <1>2 DEF Deployed!DeploymentTypeOK, Processing, Processes, Sources, Tallied, Struck

ShapesOK ==
  /\ part = "visits" => VisitsSource!SourceShape
  /\ part # "visits" => TabsSource!SourceShape

LEMMA ShapesStart ==
  ASSUME Init
  PROVE  ShapesOK
<1>1. ASSUME part = "visits" PROVE VisitsSource!SourceShape
  BY <1>1, VisitsSame, VisitsSource!SourceShapeStart DEF Init
<1>2. ASSUME part # "visits" PROVE TabsSource!SourceShape
  BY <1>2, TabsSame, TabsSource!SourceShapeStart DEF Init
<1> QED BY <1>1, <1>2 DEF ShapesOK

LEMMA ShapesStep ==
  ASSUME WidgetInv, ShapesOK, [Next]_vars
  PROVE  ShapesOK'
<1>1. ASSUME part = "visits" PROVE VisitsSource!SourceShape'
  <2>1. [VisitsSource!SourceNext]_VisitsSource!sourceVars /\ VisitsSource!SourceAssumption
    BY <1>1, OnePart, VisitsSame, PartConstants
  <2> QED BY <1>1, <2>1, VisitsSource!SourceShapeStep DEF WidgetInv, ShapesOK
<1>2. ASSUME part # "visits" PROVE TabsSource!SourceShape'
  <2>1. [TabsSource!SourceNext]_TabsSource!sourceVars /\ TabsSource!SourceAssumption
    BY <1>2, OnePart, TabsSame, PartConstants
  <2> QED BY <1>2, <2>1, TabsSource!SourceShapeStep DEF WidgetInv, ShapesOK
<1> QED BY <1>1, <1>2, OnePart DEF ShapesOK

\* The words of every part keep their types: the counters of _exceeds_limit, the workers
\* and the counts they share, the notices, _increment_daily, the attribution cookie, and
\* the page of build_app_reception with its trend, never longer than the window allows
\* (PartTypesOK).
THEOREM PartsTyped == Spec => []PartTypesOK
<1> DEFINE IInv ==
      /\ part = "forms" => FormsLimiter!RateInv
      /\ part # "forms" => ReadsLimiter!RateInv
      /\ part = "deployment" => Processing /\ Tallied /\ Struck
      /\ NoticeTypeOK
      /\ WidgetInv /\ RollupRoom /\ ShapesOK
      /\ part = "reception" => ReachInv
<1>1. Init => IInv
  BY LimitersStart, ProcessingStart, TalliedStart, StruckStart, NoticeTypeInit, WidgetStart, RoomStart,
     ShapesStart, ReachStart DEF Init
<1>2. IInv /\ [Next]_vars => IInv'
  <2> SUFFICES ASSUME IInv, [Next]_vars PROVE IInv'
    OBVIOUS
  <2>1. /\ part = "forms" => FormsLimiter!RateInv'
        /\ part # "forms" => ReadsLimiter!RateInv'
    BY LimitersStep
  <2>2. part = "deployment" => Processing' /\ Tallied' /\ Struck'
    BY OnePart, ProcessingStep, TalliedStep, StruckStep
  <2>3. NoticeTypeOK'
    BY OnePart, NoticeTypeStep
  <2>4. WidgetInv' /\ RollupRoom' /\ ShapesOK'
    BY OnePart, WidgetStep, RoomStep, ShapesStep DEF WidgetInv
  <2>5. part = "reception" => ReachInv'
    BY OnePart, ReachStep
  <2> QED BY <2>1, <2>2, <2>3, <2>4, <2>5, OnePart
<1>3. IInv => PartTypesOK
  <2> SUFFICES ASSUME IInv PROVE PartTypesOK
    OBVIOUS
  <2>1. ASSUME part = "forms" PROVE Forms!RateTypeOK
    BY <2>1, FormsSame DEF FormsLimiter!RateInv
  <2>2. ASSUME part # "forms" PROVE Reads!RateTypeOK
    BY <2>2, ReadsSame DEF ReadsLimiter!RateInv
  <2>3. Rollup!RollupTypeOK
    BY RollupWords DEF WidgetInv, RollupInv, RollupRoom, Rollup!RollupTypeOK
  <2>4. ASSUME part = "visits" PROVE Visits!SourceTypeOK
    BY <2>4, VisitsSame, VisitsSource!SourceTyped DEF WidgetInv, ShapesOK
  <2>5. ASSUME part # "visits" PROVE Tabs!SourceTypeOK
    BY <2>5, TabsSame, TabsSource!SourceTyped DEF WidgetInv, ShapesOK
  <2>6. ASSUME part = "reception" PROVE Page!ReceptionTypeOK
    BY <2>6, ReachHolds
  <2> QED BY <2>1, <2>2, <2>3, <2>4, <2>5, <2>6, DeploymentTyped DEF PartTypesOK
<1> QED BY <1>1, <1>2, <1>3, PTL DEF Spec
===============================================================================
