---------------------------- MODULE MCLimitsAndReads ----------------------------
(***************************************************************************)
(* Parts that share no state: a behaviour is a behaviour of one of them.   *)
(* They are counters and limits, and readers of what others go on changing.*)
(* The two limiters of the code are rate_limited on the sign-in forms      *)
(* (address, then e-mail; an outage fails) and ip_rate_limited_get on the  *)
(* widget (address; an outage lets pass); the worker processes that count  *)
(* for them start with what is configured then (deployment).  Then come    *)
(* the limit on notices, the widget's daily counter, and the attribution   *)
(* of its clicks in a browser that asks one thing at a time (visits) or    *)
(* several (tabs).                                                         *)
(* The reader opens the reception page of an application in a calendar     *)
(* that turns a month or a year.                                           *)
(***************************************************************************)
EXTENDS NoticeLimit

CONSTANTS Apps, MaxCount, Tunables, Limit, Default, Numbers, MaxFaults, MaxPasses,
          Shows, None, Todays, Ages

\* The two tunables of the instance that TLC explores.
Defaults == [limit |-> 1, ttl |-> 3]

VARIABLES
  part,
  cache, request, passed, answered,                         \* RateLimit
  settings, environment, file, worker, database, mail,      \* Deployment
  tally, faults, served, shared, private,
  count, counting, counted,                                 \* WidgetRollup
  cookie, flight, clicks, credits, overlapped, day,         \* WidgetSource
  moment, shows, pending, page                              \* Reception

rate == <<cache, request, passed, answered>>
deployment == <<settings, environment, file, worker, database, mail,
                tally, faults, served, shared, private>>
rollup == <<count, counting, counted>>
source == <<cookie, flight, clicks, credits, overlapped, day>>
reception == <<moment, shows, pending, page>>
counts == <<rate, deployment, noticeVars, rollup, source>>
vars == <<part, counts, reception>>

Forms == INSTANCE RateLimit WITH
  Keys <- <<"ip", "email">>, Limit <- <<2, 1>>, FailOpen <- FALSE, Window <- 2
Reads == INSTANCE RateLimit WITH
  Keys <- <<"ip">>, Limit <- <<2>>, FailOpen <- TRUE, Window <- 2
Deployed == INSTANCE Deployment WITH counted <- tally, passed <- served
Rollup == INSTANCE WidgetRollup
Visits == INSTANCE WidgetSource WITH
  Requests <- {CHOOSE w \in Workers : TRUE}, Window <- 2, MaxClicks <- 2, LastDay <- 3
Tabs == INSTANCE WidgetSource WITH
  Requests <- Workers, Window <- 2, MaxClicks <- 1, LastDay <- 2
Page == INSTANCE Reception WITH
  now <- moment, Surfaces <- {"digest", "app_page"}, Curated <- {"digest"}, Widget <- "widget"

ASSUME PartConstants ==
  /\ Forms!RateAssumption /\ Reads!RateAssumption /\ Deployed!DeploymentAssumption
  /\ Visits!SourceAssumption /\ Tabs!SourceAssumption
  /\ Page!ReceptionAssumption

NoReception == moment = 0 /\ shows = <<>> /\ pending = <<>> /\ page = <<>>

Init ==
  /\ part \in {"forms", "reads", "deployment", "notices", "rollup", "visits", "tabs",
              "reception"}
  /\ IF part = "forms" THEN Forms!RateInit ELSE Reads!RateInit
  /\ Deployed!DeploymentInit
  /\ part # "deployment" => environment["REDIS_URL"] = 0
  /\ NoticeInit
  /\ Rollup!RollupInit
  /\ IF part = "visits" THEN Visits!SourceInit ELSE Tabs!SourceInit
  /\ IF part = "reception" THEN Page!ReceptionInit ELSE NoReception

Reading == UNCHANGED <<part, reception>>
Counting == UNCHANGED <<part, counts>>
Alone == Reading /\ UNCHANGED <<deployment, noticeVars, rollup, source>>

FormsStep == part = "forms" /\ Forms!RateNext /\ Alone
ReadsStep == part = "reads" /\ Reads!RateNext /\ Alone
DeploymentStep ==
  /\ part = "deployment" /\ Deployed!DeploymentNext
  /\ Reading /\ UNCHANGED <<rate, noticeVars, rollup, source>>
PostsStep == part = "notices" /\ NoticeNext /\ Reading /\ UNCHANGED <<rate, deployment, rollup, source>>
RollupStep == part = "rollup" /\ Rollup!RollupNext /\ Reading /\ UNCHANGED <<rate, deployment, noticeVars, source>>
VisitsStep == part = "visits" /\ Visits!SourceNext /\ Reading /\ UNCHANGED <<rate, deployment, noticeVars, rollup>>
TabsStep == part = "tabs" /\ Tabs!SourceNext /\ Reading /\ UNCHANGED <<rate, deployment, noticeVars, rollup>>
ReceptionStep == part = "reception" /\ Page!ReceptionNext /\ Counting

Next ==
  \/ FormsStep \/ ReadsStep \/ DeploymentStep \/ PostsStep \/ RollupStep \/ VisitsStep \/ TabsStep
  \/ ReceptionStep

Deploying == part = "deployment" /\ Reading /\ UNCHANGED <<rate, noticeVars, rollup, source>>

Fairness ==
  /\ WF_vars(part = "forms" /\ Forms!TimePasses /\ Alone)
  /\ WF_vars(part = "reads" /\ Reads!TimePasses /\ Alone)
  /\ \A w \in Workers :
       /\ WF_vars(part = "forms" /\ Forms!Serve(w) /\ Alone)
       /\ WF_vars(part = "reads" /\ Reads!Serve(w) /\ Alone)
       /\ WF_vars(Deploying /\ Deployed!Start(w))
  /\ WF_vars(Deploying /\ Deployed!DatabaseReturns)

Spec == Init /\ [][Next]_vars /\ Fairness
-------------------------------------------------------------------------------
\* Each part keeps its types.
PartTypesOK ==
  /\ part = "forms" => Forms!RateTypeOK
  /\ part # "forms" => Reads!RateTypeOK
  /\ part = "deployment" => Deployed!DeploymentTypeOK
  /\ NoticeTypeOK
  /\ Rollup!RollupTypeOK
  /\ part = "visits" => Visits!SourceTypeOK
  /\ part # "visits" => Tabs!SourceTypeOK
  /\ part = "reception" => Page!ReceptionTypeOK

\* What a limiter (_exceeds_limit) lets through on one counter is bounded, whatever its
\* requests do to each other; over all the workers, by what each started with.
LimitsHold ==
  /\ part = "forms" => Forms!PassesBounded
  /\ part = "reads" => Reads!PassesBounded
  /\ part = "deployment" => Deployed!ServesAsConfigured /\ Deployed!LimitAcrossWorkers

\* With a configuration that starts, every worker comes to serve and goes on
\* (health_live, validate_all), unless it is struck again and again.
WorkersSettle == part = "deployment" => Deployed!WorkersSettle

\* A client that keeps asking is served again and again (_exceeds_limit).
RefusalEnds == part = "reads" => Reads!RefusalEnds

\* The day's row counts every call of _increment_daily that returned; a click is credited
\* (_credit) with each kind once, if the requests of its browser do not overlap, and
\* within its window, whatever overlaps.
WidgetCountsHold ==
  [][/\ Rollup!CountsExact'
     /\ part = "visits" => Visits!CreditedOnce' /\ Visits!CreditsInWindow
     /\ part = "tabs" => Tabs!CreditedOnce' /\ Tabs!CreditsInWindow]_vars

\* The numbers of one reception page differ by no more than was committed while it was
\* put together, in any window on any day (build_app_reception).
PageTellsOneReach == part = "reception" => Page!PageTellsOneReach
===============================================================================
