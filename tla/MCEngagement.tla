----------------------------- MODULE MCEngagement -----------------------------
(***************************************************************************)
(* The engagement components with two accounts, ann and bob, each with an  *)
(* application of their own.  A behaviour follows one workload: the days   *)
(* of one viewer (funnel), the links that two members click and share      *)
(* (links), follows, or ratings and what the gate reads.                   *)
(***************************************************************************)
EXTENDS Engagement, TLC

CONSTANTS ann, bob, ink, oak

MCOwner == (ink :> bob @@ oak :> ann)

\* What the workers serve in each workload, on how many days, and how many rows they
\* add; and whether the catalogue keeps its applications meanwhile.
Workloads ==
  {[ops |-> {"show", "convert", "visit"}, surfaces |-> {"app_page"},
    users |-> {ann}, apps |-> {ink}, lastDay |-> LastDay,
    shows |-> 1, acts |-> 1, steady |-> TRUE],
   [ops |-> {"show", "convert"}, surfaces |-> {"app_page"},
    users |-> {ann, bob}, apps |-> {ink, oak}, lastDay |-> 0,
    shows |-> 2, acts |-> 1, steady |-> FALSE],
   [ops |-> {"follow"}, surfaces |-> {},
    users |-> {ann, bob}, apps |-> {ink, oak}, lastDay |-> 0,
    shows |-> 0, acts |-> MaxEvents, steady |-> FALSE],
   [ops |-> {"show", "rate"}, surfaces |-> Surfaces,
    users |-> {ann, bob}, apps |-> {ink}, lastDay |-> 1,
    shows |-> MaxImpressions, acts |-> 0, steady |-> FALSE]}

VARIABLE workload

mcVars == <<vars, workload>>

Within(load) ==
  /\ today' <= load.lastDay
  /\ Len(impressions') <= load.shows
  /\ Len(events') <= load.acts
  /\ accepted' \subseteq load.apps
  /\ load.steady /\ live' = live => accepted' = accepted
  /\ \A w \in Workers :
       LET r == requests'[w] IN
         \/ r = Idle
         \/ /\ r.op \in load.ops
            /\ r.op = "show" => r.surface \in load.surfaces
            /\ r.user \in load.users
            /\ r.op # "visit" => r.app \in load.apps

MCInit == Init /\ workload \in Workloads /\ accepted \subseteq workload.apps

MCNext == Next /\ Within(workload) /\ UNCHANGED workload

MCSpec == MCInit /\ [][MCNext]_mcVars

WorkerSymmetry == Permutations(Workers)
===============================================================================
