------------------------------ MODULE Deployment ------------------------------
(***************************************************************************)
(* The worker processes of a deployment and what they run with             *)
(* (config/settings.py, apps/core): the tunables that a worker reads from  *)
(* Django's settings, its environment or the .env file when it starts, the *)
(* cache it counts requests in, and the probe that has it restarted.       *)
(* Workers start at different times: between two starts an operator may    *)
(* have changed a value, and both serve.                                   *)
(***************************************************************************)
EXTENDS Integers, FiniteSetsExt

CONSTANTS
  Workers,
  Tunables,     \* the numbers of apps/core/config.py
  Limit,        \* among them, the one that limits a client's requests
  Default,      \* Default[t]: the documented default
  Numbers,      \* the positive integers that are configured
  MaxFaults,    \* bound: edits of the configuration, crashes and outages
  MaxPasses     \* bound: requests that are let through

\* What a source says of a key: nothing, something that is no positive number, or one.
\* The same words stand for what REDIS_URL (empty, or a URL) and the secret may be.
Unset == 0
Invalid == -1
Raw == {Unset, Invalid} \cup Numbers
Redis == "REDIS_URL"
Secret == "DJANGO_SECRET_KEY"
Keys == Tunables \cup {Redis, Secret}

DeploymentAssumption ==
  /\ Limit \in Tunables /\ Tunables \cap {Redis, Secret} = {}
  /\ Redis \notin Workers
  /\ Numbers # {} /\ Numbers \subseteq Nat \ {0} /\ Default \in [Tunables -> Nat \ {0}]
  /\ MaxFaults \in Nat /\ MaxPasses \in Nat

VARIABLES
  settings, environment, file,   \* what a worker that starts now finds
  worker,                        \* worker[w]: the process
  database, mail,                \* whether they answer
  counted,                       \* counted[s]: the client's counter in store s
  faults,
  passed,                        \* history: the requests of the client let through
  shared, private                \* history: the limits of workers on Redis, on their own

sources == <<settings, environment, file>>
outside == <<database, mail>>
history == <<passed, shared, private>>
deploymentVars == <<sources, worker, outside, counted, faults, history>>

Down == [up |-> FALSE]
Up(w) == worker[w].up

\* The client's counter is in Redis, or in the memory of one process.
Stores == Workers \cup {Redis}

DeploymentTypeOK ==
  /\ \A source \in {settings, environment, file} : source \in [Keys -> Raw]
  /\ worker \in [Workers -> {Down} \cup
                   [up : {TRUE}, settings : [Keys -> Raw], os : [Keys -> Raw],
                    found : [1 .. 3 -> [Keys -> Raw]]]]
  /\ database \in BOOLEAN /\ mail \in BOOLEAN
  /\ counted \in [Stores -> 0 .. MaxPasses + 1]
  /\ faults \in 0 .. MaxFaults /\ passed \in 0 .. MaxPasses
  /\ shared \in Nat /\ private \in 0 .. MaxPasses

-------------------------------------------------------------------------------
\* Mutant: the file overrides the environment.
FileWins(given, fallback) ==
  [k \in Keys |-> IF fallback[k] # Unset THEN fallback[k] ELSE given[k]]

\* _load_dotenv: a key that is set already stays as it is.
LoadDotenv(given, fallback) ==
  [k \in Keys |-> IF given[k] # Unset THEN given[k] ELSE fallback[k]]

\* _resolve_raw: a setting, the process's environment, the default.
ResolveRaw(set, os, t) ==
  IF set[t] # Unset THEN set[t] ELSE IF os[t] # Unset THEN os[t] ELSE Default[t]

\* _positive_int: zero, a negative number and what is no number are refused.
PositiveInt(raw) == raw > 0

\* validate_all evaluates every tunable.
ValidateAll(set, os) == \A t \in Tunables : PositiveInt(ResolveRaw(set, os, t))

\* A tunable as a request of worker w reads it.
Tunable(w, t) == ResolveRaw(worker[w].settings, worker[w].os, t)

\* Mutant: no shared cache.
OwnMemory(w) == w

\* _cache_settings: Redis if its URL is there and not empty.
CacheOf(w) == IF worker[w].os[Redis] \in {Unset, Invalid} THEN w ELSE Redis

-------------------------------------------------------------------------------
\* Bound: as many faults as may happen.
Fault == faults < MaxFaults /\ faults' = faults + 1

\* An operator changes a value where a worker looks for it when it starts.
Configure(k, raw) ==
  /\ Fault
  /\ \/ k \in Tunables /\ settings' = [settings EXCEPT ![k] = raw] /\ UNCHANGED <<environment, file>>
     \/ environment' = [environment EXCEPT ![k] = raw] /\ UNCHANGED <<settings, file>>
     \/ file' = [file EXCEPT ![k] = raw] /\ UNCHANGED <<settings, environment>>
  /\ UNCHANGED <<worker, outside, counted, history>>

\* A worker starts: settings.py is read, with the secret it requires, and CoreConfig.ready
\* evaluates every tunable.  The counters of its own memory begin at nothing.
Start(w) ==
  LET os == LoadDotenv(environment, file)
      limit == ResolveRaw(settings, os, Limit)
      url == environment[Redis] > 0 \/ (environment[Redis] = Unset /\ file[Redis] > 0) IN
  /\ ~Up(w)
  /\ os[Secret] # Unset /\ ValidateAll(settings, os)
  /\ worker' = [worker EXCEPT ![w] = [up |-> TRUE, settings |-> settings, os |-> os,
                                      found |-> <<settings, environment, file>>]]
  /\ counted' = [counted EXCEPT ![w] = 0]
  /\ IF url THEN shared' = Max({shared, limit}) /\ UNCHANGED private
     ELSE private' = Min({private + limit, MaxPasses}) /\ UNCHANGED shared
  /\ UNCHANGED <<sources, outside, faults, passed>>

Crash(w) ==
  /\ Up(w) /\ Fault
  /\ worker' = [worker EXCEPT ![w] = Down]
  /\ UNCHANGED <<sources, outside, counted, history>>

\* The database or the mail server goes.
Outage ==
  /\ Fault
  /\ \/ database /\ database' = FALSE /\ UNCHANGED mail
     \/ mail /\ mail' = FALSE /\ UNCHANGED database
  /\ UNCHANGED <<sources, worker, counted, history>>

DatabaseReturns ==
  /\ ~database /\ database' = TRUE
  /\ UNCHANGED <<sources, worker, mail, counted, faults, history>>

\* Mutant: the deep probe of health, which opens a mail connection.
check_health == database /\ mail

\* health_live: the process and the database, nothing else.
health_live == database

\* The orchestrator restarts a worker whose liveness probe fails (render.yaml).
ProbeFails(w) ==
  /\ Up(w) /\ ~health_live
  /\ worker' = [worker EXCEPT ![w] = Down]
  /\ UNCHANGED <<sources, outside, counted, faults, history>>

\* A request of the client at worker w: counted where w counts, let through up to the
\* limit w has (_exceeds_limit).  Within one window; refused requests change nothing.
Request(w) ==
  LET store == CacheOf(w) IN
  /\ Up(w) /\ passed < MaxPasses
  /\ counted[store] < Tunable(w, Limit)
  /\ counted' = [counted EXCEPT ![store] = @ + 1]
  /\ passed' = passed + 1
  /\ UNCHANGED <<sources, worker, outside, faults, shared, private>>

-------------------------------------------------------------------------------
DeploymentInit ==
  /\ settings = [k \in Keys |-> Unset]
  /\ environment \in {[k \in Keys |-> IF k = Secret THEN CHOOSE n \in Numbers : TRUE
                                      ELSE IF k = Redis THEN url ELSE Unset] :
                      url \in {Unset, CHOOSE n \in Numbers : TRUE}}
  /\ file = settings
  /\ worker = [w \in Workers |-> Down]
  /\ database = TRUE /\ mail = TRUE
  /\ counted = [s \in Stores |-> 0]
  /\ faults = 0 /\ passed = 0 /\ shared = 0 /\ private = 0

DeploymentNext ==
  \/ \E k \in Keys, raw \in Raw : Configure(k, raw)
  \/ Outage \/ DatabaseReturns
  \/ \E w \in Workers : Start(w) \/ Crash(w) \/ ProbeFails(w) \/ Request(w)

\* gunicorn starts a worker that is gone, and the database comes back.
DeploymentFairness ==
  /\ WF_deploymentVars(DatabaseReturns)
  /\ \A w \in Workers : WF_deploymentVars(Start(w))

-------------------------------------------------------------------------------
\* A worker that serves has for each tunable what the most specific source said when
\* the worker started, and that is a positive number: no request finds a misconfigured
\* one (config.py, "loudly at startup, never silently at point of use").
MostSpecific(found, t) ==
  LET said == {i \in DOMAIN found : found[i][t] # Unset}
  IN  IF said = {} THEN Default[t] ELSE found[Min(said)][t]
ServesAsConfigured ==
  \A w \in Workers, t \in Tunables : Up(w) =>
    /\ Tunable(w, t) = MostSpecific(worker[w].found, t)
    /\ Tunable(w, t) \in Numbers \cup {Default[t]}

\* What the workers let through together: the highest limit of those that share Redis,
\* and one limit more for each start of a worker that counts in its own memory
\* ("N times looser", settings.py).
LimitAcrossWorkers == passed <= shared + private

\* While the configuration is one that starts, nothing but faults takes a worker down
\* for long: in the end every worker serves, with the mail server gone for good
\* (health_live, "cannot ... trigger a restart loop").
Startable == LET os == LoadDotenv(environment, file)
             IN  os[Secret] # Unset /\ ValidateAll(settings, os)
WorkersSettle == <>[]Startable => <>[](\A w \in Workers : Up(w))
===============================================================================
