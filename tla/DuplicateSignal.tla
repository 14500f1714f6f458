---------------------------- MODULE DuplicateSignal ----------------------------
(***************************************************************************)
(* The hint "so many other applications share this URL" that a reviewer is *)
(* given in the queue and on the page of one application (urlnorm.py, the  *)
(* queue reads of catalog/selectors.py).  Both compare the stored          *)
(* normalized URLs: the page one with all others, in the database; the     *)
(* queue by one grouped count, looked up by the program.  The column is    *)
(* citext: the database does not tell upper from lower case, the program   *)
(* does.                                                                   *)
(***************************************************************************)
EXTENDS Naturals, Sequences, FiniteSets, FiniteSetsExt, Functions, Sifting

CONSTANTS
  Apps,
  Urls,         \* the URLs that are sent: [site, host, path, port, slashes]
  MaxMoves,     \* bound: the requests that come between the statements of one page
  None

VARIABLES
  url,          \* the URL of each application, None before its submission
  waiting,      \* the pending applications, the longest waiting first
  listed,       \* the accepted ones; the others are rejected or withdrawn
  hints         \* the page of a reviewer: its step, what it has read, its hints

signalVars == <<url, waiting, listed, hints>>

SignalAssumption ==
  /\ IsFiniteSet(Apps) /\ MaxMoves \in Nat /\ None \notin Urls
  /\ Urls \subseteq [site : STRING, host : {"lower", "Upper"}, path : {"lower", "Upper"},
                     port : {"none", "default", "other"}, slashes : Nat]

Unread == [at |-> "none", keys |-> <<>>, given |-> <<>>, late |-> 0]

SignalTypeOK ==
  /\ url \in [Apps -> Urls \cup {None}]
  /\ waiting \in Seq(Apps) /\ IsInjective(waiting)
  /\ Range(waiting) \cap listed = {}
  /\ Range(waiting) \cup listed \subseteq {a \in Apps : url[a] # None}
  /\ hints.at \in {"none", "pending", "refreshed", "queue", "page"}
  /\ hints.late \in 0 .. MaxMoves
-------------------------------------------------------------------------------
\* The case of scheme and host, a default port, and all slashes at the end are dropped.
normalize_url(u) ==
  [u EXCEPT !.host = "lower", !.port = IF @ = "default" THEN "none" ELSE @, !.slashes = 0]

Submitted == {a \in Apps : url[a] # None}
Key(a) == normalize_url(url[a])

\* citext: equal but for the case.
SameText(k, l) == [k EXCEPT !.path = l.path] = l

apps_sharing_url(key, excluded) == {a \in Submitted \ {excluded} : SameText(Key(a), key)}

\* The rows of one group may be spelled differently: the group is told under the spelling
\* of any of them.  A mapping of all that may come back.
UrlShareCounts(keys, table) ==
  LET Rows == {a \in table : \E i \in DOMAIN keys : SameText(Key(a), keys[i])}
      Group(a) == {b \in Rows : SameText(Key(b), Key(a))}
      Groups == {Group(a) : a \in Rows}
  IN {[k \in {Key(told[g]) : g \in Groups} |->
         Cardinality(UNION {g \in Groups : Key(told[g]) = k})]
      : told \in {f \in [Groups -> Rows] : \A g \in Groups : f[g] \in g}}

\* Mutant: only what waits is counted.
CountsOfPending(keys) == UrlShareCounts(keys, Range(waiting))

url_share_counts(keys) == UrlShareCounts(keys, Submitted)

duplicate_hint(counts, key) ==
  Max({0, (IF key \in DOMAIN counts THEN counts[key] ELSE 1) - 1})
-------------------------------------------------------------------------------
SignalInit ==
  /\ url \in [Apps -> Urls \cup {None}]
  /\ \E pending \in SUBSET Submitted :
       waiting = LineUp(pending) /\ listed \in {{}, Submitted \ pending}
  /\ hints = Unread

\* Bound: what comes before the page is put together is in the initial states.
Move ==
  /\ hints.at \in {"pending", "refreshed"} /\ hints.late < MaxMoves
  /\ hints' = [hints EXCEPT !.late = @ + 1]

submit_app(a, u) ==
  /\ Move /\ url[a] = None
  /\ url' = [url EXCEPT ![a] = u]
  /\ waiting' = Append(waiting, a)
  /\ UNCHANGED listed

\* Another URL of an accepted application sends it back to the queue.
edit_app(a, u) ==
  /\ Move /\ url[a] \notin {None, u}
  /\ url' = [url EXCEPT ![a] = u]
  /\ waiting' = IF a \in listed THEN Append(waiting, a) ELSE waiting
  /\ listed' = listed \ {a}

accept_app(a) ==
  /\ Move /\ a \in Range(waiting)
  /\ waiting' = Without(waiting, a) /\ listed' = listed \cup {a}
  /\ UNCHANGED url

\* Rejected, or withdrawn by its owner: it keeps its URL.
Close(a) ==
  /\ Move /\ a \in Range(waiting) \cup listed
  /\ waiting' = Without(waiting, a) /\ listed' = listed \ {a}
  /\ UNCHANGED url

resubmit_app(a) ==
  /\ Move /\ a \in Submitted \ (Range(waiting) \cup listed)
  /\ waiting' = Append(waiting, a)
  /\ UNCHANGED <<url, listed>>

\* The rows go with the owner's account.
OwnerLeaves(a) ==
  /\ Move /\ a \in Submitted
  /\ url' = [url EXCEPT ![a] = None]
  /\ waiting' = Without(waiting, a) /\ listed' = listed \ {a}

Read(from, to, read) ==
  /\ hints.at = from /\ hints' = [read EXCEPT !.at = to]
  /\ UNCHANGED <<url, waiting, listed>>

\* list_review_queue, its two statements.
ReadPending ==
  Read("none", "pending",
       [hints EXCEPT !.keys = [i \in DOMAIN waiting |-> [app |-> waiting[i], key |-> Key(waiting[i])]]])

ReadCounts ==
  \E counts \in url_share_counts([i \in DOMAIN hints.keys |-> hints.keys[i].key]) :
    Read("pending", "queue",
         [hints EXCEPT !.given = [i \in DOMAIN hints.keys |->
                                    duplicate_hint(counts, hints.keys[i].key)]])

\* The page of one application: the row is read afresh, then what shares its URL.
RefreshApp(a) ==
  /\ a \in Submitted
  /\ Read("none", "refreshed", [hints EXCEPT !.keys = <<[app |-> a, key |-> Key(a)]>>])

ReadSharing ==
  Read("refreshed", "page",
       [hints EXCEPT !.given =
          <<Cardinality(apps_sharing_url(hints.keys[1].key, hints.keys[1].app))>>])

SignalNext ==
  \/ ReadPending \/ ReadCounts \/ ReadSharing
  \/ \E a \in Apps : \/ RefreshApp(a) \/ accept_app(a) \/ Close(a)
                     \/ resubmit_app(a) \/ OwnerLeaves(a)
                     \/ \E u \in Urls : submit_app(a, u) \/ edit_app(a, u)
-------------------------------------------------------------------------------
\* The same address, however its host, its port and the end of its path are written.
SameAddress(u, v) ==
  /\ u.site = v.site
  /\ (u.port = "other") = (v.port = "other")

\* The hints count the other applications, of any status, whose URL leads to the same
\* address: up to the requests between the statements, and, in the queue, never too many.
\* In the queue the hint of an application is missing only if some other spells the
\* same path in another case (_url_share_counts, list_review_queue, apps_sharing_url).
HintsTold ==
  \A i \in DOMAIN hints.given :
    LET read == hints.keys[i]
        Sharing == {b \in Submitted \ {read.app} : SameAddress(url[b], read.key)}
        given == hints.given[i]
    IN /\ given <= Cardinality(Sharing) + hints.late
       /\ \/ given + hints.late >= Cardinality(Sharing)
          \/ /\ hints.at = "queue" /\ given = 0
             /\ \E b \in Sharing \cup ({read.app} \cap Submitted) :
                  url[b].path # read.key.path
===============================================================================
