----------------------------- MODULE CatalogLinks -----------------------------
(***************************************************************************)
(* The tags, or the values of one facet, of one application under          *)
(* concurrent edit_app (apps/catalog/services.py).  An edit reads the link *)
(* rows and, when they differ from what was asked, deletes them and        *)
(* inserts what was asked: three statements of one Read Committed          *)
(* transaction that locks nothing before it deletes.  The DELETE works on  *)
(* the rows its snapshot shows, waits for a transaction that deletes one   *)
(* of them, and leaves out what is gone by then; the INSERT waits for a    *)
(* transaction that holds one of its unique (app, value) entries, and      *)
(* fails if the entry is there.                                            *)
(***************************************************************************)
EXTENDS FiniteSets, Naturals

CONSTANTS
  Workers,    \* the requests served at the same time
  Tags,       \* the values that pass validation
  Asks        \* the sets validation lets through: non-empty for tags, one value
              \* at most for a facet of SINGLE cardinality

\* What the constants must be.
LinksAssumption == Asks \subseteq SUBSET Tags

VARIABLES
  rows,       \* the committed link rows, as the set of their values
  edit        \* edit[w]: what worker w's transaction has done

linkVars == <<rows, edit>>

Quiet == [step |-> "idle"]
LinkEdits ==
  {Quiet} \cup [step : {"asked", "differs", "deleting", "deleted", "inserted"},
                ask : Asks, victims : SUBSET Tags, alone : BOOLEAN]

LinksTypeOK ==
  /\ rows \subseteq Tags
  /\ edit \in [Workers -> LinkEdits]

InFlight(w) == edit[w] # Quiet

\* What transaction w has deleted, and what it has inserted, uncommitted.
DeletedBy(w) == IF edit[w].step \in {"deleted", "inserted"} THEN edit[w].victims ELSE {}
InsertedBy(w) == IF edit[w].step = "inserted" THEN edit[w].ask ELSE {}

Others(w) == Workers \ {w}

Step(w, from, to) ==
  /\ edit[w].step = from
  /\ edit' = [edit EXCEPT ![w].step = to]

-------------------------------------------------------------------------------
\* Mutant: unknown tags are dropped from what was asked, instead of refused.
AskKnown(w, ask) ==
  /\ edit[w] = Quiet
  /\ \E known \in SUBSET ask :
       edit' = [edit EXCEPT ![w] =
                  [step |-> "asked", ask |-> known, victims |-> {}, alone |-> TRUE]]
  /\ UNCHANGED rows

\* An edit is asked for and passes validation.  The history field `alone` tells
\* whether no other edit has committed since.
Ask(w, ask) ==
  /\ edit[w] = Quiet
  /\ edit' = [edit EXCEPT ![w] =
                [step |-> "asked", ask |-> ask, victims |-> {}, alone |-> TRUE]]
  /\ UNCHANGED rows

\* _tags_changed, _facets_changed: the rows are compared with what was asked.
Compare(w) ==
  /\ edit[w].step = "asked"
  /\ \/ rows = edit[w].ask /\ edit' = [edit EXCEPT ![w] = Quiet]
     \/ rows # edit[w].ask /\ Step(w, "asked", "differs")
  /\ UNCHANGED rows

\* Mutant: only the rows that were not asked for are deleted.
SnapshotSpared(w) ==
  /\ edit[w].step = "differs"
  /\ edit' = [edit EXCEPT ![w].step = "deleting", ![w].victims = {}]
  /\ UNCHANGED rows

\* The DELETE starts: its snapshot is the rows committed now.
SnapshotVictims(w) ==
  /\ edit[w].step = "differs"
  /\ edit' = [edit EXCEPT ![w].step = "deleting", ![w].victims = rows]
  /\ UNCHANGED rows

\* Mutant: each statement commits by itself.
DeleteCommitted(w) ==
  /\ edit[w].step = "deleting"
  /\ \A v \in Others(w) : DeletedBy(v) \cap edit[w].victims = {}
  /\ rows' = rows \ edit[w].victims
  /\ edit' = [edit EXCEPT ![w].step = "deleted", ![w].victims = @ \cap rows]

\* The DELETE ends, when no other transaction holds one of its rows.
DeleteRows(w) ==
  /\ edit[w].step = "deleting"
  /\ \A v \in Others(w) : DeletedBy(v) \cap edit[w].victims = {}
  /\ edit' = [edit EXCEPT ![w].step = "deleted", ![w].victims = @ \cap rows]
  /\ UNCHANGED rows

\* bulk_create: all the rows asked for, or an IntegrityError and a rollback.
InsertRows(w) ==
  /\ edit[w].step = "deleted"
  /\ \A v \in Others(w) : (DeletedBy(v) \cup InsertedBy(v)) \cap edit[w].ask = {}
  /\ \/ /\ edit[w].ask \cap (rows \ edit[w].victims) = {}
        /\ Step(w, "deleted", "inserted")
     \/ /\ edit[w].ask \cap (rows \ edit[w].victims) # {}
        /\ edit' = [edit EXCEPT ![w] = Quiet]
  /\ UNCHANGED rows

CommitLinks(w) ==
  /\ edit[w].step = "inserted"
  /\ rows' = (rows \ edit[w].victims) \cup edit[w].ask
  /\ edit' = [v \in Workers |->
                IF v = w THEN Quiet
                ELSE IF InFlight(v) THEN [edit[v] EXCEPT !.alone = FALSE] ELSE edit[v]]

\* An error further on, a dead worker: nothing of the transaction remains.
RollBackLinks(w) ==
  /\ InFlight(w)
  /\ edit' = [edit EXCEPT ![w] = Quiet]
  /\ UNCHANGED rows
-------------------------------------------------------------------------------
LinksInit ==
  /\ rows \in Asks
  /\ edit = [w \in Workers |-> Quiet]

LinksNext ==
  \E w \in Workers :
    \/ \E ask \in Asks : Ask(w, ask)
    \/ Compare(w)
    \/ SnapshotVictims(w)
    \/ DeleteRows(w)
    \/ InsertRows(w)
    \/ CommitLinks(w)
    \/ RollBackLinks(w)

LinksSpec == LinksInit /\ [][LinksNext]_linkVars

-------------------------------------------------------------------------------
\* An edit that no other edit overlaps leaves exactly the set it asked for ("replace
\* the app's tag set with exactly unique_tag_ids").
EditReplaces ==
  \A w \in Workers :
    edit[w].step = "inserted" /\ edit[w].alone /\ edit'[w] = Quiet /\ rows' # rows =>
      rows' = edit[w].ask

AloneEditReplaces == [][EditReplaces]_linkVars

\* An application that must have a tag never loses the last one, at no moment a
\* reader can see.
NeverUntagged == {} \notin Asks => rows # {}
===============================================================================
