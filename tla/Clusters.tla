------------------------------- MODULE Clusters -------------------------------
(***************************************************************************)
(* The shelves of the interest vocabulary (apps/taxonomy): the clusters,   *)
(* the labels of the tags and their membership.  Staff edit tags and       *)
(* clusters in the Django admin, where an edit's read of the membership    *)
(* and its write are two statements; the seed command applies a whole file *)
(* in one transaction, taken as one step.  Successors and the seed's own   *)
(* statements are in Vocabulary.                                           *)
(***************************************************************************)
EXTENDS Naturals, Sequences, Functions

CONSTANTS
  Tags, Shelves, Labels, None,   \* tags and clusters by slug, canonical labels
  SeedFiles,                     \* [clusters, tags]: what a seed file lists
  Staff                          \* the admin requests served at the same time

\* An entry of a file's tags, and what _load_and_validate makes sure of.
Entries == [tag : Tags, label : Labels, clusters : (SUBSET Shelves) \ {{}}, retired : BOOLEAN]

ClustersAssumption ==
  /\ None \notin Tags \cup Shelves \cup Labels
  /\ \A f \in SeedFiles : f.clusters \subseteq Shelves /\ f.tags \in Seq(Entries)

VARIABLES
  rows,       \* rows[t]: the tag's status, label and clusters
  shelves,    \* the clusters that exist
  edits,      \* edits[s]: the change of a tag an admin request is making
  disturbed   \* history: the tags whose clusters changed behind the guards' back

clusterVars == <<rows, shelves, edits, disturbed>>

Row(status, label, clusters) == [status |-> status, label |-> label, clusters |-> clusters]
Absent == Row("absent", None, {})
NoEdit == [step |-> "none"]

ClustersTypeOK ==
  /\ rows \in [Tags -> [status : {"absent", "active", "retired"},
                        label : Labels \cup {None}, clusters : SUBSET shelves]]
  /\ shelves \subseteq Shelves
  /\ edits \in [Staff -> {NoEdit} \cup [step : {"read"}, tag : Tags, label : Labels,
                                        seen : SUBSET Shelves, asked : SUBSET Shelves]]
  /\ disturbed \subseteq Tags

ActiveTags(of) == {t \in Tags : of[t].status = "active"}

\* check_integrity: the active tags in no cluster.
Orphans(of) == {t \in ActiveTags(of) : of[t].clusters = {}}

\* _label_taken: by another tag, a retired one included.
LabelTaken(of, label, t) == \E u \in Tags \ {t} : of[u].label = label

-------------------------------------------------------------------------------
\* TagAdmin, the add form, and add_tag.
AdminAddsTag(t, label, clusters) ==
  /\ rows[t] = Absent /\ ~LabelTaken(rows, label, t)
  /\ clusters # {} /\ clusters \subseteq shelves
  /\ rows' = [rows EXCEPT ![t] = Row("active", label, clusters)]
  /\ UNCHANGED <<shelves, edits, disturbed>>

\* Mutant: neither the form nor the service asks for a cluster.
AdminReadsUnguarded(s, t, label, clusters) ==
  /\ edits[s] = NoEdit
  /\ rows[t] # Absent /\ ~LabelTaken(rows, label, t)
  /\ edits' = [edits EXCEPT ![s] = [step |-> "read", tag |-> t, label |-> label,
                                    seen |-> rows[t].clusters, asked |-> clusters]]
  /\ UNCHANGED <<rows, shelves, disturbed>>

\* TagAdmin, the change form: clean, then update_tag up to the membership it reads.
AdminReadsTag(s, t, label, clusters) ==
  /\ edits[s] = NoEdit
  /\ rows[t] # Absent /\ ~LabelTaken(rows, label, t)
  /\ rows[t].status = "active" => clusters # {}
  /\ edits' = [edits EXCEPT ![s] = [step |-> "read", tag |-> t, label |-> label,
                                    seen |-> rows[t].clusters, asked |-> clusters]]
  /\ UNCHANGED <<rows, shelves, disturbed>>

\* The end of update_tag.  The object it is given is the form's and has the new label
\* already: no change of label is found and none is saved.  The membership is set by
\* its difference to what was read; a cluster that is gone by now fails the request.
AdminWritesTag(s) ==
  LET e == edits[s]
      added == e.asked \ e.seen
      became == (rows[e.tag].clusters \cup added) \ (e.seen \ e.asked) IN
  /\ e # NoEdit
  /\ edits' = [edits EXCEPT ![s] = NoEdit]
  /\ IF added \subseteq shelves
     THEN /\ rows' = [rows EXCEPT ![e.tag].clusters = became]
          /\ disturbed' = IF became # {} THEN disturbed \ {e.tag}
                          ELSE IF rows[e.tag].clusters # e.seen THEN disturbed \cup {e.tag}
                          ELSE disturbed
     ELSE UNCHANGED <<rows, disturbed>>
  /\ UNCHANGED shelves

\* TagAdmin's bulk action and retire_tag: the clusters and the label are kept.
RetireTag(t) ==
  /\ rows[t].status = "active"
  /\ rows' = [rows EXCEPT ![t].status = "retired"]
  /\ UNCHANGED <<shelves, edits, disturbed>>

\* ClusterAdmin, the add form, and add_cluster.
AdminAddsCluster(c) ==
  /\ c \notin shelves
  /\ shelves' = shelves \cup {c}
  /\ UNCHANGED <<rows, edits, disturbed>>

\* ClusterAdmin leaves the admin's own deletion in place: no service is asked, and the
\* rows of the membership go with the cluster.
AdminDeletesCluster(c) ==
  /\ c \in shelves
  /\ shelves' = shelves \ {c}
  /\ rows' = [t \in Tags |-> [rows[t] EXCEPT !.clusters = @ \ {c}]]
  /\ disturbed' = disturbed \cup {t \in Tags : rows[t].clusters = {c}}
  /\ UNCHANGED edits

-------------------------------------------------------------------------------
\* One entry through _resolve_clusters and add_tag or update_tag; None once refused.
EntryApplied(f, of, e) ==
  IF of = None \/ ~(e.clusters \subseteq f.clusters) \/ LabelTaken(of, e.label, e.tag)
  THEN None
  ELSE [of EXCEPT ![e.tag] = Row(IF @ = Absent THEN "active" ELSE @.status,
                                 e.label, e.clusters)]

\* _apply_tags: the entries in the file's order, each on what those before it left.
TagsApplied(f, of) ==
  LET draft[n \in 0 .. Len(f.tags)] ==
        IF n = 0 THEN of ELSE EntryApplied(f, draft[n - 1], f.tags[n])
  IN  draft[Len(f.tags)]

\* _apply_retirements, without successors.
RetirementsApplied(f, of) ==
  [t \in Tags |-> IF \E e \in Range(f.tags) : e.tag = t /\ e.retired
                  THEN [of[t] EXCEPT !.status = "retired"] ELSE of[t]]

\* Mutant: _assert_integrity is left out.
SeededUnchecked(f, of) ==
  LET listed == TagsApplied(f, of)
  IN  IF listed = None THEN None ELSE RetirementsApplied(f, listed)

\* What a file makes of the rows: the tags, then the retirements, then
\* _assert_integrity over the whole vocabulary; None if the command aborts.
Seeded(f, of) ==
  LET listed == TagsApplied(f, of)
  IN  IF listed = None \/ Orphans(RetirementsApplied(f, listed)) # {} THEN None
      ELSE RetirementsApplied(f, listed)

\* seed_taxonomy, a run that applies; one that aborts changes nothing.
ApplySeed(f) ==
  /\ Seeded(f, rows) # None
  /\ rows' = Seeded(f, rows)
  /\ shelves' = shelves \cup f.clusters
  /\ disturbed' = {t \in disturbed : rows'[t].clusters = {}}
  /\ UNCHANGED edits

-------------------------------------------------------------------------------
ClustersInit ==
  /\ rows = [t \in Tags |-> Absent]
  /\ shelves = {} /\ disturbed = {}
  /\ edits = [s \in Staff |-> NoEdit]

Edit == \E s \in Staff :
  \/ AdminWritesTag(s)
  \/ \E t \in Tags, label \in Labels, clusters \in SUBSET shelves :
       AdminReadsTag(s, t, label, clusters)

ClustersNext ==
  \/ \E t \in Tags, label \in Labels, clusters \in SUBSET shelves :
       AdminAddsTag(t, label, clusters)
  \/ Edit
  \/ \E t \in Tags : RetireTag(t)
  \/ \E c \in Shelves : AdminAddsCluster(c) \/ AdminDeletesCluster(c)
  \/ \E f \in SeedFiles : ApplySeed(f)

-------------------------------------------------------------------------------
\* An active tag is in a cluster (services.py), unless its clusters changed between an
\* edit's read and its write, or its last cluster was deleted: no sequence of edits,
\* retirements and seed files orphans one otherwise.
ActiveTagsClustered == Orphans(rows) \subseteq disturbed

\* Nothing in _validate_tags keeps a file from listing a tag twice; the last entry counts.
LastEntry(f, i) == \A j \in DOMAIN f.tags : i < j => f.tags[j].tag # f.tags[i].tag
ListsOnce(f) == \A i \in DOMAIN f.tags : LastEntry(f, i)

\* A seed run that applies leaves no active tag without a cluster, not even one that
\* was there before, and shows what the file lists; a file that lists no tag twice finds
\* nothing to do when it is run again (seed_taxonomy, "idempotently").
SettledBy(f) ==
  /\ Orphans(rows') = {}
  /\ \A i \in DOMAIN f.tags : LastEntry(f, i) =>
       LET e == f.tags[i] IN rows'[e.tag].label = e.label /\ rows'[e.tag].clusters = e.clusters
  /\ ListsOnce(f) => Seeded(f, rows') = rows'
SeedSettles == \A f \in SeedFiles : ApplySeed(f) => SettledBy(f)

\* What staff save in the change form of a tag is what the tag shows (TagAdmin).
\* False: the label is never saved.
AdminEditTaken ==
  \A s \in Staff : edits[s] # NoEdit /\ edits'[s] = NoEdit /\ edits[s].asked \subseteq shelves
                   => rows'[edits[s].tag].label = edits[s].label
===============================================================================
