------------------------------ MODULE Vocabulary ------------------------------
(***************************************************************************)
(* The interest vocabulary (apps/taxonomy): tags that are added, retired   *)
(* and merged into a successor, never deleted.  Two hands write it: staff, *)
(* in the Django admin, and the seed_taxonomy command, one transaction     *)
(* that loads the tags its file lists and then applies the file's          *)
(* retirements, in order, to the rows it loaded.  Labels and clusters are  *)
(* left out.                                                               *)
(***************************************************************************)
EXTENDS Naturals, Sequences, FiniteSets

CONSTANTS
  Tags,       \* the tags there can be
  NoTag,      \* no successor
  Files,      \* the seed files: [tags, retire], what is listed and the retirements
  MaxSteps    \* TAXONOMY_RESOLVE_MAX_STEPS

\* A retirement in a seed file: `retired: true`, with a successor or NoTag.
Retirements == [tag : Tags, into : Tags \cup {NoTag}]

\* What the constants must be.  Nothing relates the bound of resolve_tag to the number of
\* tags: a chain of successors may be longer.
ASSUME VocabularyAssumption ==
  /\ NoTag \notin Tags
  /\ IsFiniteSet(Tags) /\ MaxSteps \in Nat
  /\ \A f \in Files : /\ f.tags \subseteq Tags
                      /\ f.retire \in Seq(Retirements)
                      /\ \A i \in DOMAIN f.retire : f.retire[i].tag \in f.tags

VARIABLES
  tags,       \* tags[t]: the committed row of tag t
  seed        \* the seed_taxonomy run, if there is one

vocabularyVars == <<tags, seed>>

Rows == [status : {"absent", "active", "retired"}, replacedBy : Tags \cup {NoTag}]
Row(status, successor) == [status |-> status, replacedBy |-> successor]
Active == Row("active", NoTag)

NoSeed == [step |-> "idle"]

VocabularyTypeOK ==
  /\ tags \in [Tags -> Rows]
  /\ \/ seed = NoSeed
     \/ /\ seed \in [step : {"applying"}, file : Files, at : Nat \ {0},
                     draft : [Tags -> Rows], wrote : SUBSET Tags]
        /\ seed.at <= Len(seed.file.retire) + 1

Exists(t) == tags[t].status # "absent"
is_valid_tag(t) == tags[t].status = "active"

-------------------------------------------------------------------------------
\* A hop of resolve_tag, and of the walk in _validate_successor.
Next1(rows, t) == IF rows[t].replacedBy = NoTag THEN t ELSE rows[t].replacedBy

\* Where n hops lead.
Hops(rows, t, n) == LET reach[i \in 0..n] == IF i = 0 THEN t ELSE Next1(rows, reach[i - 1])
                    IN  reach[n]

\* The current meaning of t: at most MaxSteps hops.
resolve_tag(t) == Hops(tags, t, MaxSteps)

\* The bound cut the walk short: the tag it returns is merged on (on a chain of exactly
\* MaxSteps hops the code logs the same error, but returns the right tag).
CutOff(t) == tags[resolve_tag(t)].replacedBy # NoTag

\* Mutant: only the direct predecessors.
DirectOnly(a) ==
  IF Exists(a) THEN {a} \cup {t \in Tags : tags[t].replacedBy = a} ELSE {}

\* The tags that mean a: a breadth-first walk against replaced_by, to its end.
tag_ids_resolving_to(a) ==
  LET found[i \in 0..Cardinality(Tags)] ==
        IF i = 0 THEN {a}
        ELSE found[i - 1] \cup {t \in Tags : tags[t].replacedBy \in found[i - 1]}
  IN  IF Exists(a) THEN found[Cardinality(Tags)] ELSE {}

-------------------------------------------------------------------------------
\* The rows the seed has inserted or updated are locked until it ends.
Locked == IF seed = NoSeed THEN {} ELSE seed.wrote

\* add_tag, from the admin's form.
add_tag(t) ==
  /\ ~Exists(t) /\ t \notin Locked
  /\ tags' = [tags EXCEPT ![t] = Active]
  /\ UNCHANGED seed

\* retire_tag, from the admin's bulk action: no successor, whatever the tag was.
retire_selected_tags(t) ==
  /\ Exists(t) /\ t \notin Locked
  /\ tags' = [tags EXCEPT ![t] = Row("retired", NoTag)]
  /\ UNCHANGED seed

-------------------------------------------------------------------------------
\* _apply_tags: the listed tags that are missing are added, all are loaded.
SeedOpens(f) ==
  /\ seed = NoSeed
  /\ LET missing == {t \in f.tags : ~Exists(t)} IN
     seed' = [step |-> "applying", file |-> f, at |-> 1, wrote |-> missing,
              draft |-> [t \in Tags |-> IF t \in missing THEN Active ELSE tags[t]]]
  /\ UNCHANGED tags

Entry == seed.file.retire[seed.at]
MoreEntries == seed # NoSeed /\ seed.at <= Len(seed.file.retire)

\* Mutant: every successor is checked before the first retirement is applied.
AcceptsUpFront(e) ==
  \/ e.into = NoTag
  \/ /\ e.into \in seed.file.tags
     /\ e.into # e.tag
     /\ tags[e.into].status = "active"

\* _resolve_successor and _validate_successor: a listed, active successor whose own
\* chain does not come back.
Accepts(e) ==
  \/ e.into = NoTag
  \/ /\ e.into \in seed.file.tags
     /\ e.into # e.tag
     /\ seed.draft[e.into].status = "active"
     /\ \A n \in 0..Cardinality(Tags) : Hops(seed.draft, e.into, n) # e.tag

\* retire_tag, from _apply_retirements: idempotent, but it checks the successor again.
SeedRetires ==
  /\ MoreEntries
  /\ Accepts(Entry)
  /\ seed' = [seed EXCEPT !.draft[Entry.tag] = Row("retired", Entry.into),
                          !.wrote = @ \cup {Entry.tag}, !.at = @ + 1]
  /\ UNCHANGED tags

\* The command aborts and writes nothing.
SeedAborts ==
  /\ MoreEntries
  /\ ~Accepts(Entry)
  /\ seed' = NoSeed
  /\ UNCHANGED tags

SeedCommits ==
  /\ seed # NoSeed /\ ~MoreEntries
  /\ tags' = [t \in Tags |-> IF t \in seed.wrote THEN seed.draft[t] ELSE tags[t]]
  /\ seed' = NoSeed

-------------------------------------------------------------------------------
VocabularyInit ==
  /\ tags = [t \in Tags |-> Row("absent", NoTag)]
  /\ seed = NoSeed

VocabularyNext ==
  \/ \E t \in Tags : add_tag(t) \/ retire_selected_tags(t)
  \/ \E f \in Files : SeedOpens(f)
  \/ SeedRetires
  \/ SeedAborts
  \/ SeedCommits

VocabularySpec == VocabularyInit /\ [][VocabularyNext]_vocabularyVars

-------------------------------------------------------------------------------
\* Following successors comes to an end: in no set of tags does everyone lead to
\* another one (_validate_successor, over all files and all edits in between).
NoCyclesIn(rows) ==
  \A S \in SUBSET Tags : S # {} => \E t \in S : rows[t].replacedBy \notin S
NoCycles == NoCyclesIn(tags)

Merged == {t \in Tags : tags[t].replacedBy # NoTag}

\* The catalogue's tag filter and the labels it shows agree: on the tags that can be
\* picked, tag_ids_resolving_to is the inverse of resolve_tag, except for the tags whose
\* walk the bound cuts short; and it cuts none short before more tags have been merged
\* than it allows hops (TAXONOMY_RESOLVE_MAX_STEPS).
FilterMatchesLabels ==
  /\ \A a \in Tags : is_valid_tag(a) =>
       {t \in Tags : resolve_tag(t) = a} = {t \in tag_ids_resolving_to(a) : ~CutOff(t)}
  /\ \A t \in Tags : CutOff(t) => Cardinality(Merged) > MaxSteps

\* seed_taxonomy is idempotent (retire_tag: "re-running the seed is a no-op"): a file
\* whose whole content the rows show already is not refused.  False: a successor that
\* the same file merges on is no longer active on the second run.
RetiredBy(f) == {f.retire[i].tag : i \in DOMAIN f.retire}
Shown(f, rows) ==
  /\ \A t \in f.tags \ RetiredBy(f) : rows[t] = Active
  /\ \A i \in DOMAIN f.retire : rows[f.retire[i].tag] = Row("retired", f.retire[i].into)
SeedReapplies == MoreEntries /\ Shown(seed.file, seed.draft) => Accepts(Entry)
===============================================================================
