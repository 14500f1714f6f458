--------------------------- MODULE InterestProfile ---------------------------
(***************************************************************************)
(* One account's declared interests (apps/interests), picked on a page and *)
(* saved from several tabs at once.  The page shows active tags only and   *)
(* ticks what the stored ids mean by then.  set_interests validates the    *)
(* submitted ids, reads the stored rows and works out a delta, and only    *)
(* then opens the transaction that applies it.  The rows (user, tag_id)    *)
(* are unique; a tag is a soft reference, resolved when it is read.        *)
(***************************************************************************)
EXTENDS Vocabulary

CONSTANTS
  Tabs,            \* the requests of the account served at the same time
  DeclarationMax,  \* INTEREST_DECLARATION_MAX
  MaxWanted        \* bound: the profiles asked for while saves overlap

VARIABLES
  stored,       \* the tag ids of the account's Interest rows
  save,         \* save[w]: the save tab w is making
  wanted,       \* history: the profiles asked for since no save was under way
  owed          \* history: owed[w], the ids stored when tab w's page was rendered that
                \*   meant no active tag then and have not meant one since

interestVars == <<stored, save, wanted, owed>>

NoSave == [step |-> "idle"]

InterestTypeOK ==
  /\ stored \subseteq {t \in Tags : Exists(t)}
  /\ owed \in [Tabs -> SUBSET Tags]
  /\ save \in [Tabs -> {NoSave} \cup [step : {"validated"}, ids : SUBSET Tags]
                         \cup [step : {"reconciled"}, add : SUBSET Tags, remove : SUBSET Tags]]
  /\ wanted \subseteq SUBSET Tags

Quiet == \A w \in Tabs : save[w].step # "reconciled"

\* The ids that the picker cannot show: what they mean is not an active tag.
Unshowable == {t \in Tags : ~is_valid_tag(resolve_tag(t))}

\* _build_picker_context, for the page and after a save that failed.  There is a box for
\* each active tag that is in a cluster, ticked if a stored id means that tag: none tells
\* of the ids that are owed.
OpenPicker(w) ==
  /\ save[w] = NoSave
  /\ owed' = [owed EXCEPT ![w] = stored \cap Unshowable]
  /\ UNCHANGED <<stored, save, wanted>>

\* Mutant: the submitted ids are taken as they come.
ValidateNothing(w, ids) ==
  /\ save[w] = NoSave
  /\ save' = [save EXCEPT ![w] = [step |-> "validated", ids |-> ids]]
  /\ UNCHANGED <<stored, wanted, owed>>

\* save, and set_interests begins: too many ids, or one that is not an active tag by now,
\* refuse the whole save.  Nobody compares the ids with the boxes there were.
Validate(w, ids) ==
  /\ save[w] = NoSave
  /\ Cardinality(ids) <= DeclarationMax
  /\ \A t \in ids : is_valid_tag(t)
  /\ save' = [save EXCEPT ![w] = [step |-> "validated", ids |-> ids]]
  /\ UNCHANGED <<stored, wanted, owed>>

\* Mutant: only an id that resolves to nothing is kept.
OnlyUnresolvable == {t \in stored : ~Exists(resolve_tag(t))}

\* The stored ids the picker cannot show, by what they mean when the save reads them.
Preserved == stored \cap Unshowable

\* The history records what a request asks the profile to be.
Want(profile) ==
  /\ wanted' = (IF Quiet THEN {} ELSE wanted) \cup {profile}
  /\ Cardinality(wanted') <= MaxWanted

\* Mutant: what the picker cannot show is taken as deselected.
ReconcileNaively(w) ==
  /\ save[w].step = "validated"
  /\ save' = [save EXCEPT ![w] = [step |-> "reconciled", add |-> save[w].ids \ stored,
                                  remove |-> stored \ save[w].ids]]
  /\ Want(save[w].ids \cup Preserved)
  /\ UNCHANGED <<stored, owed>>

\* The rows are read, outside any transaction, and the delta is worked out.
Reconcile(w) ==
  /\ save[w].step = "validated"
  /\ LET profile == save[w].ids \cup Preserved IN
     /\ save' = [save EXCEPT ![w] = [step |-> "reconciled", add |-> profile \ stored,
                                     remove |-> stored \ profile]]
     /\ Want(profile)
  /\ UNCHANGED <<stored, owed>>

\* _apply_delta: one transaction; a row that is already there is an IntegrityError,
\* which rolls the whole save back ("try again").
ApplyDelta(w) ==
  /\ save[w].step = "reconciled"
  /\ stored' = IF save[w].add \cap stored = {}
               THEN (stored \ save[w].remove) \cup save[w].add
               ELSE stored
  /\ save' = [save EXCEPT ![w] = NoSave]
  /\ UNCHANGED <<wanted, owed>>

\* An explicit wipe bypasses the preserve rule.
clear_interests ==
  /\ stored' = {}
  /\ Want({})
  /\ UNCHANGED <<save, owed>>

InterestInit ==
  /\ stored = {} /\ wanted = {{}}
  /\ owed = [w \in Tabs |-> {}]
  /\ save = [w \in Tabs |-> NoSave]

InterestNext ==
  \/ clear_interests
  \/ \E w \in Tabs :
       \/ OpenPicker(w)
       \/ \E ids \in SUBSET Tags : Validate(w, ids)
       \/ Reconcile(w)
       \/ ApplyDelta(w)

\* What else becomes of the vocabulary meanwhile: an id that comes to mean an active tag,
\* by a merge, is owed no longer.
Meanwhile ==
  /\ owed' = [w \in Tabs |-> owed[w] \cap Unshowable']
  /\ UNCHANGED <<stored, save, wanted>>

\* The saves of one account beside everything that happens to the vocabulary.
AccountNext ==
  \/ VocabularyNext /\ Meanwhile
  \/ InterestNext /\ UNCHANGED vocabularyVars

accountVars == <<vocabularyVars, interestVars>>
InterestSpec == VocabularyInit /\ InterestInit /\ [][AccountNext]_accountVars

-------------------------------------------------------------------------------
\* What overlapping saves agree on stands: when the last of them is done, an id each
\* of them wanted is stored, and one none of them wanted is not (set_interests).
AgreedIdsStand ==
  Quiet => /\ \A t \in Tags : (\A profile \in wanted : t \in profile) => t \in stored
           /\ stored \subseteq UNION wanted

\* A save takes back no id that its page could not show, whatever other tabs save and
\* whatever is retired in between, unless a merge has made an active tag of it since
\* (set_interests: "never silently dropped").  What it may take back is an id whose box
\* was on the page, one declared in another tab since, one whose active tag is in no
\* cluster, and one that was merged between the page and the save.
PickerLosesNothing ==
  \A w \in Tabs : ApplyDelta(w) => (stored \ stored') \cap owed[w] = {}
===============================================================================
