----------------------------- MODULE MCVocabulary -----------------------------
(***************************************************************************)
(* The vocabulary, its shelves, and one account's interests while it       *)
(* changes.  A behaviour begins with nothing seeded and follows the        *)
(* vocabulary alone, under every file; or begins with two active tags and  *)
(* follows the saves while staff retire them and a seed file merges one    *)
(* into the other; or follows the clusters and the labels, as two of the   *)
(* staff edit them at once.                                                *)
(***************************************************************************)
EXTENDS InterestProfile, TLC

CONSTANTS sketching, art, design, drawing, hand, eye, Admins, None,
          ShelfTags, ShelfSlugs, ShelfLabels, ShelfFiles

OneMerge == [tags |-> {drawing, design},
             retire |-> <<[tag |-> drawing, into |-> design]>>]
ThreeMerges == [tags |-> {sketching, drawing, design, art},
                retire |-> <<[tag |-> sketching, into |-> drawing],
                             [tag |-> drawing, into |-> design],
                             [tag |-> design, into |-> art]>>]
ThereAndBack == [tags |-> {drawing, design},
                 retire |-> <<[tag |-> design, into |-> drawing],
                              [tag |-> drawing, into |-> design]>>]
MCFiles == {OneMerge, ThreeMerges, ThereAndBack}

ASSUME MergeAssumption == {design, drawing} \subseteq Tags /\ OneMerge \in Files

VARIABLES
  part,
  entries, shelves, edits, disturbed      \* Clusters

\* The first file retires what it lists second, the second renames and moves a tag, the
\* third lists a tag twice.
Listing(t, label, clusters, retired) ==
  [tag |-> t, label |-> label, clusters |-> clusters, retired |-> retired]
MCShelfFiles ==
  {[clusters |-> {hand},
    tags |-> <<Listing(art, "Art", {hand}, FALSE), Listing(design, "Design", {hand}, TRUE)>>],
   [clusters |-> {hand, eye}, tags |-> <<Listing(art, "Design", {hand, eye}, FALSE)>>],
   [clusters |-> {eye},
    tags |-> <<Listing(design, "Art", {eye}, FALSE), Listing(design, "Design", {eye}, FALSE)>>]}

Shelving == INSTANCE Clusters WITH
  Tags <- ShelfTags, Shelves <- ShelfSlugs, Labels <- ShelfLabels,
  SeedFiles <- ShelfFiles, Staff <- Admins, rows <- entries

ASSUME ShelfConstants == Shelving!ClustersAssumption

chains == <<vocabularyVars, interestVars>>
shelfVars == <<entries, shelves, edits, disturbed>>
vars == <<part, chains, shelfVars>>

Init ==
  /\ part \in {"vocabulary", "interests", "shelving"}
  /\ Shelving!ClustersInit
  /\ InterestInit
  /\ seed = NoSeed
  /\ \/ part = "vocabulary" /\ VocabularyInit
     \/ /\ part = "interests"
        /\ tags = [t \in Tags |-> IF t \in {design, drawing} THEN Active
                                  ELSE Row("absent", NoTag)]
     \/ part = "shelving" /\ VocabularyInit

\* What happens to the vocabulary while interests are saved.
MergeAndRetire ==
  \/ \E t \in {design, drawing} : retire_selected_tags(t)
  \/ SeedOpens(OneMerge)
  \/ SeedRetires
  \/ SeedAborts
  \/ SeedCommits

Next ==
  /\ UNCHANGED part
  /\ \/ part = "vocabulary" /\ VocabularyNext /\ Meanwhile /\ UNCHANGED shelfVars
     \/ part = "interests" /\ MergeAndRetire /\ Meanwhile /\ UNCHANGED shelfVars
     \/ part = "interests" /\ InterestNext /\ UNCHANGED <<vocabularyVars, shelfVars>>
     \/ part = "shelving" /\ Shelving!ClustersNext /\ UNCHANGED chains

Spec == Init /\ [][Next]_vars

Symmetry == Permutations(Tabs) \cup Permutations(Admins)

\* The components keep their types, and no stored id loses its tag.
VocabularyTypesOK ==
  /\ VocabularyTypeOK /\ InterestTypeOK
  /\ Shelving!ClustersTypeOK

\* An active tag is in a cluster (apps/taxonomy/services.py), but for edits that
\* overlap and clusters that staff delete.
ActiveTagsClustered == part = "shelving" => Shelving!ActiveTagsClustered

\* A seed run that applies settles the vocabulary: no orphan is left, and a second run
\* finds nothing to do (seed_taxonomy).
SeedSettles == [][part = "shelving" => Shelving!SeedSettles]_shelfVars

\* A save of the picker takes back no interest that its page could not show
\* (set_interests), unless a merge has given it an active meaning since.
PickerKeepsWhatItHides == [][PickerLosesNothing]_interestVars

\* What the code says of TagAdmin and what update_tag does not do when the admin calls
\* it: the change staff save takes effect.
AdminEditsTakeEffect == [][part = "shelving" => Shelving!AdminEditTaken]_shelfVars
===============================================================================
