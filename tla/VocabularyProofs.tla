--------------------------- MODULE VocabularyProofs ---------------------------
(***************************************************************************)
(* The vocabulary and the interests that are declared in it, for any tags, *)
(* seed files and number of saves at once.                                 *)
(*                                                                         *)
(* Following successors always comes to an end.  Nothing in the code looks *)
(* for cycles across runs; what keeps them out is that a tag is merged     *)
(* only into one that was active in the rows the seed works on, that an    *)
(* active tag leads nowhere, and that whatever else is written meanwhile   *)
(* only takes successors away.  From there: the filter of the catalogue    *)
(* finds what the labels say but for the tags the bound of resolve_tag     *)
(* cuts off, what overlapping saves agree on stands, and a save of the     *)
(* picker takes back no id its page could not show.                        *)
(*                                                                         *)
(* Then the shelves, for any tags, clusters, labels, seed files and staff: *)
(* an active tag stays in a cluster, and a seed run settles what its file  *)
(* lists.                                                                  *)
(***************************************************************************)
EXTENDS MCVocabulary, FiniteSetTheorems, TLAPS

\* Rows that lead nowhere while they are active.
ActiveLeadNowhere(rows) ==
  \A t \in Tags : rows[t].status # "retired" => rows[t].replacedBy = NoTag

\* The seed works on rows that have every successor the committed ones have.
DraftCovers ==
  \A t \in Tags \ seed.wrote : tags[t].replacedBy \in {NoTag, seed.draft[t].replacedBy}

IInv ==
  /\ VocabularyTypeOK
  /\ NoCycles
  /\ ActiveLeadNowhere(tags)
  /\ seed # NoSeed => /\ NoCyclesIn(seed.draft)
                      /\ ActiveLeadNowhere(seed.draft)
                      /\ DraftCovers

-------------------------------------------------------------------------------
\* Taking successors away makes no cycle.
LEMMA FewerLinks ==
  ASSUME NEW rows, NEW fewer,
         NoCyclesIn(rows),
         \A t \in Tags : fewer[t].replacedBy \in {NoTag, rows[t].replacedBy}
  PROVE  NoCyclesIn(fewer)
<1> SUFFICES ASSUME NEW S \in SUBSET Tags, S # {}
             PROVE  \E t \in S : fewer[t].replacedBy \notin S
  BY DEF NoCyclesIn
<1>1. PICK t \in S : rows[t].replacedBy \notin S
  BY DEF NoCyclesIn
<1>2. fewer[t].replacedBy \notin S
  BY <1>1, VocabularyAssumption
<1> QED BY <1>2

\* Neither does leading a tag to one that leads nowhere itself.
LEMMA LinkToTheEnd ==
  ASSUME NEW rows \in [Tags -> Rows], NEW s \in Tags, NEW t \in Tags, s # t,
         NoCyclesIn(rows),
         rows[t].replacedBy = NoTag
  PROVE  NoCyclesIn([rows EXCEPT ![s] = Row("retired", t)])
<1> DEFINE linked == [rows EXCEPT ![s] = Row("retired", t)]
<1> SUFFICES ASSUME NEW S \in SUBSET Tags, S # {}
             PROVE  \E u \in S : linked[u].replacedBy \notin S
  BY DEF NoCyclesIn
<1>1. CASE s \in S /\ t \in S
  <2>1. linked[t] = rows[t]
    OBVIOUS
  <2> QED BY <1>1, <2>1, VocabularyAssumption
<1>2. CASE s \in S /\ t \notin S
  <2>1. linked[s].replacedBy = t
    BY DEF Row, Rows
  <2> QED BY <1>2, <2>1
<1>3. CASE s \notin S
  <2>1. PICK u \in S : rows[u].replacedBy \notin S
    BY DEF NoCyclesIn
  <2>2. linked[u] = rows[u]
    BY <1>3
  <2> QED BY <2>1, <2>2
<1> QED BY <1>1, <1>2, <1>3

\* What a retirement of the file is.
LEMMA EntryType ==
  ASSUME VocabularyTypeOK, MoreEntries
  PROVE  /\ seed \in [step : {"applying"}, file : Files, at : Nat \ {0},
                      draft : [Tags -> Rows], wrote : SUBSET Tags]
         /\ Entry \in Retirements
         /\ seed.at + 1 <= Len(seed.file.retire) + 1
<1>1. seed \in [step : {"applying"}, file : Files, at : Nat \ {0},
                draft : [Tags -> Rows], wrote : SUBSET Tags]
  BY DEF VocabularyTypeOK, MoreEntries
<1>2. seed.file.retire \in Seq(Retirements)
  BY <1>1, VocabularyAssumption
<1>3. seed.at \in 1..Len(seed.file.retire)
  BY <1>1, <1>2 DEF MoreEntries
<1> QED BY <1>1, <1>2, <1>3 DEF Entry

-------------------------------------------------------------------------------
LEMMA InitIInv == VocabularyInit => IInv
<1> SUFFICES ASSUME VocabularyInit PROVE IInv
  OBVIOUS
<1>1. VocabularyTypeOK /\ ActiveLeadNowhere(tags)
  BY VocabularyAssumption DEF VocabularyInit, VocabularyTypeOK, ActiveLeadNowhere, Rows, Row
<1>2. NoCycles
  BY VocabularyAssumption DEF VocabularyInit, NoCycles, NoCyclesIn, Row
<1> QED BY <1>1, <1>2 DEF IInv, VocabularyInit

LEMMA AddTag ==
  ASSUME IInv, NEW x \in Tags, add_tag(x) PROVE IInv'
<1>1. /\ tags \in [Tags -> Rows] /\ tags' = [tags EXCEPT ![x] = Active] /\ seed' = seed
      /\ tags[x].replacedBy = NoTag
  BY DEF IInv, VocabularyTypeOK, add_tag, Exists, ActiveLeadNowhere
<1>2. \A t \in Tags : tags'[t].replacedBy = tags[t].replacedBy
  BY <1>1 DEF Active, Row
<1>3. VocabularyTypeOK'
  BY <1>1, VocabularyAssumption DEF IInv, VocabularyTypeOK, Active, Row, Rows
<1>4. NoCycles'
  BY <1>2, FewerLinks DEF IInv, NoCycles
<1>5. ActiveLeadNowhere(tags)'
  BY <1>1, <1>2 DEF IInv, ActiveLeadNowhere, Active, Row
<1>6. (seed # NoSeed => NoCyclesIn(seed.draft) /\ ActiveLeadNowhere(seed.draft) /\ DraftCovers)'
  BY <1>1, <1>2 DEF IInv, DraftCovers, NoCyclesIn, ActiveLeadNowhere
<1> QED BY <1>3, <1>4, <1>5, <1>6 DEF IInv

LEMMA RetireSelected ==
  ASSUME IInv, NEW x \in Tags, retire_selected_tags(x) PROVE IInv'
<1>1. /\ tags \in [Tags -> Rows] /\ seed' = seed
      /\ tags' = [tags EXCEPT ![x] = Row("retired", NoTag)]
  BY DEF IInv, VocabularyTypeOK, retire_selected_tags
<1>2. \A t \in Tags : tags'[t].replacedBy \in {NoTag, tags[t].replacedBy}
  BY <1>1 DEF Row
<1>3. VocabularyTypeOK'
  BY <1>1, VocabularyAssumption DEF IInv, VocabularyTypeOK, Row, Rows
<1>4. NoCycles'
  BY <1>2, FewerLinks DEF IInv, NoCycles
<1>5. ActiveLeadNowhere(tags)'
  BY <1>1, <1>2 DEF IInv, ActiveLeadNowhere, Row
<1>6. (seed # NoSeed => NoCyclesIn(seed.draft) /\ ActiveLeadNowhere(seed.draft) /\ DraftCovers)'
  BY <1>1, <1>2 DEF IInv, DraftCovers, NoCyclesIn, ActiveLeadNowhere
<1> QED BY <1>3, <1>4, <1>5, <1>6 DEF IInv

LEMMA SeedOpening ==
  ASSUME IInv, NEW f \in Files, SeedOpens(f) PROVE IInv'
<1> DEFINE missing == {t \in f.tags : ~Exists(t)}
           draft == [t \in Tags |-> IF t \in missing THEN Active ELSE tags[t]]
<1>1. /\ tags \in [Tags -> Rows] /\ tags' = tags
      /\ seed' = [step |-> "applying", file |-> f, at |-> 1, wrote |-> missing,
                  draft |-> draft]
      /\ missing \subseteq Tags /\ f.retire \in Seq(Retirements)
  BY VocabularyAssumption DEF IInv, VocabularyTypeOK, SeedOpens
<1>2. \A t \in Tags : draft[t].replacedBy = tags[t].replacedBy
  BY <1>1 DEF IInv, ActiveLeadNowhere, Exists, Active, Row
<1>3. draft \in [Tags -> Rows]
  BY <1>1, VocabularyAssumption DEF Active, Row, Rows
<1>4. VocabularyTypeOK'
  <2>1. Len(f.retire) \in Nat
    BY <1>1
  <2> QED BY <1>1, <1>3, <2>1 DEF VocabularyTypeOK
<1>5. NoCyclesIn(draft)
  BY <1>2, FewerLinks DEF IInv, NoCycles
<1>6. ActiveLeadNowhere(draft)
  BY <1>2 DEF IInv, ActiveLeadNowhere, Active, Row
<1>7. seed'.draft = draft
  BY <1>1
<1>8. DraftCovers'
  BY <1>1, <1>2, <1>7 DEF DraftCovers
<1> QED BY <1>1, <1>4, <1>5, <1>6, <1>7, <1>8 DEF IInv, NoCycles, NoCyclesIn, ActiveLeadNowhere

LEMMA SeedRetiring ==
  ASSUME IInv, SeedRetires PROVE IInv'
<1> DEFINE e == Entry
           linked == [seed.draft EXCEPT ![e.tag] = Row("retired", e.into)]
<1>1. /\ seed \in [step : {"applying"}, file : Files, at : Nat \ {0},
                   draft : [Tags -> Rows], wrote : SUBSET Tags]
      /\ e \in Retirements
      /\ seed.at + 1 <= Len(seed.file.retire) + 1
  BY EntryType DEF IInv, SeedRetires
<1>2. /\ tags' = tags
      /\ seed' = [seed EXCEPT !.draft = linked, !.wrote = @ \cup {e.tag}, !.at = @ + 1]
  BY <1>1 DEF SeedRetires
<1>3. e.tag \in Tags /\ e.into \in Tags \cup {NoTag}
  BY <1>1 DEF Retirements
<1>4. seed # NoSeed
  BY DEF SeedRetires, MoreEntries
<1>5. linked \in [Tags -> Rows]
  BY <1>1, <1>3 DEF Rows, Row
<1>6. /\ seed'.draft = linked /\ seed'.wrote = seed.wrote \cup {e.tag}
      /\ seed'.at = seed.at + 1 /\ seed'.file = seed.file
  BY <1>1, <1>2
<1>7. VocabularyTypeOK'
  <2>1. seed' \in [step : {"applying"}, file : Files, at : Nat \ {0},
                   draft : [Tags -> Rows], wrote : SUBSET Tags]
    <3>1. /\ seed.at + 1 \in Nat \ {0}
          /\ seed.wrote \cup {e.tag} \in SUBSET Tags
      BY <1>1, <1>3
    <3>2. seed' = [step |-> seed.step, file |-> seed.file, at |-> seed.at + 1,
                   draft |-> linked, wrote |-> seed.wrote \cup {e.tag}]
      BY <1>1, <1>2
    <3> HIDE DEF linked, e
    <3> QED BY <1>1, <1>5, <3>1, <3>2
  <2>2. seed'.at <= Len(seed'.file.retire) + 1
    BY <1>1, <1>6
  <2> QED BY <1>2, <2>1, <2>2 DEF VocabularyTypeOK, IInv
<1>8. NoCyclesIn(linked)
  <2>1. CASE e.into = NoTag
    <3>1. \A t \in Tags : linked[t].replacedBy \in {NoTag, seed.draft[t].replacedBy}
      BY <1>1, <2>1 DEF Row
    <3> QED BY <1>4, <3>1, FewerLinks DEF IInv
  <2>2. CASE e.into # NoTag
    <3>1. e.into \in Tags /\ e.into # e.tag /\ seed.draft[e.into].status = "active"
      BY <1>3, <2>2 DEF SeedRetires, Accepts
    <3>2. seed.draft[e.into].replacedBy = NoTag
      BY <1>4, <3>1 DEF IInv, ActiveLeadNowhere
    <3> QED BY <1>1, <1>3, <1>4, <3>1, <3>2, LinkToTheEnd DEF IInv
  <2> QED BY <2>1, <2>2
<1>9. ActiveLeadNowhere(linked)
  BY <1>1, <1>3, <1>4 DEF IInv, ActiveLeadNowhere, Row
<1>10. DraftCovers'
  BY <1>1, <1>2, <1>3, <1>4, <1>6 DEF IInv, DraftCovers
<1> QED BY <1>2, <1>6, <1>7, <1>8, <1>9, <1>10
        DEF IInv, NoCycles, NoCyclesIn, ActiveLeadNowhere

LEMMA SeedCommitting ==
  ASSUME IInv, SeedCommits PROVE IInv'
<1>1. /\ seed \in [step : {"applying"}, file : Files, at : Nat \ {0},
                   draft : [Tags -> Rows], wrote : SUBSET Tags]
      /\ tags \in [Tags -> Rows]
      /\ NoCyclesIn(seed.draft) /\ ActiveLeadNowhere(seed.draft) /\ DraftCovers
  BY DEF IInv, VocabularyTypeOK, SeedCommits
<1>2. /\ tags' = [t \in Tags |-> IF t \in seed.wrote THEN seed.draft[t] ELSE tags[t]]
      /\ seed' = NoSeed
  BY DEF SeedCommits
<1>3. \A t \in Tags : tags'[t].replacedBy \in {NoTag, seed.draft[t].replacedBy}
  BY <1>1, <1>2 DEF DraftCovers
<1>4. NoCycles'
  BY <1>1, <1>3, FewerLinks DEF NoCycles
<1>5. ActiveLeadNowhere(tags)'
  BY <1>1, <1>2 DEF IInv, ActiveLeadNowhere
<1>6. VocabularyTypeOK'
  BY <1>1, <1>2 DEF VocabularyTypeOK
<1> QED BY <1>2, <1>4, <1>5, <1>6 DEF IInv

LEMMA StepKeepsIInv == IInv /\ [VocabularyNext]_vocabularyVars => IInv'
<1> SUFFICES ASSUME IInv, [VocabularyNext]_vocabularyVars PROVE IInv'
  OBVIOUS
<1>1. CASE \E t \in Tags : add_tag(t) \/ retire_selected_tags(t)
  BY <1>1, AddTag, RetireSelected
<1>2. CASE \E f \in Files : SeedOpens(f)
  BY <1>2, SeedOpening
<1>3. CASE SeedRetires
  BY <1>3, SeedRetiring
<1>4. CASE SeedAborts
  BY <1>4 DEF IInv, VocabularyTypeOK, SeedAborts, NoCycles, NoCyclesIn, ActiveLeadNowhere
<1>5. CASE SeedCommits
  BY <1>5, SeedCommitting
<1>6. CASE UNCHANGED vocabularyVars
  BY <1>6 DEF IInv, VocabularyTypeOK, vocabularyVars, NoCycles, NoCyclesIn,
              ActiveLeadNowhere, DraftCovers
<1> QED BY <1>1, <1>2, <1>3, <1>4, <1>5, <1>6 DEF VocabularyNext

-------------------------------------------------------------------------------
\* The rows and the seed's working copy keep their types (Tag, seed_taxonomy).
THEOREM VocabularyTyped == VocabularySpec => []VocabularyTypeOK
<1>1. IInv => VocabularyTypeOK
  BY DEF IInv
<1> QED BY InitIInv, StepKeepsIInv, <1>1, PTL DEF VocabularySpec

\* A reference to a tag always leads to a tag that means itself, whatever files were
\* applied and whatever staff retired in between (retire_tag, resolve_tag).
THEOREM ChainsEnd == VocabularySpec => []NoCycles
<1>1. IInv => NoCycles
  BY DEF IInv
<1> QED BY InitIInv, StepKeepsIInv, <1>1, PTL DEF VocabularySpec

-------------------------------------------------------------------------------
(***************************************************************************)
(* Induction over the natural numbers, on sets: a set of them has a least  *)
(* element, because the sets 0 .. n of a set of numbers have a smallest.   *)
(***************************************************************************)
LEMMA LeastNumber ==
  ASSUME NEW T, T \subseteq Nat, T # {}
  PROVE  \E n \in T : \A m \in T : n <= m
<1> DEFINE Below(n) == 0 .. n
           family == {Below(n) : n \in T}
<1>1. family \subseteq FiniteSubsetsOf(Nat) /\ family # {}
  <2>1. \A n \in T : Below(n) \subseteq Nat /\ IsFiniteSet(Below(n))
    BY FS_Interval
  <2> QED BY <2>1 DEF FiniteSubsetsOf
<1>2. PICK n \in T :
        \A m \in T : ~ (<<Below(m), Below(n)>> \in StrictSubsetOrdering(Nat))
  <2> HIDE DEF Below
  <2>1. PICK x \in family : \A y \in family : ~ (<<y, x>> \in StrictSubsetOrdering(Nat))
    <3> HIDE DEF family
    <3> QED BY <1>1, WFMin, FS_StrictSubsetOrderingWellFounded, Zenon
  <2> QED BY <2>1
<1>3. ASSUME NEW m \in T, m < n PROVE FALSE
  <2>1. Below(m) \subseteq Below(n) /\ n \in Below(n) /\ n \notin Below(m)
    BY <1>3
  <2>2. /\ Below(m) \subseteq Nat /\ IsFiniteSet(Below(m))
        /\ Below(n) \subseteq Nat /\ IsFiniteSet(Below(n))
    BY FS_Interval
  <2> HIDE DEF Below
  <2> QED BY <1>2, <2>1, <2>2 DEF StrictSubsetOrdering
<1> QED BY <1>3

LEMMA NumbersInduct ==
  ASSUME NEW S, 0 \in S, \A n \in Nat : n \in S => n + 1 \in S
  PROVE  Nat \subseteq S
<1> SUFFICES ASSUME Nat \ S # {} PROVE FALSE
  OBVIOUS
<1>1. PICK n \in Nat \ S : \A m \in Nat \ S : n <= m
  BY LeastNumber
<1>2. n - 1 \in Nat /\ n - 1 \in S
  BY <1>1
<1> QED BY <1>1, <1>2

-------------------------------------------------------------------------------
(***************************************************************************)
(* Hops is what it says: none leaves the tag where it is, one more follows *)
(* its successor.  The function in its definition exists for every length. *)
(***************************************************************************)
IsReach(g, rows, t, n) ==
  g = [i \in 0 .. n |-> IF i = 0 THEN t ELSE Next1(rows, g[i - 1])]

LEMMA ReachExists ==
  ASSUME NEW rows, NEW t
  PROVE  \A n \in Nat : \E g : IsReach(g, rows, t, n)
<1> DEFINE S == {n \in Nat : \E g : IsReach(g, rows, t, n)}
<1>1. 0 \in S
  <2> DEFINE g == [i \in 0 .. 0 |-> t]
  <2>1. g = [i \in 0 .. 0 |-> IF i = 0 THEN t ELSE Next1(rows, g[i - 1])]
    OBVIOUS
  <2> QED BY <2>1 DEF IsReach
<1>2. ASSUME NEW n \in Nat, n \in S PROVE n + 1 \in S
  <2>1. PICK g : IsReach(g, rows, t, n)
    BY <1>2
  <2> DEFINE h == [i \in 0 .. n + 1 |-> IF i = 0 THEN t ELSE Next1(rows, g[i - 1])]
  <2>2. \A i \in 0 .. n : h[i] = g[i]
    BY <2>1 DEF IsReach
  <2>3. h = [i \in 0 .. n + 1 |-> IF i = 0 THEN t ELSE Next1(rows, h[i - 1])]
    <3>1. \A i \in 0 .. n + 1 : i # 0 => i - 1 \in 0 .. n
      OBVIOUS
    <3> QED BY <2>2, <3>1
  <2> HIDE DEF h
  <2> QED BY <2>3 DEF IsReach
<1> HIDE DEF S
<1>3. Nat \subseteq S
  BY <1>1, <1>2, NumbersInduct
<1> QED BY <1>3 DEF S

LEMMA ReachUnique ==
  ASSUME NEW rows, NEW t, NEW n \in Nat, NEW g, NEW h,
         IsReach(g, rows, t, n), IsReach(h, rows, t, n + 1)
  PROVE  g[n] = h[n]
<1> DEFINE S == {i \in Nat : i <= n => g[i] = h[i]}
<1>1. 0 \in S
  BY DEF IsReach
<1>2. ASSUME NEW i \in Nat, i \in S PROVE i + 1 \in S
  <2> SUFFICES ASSUME i + 1 <= n PROVE g[i + 1] = h[i + 1]
    OBVIOUS
  <2>1. g[i] = h[i] /\ i + 1 \in 0 .. n /\ i + 1 \in 0 .. n + 1 /\ (i + 1) - 1 = i
    BY <1>2
  <2>2. g[i + 1] = Next1(rows, g[i]) /\ h[i + 1] = Next1(rows, h[i])
    BY <2>1 DEF IsReach
  <2> QED BY <2>1, <2>2
<1> HIDE DEF S
<1>3. Nat \subseteq S
  BY <1>1, <1>2, NumbersInduct
<1> QED BY <1>3 DEF S

LEMMA HopsSteps ==
  ASSUME NEW rows, NEW t
  PROVE  /\ Hops(rows, t, 0) = t
         /\ \A n \in Nat : Hops(rows, t, n + 1) = Next1(rows, Hops(rows, t, n))
<1> DEFINE reach(n) == CHOOSE g : IsReach(g, rows, t, n)
<1>1. \A n \in Nat : Hops(rows, t, n) = reach(n)[n]
  BY DEF Hops, IsReach
<1>2. \A n \in Nat : IsReach(reach(n), rows, t, n)
  BY ReachExists
<1> HIDE DEF reach
<1>3. Hops(rows, t, 0) = t
  BY <1>1, <1>2 DEF IsReach
<1>4. ASSUME NEW n \in Nat
      PROVE  Hops(rows, t, n + 1) = Next1(rows, Hops(rows, t, n))
  <2>1. IsReach(reach(n), rows, t, n) /\ IsReach(reach(n + 1), rows, t, n + 1)
    BY <1>2
  <2>2. reach(n)[n] = reach(n + 1)[n]
    BY <2>1, ReachUnique
  <2>3. reach(n + 1)[n + 1] = Next1(rows, reach(n + 1)[n])
    <3>1. n + 1 \in 0 .. n + 1 /\ n + 1 # 0 /\ (n + 1) - 1 = n
      OBVIOUS
    <3> QED BY <2>1, <3>1 DEF IsReach
  <2> QED BY <1>1, <2>2, <2>3
<1> QED BY <1>3, <1>4

LEMMA HopsType ==
  ASSUME NEW rows \in [Tags -> Rows], NEW t \in Tags
  PROVE  \A n \in Nat : Hops(rows, t, n) \in Tags
<1> DEFINE S == {n \in Nat : Hops(rows, t, n) \in Tags}
<1>1. 0 \in S
  BY HopsSteps
<1>2. ASSUME NEW n \in Nat, n \in S PROVE n + 1 \in S
  <2>1. rows[Hops(rows, t, n)].replacedBy \in Tags \cup {NoTag}
    BY <1>2 DEF Rows
  <2>2. Hops(rows, t, n + 1) = Next1(rows, Hops(rows, t, n))
    BY HopsSteps
  <2> QED BY <1>2, <2>1, <2>2 DEF Next1
<1> HIDE DEF S
<1>3. Nat \subseteq S
  BY <1>1, <1>2, NumbersInduct
<1> QED BY <1>3 DEF S

\* The first hop, then the others.
LEMMA HopsFirst ==
  ASSUME NEW rows, NEW t, NEW n \in Nat
  PROVE  Hops(rows, t, n + 1) = Hops(rows, Next1(rows, t), n)
<1> DEFINE u == Next1(rows, t)
           S == {i \in Nat : Hops(rows, t, i + 1) = Hops(rows, u, i)}
<1> HIDE DEF u
<1>0. \A s : /\ Hops(rows, s, 0) = s
             /\ \A i \in Nat : Hops(rows, s, i + 1) = Next1(rows, Hops(rows, s, i))
  BY HopsSteps
<1>1. /\ Hops(rows, t, 0) = t
      /\ \A i \in Nat : Hops(rows, t, i + 1) = Next1(rows, Hops(rows, t, i))
      /\ Hops(rows, u, 0) = u
      /\ \A i \in Nat : Hops(rows, u, i + 1) = Next1(rows, Hops(rows, u, i))
  BY <1>0
<1>2. 0 \in S
  <2>1. Hops(rows, t, 0 + 1) = u
    BY <1>1 DEF u
  <2> QED BY <2>1, <1>1
<1>3. ASSUME NEW i \in Nat, i \in S PROVE i + 1 \in S
  <2>1. i + 1 \in Nat
    OBVIOUS
  <2>2. Hops(rows, t, (i + 1) + 1) = Next1(rows, Hops(rows, t, i + 1))
    BY <2>1, <1>1
  <2> QED BY <1>1, <1>3, <2>1, <2>2
<1> HIDE DEF S
<1>4. Nat \subseteq S
  BY <1>2, <1>3, NumbersInduct
<1> QED BY <1>4 DEF S, u

\* Where two walks meet they go on together.
LEMMA HopsMeet ==
  ASSUME NEW rows, NEW t, NEW i \in Nat, NEW j \in Nat,
         Hops(rows, t, i) = Hops(rows, t, j)
  PROVE  \A d \in Nat : Hops(rows, t, i + d) = Hops(rows, t, j + d)
<1> DEFINE S == {d \in Nat : Hops(rows, t, i + d) = Hops(rows, t, j + d)}
<1>1. 0 \in S
  OBVIOUS
<1>2. ASSUME NEW d \in Nat, d \in S PROVE d + 1 \in S
  <2>1. /\ i + (d + 1) = (i + d) + 1 /\ i + d \in Nat
        /\ j + (d + 1) = (j + d) + 1 /\ j + d \in Nat
    OBVIOUS
  <2>2. \A m \in Nat : Hops(rows, t, m + 1) = Next1(rows, Hops(rows, t, m))
    BY HopsSteps
  <2>3. /\ Hops(rows, t, (i + d) + 1) = Next1(rows, Hops(rows, t, i + d))
        /\ Hops(rows, t, (j + d) + 1) = Next1(rows, Hops(rows, t, j + d))
    BY <2>1, <2>2
  <2> QED BY <1>2, <2>1, <2>3
<1> HIDE DEF S
<1>3. Nat \subseteq S
  BY <1>1, <1>2, NumbersInduct
<1> QED BY <1>3 DEF S

\* A tag that leads nowhere is where a walk that reaches it stays.
LEMMA HopsStay ==
  ASSUME NEW rows, NEW t, NEW a, Next1(rows, a) = a,
         NEW k \in Nat, Hops(rows, t, k) = a
  PROVE  \A n \in Nat : k <= n => Hops(rows, t, n) = a
<1> DEFINE S == {d \in Nat : Hops(rows, t, k + d) = a}
<1>1. 0 \in S
  OBVIOUS
<1>2. ASSUME NEW d \in Nat, d \in S PROVE d + 1 \in S
  <2>1. k + (d + 1) = (k + d) + 1 /\ k + d \in Nat
    OBVIOUS
  <2>2. \A m \in Nat : Hops(rows, t, m + 1) = Next1(rows, Hops(rows, t, m))
    BY HopsSteps
  <2>3. Hops(rows, t, (k + d) + 1) = Next1(rows, Hops(rows, t, k + d))
    BY <2>1, <2>2
  <2> QED BY <1>2, <2>1, <2>3
<1> HIDE DEF S
<1>3. Nat \subseteq S
  BY <1>1, <1>2, NumbersInduct
<1>4. ASSUME NEW n \in Nat, k <= n PROVE Hops(rows, t, n) = a
  <2>1. n - k \in Nat /\ k + (n - k) = n
    BY <1>4
  <2>2. n - k \in S
    BY <2>1, <1>3
  <2> QED BY <2>1, <2>2 DEF S
<1> QED BY <1>4

\* Up to the first hop that is at its end, a walk meets no tag twice.
LEMMA NoTagTwice ==
  ASSUME NEW rows \in [Tags -> Rows], NEW t \in Tags, NEW a,
         NEW k \in Nat, Hops(rows, t, k) = a,
         \A m \in Nat : Hops(rows, t, m) = a => k <= m
  PROVE  \A i, j \in 0 .. k - 1 : Hops(rows, t, i) = Hops(rows, t, j) => i = j
<1>1. ASSUME NEW i \in 0 .. k - 1, NEW j \in 0 .. k - 1, i < j,
             Hops(rows, t, i) = Hops(rows, t, j)
      PROVE  FALSE
  <2>1. k - j \in Nat /\ j + (k - j) = k /\ i + (k - j) \in Nat /\ i + (k - j) < k
    BY <1>1
  <2>2. i \in Nat /\ j \in Nat
    OBVIOUS
  <2>3. Hops(rows, t, i + (k - j)) = Hops(rows, t, j + (k - j))
    <3>1. \A d \in Nat : Hops(rows, t, i + d) = Hops(rows, t, j + d)
      BY <2>2, <1>1, HopsMeet
    <3> QED BY <2>1, <3>1
  <2>4. Hops(rows, t, i + (k - j)) = a
    BY <2>1, <2>3
  <2> QED BY <2>1, <2>4
<1> SUFFICES ASSUME NEW i \in 0 .. k - 1, NEW j \in 0 .. k - 1,
                    Hops(rows, t, i) = Hops(rows, t, j)
             PROVE  i = j
  OBVIOUS
<1>2. ~ (i < j) /\ ~ (j < i)
  BY <1>1
<1> QED BY <1>2

\* So a walk with n hops that meets no tag twice needs n tags.
LEMMA WalkNeedsTags ==
  ASSUME NEW S \in SUBSET Tags, NEW rows, NEW t, NEW n \in Nat,
         \A i \in 0 .. n - 1 : Hops(rows, t, i) \in S,
         \A i, j \in 0 .. n - 1 : Hops(rows, t, i) = Hops(rows, t, j) => i = j
  PROVE  n <= Cardinality(S)
<1> DEFINE walk == [i \in 0 .. n - 1 |-> Hops(rows, t, i)]
<1>1. walk \in Injection(0 .. n - 1, S)
  <2>1. walk \in [0 .. n - 1 -> S]
    OBVIOUS
  <2>2. \A i, j \in 0 .. n - 1 : walk[i] = walk[j] => i = j
    OBVIOUS
  <2> HIDE DEF walk
  <2> QED BY <2>1, <2>2 DEF Injection, IsInjective
<1>2. IsFiniteSet(S) /\ Cardinality(S) \in Nat
  BY FS_Subset, FS_CardinalityType, VocabularyAssumption
<1>3. Cardinality(0 .. n - 1) <= Cardinality(S)
  BY <1>1, <1>2, FS_Injection
<1>4. Cardinality(0 .. n - 1) = n
  <2>1. Cardinality(0 .. n - 1) = IF 0 > n - 1 THEN 0 ELSE (n - 1) - 0 + 1
    BY FS_Interval
  <2> QED BY <2>1
<1> QED BY <1>2, <1>3, <1>4

\* A walk that comes to an end comes to it in as many hops as there are tags.
LEMMA WalksAreShort ==
  ASSUME NEW rows \in [Tags -> Rows], NEW t \in Tags, NEW a,
         NEW n \in Nat, Hops(rows, t, n) = a
  PROVE  \E k \in 0 .. Cardinality(Tags) : Hops(rows, t, k) = a
<1> DEFINE Ends == {k \in Nat : Hops(rows, t, k) = a}
<1>1. PICK k \in Ends : \A m \in Ends : k <= m
  BY LeastNumber
<1>2. k \in Nat /\ Hops(rows, t, k) = a /\ (\A m \in Nat : Hops(rows, t, m) = a => k <= m)
  BY <1>1
<1>3. \A i, j \in 0 .. k - 1 : Hops(rows, t, i) = Hops(rows, t, j) => i = j
  BY <1>2, NoTagTwice
<1>4. \A i \in 0 .. k - 1 : Hops(rows, t, i) \in Tags
  BY <1>2, HopsType
<1>5. k <= Cardinality(Tags)
  BY <1>2, <1>3, <1>4, WalkNeedsTags
<1> QED BY <1>2, <1>5, FS_CardinalityType, VocabularyAssumption

-------------------------------------------------------------------------------
(***************************************************************************)
(* The breadth-first walk against the successors finds, after i rounds,    *)
(* the tags that are at the one it began with after i hops.                *)
(***************************************************************************)
Before(found) == {t \in Tags : tags[t].replacedBy \in found}
Wider(found) == found \cup Before(found)
IsFound(g, a, n) ==
  g = [i \in 0 .. n |-> IF i = 0 THEN {a} ELSE Wider(g[i - 1])]

LEMMA FoundExists ==
  ASSUME NEW a
  PROVE  \A n \in Nat : \E g : IsFound(g, a, n)
<1> DEFINE S == {n \in Nat : \E g : IsFound(g, a, n)}
<1>1. 0 \in S
  <2> DEFINE g == [i \in 0 .. 0 |-> {a}]
  <2>1. g = [i \in 0 .. 0 |-> IF i = 0 THEN {a} ELSE Wider(g[i - 1])]
    OBVIOUS
  <2> QED BY <2>1 DEF IsFound
<1>2. ASSUME NEW n \in Nat, n \in S PROVE n + 1 \in S
  <2>1. PICK g : IsFound(g, a, n)
    BY <1>2
  <2> DEFINE h == [i \in 0 .. n + 1 |-> IF i = 0 THEN {a} ELSE Wider(g[i - 1])]
  <2>2. ASSUME NEW i \in 0 .. n PROVE h[i] = g[i]
    <3>1. g[i] = IF i = 0 THEN {a} ELSE Wider(g[i - 1])
      BY <2>1 DEF IsFound
    <3>2. i \in 0 .. n + 1
      OBVIOUS
    <3> QED BY <3>1, <3>2
  <2>3. h = [i \in 0 .. n + 1 |-> IF i = 0 THEN {a} ELSE Wider(h[i - 1])]
    <3>1. \A i \in 0 .. n + 1 : i # 0 => i - 1 \in 0 .. n
      OBVIOUS
    <3> QED BY <2>2, <3>1
  <2> HIDE DEF h
  <2> QED BY <2>3 DEF IsFound
<1> HIDE DEF S
<1>3. Nat \subseteq S
  BY <1>1, <1>2, NumbersInduct
<1> QED BY <1>3 DEF S

LEMMA FoundAreAt ==
  ASSUME tags \in [Tags -> Rows], NEW a \in Tags, tags[a].replacedBy = NoTag,
         NEW n \in Nat, NEW g, IsFound(g, a, n)
  PROVE  \A i \in 0 .. n : g[i] = {t \in Tags : Hops(tags, t, i) = a}
<1> DEFINE At(i) == {t \in Tags : Hops(tags, t, i) = a}
           S == {i \in Nat : i <= n => g[i] = At(i)}
<1>1. 0 \in S
  <2>1. At(0) = {a}
    BY HopsSteps
  <2>2. g[0] = {a}
    BY DEF IsFound
  <2> QED BY <2>1, <2>2
<1>2. ASSUME NEW i \in Nat, i \in S PROVE i + 1 \in S
  <2> SUFFICES ASSUME i + 1 <= n PROVE g[i + 1] = At(i + 1)
    OBVIOUS
  <2>1. g[i + 1] = At(i) \cup Before(At(i))
    <3>1. i + 1 \in 0 .. n /\ i + 1 # 0 /\ (i + 1) - 1 = i /\ g[i] = At(i)
      BY <1>2
    <3>2. g[i + 1] = Wider(g[i])
      BY <3>1 DEF IsFound
    <3> QED BY <3>1, <3>2 DEF Wider
  <2>2. ASSUME NEW t \in Tags
        PROVE  Hops(tags, t, i + 1) = a <=> t \in At(i) \/ t \in Before(At(i))
    <3>1. Hops(tags, t, i + 1) = Hops(tags, Next1(tags, t), i)
      BY HopsFirst
    <3>2. CASE tags[t].replacedBy = NoTag
      BY <3>1, <3>2, VocabularyAssumption DEF Next1, Before
    <3>3. CASE tags[t].replacedBy # NoTag
      <4>1. tags[t].replacedBy \in Tags
        BY <3>3 DEF Rows
      <4>2. Hops(tags, t, i + 1) = a <=> t \in Before(At(i))
        BY <3>1, <3>3, <4>1 DEF Next1, Before
      <4>3. Next1(tags, a) = a
        BY DEF Next1
      <4>4. t \in At(i) => Hops(tags, t, i + 1) = a
        BY <4>3, HopsStay
      <4> QED BY <4>2, <4>4
    <3> QED BY <3>2, <3>3
  <2> HIDE DEF Before
  <2>3. Before(At(i)) \subseteq Tags
    BY DEF Before
  <2> QED BY <2>1, <2>2, <2>3
<1> HIDE DEF S
<1>3. Nat \subseteq S
  BY <1>1, <1>2, NumbersInduct
<1> QED BY <1>3 DEF S

\* The filter finds the tags that resolve to a, and those whose walk is cut off.
LEMMA FilterIsInverse ==
  ASSUME tags \in [Tags -> Rows], NEW a \in Tags, Exists(a), tags[a].replacedBy = NoTag
  PROVE  {t \in Tags : resolve_tag(t) = a} = {t \in tag_ids_resolving_to(a) : ~CutOff(t)}
<1> DEFINE N == Cardinality(Tags)
           found == CHOOSE g : IsFound(g, a, N)
<1>1. N \in Nat /\ MaxSteps \in Nat
  BY FS_CardinalityType, VocabularyAssumption
<1>2. IsFound(found, a, N)
  BY <1>1, FoundExists
<1>3. tag_ids_resolving_to(a) = found[N]
  BY DEF tag_ids_resolving_to, IsFound, Wider, Before
<1> HIDE DEF found, N
<1>4. found[N] = {t \in Tags : Hops(tags, t, N) = a}
  BY <1>1, <1>2, FoundAreAt
<1>5. ASSUME NEW t \in Tags
      PROVE  resolve_tag(t) = a <=> Hops(tags, t, N) = a /\ ~CutOff(t)
  <2>1. Next1(tags, a) = a
    BY DEF Next1
  <2>2. ASSUME resolve_tag(t) = a PROVE Hops(tags, t, N) = a /\ ~CutOff(t)
    <3>1. PICK k \in 0 .. N : Hops(tags, t, k) = a
      BY <1>1, <2>2, WalksAreShort DEF N, resolve_tag
    <3>2. Hops(tags, t, N) = a
      BY <1>1, <2>1, <3>1, HopsStay
    <3> QED BY <2>2, <3>2 DEF CutOff
  <2>3. ASSUME Hops(tags, t, N) = a, ~CutOff(t) PROVE resolve_tag(t) = a
    <3>1. Next1(tags, resolve_tag(t)) = resolve_tag(t)
      BY <2>3 DEF CutOff, Next1
    <3>2. CASE MaxSteps <= N
      BY <1>1, <2>3, <3>1, <3>2, HopsStay DEF resolve_tag
    <3>3. CASE N <= MaxSteps
      BY <1>1, <2>1, <2>3, <3>3, HopsStay DEF resolve_tag
    <3> QED BY <1>1, <3>2, <3>3
  <2> QED BY <2>2, <2>3
<1> QED BY <1>3, <1>4, <1>5

\* The bound cuts a walk only on more merged tags than it allows hops: each hop it makes
\* leaves one behind, and another one each time, because no walk comes back.
MeaningIsFinal == \A t \in Tags : CutOff(t) => Cardinality(Merged) > MaxSteps

LEMMA CutsNeedMerges == IInv => MeaningIsFinal
<1> SUFFICES ASSUME IInv, NEW t \in Tags, CutOff(t) PROVE MaxSteps + 1 <= Cardinality(Merged)
  <2>1. Merged \subseteq Tags
    BY DEF Merged
  <2>2. Cardinality(Merged) \in Nat /\ MaxSteps \in Nat
    BY <2>1, FS_Subset, FS_CardinalityType, VocabularyAssumption
  <2> QED BY <2>2 DEF MeaningIsFinal
<1> DEFINE walk == {Hops(tags, t, n) : n \in Nat}
<1>1. tags \in [Tags -> Rows] /\ MaxSteps \in Nat
  BY VocabularyAssumption DEF IInv, VocabularyTypeOK
<1>2. walk \in SUBSET Tags /\ walk # {}
  BY <1>1, HopsType
<1>3. PICK a \in walk : tags[a].replacedBy \notin walk
  BY <1>2 DEF IInv, NoCycles, NoCyclesIn
<1>4. PICK n \in Nat : a = Hops(tags, t, n)
  BY <1>3
<1>5. Hops(tags, t, n + 1) = Next1(tags, a) /\ Hops(tags, t, n + 1) \in walk
  <2>1. \A i \in Nat : Hops(tags, t, i + 1) = Next1(tags, Hops(tags, t, i))
    BY HopsSteps
  <2>2. n + 1 \in Nat
    OBVIOUS
  <2> QED BY <1>4, <2>1, <2>2
<1>6. tags[a].replacedBy = NoTag /\ Next1(tags, a) = a
  BY <1>3, <1>5 DEF Next1
<1> DEFINE Ends == {k \in Nat : Hops(tags, t, k) = a}
<1>7. PICK k \in Ends : \A m \in Ends : k <= m
  BY <1>4, LeastNumber
<1>8. k \in Nat /\ Hops(tags, t, k) = a /\ (\A m \in Nat : Hops(tags, t, m) = a => k <= m)
  BY <1>7
<1> HIDE DEF walk, Ends
<1>9. MaxSteps < k
  <2>1. SUFFICES ASSUME k <= MaxSteps PROVE FALSE
    BY <1>1, <1>8
  <2>2. Hops(tags, t, MaxSteps) = a
    BY <1>1, <1>6, <1>8, <2>1, HopsStay
  <2> QED BY <1>6, <2>2 DEF CutOff, resolve_tag
<1>10. ASSUME NEW i \in 0 .. MaxSteps PROVE Hops(tags, t, i) \in Merged
  <2>1. i \in Nat /\ i <= MaxSteps /\ Hops(tags, t, i) \in Tags
    BY <1>1, HopsType
  <2>2. SUFFICES ASSUME Next1(tags, Hops(tags, t, i)) = Hops(tags, t, i) PROVE FALSE
    BY <2>1 DEF Merged, Next1
  <2>3. \A m \in Nat : i <= m => Hops(tags, t, m) = Hops(tags, t, i)
    BY <2>1, <2>2, HopsStay
  <2>4. Hops(tags, t, k) = Hops(tags, t, i)
    BY <1>1, <1>8, <1>9, <2>1, <2>3
  <2>5. k <= i
    BY <1>8, <2>1, <2>4
  <2> QED BY <1>1, <1>8, <1>9, <2>1, <2>5
<1>11. \A i, j \in 0 .. k - 1 : Hops(tags, t, i) = Hops(tags, t, j) => i = j
  BY <1>1, <1>8, NoTagTwice
<1>12. (MaxSteps + 1) - 1 = MaxSteps /\ MaxSteps + 1 \in Nat
       /\ \A i \in 0 .. MaxSteps : i \in 0 .. k - 1
  BY <1>1, <1>8, <1>9
<1>13. /\ \A i \in 0 .. (MaxSteps + 1) - 1 : Hops(tags, t, i) \in Merged
       /\ \A i, j \in 0 .. (MaxSteps + 1) - 1 : Hops(tags, t, i) = Hops(tags, t, j) => i = j
  BY <1>10, <1>11, <1>12
<1>14. Merged \in SUBSET Tags
  BY DEF Merged
<1> QED BY <1>12, <1>13, <1>14, WalkNeedsTags

\* Whatever was merged into what, and however short the bound of resolve_tag: under an
\* active tag the catalogue's filter finds exactly the applications whose label resolves to
\* it, and those with a tag that the bound cuts off (tag_ids_resolving_to, resolve_tag).
THEOREM FilterAgrees == VocabularySpec => []FilterMatchesLabels
<1>1. ASSUME IInv, NEW a \in Tags, is_valid_tag(a)
      PROVE  {t \in Tags : resolve_tag(t) = a} = {t \in tag_ids_resolving_to(a) : ~CutOff(t)}
  BY <1>1, FilterIsInverse DEF IInv, VocabularyTypeOK, ActiveLeadNowhere, is_valid_tag, Exists
<1>2. IInv => FilterMatchesLabels
  BY <1>1, CutsNeedMerges DEF FilterMatchesLabels, MeaningIsFinal
<1> QED BY <1>2, InitIInv, StepKeepsIInv, PTL DEF VocabularySpec

\* resolve_tag returns a tag that was merged on only when more tags have been merged than
\* TAXONOMY_RESOLVE_MAX_STEPS: a chain that is too long, never one that comes back.
THEOREM MeaningsAreFinal == VocabularySpec => []MeaningIsFinal
BY CutsNeedMerges, InitIInv, StepKeepsIInv, PTL DEF VocabularySpec

-------------------------------------------------------------------------------
(***************************************************************************)
(* The interests of an account.  First the types: no tag disappears under  *)
(* a save, because the seed writes no row back that is absent.             *)
(***************************************************************************)
SeedKnown == seed # NoSeed => \A t \in seed.wrote : seed.draft[t].status # "absent"

Known == {t \in Tags : Exists(t)}
SavesKnown ==
  \A w \in Tabs : /\ save[w].step = "validated" => save[w].ids \subseteq Known
                  /\ save[w].step = "reconciled" => save[w].add \subseteq Known

TypeInv == IInv /\ SeedKnown /\ InterestTypeOK /\ SavesKnown


LEMMA TagsStay ==
  ASSUME IInv, SeedKnown, VocabularyNext
  PROVE  SeedKnown' /\ Known \subseteq Known'
<1>1. ASSUME NEW t \in Tags, add_tag(t) \/ retire_selected_tags(t)
      PROVE  SeedKnown' /\ Known \subseteq Known'
  BY <1>1 DEF IInv, VocabularyTypeOK, add_tag, retire_selected_tags, SeedKnown, Known,
              Exists, Active, Row
<1>2. ASSUME NEW f \in Files, SeedOpens(f)
      PROVE  SeedKnown' /\ Known \subseteq Known'
  <2> DEFINE missing == {t \in f.tags : ~Exists(t)}
  <2>1. missing \subseteq Tags /\ seed'.wrote = missing
        /\ seed'.draft = [t \in Tags |-> IF t \in missing THEN Active ELSE tags[t]]
    BY <1>2, VocabularyAssumption DEF SeedOpens
  <2>2. SeedKnown'
    BY <2>1 DEF SeedKnown, Active, Row
  <2> QED BY <1>2, <2>2 DEF SeedOpens, Known, Exists
<1>3. CASE SeedRetires
  <2>1. /\ seed \in [step : {"applying"}, file : Files, at : Nat \ {0},
                     draft : [Tags -> Rows], wrote : SUBSET Tags]
        /\ Entry \in Retirements /\ seed # NoSeed
    BY <1>3, EntryType DEF IInv, SeedRetires, MoreEntries
  <2>2. /\ seed'.draft = [seed.draft EXCEPT ![Entry.tag] = Row("retired", Entry.into)]
        /\ seed'.wrote = seed.wrote \cup {Entry.tag}
        /\ tags' = tags
    BY <1>3, <2>1 DEF SeedRetires
  <2>3. SeedKnown'
    BY <2>1, <2>2 DEF SeedKnown, Row, Retirements
  <2> QED BY <2>2, <2>3 DEF Known, Exists
<1>4. CASE SeedAborts
  BY <1>4 DEF SeedAborts, SeedKnown, Known, Exists
<1>5. CASE SeedCommits
  BY <1>5 DEF SeedCommits, SeedKnown, Known, Exists
<1> QED BY <1>1, <1>2, <1>3, <1>4, <1>5 DEF VocabularyNext

LEMMA InterestTypeInit == VocabularyInit /\ InterestInit => TypeInv
<1> SUFFICES ASSUME VocabularyInit, InterestInit PROVE TypeInv
  OBVIOUS
<1>1. IInv /\ SeedKnown
  BY InitIInv DEF VocabularyInit, SeedKnown
<1> QED BY <1>1 DEF TypeInv, InterestInit, InterestTypeOK, SavesKnown, NoSave

LEMMA InterestTypeStep == TypeInv /\ [AccountNext]_accountVars => TypeInv'
<1> SUFFICES ASSUME TypeInv, [AccountNext]_accountVars PROVE TypeInv'
  OBVIOUS
<1> USE DEF TypeInv
<1>1. CASE VocabularyNext /\ Meanwhile
  <2>1. IInv' /\ SeedKnown' /\ Known \subseteq Known'
    BY <1>1, StepKeepsIInv, TagsStay
  <2>2. owed' \in [Tabs -> SUBSET Tags] /\ UNCHANGED <<stored, save, wanted>>
    BY <1>1 DEF Meanwhile, InterestTypeOK
  <2> QED BY <2>1, <2>2 DEF InterestTypeOK, SavesKnown, Known
<1>2. CASE InterestNext /\ UNCHANGED vocabularyVars
  <2>1. IInv' /\ SeedKnown' /\ Known' = Known
    <3>1. IInv'
      BY <1>2, StepKeepsIInv
    <3> QED BY <1>2, <3>1 DEF vocabularyVars, SeedKnown, Known, Exists
  <2>2. stored \subseteq Known /\ Known \subseteq Tags /\ wanted \subseteq SUBSET Tags
    BY DEF InterestTypeOK, Known
  <2>3. ASSUME NEW profile \in SUBSET Tags, Want(profile)
        PROVE  wanted' \subseteq SUBSET Tags
    BY <2>2, <2>3 DEF Want
  <2>4. CASE clear_interests
    BY <2>1, <2>3, <2>4 DEF clear_interests, InterestTypeOK, SavesKnown, Known
  <2>5. ASSUME NEW w \in Tabs, NEW ids \in SUBSET Tags, Validate(w, ids)
        PROVE  TypeInv'
    <3>1. ids \subseteq Known
      BY <2>5 DEF Validate, is_valid_tag, Known, Exists
    <3>2. save' = [save EXCEPT ![w] = [step |-> "validated", ids |-> ids]]
          /\ UNCHANGED <<stored, wanted, owed>>
      BY <2>5 DEF Validate
    <3> QED BY <2>1, <3>1, <3>2 DEF InterestTypeOK, SavesKnown, Known
  <2>6. ASSUME NEW w \in Tabs, Reconcile(w) PROVE TypeInv'
    <3> DEFINE profile == save[w].ids \cup Preserved
    <3>1. profile \subseteq Known
      BY <2>2, <2>6 DEF Reconcile, SavesKnown, Preserved
    <3>2. save' = [save EXCEPT ![w] = [step |-> "reconciled", add |-> profile \ stored,
                                       remove |-> stored \ profile]]
          /\ wanted' \subseteq SUBSET Tags /\ stored' = stored /\ owed' = owed
      BY <2>2, <2>3, <2>6, <3>1 DEF Reconcile
    <3> HIDE DEF profile
    <3>3. save' \in [Tabs -> {NoSave} \cup [step : {"validated"}, ids : SUBSET Tags]
                     \cup [step : {"reconciled"}, add : SUBSET Tags, remove : SUBSET Tags]]
      BY <2>2, <3>1, <3>2 DEF InterestTypeOK
    <3>4. SavesKnown'
      BY <2>1, <3>1, <3>2 DEF SavesKnown, InterestTypeOK
    <3> QED BY <2>1, <2>2, <3>2, <3>3, <3>4 DEF InterestTypeOK, Known
  <2>7. ASSUME NEW w \in Tabs, ApplyDelta(w) PROVE TypeInv'
    <3>1. stored' \subseteq Known
      BY <2>2, <2>7 DEF ApplyDelta, SavesKnown
    <3>2. save' = [save EXCEPT ![w] = NoSave] /\ wanted' = wanted /\ owed' = owed
      BY <2>7 DEF ApplyDelta
    <3> QED BY <2>1, <2>2, <3>1, <3>2 DEF InterestTypeOK, SavesKnown, Known, NoSave
  <2>8. ASSUME NEW w \in Tabs, OpenPicker(w) PROVE TypeInv'
    BY <2>1, <2>2, <2>8 DEF OpenPicker, InterestTypeOK, SavesKnown, Known
  <2> QED BY <1>2, <2>4, <2>5, <2>6, <2>7, <2>8 DEF InterestNext
<1>3. CASE UNCHANGED accountVars
  <2>1. UNCHANGED vocabularyVars /\ UNCHANGED interestVars
    BY <1>3 DEF accountVars
  <2>2. IInv'
    BY <2>1, StepKeepsIInv
  <2> QED BY <2>1, <2>2 DEF vocabularyVars, interestVars, SeedKnown, InterestTypeOK,
                            SavesKnown, Known, Exists
<1> QED BY <1>1, <1>2, <1>3 DEF AccountNext

\* The rows of an account name tags that exist, however saves overlap with the seed.
THEOREM InterestsTyped == InterestSpec => []InterestTypeOK
<1>1. TypeInv => InterestTypeOK
  BY DEF TypeInv
<1> QED BY <1>1, InterestTypeInit, InterestTypeStep, PTL
           DEF InterestSpec

-------------------------------------------------------------------------------
(***************************************************************************)
(* What overlapping saves agree on.  A save that is worked out on rows     *)
(* that have changed since removes nothing all want, adds what all want    *)
(* and is missing, and removes what none wants; one that fails on a row    *)
(* that is there already fails after another one that did its work.        *)
(***************************************************************************)
Agreed == {t \in Tags : \A profile \in wanted : t \in profile}
Pending == {w \in Tabs : save[w].step = "reconciled"}

DeltasStand ==
  \A w \in Pending :
    /\ save[w].remove \cap Agreed = {}
    /\ Agreed \ stored \subseteq save[w].add
    /\ save[w].add \subseteq UNION wanted
    /\ stored \ UNION wanted \subseteq save[w].remove
    /\ save[w].add \cap stored # {} =>
         Agreed \subseteq stored /\ stored \subseteq UNION wanted

AgreeInv == InterestTypeOK /\ DeltasStand /\ AgreedIdsStand

LEMMA QuietMeans == Quiet <=> Pending = {}
BY DEF Quiet, Pending

LEMMA AgreedMeans ==
  ASSUME InterestTypeOK
  PROVE  AgreedIdsStand <=>
           (Quiet => Agreed \subseteq stored /\ stored \subseteq UNION wanted)
BY DEF AgreedIdsStand, Agreed

LEMMA Clearing ==
  ASSUME AgreeInv, clear_interests, InterestTypeOK'
  PROVE  AgreeInv'
<1>1. stored' = {} /\ save' = save /\ wanted' = (IF Quiet THEN {} ELSE wanted) \cup {{}}
  BY DEF clear_interests, Want
<1>2. Agreed' = {}
  BY <1>1 DEF Agreed
<1>3. Pending' = Pending
  BY <1>1 DEF Pending
<1>4. Pending # {} => UNION wanted' = UNION wanted
  BY <1>1, QuietMeans
<1>5. DeltasStand'
  BY <1>1, <1>2, <1>3, <1>4 DEF AgreeInv, DeltasStand
<1>6. AgreedIdsStand'
  BY <1>1, <1>2 DEF AgreedIdsStand, Agreed
<1> QED BY <1>5, <1>6 DEF AgreeInv

LEMMA Reconciling ==
  ASSUME AgreeInv, NEW w \in Tabs, Reconcile(w), InterestTypeOK'
  PROVE  AgreeInv'
<1> DEFINE profile == save[w].ids \cup Preserved
<1>1. /\ save' = [save EXCEPT ![w] = [step |-> "reconciled", add |-> profile \ stored,
                                      remove |-> stored \ profile]]
      /\ wanted' = (IF Quiet THEN {} ELSE wanted) \cup {profile}
      /\ stored' = stored
  BY DEF Reconcile, Want
<1> HIDE DEF profile
<1>2. /\ save'[w] = [step |-> "reconciled", add |-> profile \ stored,
                     remove |-> stored \ profile]
      /\ \A v \in Tabs \ {w} : save'[v] = save[v]
  BY <1>1 DEF AgreeInv, InterestTypeOK
<1>3. w \in Pending' /\ Pending' \subseteq Pending \cup {w}
  BY <1>2 DEF Pending
<1>4. Agreed' \subseteq profile /\ profile \subseteq UNION wanted'
  BY <1>1 DEF Agreed
<1>5. Pending # {} => Agreed' \subseteq Agreed /\ UNION wanted \subseteq UNION wanted'
  BY <1>1, QuietMeans DEF Agreed
<1>6. ASSUME NEW v \in Pending'
      PROVE  /\ save'[v].remove \cap Agreed' = {}
             /\ Agreed' \ stored' \subseteq save'[v].add
             /\ save'[v].add \subseteq UNION wanted'
             /\ stored' \ UNION wanted' \subseteq save'[v].remove
             /\ save'[v].add \cap stored' # {} =>
                  Agreed' \subseteq stored' /\ stored' \subseteq UNION wanted'
  <2>1. CASE v = w
    BY <1>1, <1>2, <1>4, <2>1
  <2>2. CASE v # w
    <3>1. v \in Pending /\ save'[v] = save[v]
      BY <1>2, <1>3, <2>2 DEF Pending
    <3>2. Agreed' \subseteq Agreed /\ UNION wanted \subseteq UNION wanted'
      BY <1>5, <3>1
    <3>3. /\ save[v].remove \cap Agreed = {}
          /\ Agreed \ stored \subseteq save[v].add
          /\ save[v].add \subseteq UNION wanted
          /\ stored \ UNION wanted \subseteq save[v].remove
          /\ save[v].add \cap stored # {} =>
               Agreed \subseteq stored /\ stored \subseteq UNION wanted
      BY <3>1 DEF AgreeInv, DeltasStand
    <3> HIDE DEF Agreed
    <3> QED BY <1>1, <3>1, <3>2, <3>3
  <2> QED BY <2>1, <2>2
<1>7. DeltasStand'
  BY <1>6 DEF DeltasStand
<1>8. ~ Quiet'
  BY <1>3, QuietMeans DEF Quiet, Pending
<1> QED BY <1>7, <1>8 DEF AgreeInv, AgreedIdsStand

LEMMA Applying ==
  ASSUME AgreeInv, NEW w \in Tabs, ApplyDelta(w), InterestTypeOK'
  PROVE  AgreeInv'
<1>1. /\ w \in Pending /\ wanted' = wanted /\ save' = [save EXCEPT ![w] = NoSave]
      /\ stored' = IF save[w].add \cap stored = {}
                   THEN (stored \ save[w].remove) \cup save[w].add
                   ELSE stored
  BY DEF ApplyDelta, Pending
<1>2. /\ Agreed' = Agreed
      /\ Pending' \subseteq Pending
      /\ \A v \in Pending' : save'[v] = save[v]
  BY <1>1 DEF Agreed, Pending, AgreeInv, InterestTypeOK, NoSave
<1>3. /\ save[w].remove \cap Agreed = {}
      /\ Agreed \ stored \subseteq save[w].add
      /\ save[w].add \subseteq UNION wanted
      /\ stored \ UNION wanted \subseteq save[w].remove
      /\ save[w].add \cap stored # {} =>
           Agreed \subseteq stored /\ stored \subseteq UNION wanted
  BY <1>1 DEF AgreeInv, DeltasStand
<1>4. Agreed' \subseteq stored' /\ stored' \subseteq UNION wanted'
  BY <1>1, <1>2, <1>3
<1>5. DeltasStand'
  <2> SUFFICES ASSUME NEW v \in Pending'
               PROVE  /\ save'[v].remove \cap Agreed' = {}
                      /\ Agreed' \ stored' \subseteq save'[v].add
                      /\ save'[v].add \subseteq UNION wanted'
                      /\ stored' \ UNION wanted' \subseteq save'[v].remove
    BY <1>4 DEF DeltasStand
  <2>1. v \in Pending /\ save'[v] = save[v]
    BY <1>2
  <2> QED BY <1>1, <1>2, <1>4, <2>1 DEF AgreeInv, DeltasStand
<1>6. AgreedIdsStand'
  BY <1>4 DEF AgreedIdsStand, Agreed
<1> QED BY <1>5, <1>6 DEF AgreeInv

LEMMA AgreeStep ==
  AgreeInv /\ InterestTypeOK' /\ [AccountNext]_accountVars => AgreeInv'
<1> SUFFICES ASSUME AgreeInv, InterestTypeOK', [AccountNext]_accountVars PROVE AgreeInv'
  OBVIOUS
<1>1. ASSUME UNCHANGED <<stored, save, wanted>> PROVE AgreeInv'
  BY <1>1 DEF AgreeInv, DeltasStand, AgreedIdsStand, Quiet, Pending, Agreed
<1>2. CASE InterestNext
  <2>1. ASSUME NEW w \in Tabs, NEW ids \in SUBSET Tags, Validate(w, ids)
        PROVE  AgreeInv'
    <3>1. /\ save[w] = NoSave
          /\ save' = [save EXCEPT ![w] = [step |-> "validated", ids |-> ids]]
          /\ UNCHANGED <<stored, wanted>>
      BY <2>1 DEF Validate
    <3>2. Pending' = Pending /\ (\A v \in Pending : save'[v] = save[v]) /\ Agreed' = Agreed
      BY <3>1 DEF Pending, Agreed, AgreeInv, InterestTypeOK, NoSave
    <3>3. DeltasStand'
      BY <3>1, <3>2 DEF AgreeInv, DeltasStand
    <3>4. Quiet' => Quiet
      BY <3>1 DEF Quiet, AgreeInv, InterestTypeOK, NoSave
    <3> QED BY <3>1, <3>3, <3>4 DEF AgreeInv, AgreedIdsStand
  <2>2. ASSUME NEW w \in Tabs, OpenPicker(w) PROVE UNCHANGED <<stored, save, wanted>>
    BY <2>2 DEF OpenPicker
  <2> QED BY <1>1, <1>2, <2>1, <2>2, Clearing, Reconciling, Applying DEF InterestNext
<1>3. CASE VocabularyNext /\ Meanwhile
  BY <1>1, <1>3 DEF Meanwhile
<1>4. CASE UNCHANGED interestVars
  BY <1>1, <1>4 DEF interestVars
<1> QED BY <1>2, <1>3, <1>4 DEF AccountNext, accountVars

\* However saves overlap, with each other and with merges: once they are done, the account
\* has every interest all of them wanted and none that none of them wanted.
THEOREM AgreementStands == InterestSpec => []AgreedIdsStand
<1>1. InterestInit /\ InterestTypeOK => AgreeInv
  BY DEF InterestInit, AgreeInv, DeltasStand, AgreedIdsStand, Pending, NoSave
<1>2. AgreeInv => AgreedIdsStand
  BY DEF AgreeInv
<1> QED BY <1>1, <1>2, InterestsTyped, AgreeStep, PTL
           DEF InterestSpec

-------------------------------------------------------------------------------
(***************************************************************************)
(* What a page could not show.  An id that is owed means no active tag     *)
(* from the page on; so a save that is worked out while it is owed keeps   *)
(* it, and one worked out before takes back only what was active then and  *)
(* is owed nothing.                                                        *)
(***************************************************************************)
OwedInv ==
  \A w \in Tabs : /\ owed[w] \subseteq Unshowable
                  /\ save[w].step = "reconciled" => save[w].remove \cap owed[w] = {}

LEMMA OwedBegins == InterestInit => OwedInv
BY DEF InterestInit, OwedInv, NoSave

LEMMA OwedStep == InterestTypeOK /\ OwedInv /\ [AccountNext]_accountVars => OwedInv'
<1> SUFFICES ASSUME InterestTypeOK, OwedInv, [AccountNext]_accountVars PROVE OwedInv'
  OBVIOUS
<1>1. CASE VocabularyNext /\ Meanwhile
  <2>1. owed' = [w \in Tabs |-> owed[w] \cap Unshowable'] /\ save' = save
    BY <1>1 DEF Meanwhile
  <2> HIDE DEF Unshowable
  <2> QED BY <2>1 DEF OwedInv
<1>2. CASE InterestNext /\ UNCHANGED vocabularyVars
  <2>1. Unshowable' = Unshowable
    BY <1>2 DEF vocabularyVars, Unshowable, resolve_tag, Hops, Next1, is_valid_tag
  <2>2. CASE clear_interests
    BY <2>1, <2>2 DEF clear_interests, OwedInv
  <2>3. ASSUME NEW w \in Tabs, OpenPicker(w) PROVE OwedInv'
    <3>1. save[w].step # "reconciled"
      BY <2>3 DEF OpenPicker, NoSave
    <3>2. owed' = [owed EXCEPT ![w] = stored \cap Unshowable] /\ save' = save
      BY <2>3 DEF OpenPicker
    <3> QED BY <2>1, <3>1, <3>2 DEF OwedInv, InterestTypeOK
  <2>4. ASSUME NEW w \in Tabs, NEW ids \in SUBSET Tags, Validate(w, ids) PROVE OwedInv'
    BY <2>1, <2>4 DEF Validate, OwedInv, InterestTypeOK
  <2>5. ASSUME NEW w \in Tabs, Reconcile(w) PROVE OwedInv'
    <3> DEFINE profile == save[w].ids \cup Preserved
    <3>1. save' = [save EXCEPT ![w] = [step |-> "reconciled", add |-> profile \ stored,
                                       remove |-> stored \ profile]] /\ owed' = owed
      BY <2>5 DEF Reconcile
    <3>2. (stored \ profile) \cap owed[w] = {}
      BY DEF OwedInv, Preserved
    <3> HIDE DEF profile
    <3> QED BY <2>1, <3>1, <3>2 DEF OwedInv, InterestTypeOK
  <2>6. ASSUME NEW w \in Tabs, ApplyDelta(w) PROVE OwedInv'
    <3>1. save' = [save EXCEPT ![w] = NoSave] /\ owed' = owed
      BY <2>6 DEF ApplyDelta
    <3> QED BY <2>1, <3>1 DEF OwedInv, InterestTypeOK, NoSave
  <2> QED BY <1>2, <2>2, <2>3, <2>4, <2>5, <2>6 DEF InterestNext
<1>3. CASE UNCHANGED accountVars
  <2>1. UNCHANGED <<tags, save, owed>>
    BY <1>3 DEF accountVars, vocabularyVars, interestVars
  <2>2. Unshowable' = Unshowable
    BY <2>1 DEF Unshowable, resolve_tag, Hops, Next1, is_valid_tag
  <2> QED BY <2>1, <2>2 DEF OwedInv
<1> QED BY <1>1, <1>2, <1>3 DEF AccountNext

LEMMA SparesOwed ==
  ASSUME OwedInv, NEW w \in Tabs, ApplyDelta(w)
  PROVE  (stored \ stored') \cap owed[w] = {}
BY DEF OwedInv, ApplyDelta

-------------------------------------------------------------------------------
(***************************************************************************)
(* The shelves.  First what a seed file makes of the tags: TagsApplied is  *)
(* what it says, one entry after the other; and what an entry leaves shown *)
(* stays shown, under a label nobody else has, until the next entry of the *)
(* same tag.                                                               *)
(***************************************************************************)
IsDraft(d, f, of, n) ==
  d = [i \in 0 .. n |-> IF i = 0 THEN of ELSE Shelving!EntryApplied(f, d[i - 1], f.tags[i])]

\* The entries can be applied one after the other, however many there are.
LEMMA DraftExists ==
  ASSUME NEW f, NEW of
  PROVE  \A n \in Nat : \E d : IsDraft(d, f, of, n)
<1> DEFINE S == {n \in Nat : \E d : IsDraft(d, f, of, n)}
           After(x, i) == Shelving!EntryApplied(f, x, f.tags[i])
<1>1. 0 \in S
  <2> DEFINE d == [i \in 0 .. 0 |-> of]
  <2> HIDE DEF After
  <2>1. d = [i \in 0 .. 0 |-> IF i = 0 THEN of ELSE After(d[i - 1], i)]
    OBVIOUS
  <2> HIDE DEF d
  <2> QED BY <2>1 DEF IsDraft, After
<1>2. ASSUME NEW n \in Nat, n \in S PROVE n + 1 \in S
  <2>1. PICK d : IsDraft(d, f, of, n)
    BY <1>2
  <2>2. d = [i \in 0 .. n |-> IF i = 0 THEN of ELSE After(d[i - 1], i)]
    BY <2>1 DEF IsDraft
  <2> HIDE DEF After
  <2> DEFINE h == [i \in 0 .. n + 1 |-> IF i = 0 THEN of ELSE After(d[i - 1], i)]
  <2>3. \A i \in 0 .. n : h[i] = d[i]
    BY <2>2
  <2>4. h = [i \in 0 .. n + 1 |-> IF i = 0 THEN of ELSE After(h[i - 1], i)]
    <3>1. \A i \in 0 .. n + 1 : i # 0 => i - 1 \in 0 .. n
      OBVIOUS
    <3> QED BY <2>3, <3>1
  <2> HIDE DEF h
  <2>5. IsDraft(h, f, of, n + 1)
    BY <2>4 DEF IsDraft, After
  <2> QED BY <2>5
<1> HIDE DEF S
<1>3. Nat \subseteq S
  BY <1>1, <1>2, NumbersInduct
<1> QED BY <1>3 DEF S

\* TagsApplied is the last of the drafts.
LEMMA Drafted ==
  ASSUME NEW f, NEW of, Len(f.tags) \in Nat
  PROVE  \E d : /\ Shelving!TagsApplied(f, of) = d[Len(f.tags)]
                /\ d[0] = of
                /\ \A n \in Nat : n < Len(f.tags) =>
                     d[n + 1] = Shelving!EntryApplied(f, d[n], f.tags[n + 1])
<1> DEFINE d == CHOOSE g : IsDraft(g, f, of, Len(f.tags))
           After(x, i) == Shelving!EntryApplied(f, x, f.tags[i])
<1>1. Shelving!TagsApplied(f, of) = d[Len(f.tags)]
  BY DEF Shelving!TagsApplied, IsDraft
<1>2. IsDraft(d, f, of, Len(f.tags))
  BY DraftExists
<1> HIDE DEF d
<1>3. d = [i \in 0 .. Len(f.tags) |-> IF i = 0 THEN of ELSE After(d[i - 1], i)]
  BY <1>2 DEF IsDraft
<1> HIDE DEF After
<1>4. d[0] = of
  BY <1>3
<1>5. ASSUME NEW n \in Nat, n < Len(f.tags) PROVE d[n + 1] = After(d[n], n + 1)
  <2>1. n + 1 \in 0 .. Len(f.tags) /\ n + 1 # 0 /\ (n + 1) - 1 = n
    BY <1>5
  <2> QED BY <1>3, <2>1
<1> QED BY <1>1, <1>4, <1>5 DEF After

\* A row of the shelves, in the clusters that are there.
ShelfRows(over) ==
  [status : {"absent", "active", "retired"}, label : ShelfLabels \cup {None},
   clusters : SUBSET over]

\* The n first entries have been applied: of each tag the last of them is shown, under a
\* label no other tag has, and the others are as they were.
EntriesShown(f, of, x, n) ==
  /\ x \in [ShelfTags -> ShelfRows(shelves \cup f.clusters)]
  /\ \A i \in 1 .. n : f.tags[i].clusters \subseteq f.clusters
  /\ \A i \in 1 .. n : (\A j \in i + 1 .. n : f.tags[j].tag # f.tags[i].tag) =>
       /\ x[f.tags[i].tag].label = f.tags[i].label
       /\ x[f.tags[i].tag].clusters = f.tags[i].clusters
       /\ \A u \in ShelfTags \ {f.tags[i].tag} : x[u].label # f.tags[i].label
  /\ \A t \in ShelfTags :
       IF \E i \in 1 .. n : f.tags[i].tag = t
       THEN x[t].status = IF of[t] = Shelving!Absent THEN "active" ELSE of[t].status
       ELSE x[t] = of[t]

\* What a seed file lists.
LEMMA FileEntries ==
  ASSUME NEW f \in ShelfFiles
  PROVE  /\ Len(f.tags) \in Nat /\ DOMAIN f.tags = 1 .. Len(f.tags)
         /\ f.clusters \subseteq ShelfSlugs
         /\ \A i \in 1 .. Len(f.tags) :
              /\ f.tags[i].tag \in ShelfTags /\ f.tags[i].label \in ShelfLabels
              /\ f.tags[i].clusters \in (SUBSET ShelfSlugs) \ {{}}
         /\ None \notin ShelfLabels
<1>1. f.tags \in Seq(Shelving!Entries) /\ f.clusters \subseteq ShelfSlugs /\ None \notin ShelfLabels
  BY ShelfConstants DEF Shelving!ClustersAssumption
<1>2. \A i \in 1 .. Len(f.tags) : f.tags[i] \in Shelving!Entries
  BY <1>1
<1> QED BY <1>1, <1>2 DEF Shelving!Entries

\* One more entry, if it is not refused, shows its tag and leaves the others shown.
LEMMA EntryShown ==
  ASSUME NEW f \in ShelfFiles, NEW of, NEW x, NEW n \in Nat, n < Len(f.tags),
         EntriesShown(f, of, x, n), NEW y,
         y = Shelving!EntryApplied(f, x, f.tags[n + 1]), y # None
  PROVE  EntriesShown(f, of, y, n + 1)
<1> DEFINE e == f.tags[n + 1]
           tag(i) == f.tags[i].tag
           row == Shelving!Row(IF x[e.tag] = Shelving!Absent THEN "active" ELSE x[e.tag].status,
                               e.label, e.clusters)
<1>1. n + 1 \in 1 .. Len(f.tags) /\ 1 .. n \subseteq 1 .. Len(f.tags)
  OBVIOUS
<1>2. /\ e.tag \in ShelfTags /\ e.label \in ShelfLabels
      /\ e.clusters \subseteq f.clusters /\ None \notin ShelfLabels
      /\ \A u \in ShelfTags \ {e.tag} : x[u].label # e.label
      /\ y = [x EXCEPT ![e.tag] = row]
  BY <1>1, FileEntries DEF Shelving!EntryApplied, Shelving!LabelTaken
<1>3. x \in [ShelfTags -> ShelfRows(shelves \cup f.clusters)]
  BY DEF EntriesShown
<1>4. /\ row.label = e.label /\ row.clusters = e.clusters
      /\ row.status = IF x[e.tag] = Shelving!Absent THEN "active" ELSE x[e.tag].status
      /\ row \in ShelfRows(shelves \cup f.clusters)
  BY <1>2, <1>3 DEF Shelving!Row, ShelfRows
<1> HIDE DEF row
<1>5. /\ y \in [ShelfTags -> ShelfRows(shelves \cup f.clusters)]
      /\ y[e.tag] = row /\ \A u \in ShelfTags \ {e.tag} : y[u] = x[u]
  BY <1>2, <1>3, <1>4
<1>6. ASSUME NEW i \in 1 .. n + 1 PROVE i \in 1 .. n \/ i = n + 1
  OBVIOUS
<1>7. \A i \in 1 .. n + 1 : f.tags[i].clusters \subseteq f.clusters
  BY <1>2, <1>6 DEF EntriesShown
<1>8. ASSUME NEW i \in 1 .. n + 1, \A j \in i + 1 .. n + 1 : tag(j) # tag(i)
      PROVE  /\ y[tag(i)].label = f.tags[i].label
             /\ y[tag(i)].clusters = f.tags[i].clusters
             /\ \A u \in ShelfTags \ {tag(i)} : y[u].label # f.tags[i].label
  <2>1. CASE i = n + 1
    BY <1>2, <1>4, <1>5, <2>1
  <2>2. CASE i \in 1 .. n
    <3>1. n + 1 \in i + 1 .. n + 1 /\ \A j \in i + 1 .. n : j \in i + 1 .. n + 1
      BY <2>2
    <3>2. tag(i) # e.tag /\ tag(i) \in ShelfTags
      BY <1>1, <1>8, <2>2, <3>1, FileEntries
    <3>3. /\ x[tag(i)].label = f.tags[i].label
          /\ x[tag(i)].clusters = f.tags[i].clusters
          /\ \A u \in ShelfTags \ {tag(i)} : x[u].label # f.tags[i].label
      BY <1>8, <2>2, <3>1 DEF EntriesShown
    <3>4. e.label # f.tags[i].label
      BY <1>2, <3>2, <3>3
    <3> HIDE DEF e
    <3> QED BY <1>4, <1>5, <3>2, <3>3, <3>4
  <2> QED BY <1>6, <2>1, <2>2
<1>9. ASSUME NEW t \in ShelfTags
      PROVE  IF \E i \in 1 .. n + 1 : tag(i) = t
             THEN y[t].status = IF of[t] = Shelving!Absent THEN "active" ELSE of[t].status
             ELSE y[t] = of[t]
  <2>1. IF \E i \in 1 .. n : tag(i) = t
        THEN x[t].status = IF of[t] = Shelving!Absent THEN "active" ELSE of[t].status
        ELSE x[t] = of[t]
    BY DEF EntriesShown
  <2>2. n + 1 \in 1 .. n + 1 /\ \A i \in 1 .. n : i \in 1 .. n + 1
    OBVIOUS
  <2>3. CASE t # e.tag
    <3>1. (\E i \in 1 .. n + 1 : tag(i) = t) <=> \E i \in 1 .. n : tag(i) = t
      BY <1>6, <2>2, <2>3
    <3> QED BY <1>5, <2>1, <2>3, <3>1
  <2>4. CASE t = e.tag /\ \E i \in 1 .. n : tag(i) = t
    <3>1. Shelving!Absent.status = "absent" /\ Shelving!Absent.label = None
      BY DEF Shelving!Absent, Shelving!Row
    <3>2. x[t] # Shelving!Absent
      \* Some entry of the tag is the last one so far, and gave it a label.
      <4> DEFINE T == {d \in Nat : d < n /\ tag(n - d) = t}
      <4>1. T # {}
        <5>1. PICK i \in 1 .. n : tag(i) = t
          BY <2>4
        <5>2. n - i \in Nat /\ n - i < n /\ n - (n - i) = i
          OBVIOUS
        <5> QED BY <5>1, <5>2
      <4>2. PICK d \in T : \A m \in T : d <= m
        BY <4>1, LeastNumber
      <4>3. d \in Nat /\ n - d \in 1 .. n /\ tag(n - d) = t
        BY <4>2
      <4>4. ASSUME NEW j \in (n - d) + 1 .. n, tag(j) = t PROVE FALSE
        <5>1. n - j \in Nat /\ n - j < n /\ n - (n - j) = j /\ n - j < d
          BY <4>2, <4>4
        <5>2. n - j \in T
          BY <4>4, <5>1
        <5>3. d <= n - j
          BY <4>2, <5>2
        <5> QED BY <4>3, <5>1, <5>3
      <4>5. x[t].label = f.tags[n - d].label
        BY <4>3, <4>4 DEF EntriesShown
      <4>6. f.tags[n - d].label \in ShelfLabels
        BY <1>1, <4>3, FileEntries
      <4> QED BY <1>2, <3>1, <4>5, <4>6
    <3> QED BY <1>4, <1>5, <2>1, <2>2, <2>4, <3>2
  <2>5. CASE t = e.tag /\ ~ \E i \in 1 .. n : tag(i) = t
    BY <1>4, <1>5, <2>1, <2>2, <2>5
  <2> QED BY <2>3, <2>4, <2>5
<1> QED BY <1>5, <1>7, <1>8, <1>9 DEF EntriesShown

\* What a seed run that applies makes of the rows.
LEMMA SeedApplied ==
  ASSUME Shelving!ClustersTypeOK, NEW f \in ShelfFiles, Shelving!Seeded(f, entries) # None
  PROVE  \E x : /\ EntriesShown(f, entries, x, Len(f.tags))
                /\ Shelving!Seeded(f, entries) = Shelving!RetirementsApplied(f, x)
                /\ Shelving!Orphans(Shelving!RetirementsApplied(f, x)) = {}
<1>1. PICK d : /\ Shelving!TagsApplied(f, entries) = d[Len(f.tags)]
               /\ d[0] = entries
               /\ \A n \in Nat : n < Len(f.tags) =>
                    d[n + 1] = Shelving!EntryApplied(f, d[n], f.tags[n + 1])
  BY Drafted, FileEntries
<1> DEFINE S == {n \in Nat : n <= Len(f.tags) /\ d[n] # None => EntriesShown(f, entries, d[n], n)}
<1>2. 0 \in S
  <2>1. entries \in [ShelfTags -> ShelfRows(shelves \cup f.clusters)]
    BY DEF Shelving!ClustersTypeOK, ShelfRows
  <2>2. EntriesShown(f, entries, entries, 0)
    <3>1. \A i \in 1 .. 0 : FALSE
      OBVIOUS
    <3> QED BY <2>1, <3>1 DEF EntriesShown
  <2> QED BY <1>1, <2>2
<1>3. ASSUME NEW n \in Nat, n \in S PROVE n + 1 \in S
  <2> SUFFICES ASSUME n + 1 <= Len(f.tags), d[n + 1] # None
               PROVE  EntriesShown(f, entries, d[n + 1], n + 1)
    OBVIOUS
  <2>1. n < Len(f.tags)
    BY FileEntries
  <2>2. d[n + 1] = Shelving!EntryApplied(f, d[n], f.tags[n + 1])
    BY <1>1, <2>1
  <2>3. d[n] # None
    BY <2>2 DEF Shelving!EntryApplied
  <2>4. EntriesShown(f, entries, d[n], n)
    BY <1>3, <2>1, <2>3, FileEntries
  <2> QED BY <2>1, <2>2, <2>4, EntryShown
<1> HIDE DEF S
<1>4. Nat \subseteq S
  BY <1>2, <1>3, NumbersInduct
<1>5. /\ d[Len(f.tags)] # None
      /\ Shelving!Seeded(f, entries) = Shelving!RetirementsApplied(f, d[Len(f.tags)])
      /\ Shelving!Orphans(Shelving!RetirementsApplied(f, d[Len(f.tags)])) = {}
  BY <1>1 DEF Shelving!Seeded
<1>6. EntriesShown(f, entries, d[Len(f.tags)], Len(f.tags))
  BY <1>4, <1>5, FileEntries DEF S
<1> QED BY <1>5, <1>6

\* The retirements leave labels and clusters, and are made once.
LEMMA RetiredOnce ==
  ASSUME NEW f, NEW over, NEW x \in [ShelfTags -> ShelfRows(over)], NEW y,
         y = Shelving!RetirementsApplied(f, x)
  PROVE  /\ y \in [ShelfTags -> ShelfRows(over)]
         /\ \A t \in ShelfTags : /\ y[t].label = x[t].label /\ y[t].clusters = x[t].clusters
                                 /\ y[t].status \in {x[t].status, "retired"}
                                 /\ y[t] = x[t] \/ y[t].status = "retired"
         /\ Shelving!RetirementsApplied(f, y) = y
<1> DEFINE goes(t) == \E e \in Range(f.tags) : e.tag = t /\ e.retired
           gone(z) == [z EXCEPT !.status = "retired"]
<1>1. y = [t \in ShelfTags |-> IF goes(t) THEN gone(x[t]) ELSE x[t]]
  BY DEF Shelving!RetirementsApplied, Shelving!Range, Range
<1>2. Shelving!RetirementsApplied(f, y) =
        [t \in ShelfTags |-> IF goes(t) THEN gone(y[t]) ELSE y[t]]
  BY DEF Shelving!RetirementsApplied, Shelving!Range, Range
<1> HIDE DEF goes
<1>3. ASSUME NEW t \in ShelfTags
      PROVE  /\ gone(x[t]) \in ShelfRows(over) /\ gone(x[t]).status = "retired"
             /\ gone(x[t]).label = x[t].label /\ gone(x[t]).clusters = x[t].clusters
             /\ gone(gone(x[t])) = gone(x[t])
  <2>1. x[t] \in ShelfRows(over)
    OBVIOUS
  <2> QED BY <2>1 DEF ShelfRows
<1> HIDE DEF gone
<1>4. \A t \in ShelfTags : y[t] = IF goes(t) THEN gone(x[t]) ELSE x[t]
  BY <1>1
<1>5. y = [t \in ShelfTags |-> y[t]]
  BY <1>1
<1>6. \A t \in ShelfTags : (IF goes(t) THEN gone(y[t]) ELSE y[t]) = y[t]
  BY <1>3, <1>4
<1>7. Shelving!RetirementsApplied(f, y) = y
  BY <1>2, <1>5, <1>6
<1> QED BY <1>1, <1>3, <1>4, <1>7

\* A file that lists each tag once changes nothing when it is run again.
LEMMA SecondRun ==
  ASSUME Shelving!ClustersTypeOK, NEW f \in ShelfFiles, Shelving!ListsOnce(f),
         NEW x, EntriesShown(f, entries, x, Len(f.tags)), NEW y,
         y = Shelving!RetirementsApplied(f, x), Shelving!Orphans(y) = {}, y # None
  PROVE  Shelving!Seeded(f, y) = y
<1>1. /\ y \in [ShelfTags -> ShelfRows(shelves \cup f.clusters)]
      /\ \A t \in ShelfTags : y[t].label = x[t].label /\ y[t].clusters = x[t].clusters
      /\ Shelving!RetirementsApplied(f, y) = y
  <2>1. PICK over : over = shelves \cup f.clusters
    OBVIOUS
  <2>2. x \in [ShelfTags -> ShelfRows(over)]
    BY <2>1 DEF EntriesShown
  <2>3. /\ y \in [ShelfTags -> ShelfRows(over)]
        /\ \A t \in ShelfTags : y[t].label = x[t].label /\ y[t].clusters = x[t].clusters
        /\ Shelving!RetirementsApplied(f, y) = y
    BY <2>2, RetiredOnce
  <2> QED BY <2>1, <2>3
<1>2. ASSUME NEW n \in Nat, n < Len(f.tags)
      PROVE  Shelving!EntryApplied(f, y, f.tags[n + 1]) = y
  <2> DEFINE e == f.tags[n + 1]
  <2>1. n + 1 \in 1 .. Len(f.tags)
    BY <1>2, FileEntries
  <2>2. e.tag \in ShelfTags /\ e.label \in ShelfLabels /\ None \notin ShelfLabels
    BY <2>1, FileEntries
  <2>3. \A j \in (n + 1) + 1 .. Len(f.tags) : f.tags[j].tag # e.tag
    BY <2>1, FileEntries DEF Shelving!ListsOnce, Shelving!LastEntry
  <2>4. /\ e.clusters \subseteq f.clusters
        /\ x[e.tag].label = e.label /\ x[e.tag].clusters = e.clusters
        /\ \A u \in ShelfTags \ {e.tag} : x[u].label # e.label
    BY <2>1, <2>3 DEF EntriesShown
  <2>5. y[e.tag] # Shelving!Absent
    BY <1>1, <2>2, <2>4 DEF Shelving!Absent, Shelving!Row
  <2>6. y[e.tag] = Shelving!Row(y[e.tag].status, e.label, e.clusters)
    BY <1>1, <2>2, <2>4 DEF ShelfRows, Shelving!Row
  <2>7. ~ Shelving!LabelTaken(y, e.label, e.tag)
    BY <1>1, <2>4 DEF Shelving!LabelTaken
  <2>8. y = [y EXCEPT ![e.tag] = y[e.tag]]
    BY <1>1
  <2> HIDE DEF e
  <2>9. Shelving!EntryApplied(f, y, e) = [y EXCEPT ![e.tag] = y[e.tag]]
    BY <2>4, <2>5, <2>6, <2>7 DEF Shelving!EntryApplied
  <2> QED BY <2>8, <2>9 DEF e
<1>3. PICK d : /\ Shelving!TagsApplied(f, y) = d[Len(f.tags)]
               /\ d[0] = y
               /\ \A n \in Nat : n < Len(f.tags) =>
                    d[n + 1] = Shelving!EntryApplied(f, d[n], f.tags[n + 1])
  <2>1. Len(f.tags) \in Nat
    BY FileEntries
  <2> QED BY <2>1, Drafted
<1> DEFINE S == {n \in Nat : n <= Len(f.tags) => d[n] = y}
<1>4. 0 \in S
  BY <1>3
<1>5. ASSUME NEW n \in Nat, n \in S PROVE n + 1 \in S
  <2> SUFFICES ASSUME n + 1 <= Len(f.tags) PROVE d[n + 1] = y
    OBVIOUS
  <2>1. n < Len(f.tags) /\ n <= Len(f.tags)
    BY FileEntries
  <2> QED BY <1>2, <1>3, <1>5, <2>1
<1> HIDE DEF S
<1>6. Nat \subseteq S
  BY <1>4, <1>5, NumbersInduct
<1>7. Shelving!TagsApplied(f, y) = y
  BY <1>3, <1>6, FileEntries DEF S
<1> QED BY <1>1, <1>7 DEF Shelving!Seeded

-------------------------------------------------------------------------------
(***************************************************************************)
(* Then the edits of staff.  An edit that asks for no cluster is one of a  *)
(* tag that is retired, and no tag is taken back from there.               *)
(***************************************************************************)
RowsWhole == \A t \in ShelfTags : entries[t].status = "absent" => entries[t] = Shelving!Absent

EditsKnown ==
  \A s \in Admins : edits[s] # Shelving!NoEdit =>
    /\ entries[edits[s].tag].status # "absent"
    /\ edits[s].asked = {} => entries[edits[s].tag].status = "retired"

ShelfInv ==
  /\ Shelving!ClustersTypeOK
  /\ RowsWhole
  /\ EditsKnown
  /\ Shelving!ActiveTagsClustered

\* None is no row, no label and no edit.
LEMMA NoneApart ==
  /\ None \notin ShelfTags /\ None \notin ShelfSlugs /\ None \notin ShelfLabels
  /\ Shelving!Absent.status = "absent" /\ Shelving!Absent.clusters = {}
  /\ Shelving!Absent.label = None
  /\ Shelving!NoEdit.step = "none"
BY ShelfConstants DEF Shelving!ClustersAssumption, Shelving!Absent, Shelving!Row,
  Shelving!NoEdit

\* Nothing is there at the beginning.
LEMMA ShelvesStart == Shelving!ClustersInit => ShelfInv
<1> SUFFICES ASSUME Shelving!ClustersInit PROVE ShelfInv
  OBVIOUS
<1>1. Shelving!Absent = [status |-> "absent", label |-> None, clusters |-> {}]
  BY DEF Shelving!Absent, Shelving!Row
<1>2. /\ entries = [t \in ShelfTags |-> Shelving!Absent]
      /\ shelves = {} /\ disturbed = {}
      /\ edits = [s \in Admins |-> Shelving!NoEdit]
  BY DEF Shelving!ClustersInit
<1>3. Shelving!ClustersTypeOK
  BY <1>1, <1>2 DEF Shelving!ClustersTypeOK
<1>4. Shelving!ActiveTagsClustered
  BY <1>1, <1>2 DEF Shelving!ActiveTagsClustered, Shelving!Orphans, Shelving!ActiveTags
<1> QED BY <1>1, <1>2, <1>3, <1>4, NoneApart DEF ShelfInv, RowsWhole, EditsKnown

\* What no step but a read does: a tag that is there stays, is active only if it was, and
\* so the edits go on telling the truth.
LEMMA RowsGoOn ==
  ASSUME ShelfInv,
         entries' \in [ShelfTags -> ShelfRows(shelves')], shelves' \subseteq ShelfSlugs,
         disturbed' \subseteq ShelfTags,
         \A t \in ShelfTags : entries[t].status # "absent" =>
           entries'[t].status \in {entries[t].status, "retired"},
         RowsWhole',
         \A s \in Admins : edits'[s] \in {edits[s], Shelving!NoEdit},
         edits' = [s \in Admins |-> edits'[s]],
         Shelving!Orphans(entries') \subseteq disturbed'
  PROVE  ShelfInv'
<1>1. Shelving!ClustersTypeOK'
  <2>1. edits' \in [Admins -> {Shelving!NoEdit} \cup
                      [step : {"read"}, tag : ShelfTags, label : ShelfLabels,
                       seen : SUBSET ShelfSlugs, asked : SUBSET ShelfSlugs]]
    BY DEF ShelfInv, Shelving!ClustersTypeOK
  <2>2. entries' \in [ShelfTags -> [status : {"absent", "active", "retired"},
                        label : ShelfLabels \cup {None}, clusters : SUBSET shelves']]
    BY DEF ShelfRows
  <2> QED BY <2>1, <2>2 DEF Shelving!ClustersTypeOK, Shelving!NoEdit
<1>2. EditsKnown'
  <2>1. ASSUME NEW s \in Admins, edits'[s] # Shelving!NoEdit
        PROVE  /\ entries'[edits'[s].tag].status # "absent"
               /\ edits'[s].asked = {} => entries'[edits'[s].tag].status = "retired"
    <3>1. edits'[s] = edits[s] /\ edits[s].tag \in ShelfTags
      BY <2>1 DEF ShelfInv, Shelving!ClustersTypeOK
    <3> QED BY <2>1, <3>1 DEF ShelfInv, EditsKnown
  <2> QED BY <2>1 DEF EditsKnown, Shelving!NoEdit
<1>3. Shelving!ActiveTagsClustered'
  BY DEF Shelving!ActiveTagsClustered, Shelving!Orphans, Shelving!ActiveTags
<1> QED BY <1>1, <1>2, <1>3 DEF ShelfInv

\* add_tag asks for a cluster and for a label of its own.
LEMMA AddsTag ==
  ASSUME ShelfInv, NEW t \in ShelfTags, NEW label \in ShelfLabels,
         NEW clusters \in SUBSET shelves, Shelving!AdminAddsTag(t, label, clusters)
  PROVE  ShelfInv'
<1> DEFINE row == Shelving!Row("active", label, clusters)
<1>1. /\ entries[t] = Shelving!Absent /\ clusters # {}
      /\ entries' = [entries EXCEPT ![t] = row]
      /\ UNCHANGED <<shelves, edits, disturbed>>
  BY DEF Shelving!AdminAddsTag
<1>2. row \in ShelfRows(shelves) /\ row.status = "active" /\ row.clusters = clusters
  BY DEF ShelfRows, Shelving!Row
<1> HIDE DEF row
<1>3. /\ entries \in [ShelfTags -> ShelfRows(shelves)] /\ shelves \subseteq ShelfSlugs
      /\ disturbed \subseteq ShelfTags /\ edits = [s \in Admins |-> edits[s]]
  BY DEF ShelfInv, Shelving!ClustersTypeOK, ShelfRows
<1>4. /\ entries' \in [ShelfTags -> ShelfRows(shelves')]
      /\ entries'[t] = row /\ \A u \in ShelfTags \ {t} : entries'[u] = entries[u]
  BY <1>1, <1>2, <1>3
<1>5. \A u \in ShelfTags : entries[u].status # "absent" =>
        entries'[u].status \in {entries[u].status, "retired"}
  BY <1>1, <1>4, NoneApart
<1>6. RowsWhole'
  BY <1>2, <1>4 DEF ShelfInv, RowsWhole, Shelving!Absent, Shelving!Row
<1>7. Shelving!Orphans(entries') \subseteq disturbed'
  BY <1>1, <1>2, <1>4 DEF ShelfInv, Shelving!ActiveTagsClustered, Shelving!Orphans,
                         Shelving!ActiveTags
<1> QED BY <1>1, <1>3, <1>4, <1>5, <1>6, <1>7, RowsGoOn

\* The form of an active tag asks for a cluster.
LEMMA ReadsTag ==
  ASSUME ShelfInv, NEW s \in Admins, NEW t \in ShelfTags, NEW label \in ShelfLabels,
         NEW clusters \in SUBSET shelves, Shelving!AdminReadsTag(s, t, label, clusters)
  PROVE  ShelfInv'
<1> DEFINE e == [step |-> "read", tag |-> t, label |-> label,
                 seen |-> entries[t].clusters, asked |-> clusters]
<1>1. /\ entries[t] # Shelving!Absent /\ (entries[t].status = "active" => clusters # {})
      /\ edits' = [edits EXCEPT ![s] = e]
      /\ UNCHANGED <<entries, shelves, disturbed>>
  BY DEF Shelving!AdminReadsTag
<1>2. /\ entries[t] \in ShelfRows(shelves) /\ shelves \subseteq ShelfSlugs
      /\ edits \in [Admins -> {Shelving!NoEdit} \cup
                      [step : {"read"}, tag : ShelfTags, label : ShelfLabels,
                       seen : SUBSET ShelfSlugs, asked : SUBSET ShelfSlugs]]
  BY DEF ShelfInv, Shelving!ClustersTypeOK, ShelfRows
<1>3. e \in [step : {"read"}, tag : ShelfTags, label : ShelfLabels,
             seen : SUBSET ShelfSlugs, asked : SUBSET ShelfSlugs]
  BY <1>2 DEF ShelfRows
<1>4. e.tag = t /\ e.asked = clusters
  OBVIOUS
<1> HIDE DEF e
<1>5. edits' \in [Admins -> {Shelving!NoEdit} \cup
                    [step : {"read"}, tag : ShelfTags, label : ShelfLabels,
                     seen : SUBSET ShelfSlugs, asked : SUBSET ShelfSlugs]]
  BY <1>1, <1>2, <1>3
<1>6. Shelving!ClustersTypeOK'
  BY <1>1, <1>5 DEF ShelfInv, Shelving!ClustersTypeOK, Shelving!NoEdit
<1>7. entries[t].status # "absent" /\ (clusters = {} => entries[t].status = "retired")
  BY <1>1, <1>2 DEF ShelfInv, RowsWhole, ShelfRows
<1>8. EditsKnown'
  <2>1. ASSUME NEW v \in Admins, edits'[v] # Shelving!NoEdit
        PROVE  /\ entries[edits'[v].tag].status # "absent"
               /\ edits'[v].asked = {} => entries[edits'[v].tag].status = "retired"
    <3>1. CASE v = s
      BY <1>1, <1>2, <1>4, <1>7, <3>1
    <3>2. CASE v # s
      BY <1>1, <1>2, <2>1, <3>2 DEF ShelfInv, EditsKnown
    <3> QED BY <3>1, <3>2
  <2> QED BY <1>1, <2>1 DEF EditsKnown, Shelving!NoEdit
<1> QED BY <1>1, <1>6, <1>8 DEF ShelfInv, RowsWhole, Shelving!ActiveTagsClustered,
                              Shelving!Orphans, Shelving!ActiveTags, Shelving!Absent, Shelving!Row

\* An edit that empties a tag's clusters asked for none, or overlapped another.
LEMMA WritesTag ==
  ASSUME ShelfInv, NEW s \in Admins, Shelving!AdminWritesTag(s)
  PROVE  ShelfInv'
<1> DEFINE e == edits[s]
           added == e.asked \ e.seen
           became == (entries[e.tag].clusters \cup added) \ (e.seen \ e.asked)
           row == [entries[e.tag] EXCEPT !.clusters = became]
<1>1. /\ e # Shelving!NoEdit
      /\ edits' = [edits EXCEPT ![s] = Shelving!NoEdit]
      /\ UNCHANGED <<shelves>>
  BY DEF Shelving!AdminWritesTag
<1>2. /\ entries \in [ShelfTags -> ShelfRows(shelves)] /\ shelves \subseteq ShelfSlugs
      /\ disturbed \subseteq ShelfTags /\ edits = [v \in Admins |-> edits[v]]
      /\ e.tag \in ShelfTags /\ e.asked \subseteq ShelfSlugs /\ e.seen \subseteq ShelfSlugs
  BY <1>1 DEF ShelfInv, Shelving!ClustersTypeOK, ShelfRows
<1>3. /\ \A v \in Admins : edits'[v] \in {edits[v], Shelving!NoEdit}
      /\ edits' = [v \in Admins |-> edits'[v]]
  BY <1>1, <1>2
<1>4. /\ entries[e.tag].status # "absent"
      /\ e.asked = {} => entries[e.tag].status = "retired"
  BY <1>1 DEF ShelfInv, EditsKnown
<1>5. Shelving!Orphans(entries) \subseteq disturbed
  BY DEF ShelfInv, Shelving!ActiveTagsClustered
<1>6. CASE UNCHANGED <<entries, disturbed>>
  <2>1. RowsWhole'
    BY <1>6 DEF ShelfInv, RowsWhole, Shelving!Absent, Shelving!Row
  <2>2. Shelving!Orphans(entries') \subseteq disturbed'
    BY <1>5, <1>6 DEF Shelving!Orphans, Shelving!ActiveTags
  <2>3. entries' \in [ShelfTags -> ShelfRows(shelves')]
    BY <1>1, <1>2, <1>6
  <2> QED BY <1>1, <1>2, <1>3, <1>6, <2>1, <2>2, <2>3, RowsGoOn
<1>7. CASE /\ added \subseteq shelves
           /\ entries' = [entries EXCEPT ![e.tag].clusters = became]
           /\ disturbed' = IF became # {} THEN disturbed \ {e.tag}
                           ELSE IF entries[e.tag].clusters # e.seen THEN disturbed \cup {e.tag}
                           ELSE disturbed
  <2>1. became \subseteq shelves
    BY <1>2, <1>7 DEF ShelfRows
  <2>2. entries[e.tag].clusters = e.seen => became = e.asked
    OBVIOUS
  <2> HIDE DEF became
  <2>3. /\ row \in ShelfRows(shelves) /\ row.clusters = became
        /\ row.status = entries[e.tag].status
    BY <1>2, <2>1 DEF ShelfRows
  <2>4. entries' = [entries EXCEPT ![e.tag] = row]
    BY <1>7
  <2> HIDE DEF row
  <2>5. /\ entries' \in [ShelfTags -> ShelfRows(shelves')]
        /\ entries'[e.tag] = row /\ \A u \in ShelfTags \ {e.tag} : entries'[u] = entries[u]
    BY <1>1, <1>2, <2>3, <2>4
  <2>6. disturbed' \subseteq ShelfTags
    BY <1>2, <1>7
  <2>7. \A u \in ShelfTags : entries'[u].status = entries[u].status
    BY <2>3, <2>5
  <2>8. RowsWhole'
    BY <1>4, <2>5, <2>7 DEF ShelfInv, RowsWhole, Shelving!Absent, Shelving!Row
  <2>9. Shelving!Orphans(entries') \subseteq disturbed'
    <3> SUFFICES ASSUME NEW u \in ShelfTags, entries'[u].status = "active",
                        entries'[u].clusters = {}
                 PROVE  u \in disturbed'
      BY DEF Shelving!Orphans, Shelving!ActiveTags
    <3>1. CASE u = e.tag
      <4>1. became = {} /\ entries[e.tag].status = "active"
        BY <2>3, <2>5, <3>1
      <4>2. entries[e.tag].clusters # e.seen
        BY <1>4, <2>2, <4>1
      <4> QED BY <1>7, <3>1, <4>1, <4>2
    <3>2. CASE u # e.tag
      <4>1. u \in Shelving!Orphans(entries)
        BY <2>5, <3>2 DEF Shelving!Orphans, Shelving!ActiveTags
      <4> QED BY <1>5, <1>7, <3>2, <4>1
    <3> QED BY <3>1, <3>2
  <2> HIDE DEF e
  <2> QED BY <1>1, <1>2, <1>3, <2>5, <2>6, <2>7, <2>8, <2>9, RowsGoOn
<1> QED BY <1>6, <1>7 DEF Shelving!AdminWritesTag

\* What is retired is no orphan.
LEMMA Retires ==
  ASSUME ShelfInv, NEW t \in ShelfTags, Shelving!RetireTag(t)
  PROVE  ShelfInv'
<1> DEFINE row == [entries[t] EXCEPT !.status = "retired"]
<1>1. /\ entries[t].status = "active" /\ entries' = [entries EXCEPT ![t] = row]
      /\ UNCHANGED <<shelves, edits, disturbed>>
  BY DEF Shelving!RetireTag
<1>2. /\ entries \in [ShelfTags -> ShelfRows(shelves)] /\ shelves \subseteq ShelfSlugs
      /\ disturbed \subseteq ShelfTags /\ edits = [s \in Admins |-> edits[s]]
  BY DEF ShelfInv, Shelving!ClustersTypeOK, ShelfRows
<1>3. row \in ShelfRows(shelves) /\ row.status = "retired"
  BY <1>2 DEF ShelfRows
<1> HIDE DEF row
<1>4. /\ entries' \in [ShelfTags -> ShelfRows(shelves')]
      /\ entries'[t] = row /\ \A u \in ShelfTags \ {t} : entries'[u] = entries[u]
  BY <1>1, <1>2, <1>3
<1>5. RowsWhole'
  BY <1>3, <1>4 DEF ShelfInv, RowsWhole, Shelving!Absent, Shelving!Row
<1>6. Shelving!Orphans(entries') \subseteq disturbed'
  BY <1>1, <1>3, <1>4 DEF ShelfInv, Shelving!ActiveTagsClustered, Shelving!Orphans,
                         Shelving!ActiveTags
<1>7. \A u \in ShelfTags : entries'[u].status \in {entries[u].status, "retired"}
  BY <1>3, <1>4
<1> QED BY <1>1, <1>2, <1>4, <1>5, <1>6, <1>7, RowsGoOn

\* A new cluster takes nothing from a tag.
LEMMA AddsCluster ==
  ASSUME ShelfInv, NEW c \in ShelfSlugs, Shelving!AdminAddsCluster(c)
  PROVE  ShelfInv'
<1>1. shelves' = shelves \cup {c} /\ UNCHANGED <<entries, edits, disturbed>>
  BY DEF Shelving!AdminAddsCluster
<1>2. /\ entries \in [ShelfTags -> ShelfRows(shelves)] /\ shelves \subseteq ShelfSlugs
      /\ disturbed \subseteq ShelfTags /\ edits = [s \in Admins |-> edits[s]]
  BY DEF ShelfInv, Shelving!ClustersTypeOK, ShelfRows
<1>3. entries' \in [ShelfTags -> ShelfRows(shelves')]
  BY <1>1, <1>2 DEF ShelfRows
<1>4. RowsWhole'
  BY <1>1 DEF ShelfInv, RowsWhole, Shelving!Absent, Shelving!Row
<1>5. Shelving!Orphans(entries') \subseteq disturbed'
  BY <1>1 DEF ShelfInv, Shelving!ActiveTagsClustered, Shelving!Orphans, Shelving!ActiveTags
<1> QED BY <1>1, <1>2, <1>3, <1>4, <1>5, RowsGoOn

\* A deleted cluster leaves behind only the tags it is known to disturb.
LEMMA DeletesCluster ==
  ASSUME ShelfInv, NEW c \in ShelfSlugs, Shelving!AdminDeletesCluster(c)
  PROVE  ShelfInv'
<1> DEFINE row(t) == [entries[t] EXCEPT !.clusters = @ \ {c}]
<1>1. /\ shelves' = shelves \ {c} /\ entries' = [t \in ShelfTags |-> row(t)]
      /\ disturbed' = disturbed \cup {t \in ShelfTags : entries[t].clusters = {c}}
      /\ edits' = edits
  BY DEF Shelving!AdminDeletesCluster
<1>2. /\ entries \in [ShelfTags -> ShelfRows(shelves)] /\ shelves \subseteq ShelfSlugs
      /\ disturbed \subseteq ShelfTags /\ edits = [s \in Admins |-> edits[s]]
  BY DEF ShelfInv, Shelving!ClustersTypeOK, ShelfRows
<1>3. \A t \in ShelfTags : /\ row(t) \in ShelfRows(shelves \ {c})
                           /\ row(t).status = entries[t].status
                           /\ row(t).label = entries[t].label
                           /\ row(t).clusters = entries[t].clusters \ {c}
  BY <1>2 DEF ShelfRows
<1> HIDE DEF row
<1>4. /\ entries' \in [ShelfTags -> ShelfRows(shelves')]
      /\ \A t \in ShelfTags : entries'[t] = row(t)
  BY <1>1, <1>3
<1>5. \A u \in ShelfTags : entries'[u].status = entries[u].status
  BY <1>3, <1>4
<1>6. RowsWhole'
  <2>1. ASSUME NEW t \in ShelfTags, entries'[t].status = "absent"
        PROVE  entries'[t] = Shelving!Absent
    <3>1. entries[t] = Shelving!Absent
      BY <1>5, <2>1 DEF ShelfInv, RowsWhole
    <3>2. entries[t].clusters = {} /\ entries[t].label = None /\ entries[t].status = "absent"
      BY <3>1, NoneApart
    <3>3. row(t).clusters = {} /\ row(t).label = None /\ row(t).status = "absent"
      BY <1>3, <3>2
    <3> QED BY <1>3, <1>4, <3>3 DEF ShelfRows, Shelving!Absent, Shelving!Row
  <2> QED BY <2>1 DEF RowsWhole, Shelving!Absent, Shelving!Row
<1>7. Shelving!Orphans(entries') \subseteq disturbed'
  <2> SUFFICES ASSUME NEW u \in ShelfTags, entries'[u].status = "active",
                      entries'[u].clusters = {}
               PROVE  u \in disturbed'
    BY DEF Shelving!Orphans, Shelving!ActiveTags
  <2>1. entries[u].status = "active" /\ entries[u].clusters \ {c} = {}
    BY <1>3, <1>4
  <2>2. entries[u].clusters = {} \/ entries[u].clusters = {c}
    BY <2>1
  <2>3. entries[u].clusters = {} => u \in disturbed
    BY <2>1 DEF ShelfInv, Shelving!ActiveTagsClustered, Shelving!Orphans, Shelving!ActiveTags
  <2> QED BY <1>1, <2>2, <2>3
<1>8. shelves' \subseteq ShelfSlugs /\ disturbed' \subseteq ShelfTags
  BY <1>1, <1>2
<1> QED BY <1>1, <1>2, <1>4, <1>5, <1>6, <1>7, <1>8, RowsGoOn

\* A seed run that applies has found no orphan.
LEMMA SeedKeeps ==
  ASSUME ShelfInv, NEW f \in ShelfFiles, Shelving!ApplySeed(f)
  PROVE  ShelfInv'
<1>1. /\ Shelving!Seeded(f, entries) # None /\ entries' = Shelving!Seeded(f, entries)
      /\ shelves' = shelves \cup f.clusters
      /\ disturbed' \subseteq disturbed
      /\ edits' = edits
  BY DEF Shelving!ApplySeed
<1>2. PICK x : /\ EntriesShown(f, entries, x, Len(f.tags))
               /\ entries' = Shelving!RetirementsApplied(f, x)
               /\ Shelving!Orphans(entries') = {}
  BY <1>1, SeedApplied DEF ShelfInv
<1>3. /\ entries \in [ShelfTags -> ShelfRows(shelves)] /\ shelves \subseteq ShelfSlugs
      /\ disturbed \subseteq ShelfTags /\ edits = [s \in Admins |-> edits[s]]
  BY DEF ShelfInv, Shelving!ClustersTypeOK, ShelfRows
<1>4. PICK over : over = shelves \cup f.clusters
  OBVIOUS
<1>5. x \in [ShelfTags -> ShelfRows(over)]
  BY <1>2, <1>4 DEF EntriesShown
<1>6. PICK y : y = entries'
  OBVIOUS
<1>7. /\ y \in [ShelfTags -> ShelfRows(over)]
      /\ \A t \in ShelfTags : /\ y[t].status \in {x[t].status, "retired"}
                              /\ y[t] = x[t] \/ y[t].status = "retired"
  BY <1>2, <1>5, <1>6, RetiredOnce
<1>8. ASSUME NEW t \in ShelfTags
      PROVE  /\ x[t] = entries[t]
                \/ x[t].status = IF entries[t] = Shelving!Absent
                                 THEN "active" ELSE entries[t].status
  BY <1>2 DEF EntriesShown
<1>9. ASSUME NEW t \in ShelfTags, entries[t].status # "absent"
      PROVE  y[t].status \in {entries[t].status, "retired"}
  BY <1>7, <1>8, <1>9, NoneApart
<1>10. ASSUME NEW t \in ShelfTags, y[t].status = "absent"
       PROVE  y[t] = Shelving!Absent
  <2>1. y[t] = x[t] /\ x[t].status = "absent"
    BY <1>7, <1>10
  <2>2. entries[t].status = "absent" => entries[t] = Shelving!Absent
    BY DEF ShelfInv, RowsWhole
  <2> QED BY <1>8, <2>1, <2>2
<1>11. RowsWhole'
  BY <1>6, <1>10 DEF RowsWhole, Shelving!Absent, Shelving!Row
<1>12. f.clusters \subseteq ShelfSlugs
  BY FileEntries
<1> QED BY <1>1, <1>2, <1>3, <1>4, <1>6, <1>7, <1>9, <1>11, <1>12, RowsGoOn

\* Every step of the shelves.
LEMMA ShelfStep == ShelfInv /\ Shelving!ClustersNext => ShelfInv'
<1> SUFFICES ASSUME ShelfInv, Shelving!ClustersNext PROVE ShelfInv'
  OBVIOUS
<1>1. shelves \subseteq ShelfSlugs
  BY DEF ShelfInv, Shelving!ClustersTypeOK
<1>2. ASSUME Shelving!Edit PROVE ShelfInv'
  <2>1. PICK s \in Admins :
             \/ Shelving!AdminWritesTag(s)
             \/ \E t \in ShelfTags, label \in ShelfLabels, clusters \in SUBSET shelves :
                  Shelving!AdminReadsTag(s, t, label, clusters)
    BY <1>2 DEF Shelving!Edit
  <2>2. CASE Shelving!AdminWritesTag(s)
    BY <2>2, WritesTag
  <2>3. ASSUME NEW t \in ShelfTags, NEW label \in ShelfLabels, NEW clusters \in SUBSET shelves,
               Shelving!AdminReadsTag(s, t, label, clusters)
        PROVE  ShelfInv'
    BY <2>3, ReadsTag
  <2> QED BY <2>1, <2>2, <2>3
<1> QED BY <1>2, AddsTag, Retires, AddsCluster, DeletesCluster, SeedKeeps DEF Shelving!ClustersNext

\* And of the others, which leave them.
LEMMA ShelfIdle == ShelfInv /\ UNCHANGED shelfVars => ShelfInv'
BY DEF shelfVars, ShelfInv, RowsWhole, EditsKnown, Shelving!ClustersTypeOK,
  Shelving!ActiveTagsClustered, Shelving!Orphans, Shelving!ActiveTags, Shelving!Absent,
  Shelving!Row, Shelving!NoEdit

\* A step of the whole is one of the shelves or leaves them, and likewise for the rest.
LEMMA ShelfSteps ==
  ASSUME [Next]_vars
  PROVE  /\ Shelving!ClustersNext \/ UNCHANGED shelfVars
         /\ [AccountNext]_accountVars
<1>1. CASE UNCHANGED vars
  BY <1>1 DEF vars, chains, accountVars
<1>2. CASE part = "vocabulary" /\ VocabularyNext /\ Meanwhile /\ UNCHANGED shelfVars
  BY <1>2 DEF AccountNext
<1>3. CASE MergeAndRetire /\ Meanwhile /\ UNCHANGED shelfVars
  <2>1. VocabularyNext
    BY <1>3, MergeAssumption DEF MergeAndRetire, VocabularyNext
  <2> QED BY <1>3, <2>1 DEF AccountNext
<1>4. CASE InterestNext /\ UNCHANGED <<vocabularyVars, shelfVars>>
  BY <1>4 DEF AccountNext
<1>5. CASE Shelving!ClustersNext /\ UNCHANGED chains
  BY <1>5 DEF chains, accountVars
<1> QED BY <1>1, <1>2, <1>3, <1>4, <1>5 DEF Next

\* In every behaviour of the whole.
LEMMA ShelvesHold == Spec => []ShelfInv
<1>1. Init => ShelfInv
  BY ShelvesStart DEF Init
<1>2. ShelfInv /\ [Next]_vars => ShelfInv'
  BY ShelfStep, ShelfIdle, ShelfSteps
<1> QED BY <1>1, <1>2, PTL DEF Spec

\* No sequence of edits, retirements and seed files takes the last cluster of an active
\* tag (apps/taxonomy/services.py), whatever is listed and however many staff edit at
\* once, but for an edit that another overlapped and a cluster deleted behind it.
THEOREM TagsStayClustered == Spec => []ActiveTagsClustered
<1>1. ShelfInv => ActiveTagsClustered
  BY DEF ShelfInv, ActiveTagsClustered
<1> QED BY <1>1, ShelvesHold, PTL

\* A seed run that applies leaves no orphan and shows what its file lists, the last entry
\* of each tag; if the file lists none twice, a second run changes nothing (seed_taxonomy).
THEOREM SeedsSettle == Spec => SeedSettles
<1>1. ASSUME ShelfInv, NEW f \in ShelfFiles, Shelving!ApplySeed(f)
      PROVE  Shelving!SettledBy(f)
  <2>1. /\ Shelving!Seeded(f, entries) # None /\ entries' = Shelving!Seeded(f, entries)
    BY <1>1 DEF Shelving!ApplySeed
  <2>2. PICK x : /\ EntriesShown(f, entries, x, Len(f.tags))
                 /\ entries' = Shelving!RetirementsApplied(f, x)
                 /\ Shelving!Orphans(entries') = {}
    BY <1>1, <2>1, SeedApplied DEF ShelfInv
  <2>3. PICK over : over = shelves \cup f.clusters
    OBVIOUS
  <2>4. x \in [ShelfTags -> ShelfRows(over)]
    BY <2>2, <2>3 DEF EntriesShown
  <2>5. PICK y : y = entries'
    OBVIOUS
  <2>6. \A t \in ShelfTags : y[t].label = x[t].label /\ y[t].clusters = x[t].clusters
    <3>1. y = Shelving!RetirementsApplied(f, x)
      BY <2>2, <2>5
    <3> QED BY <2>4, <3>1 DEF Shelving!RetirementsApplied, ShelfRows
  <2>7. ASSUME NEW i \in DOMAIN f.tags, Shelving!LastEntry(f, i)
        PROVE  /\ y[f.tags[i].tag].label = f.tags[i].label
               /\ y[f.tags[i].tag].clusters = f.tags[i].clusters
    <3>1. i \in 1 .. Len(f.tags) /\ f.tags[i].tag \in ShelfTags
      BY FileEntries
    <3>2. \A j \in i + 1 .. Len(f.tags) : f.tags[j].tag # f.tags[i].tag
      BY <2>7, <3>1, FileEntries DEF Shelving!LastEntry
    <3>3. x[f.tags[i].tag].label = f.tags[i].label /\ x[f.tags[i].tag].clusters = f.tags[i].clusters
      BY <2>2, <3>1, <3>2 DEF EntriesShown
    <3> QED BY <2>6, <3>1, <3>3
  <2>8. ASSUME Shelving!ListsOnce(f)
        PROVE  Shelving!Seeded(f, y) = y
    BY <1>1, <2>1, <2>2, <2>5, <2>8, SecondRun DEF ShelfInv
  <2> QED BY <2>2, <2>5, <2>7, <2>8 DEF Shelving!SettledBy
<1>2. ShelfInv /\ [Next]_vars => [part = "shelving" => Shelving!SeedSettles]_shelfVars
  BY <1>1 DEF Shelving!SeedSettles
<1> QED BY <1>2, ShelvesHold, PTL DEF Spec, SeedSettles

\* Every behaviour of the whole begins with a vocabulary and a profile as they should be.
LEMMA TypesBegin == Init => TypeInv
<1> SUFFICES ASSUME Init PROVE TypeInv
  OBVIOUS
<1>1. InterestInit /\ seed = NoSeed
  BY DEF Init
<1>2. CASE VocabularyInit
  BY <1>1, <1>2, InterestTypeInit
<1>3. CASE tags = [t \in Tags |-> IF t \in {design, drawing} THEN Active
                                       ELSE Row("absent", NoTag)]
  <2>1. \A t \in Tags : tags[t].replacedBy = NoTag
    BY <1>3 DEF Row, Active
  <2>2. VocabularyTypeOK
    BY <1>1, <1>3 DEF VocabularyTypeOK, Rows, Row, Active
  <2>3. NoCycles
    BY <2>1, VocabularyAssumption DEF NoCycles, NoCyclesIn
  <2>4. IInv /\ SeedKnown
    BY <1>1, <2>1, <2>2, <2>3 DEF IInv, ActiveLeadNowhere, SeedKnown
  <2> QED BY <1>1, <2>4 DEF TypeInv, InterestInit, InterestTypeOK, SavesKnown, NoSave
<1> QED BY <1>2, <1>3 DEF Init

\* The vocabulary, the profiles and the shelves keep their types, in every behaviour.
THEOREM WholeTyped == Spec => []VocabularyTypesOK
<1>1. TypeInv /\ [Next]_vars => TypeInv'
  BY InterestTypeStep, ShelfSteps
<1>2. TypeInv /\ ShelfInv => VocabularyTypesOK
  BY DEF TypeInv, IInv, ShelfInv, VocabularyTypesOK
<1> QED BY <1>1, <1>2, TypesBegin, ShelvesHold, PTL DEF Spec

\* A save takes back no id that its page could not show (set_interests), whatever is saved
\* in other tabs, retired or merged in between, for any bound of resolve_tag, unless a merge
\* has given the id an active meaning since the page was rendered.
THEOREM PickerKeeps == Spec => PickerKeepsWhatItHides
<1>1. Init => TypeInv /\ OwedInv
  BY TypesBegin, OwedBegins DEF Init
<1>2. TypeInv /\ OwedInv /\ [Next]_vars => TypeInv' /\ OwedInv'
  BY InterestTypeStep, OwedStep, ShelfSteps DEF TypeInv
<1>3. TypeInv /\ OwedInv /\ [Next]_vars => [PickerLosesNothing]_interestVars
  BY SparesOwed DEF PickerLosesNothing
<1> QED BY <1>1, <1>2, <1>3, PTL DEF Spec, PickerKeepsWhatItHides
===============================================================================
