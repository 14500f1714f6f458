-------------------------- MODULE CatalogAssetsProofs --------------------------
(***************************************************************************)
(* What is proved of MCCatalogAssets, for all values of its constants.     *)
(* What is edited comes first:                                             *)
(*                                                                         *)
(*   - the edit desk: an accepted application shows what its reviewer saw, *)
(*     and a saved page changes no field that was left alone without one   *)
(*     of the excuses;                                                     *)
(*   - the demo clip: the storage holds its file and no other while edits  *)
(*     come one at a time;                                                 *)
(*   - the tags: an application is never found without one, and an edit    *)
(*     that no other overlaps replaces the set; the values of a facet;     *)
(*   - the screenshots: their number is bounded by the requests that       *)
(*     overlap, and those that are shown have files and places.            *)
(*                                                                         *)
(* Then what is read while it changes:                                     *)
(*                                                                         *)
(*   - sifted lists, which the reads have in common;                       *)
(*   - the duplicate hints of the review queue;                            *)
(*   - the feed, the widget, the page of an application and the channel;   *)
(*   - the reviews of an application;                                      *)
(*   - a walk through the catalogue, page by page.                         *)
(*                                                                         *)
(* Each part has an inductive invariant of its own, and a behaviour of the *)
(* module is a behaviour of one part.  The last theorem collects their     *)
(* types.                                                                  *)
(***************************************************************************)
EXTENDS MCCatalogAssets, Sifting, FiniteSetTheorems, FunctionTheorems, SequenceTheorems, TLAPS

-------------------------------------------------------------------------------
(***************************************************************************)
(* The edit desk.  What the reviewer looks at differs from the application *)
(* in the fields that were edited since he opened it, and in no other; an  *)
(* edit of a field he is shown takes an acceptance back.                   *)
(***************************************************************************)
LookTold ==
  look # None =>
    /\ look = [shown |-> look.shown, unseen |-> look.unseen]
    /\ \A f \in Desk!Shown : row.content[f] = look.shown[f] \/ f \in look.unseen

DeskInv ==
  /\ row = [content |-> row.content, status |-> row.status]
  /\ LookTold
  /\ Desk!ListedAsSeen

\* A step of one part leaves the others alone.
LEMMA DeskSteps ==
  ASSUME [Next]_vars, part' = "desk"
  PROVE  part = "desk" /\ (Desk!DeskNext \/ UNCHANGED deskState)
BY DEF Next, NextEdit, NextRead, vars, editState

LEMMA DeskWrite ==
  ASSUME DeskInv, NEW edits, Desk!Write(edits), UNCHANGED listed
  PROVE  DeskInv'
<1>1. /\ row' = [content |-> row'.content, status |-> row'.status]
      /\ row'.content = Desk!Edited(row.content, edits)
      /\ row'.status = IF \E f \in Desk!ChangedBy(row.content, edits) : Desk!GateRelevant(f)
                       THEN "pending" ELSE row.status
      /\ look' = IF look = None THEN None
                 ELSE [look EXCEPT !.unseen = @ \cup Desk!ChangedBy(row.content, edits)]
  BY DEF Desk!Write, Desk!EditApp
<1>2. \A f \in Desk!Shown :
        f \in Desk!ChangedBy(row.content, edits) \/ row'.content[f] = row.content[f]
  BY <1>1 DEF Desk!ChangedBy, Desk!Shown, Desk!Fields
<1>3. \A f \in Desk!Shown : Desk!GateRelevant(f)
  BY DEF Desk!Shown, Desk!GateRelevant, Desk!GateName, Desk!gate_relevant_fields
<1>4. LookTold'
  <2> SUFFICES ASSUME look' # None PROVE LookTold'
    BY DEF LookTold
  <2>1. /\ look # None /\ look = [shown |-> look.shown, unseen |-> look.unseen]
        /\ look' = [look EXCEPT !.unseen = @ \cup Desk!ChangedBy(row.content, edits)]
    BY <1>1 DEF DeskInv, LookTold
  <2>2. /\ look'.shown = look.shown
        /\ look'.unseen = look.unseen \cup Desk!ChangedBy(row.content, edits)
        /\ look' = [shown |-> look'.shown, unseen |-> look'.unseen]
    BY <2>1
  <2> QED BY <1>2, <2>1, <2>2 DEF DeskInv, LookTold
<1>5. Desk!ListedAsSeen'
  <2> SUFFICES ASSUME row'.status = "accepted", NEW f \in Desk!Shown
               PROVE  row'.content[f] = listed'.shown[f] \/ f \in listed'.unseen
    BY DEF Desk!ListedAsSeen
  <2>1. row.status = "accepted" /\ \A g \in Desk!Shown : row'.content[g] = row.content[g]
    BY <1>1, <1>2, <1>3
  <2> QED BY <2>1 DEF DeskInv, Desk!ListedAsSeen
<1> QED BY <1>1, <1>4, <1>5 DEF DeskInv

LEMMA DeskStep == DeskInv /\ Desk!DeskNext => DeskInv'
<1> SUFFICES ASSUME DeskInv, Desk!DeskNext PROVE DeskInv'
  OBVIOUS
<1>1. CASE UNCHANGED <<row, look, listed>>
  BY <1>1 DEF DeskInv, LookTold, Desk!ListedAsSeen
<1>2. ASSUME NEW t, Desk!RenderEditPage(t)
      PROVE  UNCHANGED <<row, look, listed>>
  BY <1>2 DEF Desk!RenderEditPage
<1>3. ASSUME NEW t, NEW edits, Desk!SaveEditPage(t, edits)
      PROVE  DeskInv'
  <2>1. UNCHANGED listed
        /\ (UNCHANGED <<row, look>> \/ \E posted : Desk!Write(posted))
    BY <1>3 DEF Desk!SaveEditPage
  <2> QED BY <1>1, <2>1, DeskWrite
<1>4. ASSUME NEW edits, Desk!PatchApi(edits)
      PROVE  DeskInv'
  BY <1>4, DeskWrite DEF Desk!PatchApi
<1>5. CASE Desk!OpenReview
  BY <1>5 DEF Desk!OpenReview, DeskInv, LookTold, Desk!ListedAsSeen
<1>6. CASE Desk!AcceptReviewed
  <2>1. /\ look # None /\ listed' = look /\ look' = None
        /\ row' = [row EXCEPT !.status = "accepted"]
    BY <1>6 DEF Desk!AcceptReviewed
  <2>2. row' = [content |-> row'.content, status |-> row'.status] /\ row'.content = row.content
    BY <2>1 DEF DeskInv
  <2> QED BY <2>1, <2>2 DEF DeskInv, LookTold, Desk!ListedAsSeen
<1>7. CASE Desk!Retire
  BY <1>1, <1>7 DEF Desk!Retire
<1> QED BY <1>1, <1>2, <1>3, <1>4, <1>5, <1>6, <1>7 DEF Desk!DeskNext

LEMMA DeskHolds == Spec => [](part = "desk" => DeskInv)
<1> DEFINE Inv == part = "desk" => DeskInv
<1>1. Init => Inv
  <2> SUFFICES ASSUME Init, part = "desk" PROVE DeskInv
    OBVIOUS
  <2>1. Desk!DeskInit
    BY DEF Init
  <2>2. look = None /\ row.status = "pending"
        /\ row = [content |-> row.content, status |-> row.status]
    BY <2>1 DEF Desk!DeskInit
  <2> QED BY <2>2 DEF DeskInv, LookTold, Desk!ListedAsSeen
<1>2. Inv /\ [Next]_vars => Inv'
  <2> SUFFICES ASSUME Inv, [Next]_vars, part' = "desk" PROVE DeskInv'
    OBVIOUS
  <2>1. CASE UNCHANGED deskState
    BY <2>1, DeskSteps DEF deskState, DeskInv, LookTold, Desk!ListedAsSeen
  <2> QED BY <2>1, DeskSteps, DeskStep
<1> QED BY <1>1, <1>2, PTL DEF Spec

\* The catalogue shows what the accepting reviewer had in front of him, but for what was
\* edited between his look and his decision (ReviewDecisionView, edit_app).
THEOREM ListedWasSeen == Spec => []ListedAsSeen
<1>1. (part = "desk" => DeskInv) => ListedAsSeen
  BY DEF ListedAsSeen, DeskInv
<1> QED BY <1>1, DeskHolds, PTL

-------------------------------------------------------------------------------

(***************************************************************************)
(* The pages of the developer.  In a field that was left alone a form has  *)
(* what it was rendered from, as far as it is offered still and as a       *)
(* browser sends it.                                                       *)
(***************************************************************************)
Whole(content) == content = [f \in Desk!Fields |-> content[f]]

LeftAlone(content, from, f) ==
  CASE f \in {"description", "deep_dive"} -> content[f] \in {from[f], Desk!Sent(from[f])}
    [] f = "tags" -> from[f] \cap active \subseteq content[f] /\ content[f] \subseteq from[f]
    [] f = "facets" -> from[f] \cap registry \subseteq content[f] /\ content[f] \subseteq from[f]
    [] f \in {"clip", "alt"} -> content[f] = from[f]

FormTold(form) ==
  /\ form = [content |-> form.content, from |-> form.from, touched |-> form.touched]
  /\ Whole(form.content)
  /\ \A f \in Desk!Fields \ form.touched : LeftAlone(form.content, form.from, f)

PageInv ==
  /\ row = [content |-> row.content, status |-> row.status]
  /\ Whole(row.content)
  /\ tab = [t \in Tabs |-> tab[t]]
  /\ \A t \in Tabs : tab[t] # None => FormTold(tab[t])

LEMMA OfferedKeeps ==
  ASSUME NEW content, Whole(content)
  PROVE  /\ Whole(Desk!Offered(content))
         /\ Desk!Offered(content).tags = content.tags \cap active
         /\ Desk!Offered(content).facets = content.facets \cap registry
         /\ \A f \in {"description", "deep_dive", "clip", "alt"} :
              Desk!Offered(content)[f] = content[f]
<1>1. ASSUME NEW c, c = [f \in Desk!Fields |-> content[f]]
      PROVE  /\ Whole([c EXCEPT !.tags = @ \cap active, !.facets = @ \cap registry])
             /\ \A f \in Desk!Fields :
                  [c EXCEPT !.tags = @ \cap active, !.facets = @ \cap registry][f] =
                    IF f = "tags" THEN content[f] \cap active
                    ELSE IF f = "facets" THEN content[f] \cap registry ELSE content[f]
  BY <1>1 DEF Desk!Fields, Whole
<1>2. Desk!Offered(content) = [content EXCEPT !.tags = @ \cap active, !.facets = @ \cap registry]
  BY DEF Desk!Offered
<1>3. /\ Whole(Desk!Offered(content))
      /\ \A f \in Desk!Fields :
           Desk!Offered(content)[f] =
             IF f = "tags" THEN content[f] \cap active
             ELSE IF f = "facets" THEN content[f] \cap registry ELSE content[f]
  BY <1>1, <1>2 DEF Whole
<1> QED BY <1>3 DEF Desk!Fields

LEMMA PostedFields ==
  ASSUME NEW content, NEW edits
  PROVE  LET posted == Desk!Posted(content, edits) IN
         /\ DOMAIN posted = (Desk!Fields \ {"clip"}) \cup (DOMAIN edits \cap {"clip"})
         /\ \A f \in {"description", "deep_dive"} \ DOMAIN edits :
              posted[f] = Desk!Sent(content[f])
         /\ \A f \in {"tags", "facets", "alt"} \ DOMAIN edits : posted[f] = content[f]
BY DEF Desk!Posted, Desk!Asked, Desk!Supplied, Desk!Fields

LEMMA SentTwice == \A text : Desk!Sent(Desk!Sent(text)) = Desk!Sent(text)
BY DEF Desk!Sent

\* The page is opened, or shown again as it was sent.
LEMMA FormOpened ==
  ASSUME PageInv
  PROVE  FormTold([content |-> Desk!Offered(Desk!form_initial(row.content)),
                   from |-> row.content, touched |-> {}])
<1>1. Whole(row.content) /\ Desk!form_initial(row.content) = row.content
  BY DEF PageInv, Desk!form_initial
<1>2. \A f \in Desk!Fields : LeftAlone(Desk!Offered(row.content), row.content, f)
  BY <1>1, OfferedKeeps DEF LeftAlone, Desk!Fields
<1> QED BY <1>1, <1>2, OfferedKeeps DEF FormTold

LEMMA FormAgain ==
  ASSUME NEW form, FormTold(form), NEW edits
  PROVE  LET posted == Desk!Posted(form.content, edits)
             sent == Desk!Offered([f \in Desk!Fields |->
                       IF f # "clip" THEN posted[f] ELSE form.content.clip])
         IN FormTold([form EXCEPT !.content = sent, !.touched = @ \cup (DOMAIN edits \ {"clip"})])
<1> DEFINE posted == Desk!Posted(form.content, edits)
           c == [f \in Desk!Fields |-> IF f # "clip" THEN posted[f] ELSE form.content.clip]
           sent == Desk!Offered(c)
           touched == form.touched \cup (DOMAIN edits \ {"clip"})
<1>1. Whole(c)
  BY DEF Whole
<1>6. /\ \A f \in {"description", "deep_dive", "alt"} : sent[f] = posted[f]
      /\ sent.tags = posted.tags \cap active /\ sent.facets = posted.facets \cap registry
      /\ sent.clip = form.content.clip
  <2>1. /\ \A f \in {"description", "deep_dive", "tags", "facets", "alt"} : c[f] = posted[f]
        /\ c.clip = form.content.clip
    BY DEF Desk!Fields
  <2> HIDE DEF c, posted
  <2> QED BY <1>1, <2>1, OfferedKeeps
<1>7. /\ \A f \in {"description", "deep_dive"} \ DOMAIN edits :
           posted[f] = Desk!Sent(form.content[f])
      /\ \A f \in {"tags", "facets", "alt"} \ DOMAIN edits : posted[f] = form.content[f]
  BY PostedFields
<1>2. Whole(sent)
  BY <1>1, OfferedKeeps
<1> HIDE DEF sent, c, posted
<1>3. ASSUME NEW f \in Desk!Fields \ touched
      PROVE  LeftAlone(sent, form.from, f)
  <2>1. LeftAlone(form.content, form.from, f) /\ (f = "clip" \/ f \notin DOMAIN edits)
    BY DEF FormTold
  <2>2. f \in {"description", "deep_dive", "tags", "facets", "clip", "alt"}
    BY DEF Desk!Fields
  <2>3. CASE f \in {"description", "deep_dive"}
    <3>1. sent[f] = Desk!Sent(form.content[f])
      BY <1>6, <1>7, <2>1, <2>3
    <3>2. form.content[f] \in {form.from[f], Desk!Sent(form.from[f])}
      BY <2>1, <2>3 DEF LeftAlone
    <3> QED BY <2>3, <3>1, <3>2, SentTwice DEF LeftAlone
  <2>4. CASE f = "tags"
    BY <1>6, <1>7, <2>1, <2>4 DEF LeftAlone
  <2>5. CASE f = "facets"
    BY <1>6, <1>7, <2>1, <2>5 DEF LeftAlone
  <2>6. CASE f = "clip"
    BY <1>6, <2>1, <2>6 DEF LeftAlone
  <2>7. CASE f = "alt"
    BY <1>6, <1>7, <2>1, <2>7 DEF LeftAlone
  <2> QED BY <2>2, <2>3, <2>4, <2>5, <2>6, <2>7
<1> HIDE DEF touched
<1>4. [form EXCEPT !.content = sent, !.touched = touched] =
        [content |-> sent, from |-> form.from, touched |-> touched]
  <2>1. ASSUME NEW a, NEW b, NEW d, NEW r, r = [content |-> a, from |-> b, touched |-> d],
               NEW x
        PROVE  /\ [r EXCEPT !.content = x] = [content |-> x, from |-> b, touched |-> d]
               /\ [r EXCEPT !.touched = x] = [content |-> a, from |-> b, touched |-> x]
    BY <2>1
  <2>2. form = [content |-> form.content, from |-> form.from, touched |-> form.touched]
    BY DEF FormTold
  <2>3. [form EXCEPT !.content = sent, !.touched = touched]
          = [[form EXCEPT !.content = sent] EXCEPT !.touched = touched]
    OBVIOUS
  <2>4. ASSUME NEW r, r = [form EXCEPT !.content = sent]
        PROVE  [r EXCEPT !.touched = touched]
                 = [content |-> sent, from |-> form.from, touched |-> touched]
    <3>1. r = [content |-> sent, from |-> form.from, touched |-> form.touched]
      BY <2>1, <2>2, <2>4
    <3> QED BY <2>1, <3>1
  <2> QED BY <2>3, <2>4
<1>5. FormTold([content |-> sent, from |-> form.from, touched |-> touched])
  BY <1>2, <1>3 DEF FormTold
<1> QED BY <1>4, <1>5 DEF sent, touched, c, posted

\* What is offered no more is not offered again.
LEMMA FormStays ==
  ASSUME NEW t, FormTold(tab[t]), tab'[t] = tab[t],
         active' \subseteq active, registry' \subseteq registry
  PROVE  FormTold(tab[t])'
<1>1. ASSUME NEW f \in Desk!Fields \ tab[t].touched PROVE LeftAlone(tab[t].content, tab[t].from, f)'
  BY <1>1 DEF FormTold, LeftAlone, Desk!Fields, Desk!Sent
<1> QED BY <1>1 DEF FormTold, Whole, Desk!Fields

LEMMA FormsStay ==
  ASSUME PageInv, UNCHANGED tab, active' \subseteq active, registry' \subseteq registry
  PROVE  /\ tab' = [t \in Tabs |-> tab'[t]]
         /\ \A t \in Tabs : tab'[t] # None => FormTold(tab[t])'
BY FormStays DEF PageInv

\* One page is opened, sent or left, the others are not.
LEMMA OneForm ==
  ASSUME PageInv, NEW t \in Tabs, NEW form, tab' = [tab EXCEPT ![t] = form],
         UNCHANGED <<active, registry>>, tab'[t] # None => FormTold(tab[t])'
  PROVE  /\ tab' = [u \in Tabs |-> tab'[u]]
         /\ \A u \in Tabs : tab'[u] # None => FormTold(tab[u])'
<1>1. tab' = [u \in Tabs |-> tab'[u]] /\ \A u \in Tabs \ {t} : tab'[u] = tab[u]
  BY DEF PageInv
<1> QED BY <1>1, FormStays DEF PageInv

LEMMA PageWrite ==
  ASSUME PageInv, NEW edits, Desk!Write(edits)
  PROVE  row' = [content |-> row'.content, status |-> row'.status] /\ Whole(row.content)'
BY DEF Desk!Write, Desk!EditApp, Desk!Edited, Whole, Desk!Fields

LEMMA PageStep == PageInv /\ Desk!DeskNext => PageInv'
<1> SUFFICES ASSUME PageInv, Desk!DeskNext PROVE PageInv'
  OBVIOUS
<1>1. ASSUME UNCHANGED <<tab, row>>, active' \subseteq active, registry' \subseteq registry
      PROVE  PageInv'
  BY <1>1, FormsStay DEF PageInv, Whole, Desk!Fields
<1>2. ASSUME NEW edits, Desk!Write(edits), UNCHANGED <<tab, active, registry>>
      PROVE  PageInv'
  BY <1>2, FormsStay, PageWrite DEF PageInv
<1>3. ASSUME NEW t \in Tabs, Desk!RenderEditPage(t)
      PROVE  PageInv'
  <2> DEFINE form == [content |-> Desk!Offered(Desk!form_initial(row.content)),
                      from |-> row.content, touched |-> {}]
  <2>1. tab' = [tab EXCEPT ![t] = form] /\ UNCHANGED <<row, active, registry>>
    BY <1>3 DEF Desk!RenderEditPage
  <2>2. FormTold(form)
    BY FormOpened
  <2> HIDE DEF form
  <2>3. form' = form
    BY <2>1 DEF form, Desk!Offered, Desk!form_initial
  <2>4. tab'[t] = form
    BY <2>1 DEF PageInv
  <2>5. FormTold(tab[t])'
    BY <2>1, <2>2, <2>4 DEF FormTold, Whole, LeftAlone
  <2>6. row' = row /\ Whole(row.content)'
    BY <2>1 DEF PageInv, Whole, Desk!Fields
  <2> QED BY <2>1, <2>5, <2>6, OneForm DEF PageInv
<1>4. ASSUME NEW t \in Tabs, NEW edits, Desk!SaveEditPage(t, edits)
      PROVE  PageInv'
  <2> DEFINE form == tab[t]
             posted == Desk!Posted(form.content, edits)
             again == [form EXCEPT !.content = Desk!Offered([f \in Desk!Fields |->
                                     IF f # "clip" THEN posted[f] ELSE form.content.clip]),
                                   !.touched = @ \cup (DOMAIN edits \ {"clip"})]
  <2>1. form # None /\ UNCHANGED <<active, registry>>
        /\ \/ Desk!Write(posted) /\ tab' = [tab EXCEPT ![t] = None]
           \/ tab' = [tab EXCEPT ![t] = again] /\ UNCHANGED row
    BY <1>4 DEF Desk!SaveEditPage
  <2>2. FormTold(form)
    BY <2>1 DEF PageInv
  <2>3. CASE Desk!Write(posted) /\ tab' = [tab EXCEPT ![t] = None]
    <3>1. tab'[t] = None
      BY <2>3 DEF PageInv
    <3> QED BY <2>1, <2>3, <3>1, PageWrite, OneForm DEF PageInv
  <2>4. CASE tab' = [tab EXCEPT ![t] = again] /\ UNCHANGED row
    <3>1. FormTold(again)
      BY <2>2, FormAgain
    <3> HIDE DEF again
    <3>2. tab'[t] = again
      BY <2>4 DEF PageInv
    <3>3. FormTold(tab[t])'
      BY <2>1, <3>1, <3>2 DEF FormTold, Whole, LeftAlone, Desk!Sent, Desk!Fields
    <3>4. row' = row /\ Whole(row.content)'
      BY <2>4 DEF PageInv, Whole, Desk!Fields
    <3> QED BY <2>1, <2>4, <3>3, <3>4, OneForm DEF PageInv
  <2> QED BY <2>1, <2>3, <2>4
<1>5. ASSUME NEW edits, Desk!PatchApi(edits)
      PROVE  PageInv'
  BY <1>2, <1>5 DEF Desk!PatchApi
<1>6. CASE Desk!OpenReview
  BY <1>1, <1>6 DEF Desk!OpenReview
<1>7. CASE Desk!AcceptReviewed
  <2>1. row' = [row EXCEPT !.status = "accepted"] /\ UNCHANGED <<tab, active, registry>>
    BY <1>7 DEF Desk!AcceptReviewed
  <2>2. row' = [content |-> row'.content, status |-> row'.status] /\ row'.content = row.content
    BY <2>1 DEF PageInv
  <2> QED BY <2>1, <2>2, FormsStay DEF PageInv, Whole, Desk!Fields
<1>8. CASE Desk!Retire
  <2>1. active' \subseteq active /\ registry' \subseteq registry /\ UNCHANGED <<tab, row>>
    BY <1>8 DEF Desk!Retire
  <2> QED BY <1>1, <2>1
<1> QED BY <1>3, <1>4, <1>5, <1>6, <1>7, <1>8 DEF Desk!DeskNext

\* What is saved of a field that was left alone is what is there, or there is an excuse.
LEMMA SaveKeeps ==
  ASSUME PageInv, NEW t \in Tabs, tab[t] # None, NEW edits \in Desk!Edits,
         Desk!SaveEditPage(t, edits),
         NEW f \in Desk!Fields \ (tab[t].touched \cup DOMAIN edits)
  PROVE  row'.content[f] = row.content[f] \/ Desk!Excused(t, f)
<1> DEFINE form == tab[t]
           posted == Desk!Posted(form.content, edits)
<1>1. CASE UNCHANGED row
  BY <1>1
<1>2. CASE Desk!IsValid(posted) /\ Desk!Write(posted)
  <2>1. row'.content = Desk!Edited(row.content, posted)
    BY <1>2 DEF Desk!Write, Desk!EditApp
  <2>2. LeftAlone(form.content, form.from, f)
    BY DEF PageInv, FormTold
  <2>3. /\ DOMAIN posted = (Desk!Fields \ {"clip"}) \cup (DOMAIN edits \cap {"clip"})
        /\ f \in {"description", "deep_dive"} => posted[f] = Desk!Sent(form.content[f])
        /\ f \in {"tags", "facets", "alt"} => posted[f] = form.content[f]
    BY PostedFields, ZenonT(40)
  <2> HIDE DEF posted
  <2>4. row'.content[f] = IF f = "alt" /\ ~ Desk!AltWritten(row.content, posted)
                          THEN row.content[f]
                          ELSE IF f \in DOMAIN posted THEN posted[f] ELSE row.content[f]
    BY <2>1 DEF Desk!Edited, Desk!Asked, Desk!Supplied
  <2> SUFFICES ASSUME ~ Desk!Excused(t, f) PROVE row'.content[f] = row.content[f]
    OBVIOUS
  <2>5. row.content[f] = form.from[f]
    BY DEF Desk!Excused
  <2>6. CASE f \in {"description", "deep_dive"}
    BY <2>2, <2>3, <2>4, <2>5, <2>6, SentTwice DEF Desk!Excused, LeftAlone
  <2>7. CASE f = "tags"
    <3>1. /\ form.from[f] \cap active \subseteq form.content[f]
          /\ form.content[f] \subseteq form.from[f]
      BY <2>2, <2>7 DEF LeftAlone
    <3>2. form.from[f] \subseteq active
      BY <2>5, <2>7 DEF Desk!Excused
    <3>3. row'.content[f] = form.content[f]
      BY <2>3, <2>4, <2>7 DEF Desk!Fields
    <3>4. \A a, b, c : a \cap c \subseteq b /\ b \subseteq a /\ a \subseteq c => a = b
      OBVIOUS
    <3>5. form.from[f] = form.content[f]
      BY <3>1, <3>2, <3>4
    <3> QED BY <2>5, <3>3, <3>5
  <2>8. CASE f = "facets"
    <3>1. /\ form.from[f] \cap registry \subseteq form.content[f]
          /\ form.content[f] \subseteq form.from[f]
      BY <2>2, <2>8 DEF LeftAlone
    <3>2. form.from[f] \subseteq registry
      BY <2>5, <2>8 DEF Desk!Excused
    <3>3. row'.content[f] = form.content[f]
      BY <2>3, <2>4, <2>8 DEF Desk!Fields
    <3>4. \A a, b, c : a \cap c \subseteq b /\ b \subseteq a /\ a \subseteq c => a = b
      OBVIOUS
    <3>5. form.from[f] = form.content[f]
      BY <3>1, <3>2, <3>4
    <3> QED BY <2>5, <3>3, <3>5
  <2>9. CASE f = "clip"
    BY <2>3, <2>4, <2>9
  <2>10. CASE f = "alt"
    BY <2>2, <2>3, <2>4, <2>5, <2>10 DEF LeftAlone
  <2> QED BY <2>6, <2>7, <2>8, <2>9, <2>10 DEF Desk!Fields
<1> QED BY <1>1, <1>2 DEF Desk!SaveEditPage

LEMMA FormsHold == Spec => [](part = "desk" => PageInv)
<1> DEFINE Inv == part = "desk" => PageInv
<1>1. Init => Inv
  <2> SUFFICES ASSUME Init, part = "desk" PROVE PageInv
    OBVIOUS
  <2>1. Desk!DeskInit
    BY DEF Init
  <2>2. PICK c \in {None, CHOOSE c \in Clips \ {CHOOSE d \in Clips : TRUE} : TRUE} :
          row = [content |-> [description |-> "plain", deep_dive |-> "plain",
                              tags |-> Tags,
                              facets |-> {CHOOSE p \in Pairs : TRUE}, clip |-> c,
                              alt |-> IF c = None THEN None ELSE CHOOSE a \in Alts : TRUE],
                 status |-> "pending"]
    BY <2>1 DEF Desk!DeskInit
  <2>3. ASSUME NEW d, NEW e, NEW g, NEW h, NEW k, NEW l
        PROVE  Whole([description |-> d, deep_dive |-> e, tags |-> g, facets |-> h,
                      clip |-> k, alt |-> l])
    BY DEF Whole, Desk!Fields
  <2>4. Whole(row.content) /\ row = [content |-> row.content, status |-> row.status]
    BY <2>2, <2>3
  <2>5. tab = [u \in Tabs |-> None]
    BY <2>1 DEF Desk!DeskInit
  <2> QED BY <2>4, <2>5 DEF PageInv
<1>2. Inv /\ [Next]_vars => Inv'
  <2> SUFFICES ASSUME Inv, [Next]_vars, part' = "desk" PROVE PageInv'
    OBVIOUS
  <2>1. CASE UNCHANGED deskState
    BY <2>1, DeskSteps, FormsStay DEF deskState, PageInv, Whole, Desk!Fields
  <2> QED BY <2>1, DeskSteps, PageStep
<1> QED BY <1>1, <1>2, PTL DEF Spec

\* A saved page changes what the developer left alone only where an excuse is named:
\* changed since, no more offered, sent in a browser's own way (_edit_action).
THEOREM PagesSaved == Spec => PageSaveAccounted
<1>1. (part = "desk" => PageInv) => [part = "desk" => Desk!SaveAccounted]_deskState
  BY SaveKeeps DEF Desk!SaveAccounted
<1> QED BY <1>1, FormsHold, PTL DEF PageSaveAccounted

-------------------------------------------------------------------------------
(***************************************************************************)
(* The types of the desk: what is asked for is of the type of its field,   *)
(* so the application has a tag, and alt text if and only if it has a clip.*)
(***************************************************************************)
EditTyped(edits) == \A f \in Desk!Fields : f \in DOMAIN edits => edits[f] \in Desk!Of(f)

Sound(content) ==
  /\ content \in Desk!Content
  /\ content.tags # {} /\ (content.clip = None <=> content.alt = None)

LEMMA ContentIs ==
  ASSUME NEW content, Whole(content),
         \A f \in Desk!Fields \ {"clip"} : content[f] \in Desk!Of(f),
         content.clip \in Desk!Of("clip") \cup {None}
  PROVE  content \in Desk!Content
<1>1. content = [description |-> content.description, deep_dive |-> content.deep_dive,
                 tags |-> content.tags, facets |-> content.facets, clip |-> content.clip,
                 alt |-> content.alt]
  BY DEF Whole, Desk!Fields
<1>2. /\ content.description \in Desk!Of("description")
      /\ content.deep_dive \in Desk!Of("deep_dive")
      /\ content.tags \in Desk!Of("tags") /\ content.facets \in Desk!Of("facets")
      /\ content.alt \in Desk!Of("alt")
  BY DEF Desk!Fields
<1>3. content.clip \in (Clips \ {CHOOSE c \in Clips : TRUE}) \cup {None}
  BY DEF Desk!Of
<1> QED BY <1>1, <1>2, <1>3 DEF Desk!Content

LEMMA ContentHas ==
  ASSUME NEW content \in Desk!Content
  PROVE  /\ Whole(content) /\ \A f \in Desk!Fields \ {"clip"} : content[f] \in Desk!Of(f)
         /\ content.clip \in Desk!Of("clip") \cup {None}
<1>1. content.clip \in Desk!Of("clip") \cup {None}
  BY DEF Desk!Content, Desk!Of
<1>2. \A f \in Desk!Fields \ {"clip"} : content[f] \in Desk!Of(f)
  BY DEF Desk!Content, Desk!Fields
<1>3. Whole(content)
  BY DEF Desk!Content, Whole, Desk!Fields
<1> QED BY <1>1, <1>2, <1>3

LEMMA EditsTyped ==
  ASSUME NEW edits \in Desk!Edits
  PROVE  EditTyped(edits)
<1>1. CASE edits = [f \in {} |-> Desk!Blank]
  BY <1>1 DEF EditTyped
<1>2. CASE \E f \in Desk!Fields : edits \in [{f} -> Desk!Of(f)]
  BY <1>2 DEF EditTyped
<1>3. CASE edits \in [clip : Clips \ {CHOOSE c \in Clips : TRUE}, alt : Alts]
  BY <1>3 DEF EditTyped, Desk!Of
<1> QED BY <1>1, <1>2, <1>3 DEF Desk!Edits

LEMMA PostedTyped ==
  ASSUME NEW content \in Desk!Content, NEW edits, EditTyped(edits)
  PROVE  EditTyped(Desk!Posted(content, edits))
<1> DEFINE posted == Desk!Posted(content, edits)
<1>1. /\ DOMAIN posted = (Desk!Fields \ {"clip"}) \cup (DOMAIN edits \cap {"clip"})
      /\ \A f \in DOMAIN posted :
           posted[f] = IF f \in {"description", "deep_dive"}
                       THEN Desk!Sent(Desk!Asked(content, edits, f))
                       ELSE Desk!Asked(content, edits, f)
  BY DEF Desk!Posted, Desk!Fields
<1> HIDE DEF posted
<1>2. ASSUME NEW f \in Desk!Fields, f \in DOMAIN posted
      PROVE  Desk!Asked(content, edits, f) \in Desk!Of(f)
  BY <1>1, <1>2, ContentHas DEF Desk!Asked, Desk!Supplied, EditTyped
<1>3. /\ \A text \in Desk!Of("description") : Desk!Sent(text) \in Desk!Of("description")
      /\ \A text \in Desk!Of("deep_dive") : Desk!Sent(text) \in Desk!Of("deep_dive")
  BY DEF Desk!Of, Desk!Sent, Desk!Texts
<1>4. ASSUME NEW f \in Desk!Fields, f \in DOMAIN posted
      PROVE  posted[f] \in Desk!Of(f)
  BY <1>1, <1>2, <1>3, <1>4
<1> QED BY <1>4 DEF EditTyped, posted

LEMMA EditedSound ==
  ASSUME NEW content, Sound(content), NEW edits, EditTyped(edits),
         Desk!Acceptable(content, edits)
  PROVE  Sound(Desk!Edited(content, edits))
<1> DEFINE edited == Desk!Edited(content, edits)
<1>1. \A f \in Desk!Fields :
        edited[f] = IF f = "alt" /\ ~ Desk!AltWritten(content, edits) THEN content.alt
                    ELSE IF f \in DOMAIN edits THEN edits[f] ELSE content[f]
  BY DEF Desk!Edited, Desk!Asked, Desk!Supplied
<1>2. Whole(edited)
  BY DEF Whole, Desk!Edited
<1>3. /\ \A f \in Desk!Fields \ {"clip"} : content[f] \in Desk!Of(f)
      /\ content.clip \in Desk!Of("clip") \cup {None}
  BY ContentHas DEF Sound
<1> HIDE DEF edited
<1>4. /\ edited.clip = IF "clip" \in DOMAIN edits THEN edits.clip ELSE content.clip
      /\ edited.tags = IF "tags" \in DOMAIN edits THEN edits.tags ELSE content.tags
      /\ edited.alt = IF Desk!AltWritten(content, edits) /\ "alt" \in DOMAIN edits
                      THEN edits.alt ELSE content.alt
  BY <1>1 DEF Desk!Fields, Desk!AltWritten, Desk!Supplied
<1>5. edited \in Desk!Content
  <2>1. \A f \in Desk!Fields \ {"clip"} : edited[f] \in Desk!Of(f)
    BY <1>1, <1>3 DEF EditTyped
  <2>2. edited.clip \in Desk!Of("clip") \cup {None}
    BY <1>3, <1>4 DEF EditTyped, Desk!Fields
  <2> QED BY <1>2, <2>1, <2>2, ContentIs
<1>6. edited.tags # {}
  BY <1>4 DEF Sound, Desk!Acceptable, Desk!Supplied
<1>7. edited.clip = None <=> edited.alt = None
  <2>1. CASE "clip" \in DOMAIN edits
    <3>1. edits.clip \in Clips \ {CHOOSE c \in Clips : TRUE}
      BY <2>1 DEF EditTyped, Desk!Fields, Desk!Of
    <3>2. edited.clip # None
      BY <1>4, <2>1, <3>1, DeskConstants DEF Desk!DeskAssumption
    <3>3. edited.alt # None
      BY <1>4, <2>1 DEF Desk!Acceptable, Desk!Supplied, Desk!Asked, Desk!AltWritten
    <3> QED BY <3>2, <3>3
  <2>2. CASE "clip" \notin DOMAIN edits
    BY <1>4, <2>2 DEF Sound, Desk!AltWritten, Desk!Supplied
  <2> QED BY <2>1, <2>2
<1> QED BY <1>5, <1>6, <1>7 DEF Sound, edited

\* A step of the desk by its parts.
LEMMA DeskTyped ==
  ASSUME row' = [content |-> row'.content, status |-> row'.status],
         Sound(row'.content), row'.status \in {"pending", "accepted"},
         active' \subseteq Tags, registry' \subseteq Pairs,
         \A t \in Tabs : tab'[t] = None \/ tab'[t] \in Desk!Forms,
         \A l \in {look', listed'} : l = None
           \/ (DOMAIN l.shown = Desk!Shown /\ l.unseen \subseteq Desk!Fields),
         changes' \in 0 .. MaxChanges
  PROVE  Desk!DeskTypeOK'
<1>1. row' \in [content : Desk!Content, status : {"pending", "accepted"}]
  BY DEF Sound
<1>2. Desk!Content' = Desk!Content /\ Desk!Forms' = Desk!Forms
  BY DEF Desk!Content, Desk!Forms, Desk!Of
<1>3. row'.content.tags # {} /\ (row'.content.clip = None <=> row'.content.alt = None)
  BY DEF Sound
<1> QED BY <1>1, <1>3 DEF Desk!DeskTypeOK

LEMMA WriteTyped ==
  ASSUME DeskInv, Desk!DeskTypeOK, NEW edits, EditTyped(edits),
         Desk!Acceptable(row.content, edits), Desk!Write(edits)
  PROVE  /\ row' = [content |-> row'.content, status |-> row'.status]
         /\ Sound(row'.content) /\ row'.status \in {"pending", "accepted"}
         /\ look' = None \/ (DOMAIN look'.shown = Desk!Shown /\ look'.unseen \subseteq Desk!Fields)
<1>1. Sound(row.content) /\ row.status \in {"pending", "accepted"}
  BY DEF Desk!DeskTypeOK, Sound
<1>2. /\ row' = [content |-> row'.content, status |-> row'.status]
      /\ row'.content = Desk!Edited(row.content, edits)
      /\ row'.status \in {"pending", row.status}
  BY DEF Desk!Write, Desk!EditApp
<1>3. Sound(row'.content)
  BY <1>1, <1>2, EditedSound
<1>4. ASSUME look' # None
      PROVE  DOMAIN look'.shown = Desk!Shown /\ look'.unseen \subseteq Desk!Fields
  <2>1. /\ look # None /\ look = [shown |-> look.shown, unseen |-> look.unseen]
        /\ look' = [look EXCEPT !.unseen = @ \cup Desk!ChangedBy(row.content, edits)]
    BY <1>4 DEF DeskInv, LookTold, Desk!Write
  <2>2. DOMAIN look.shown = Desk!Shown /\ look.unseen \subseteq Desk!Fields
    BY <2>1 DEF Desk!DeskTypeOK
  <2>3. /\ look'.shown = look.shown
        /\ look'.unseen = look.unseen \cup Desk!ChangedBy(row.content, edits)
    BY <2>1
  <2>4. Desk!ChangedBy(row.content, edits) \subseteq Desk!Fields
    BY DEF Desk!ChangedBy
  <2> QED BY <2>2, <2>3, <2>4
<1> QED BY <1>1, <1>2, <1>3, <1>4

LEMMA OfferedTyped ==
  ASSUME NEW content \in Desk!Content
  PROVE  Desk!Offered(content) \in Desk!Content
<1> DEFINE kept == Desk!Offered(content)
<1>1. /\ Whole(content) /\ \A f \in Desk!Fields \ {"clip"} : content[f] \in Desk!Of(f)
      /\ content.clip \in Desk!Of("clip") \cup {None}
  BY ContentHas
<1>2. /\ Whole(kept) /\ kept.tags = content.tags \cap active
      /\ kept.facets = content.facets \cap registry
      /\ \A f \in {"description", "deep_dive", "clip", "alt"} : kept[f] = content[f]
  BY <1>1, OfferedKeeps
<1> HIDE DEF kept
<1>3. \A f \in Desk!Fields \ {"clip"} : kept[f] \in Desk!Of(f)
  BY <1>1, <1>2 DEF Desk!Fields, Desk!Of
<1> QED BY <1>1, <1>2, <1>3, ContentIs DEF kept

LEMMA DeskTypesStep ==
  DeskInv /\ PageInv /\ Desk!DeskTypeOK /\ Desk!DeskNext => Desk!DeskTypeOK'
<1> SUFFICES ASSUME DeskInv, PageInv, Desk!DeskTypeOK, Desk!DeskNext PROVE Desk!DeskTypeOK'
  OBVIOUS
<1>1. /\ row = [content |-> row.content, status |-> row.status] /\ row.content \in Desk!Content
      /\ Sound(row.content) /\ row.status \in {"pending", "accepted"}
      /\ active \subseteq Tags /\ registry \subseteq Pairs
      /\ \A t \in Tabs : tab[t] = None \/ tab[t] \in Desk!Forms
      /\ look = None \/ (DOMAIN look.shown = Desk!Shown /\ look.unseen \subseteq Desk!Fields)
      /\ listed = None \/ (DOMAIN listed.shown = Desk!Shown /\ listed.unseen \subseteq Desk!Fields)
      /\ changes \in 0 .. MaxChanges
  BY DEF Desk!DeskTypeOK, Sound
<1>2. Desk!Change => changes' \in 0 .. MaxChanges
  BY <1>1, DeskConstants DEF Desk!Change, Desk!DeskAssumption
<1>3. ASSUME NEW t \in Tabs, NEW form, tab' = [tab EXCEPT ![t] = form],
             form = None \/ form \in Desk!Forms
      PROVE  \A u \in Tabs : tab'[u] = None \/ tab'[u] \in Desk!Forms
  BY <1>1, <1>3 DEF PageInv
<1>4. ASSUME NEW t \in Tabs, Desk!RenderEditPage(t)
      PROVE  Desk!DeskTypeOK'
  <2> DEFINE form == [content |-> Desk!Offered(row.content), from |-> row.content, touched |-> {}]
  <2>1. tab' = [tab EXCEPT ![t] = form]
        /\ UNCHANGED <<row, active, registry, look, listed, changes>>
    BY <1>4 DEF Desk!RenderEditPage, Desk!form_initial
  <2>2. form \in Desk!Forms
    BY <1>1, OfferedTyped DEF Desk!Forms
  <2> HIDE DEF form
  <2>3. \A u \in Tabs : tab'[u] = None \/ tab'[u] \in Desk!Forms
    BY <1>3, <2>1, <2>2
  <2> QED BY <1>1, <2>1, <2>3, DeskTyped
<1>5. ASSUME NEW t \in Tabs, NEW edits \in Desk!Edits, Desk!SaveEditPage(t, edits)
      PROVE  Desk!DeskTypeOK'
  <2> DEFINE form == tab[t]
             posted == Desk!Posted(form.content, edits)
             sent == [f \in Desk!Fields |-> IF f # "clip" THEN posted[f] ELSE form.content.clip]
             touched == form.touched \cup (DOMAIN edits \ {"clip"})
             again == [form EXCEPT !.content = Desk!Offered(sent), !.touched = touched]
  <2>1. /\ form # None /\ changes' \in 0 .. MaxChanges /\ UNCHANGED <<active, registry, listed>>
        /\ \/ /\ Desk!Acceptable(row.content, posted) /\ Desk!Write(posted)
              /\ tab' = [tab EXCEPT ![t] = None]
           \/ tab' = [tab EXCEPT ![t] = again] /\ UNCHANGED <<row, look>>
    BY <1>2, <1>5 DEF Desk!SaveEditPage
  <2>2. form \in [content : Desk!Content, from : Desk!Content, touched : SUBSET Desk!Fields]
    BY <1>1, <2>1 DEF Desk!Forms
  <2>3. EditTyped(edits) /\ DOMAIN edits \subseteq Desk!Fields
    BY EditsTyped DEF Desk!Edits, Desk!Fields
  <2>4. EditTyped(posted)
    BY <2>2, <2>3, PostedTyped
  <2>5. CASE /\ Desk!Acceptable(row.content, posted) /\ Desk!Write(posted)
             /\ tab' = [tab EXCEPT ![t] = None]
    <3> HIDE DEF posted
    <3>1. /\ row' = [content |-> row'.content, status |-> row'.status]
          /\ Sound(row'.content) /\ row'.status \in {"pending", "accepted"}
          /\ look' = None \/ (DOMAIN look'.shown = Desk!Shown /\ look'.unseen \subseteq Desk!Fields)
      BY <2>4, <2>5, WriteTyped
    <3>2. \A u \in Tabs : tab'[u] = None \/ tab'[u] \in Desk!Forms
      BY <1>3, <2>5
    <3> QED BY <1>1, <2>1, <3>1, <3>2, DeskTyped
  <2>6. CASE tab' = [tab EXCEPT ![t] = again] /\ UNCHANGED <<row, look>>
    <3>1. sent \in Desk!Content
      <4>1. Whole(sent)
        BY DEF Whole
      <4>2. DOMAIN posted = (Desk!Fields \ {"clip"}) \cup (DOMAIN edits \cap {"clip"})
        BY PostedFields
      <4> HIDE DEF posted, form
      <4>3. sent.clip \in Desk!Of("clip") \cup {None}
        <5>1. sent.clip = form.content.clip
          BY DEF Desk!Fields
        <5> QED BY <2>2, <5>1, ContentHas
      <4>4. \A f \in Desk!Fields \ {"clip"} : sent[f] \in Desk!Of(f)
        BY <2>4, <4>2 DEF EditTyped
      <4> HIDE DEF sent
      <4> QED BY <4>1, <4>3, <4>4, ContentIs
    <3>2. Desk!Offered(sent) \in Desk!Content
      BY <3>1, OfferedTyped
    <3>3. touched \in SUBSET Desk!Fields
      BY <2>2, <2>3
    <3> HIDE DEF sent, touched, form
    <3>4. again \in Desk!Forms
      BY <2>2, <3>2, <3>3 DEF Desk!Forms
    <3> HIDE DEF again
    <3>5. \A u \in Tabs : tab'[u] = None \/ tab'[u] \in Desk!Forms
      BY <1>3, <2>6, <3>4
    <3> QED BY <1>1, <2>1, <2>6, <3>5, DeskTyped
  <2> QED BY <2>1, <2>5, <2>6
<1>6. ASSUME NEW edits \in Desk!Edits, Desk!PatchApi(edits)
      PROVE  Desk!DeskTypeOK'
  <2>1. /\ Desk!Acceptable(row.content, edits) /\ Desk!Write(edits)
        /\ UNCHANGED <<active, registry, tab, listed>> /\ changes' \in 0 .. MaxChanges
    BY <1>2, <1>6 DEF Desk!PatchApi
  <2>2. /\ row' = [content |-> row'.content, status |-> row'.status]
        /\ Sound(row'.content) /\ row'.status \in {"pending", "accepted"}
        /\ look' = None \/ (DOMAIN look'.shown = Desk!Shown /\ look'.unseen \subseteq Desk!Fields)
    BY <2>1, EditsTyped, WriteTyped
  <2> QED BY <1>1, <2>1, <2>2, DeskTyped
<1>7. CASE Desk!OpenReview
  <2>1. /\ look' = [shown |-> [f \in Desk!Shown |-> row.content[f]], unseen |-> {}]
        /\ UNCHANGED <<row, active, registry, tab, listed, changes>>
    BY <1>7 DEF Desk!OpenReview
  <2>2. DOMAIN look'.shown = Desk!Shown /\ look'.unseen \subseteq Desk!Fields
    BY <2>1
  <2> QED BY <1>1, <2>1, <2>2, DeskTyped
<1>8. CASE Desk!AcceptReviewed
  <2>1. /\ listed' = look /\ look' = None /\ changes' \in 0 .. MaxChanges
        /\ row' = [row EXCEPT !.status = "accepted"] /\ UNCHANGED <<active, registry, tab>>
    BY <1>2, <1>8 DEF Desk!AcceptReviewed
  <2>2. /\ row' = [content |-> row'.content, status |-> row'.status]
        /\ row'.content = row.content /\ row'.status = "accepted"
    BY <1>1, <2>1
  <2> QED BY <1>1, <2>1, <2>2, DeskTyped
<1>9. CASE Desk!Retire
  <2>1. /\ changes' \in 0 .. MaxChanges /\ active' \subseteq active /\ registry' \subseteq registry
        /\ UNCHANGED <<row, tab, look, listed>>
    BY <1>2, <1>9 DEF Desk!Retire
  <2> QED BY <1>1, <2>1, DeskTyped
<1> QED BY <1>4, <1>5, <1>6, <1>7, <1>8, <1>9 DEF Desk!DeskNext

LEMMA DeskTypesHold == Spec => [](part = "desk" => Desk!DeskTypeOK)
<1> DEFINE Inv == part = "desk" => Desk!DeskTypeOK
           Known == part = "desk" => DeskInv /\ PageInv
<1>1. Init => Inv
  <2> SUFFICES ASSUME Init, part = "desk" PROVE Desk!DeskTypeOK
    OBVIOUS
  <2> DEFINE clips == Clips \ {CHOOSE d \in Clips : TRUE}
             first == CHOOSE c \in clips : TRUE
             pair == CHOOSE p \in Pairs : TRUE
             text == CHOOSE a \in Alts : TRUE
  <2>1. Desk!DeskInit
    BY DEF Init
  <2>2. /\ Tags # {} /\ Pairs # {} /\ clips # {} /\ Alts # {} /\ None \notin clips \cup Alts
        /\ MaxChanges \in Nat
    BY DeskConstants DEF Desk!DeskAssumption
  <2>3. first \in clips /\ pair \in Pairs /\ text \in Alts
    BY <2>2
  <2>4. PICK c \in {None, first} :
          row = [content |-> [description |-> "plain", deep_dive |-> "plain", tags |-> Tags,
                              facets |-> {pair}, clip |-> c,
                              alt |-> IF c = None THEN None ELSE text],
                 status |-> "pending"]
    BY <2>1 DEF Desk!DeskInit
  <2>5. /\ active = Tags /\ registry = Pairs /\ tab = [t \in Tabs |-> None]
        /\ look = None /\ listed = None /\ changes = 0
    BY <2>1 DEF Desk!DeskInit
  <2> HIDE DEF first, pair, text, clips
  <2>6. row.content \in Desk!Content
    <3>1. c \in clips \cup {None} /\ (IF c = None THEN None ELSE text) \in Alts \cup {None}
          /\ {pair} \in SUBSET Pairs
      BY <2>3
    <3> QED BY <2>4, <3>1 DEF Desk!Content, Desk!Of, Desk!Texts, clips
  <2>7. row.content.tags # {} /\ (row.content.clip = None <=> row.content.alt = None)
    BY <2>2, <2>3, <2>4
  <2>8. row \in [content : Desk!Content, status : {"pending", "accepted"}]
    BY <2>4, <2>6
  <2> QED BY <2>2, <2>5, <2>7, <2>8 DEF Desk!DeskTypeOK
<1>2. Known /\ Inv /\ [Next]_vars => Inv'
  <2> SUFFICES ASSUME Known, Inv, [Next]_vars, part' = "desk" PROVE Desk!DeskTypeOK'
    OBVIOUS
  <2>1. part = "desk" /\ (Desk!DeskNext \/ UNCHANGED deskState)
    BY DeskSteps
  <2>2. CASE UNCHANGED deskState
    BY <2>1, <2>2 DEF deskState, Desk!DeskTypeOK
  <2> QED BY <2>1, <2>2, DeskTypesStep
<1>3. Spec => []Known
  <2>1. (part = "desk" => DeskInv) /\ (part = "desk" => PageInv) => Known
    OBVIOUS
  <2> QED BY <2>1, DeskHolds, FormsHold, PTL
<1> QED BY <1>1, <1>2, <1>3, PTL DEF Spec

-------------------------------------------------------------------------------
(***************************************************************************)
(* The demo clip.  A calm edit is alone: what it loaded is the row as it   *)
(* is, and the storage holds the file of the clip it loaded until it       *)
(* touches it, and of the clip it will write from then on.                 *)
(***************************************************************************)
Paired(columns) == columns.clip = None <=> columns.alt = None
Stored(c) == {c} \ {None}

CalmTask(w) ==
  /\ \A v \in Workers : task[v] # Clip!Rest => v = w
  /\ IF task[w].step = "write" THEN files = Stored(task[w].write.clip)
     ELSE task[w].seen = Clip!Loaded /\ files = Stored(clip)

ClipInv ==
  /\ Clip!ClipTypeOK
  /\ clip = None <=> alt = None
  /\ \A w \in Workers :
       /\ task[w].step \in {"replace", "alt", "remove"} => Paired(task[w].seen)
       /\ task[w].step = "write" => Paired(task[w].write)
  /\ calm /\ Clip!Serving = {} => files = Stored(clip)
  /\ calm => \A w \in Workers : task[w] # Clip!Rest => CalmTask(w)

LEMMA TaskType ==
  ASSUME Clip!ClipTypeOK, NEW w \in Workers
  PROVE  /\ task[w] = Clip!Rest <=> task[w].step = "idle"
         /\ task[w].step \in {"idle", "replace", "alt", "remove", "write"}
         /\ task[w].step \in {"replace", "alt", "remove"} => task[w].seen \in Clip!Columns
         /\ task[w].step \in {"replace", "alt"} => task[w].ask \in Alts
         /\ task[w].step = "write" => task[w].write \in Clip!Columns
BY DEF Clip!ClipTypeOK, Clip!Tasks, Clip!Rest

LEMMA ClipOpens ==
  ASSUME ClipInv, NEW w \in Workers, NEW t \in Clip!Tasks, Clip!OpenEdit(w, t),
         t.step \in {"replace", "alt", "remove"}, t.seen = Clip!Loaded
  PROVE  ClipInv'
<1>1. /\ task' = [task EXCEPT ![w] = t] /\ task[w] = Clip!Rest
      /\ calm' = (calm /\ Clip!Serving = {})
      /\ UNCHANGED <<clip, alt, files, used>>
  BY DEF Clip!OpenEdit
<1>2. /\ task \in [Workers -> Clip!Tasks] /\ task' \in [Workers -> Clip!Tasks]
      /\ task'[w] = t /\ \A v \in Workers \ {w} : task'[v] = task[v]
  BY <1>1 DEF ClipInv, Clip!ClipTypeOK
<1>3. Clip!ClipTypeOK'
  BY <1>1, <1>2 DEF ClipInv, Clip!ClipTypeOK
<1>4. t # Clip!Rest
  BY DEF Clip!Rest
<1>5. Paired(t.seen)
  BY DEF ClipInv, Paired, Clip!Loaded
<1>6. ASSUME NEW v \in Workers
      PROVE  /\ task'[v].step \in {"replace", "alt", "remove"} => Paired(task'[v].seen)
             /\ task'[v].step = "write" => Paired(task'[v].write)
  BY <1>2, <1>5 DEF ClipInv
<1>7. ~ (calm' /\ (Clip!Serving = {})')
  BY <1>2, <1>4 DEF Clip!Serving
<1>8. ASSUME calm', NEW v \in Workers, task'[v] # Clip!Rest
      PROVE  CalmTask(v)'
  <2>1. calm /\ \A u \in Workers : task[u] = Clip!Rest
    BY <1>1, <1>8 DEF Clip!Serving
  <2>2. v = w /\ \A u \in Workers \ {w} : task'[u] = Clip!Rest
    BY <1>2, <1>8, <2>1
  <2>3. files = Stored(clip)
    BY <2>1 DEF ClipInv, Clip!Serving
  <2> QED BY <1>1, <1>2, <1>4, <2>2, <2>3 DEF CalmTask, Stored, Clip!Loaded
<1> QED BY <1>1, <1>3, <1>6, <1>7, <1>8, Zenon DEF ClipInv, Paired, Stored

\* The storage is touched and the columns to write are known.
LEMMA ClipTouched ==
  ASSUME ClipInv, NEW w \in Workers, NEW columns \in Clip!Columns, Paired(columns),
         task[w].step \in {"replace", "alt", "remove"},
         Clip!WillWrite(w, columns), UNCHANGED <<clip, alt, calm>>,
         used' \subseteq Clips, files' \subseteq used',
         task[w].seen = Clip!Loaded /\ files = Stored(clip) => files' = Stored(columns.clip)
  PROVE  ClipInv'
<1> DEFINE t == [step |-> "write", write |-> columns]
<1>1. t \in Clip!Tasks /\ t # Clip!Rest
  BY DEF Clip!Tasks, Clip!Rest
<1>2. /\ task \in [Workers -> Clip!Tasks] /\ task' \in [Workers -> Clip!Tasks]
      /\ task'[w] = t /\ \A v \in Workers \ {w} : task'[v] = task[v]
  BY <1>1 DEF ClipInv, Clip!ClipTypeOK, Clip!WillWrite
<1>3. Clip!ClipTypeOK'
  BY <1>1, <1>2 DEF ClipInv, Clip!ClipTypeOK
<1>4. ASSUME NEW v \in Workers
      PROVE  /\ task'[v].step \in {"replace", "alt", "remove"} => Paired(task'[v].seen)
             /\ task'[v].step = "write" => Paired(task'[v].write)
  BY <1>2 DEF ClipInv
<1>5. (Clip!Serving # {})'
  BY <1>1, <1>2 DEF Clip!Serving
<1>6. ASSUME calm', NEW v \in Workers, task'[v] # Clip!Rest
      PROVE  CalmTask(v)'
  <2>1. task[w] # Clip!Rest
    BY DEF Clip!Rest
  <2>2. CalmTask(w)
    BY <1>6, <2>1 DEF ClipInv
  <2>3. v = w /\ files' = Stored(columns.clip)
    BY <1>2, <1>6, <2>2 DEF CalmTask
  <2>4. \A u \in Workers : task'[u] # Clip!Rest => u = w
    BY <1>2, <2>2 DEF CalmTask
  <2> QED BY <1>2, <2>3, <2>4 DEF CalmTask
<1> QED BY <1>3, <1>4, <1>5, <1>6, Zenon DEF ClipInv

\* An edit ends, with what the storage then holds if it was calm.
LEMMA ClipEnds ==
  ASSUME ClipInv, NEW w \in Workers, task[w] # Clip!Rest,
         task' = [task EXCEPT ![w] = Clip!Rest],
         clip' \in Clips \cup {None}, alt' \in Alts \cup {None}, clip' = None <=> alt' = None,
         UNCHANGED <<files, used>>, calm' \in BOOLEAN, calm' => calm,
         calm' /\ CalmTask(w) => files = Stored(clip')
  PROVE  ClipInv'
<1>1. Clip!Rest \in Clip!Tasks /\ Clip!Rest.step = "idle"
  BY DEF Clip!Tasks, Clip!Rest
<1>2. /\ task' \in [Workers -> Clip!Tasks]
      /\ task'[w] = Clip!Rest /\ \A v \in Workers \ {w} : task'[v] = task[v]
  BY <1>1 DEF ClipInv, Clip!ClipTypeOK
<1>3. Clip!ClipTypeOK'
  BY <1>2 DEF ClipInv, Clip!ClipTypeOK
<1>4. ASSUME NEW v \in Workers
      PROVE  /\ task'[v].step \in {"replace", "alt", "remove"} => Paired(task'[v].seen)
             /\ task'[v].step = "write" => Paired(task'[v].write)
  BY <1>1, <1>2 DEF ClipInv
<1>5. ASSUME calm' PROVE CalmTask(w) /\ \A v \in Workers : task'[v] = Clip!Rest
  BY <1>2, <1>5 DEF ClipInv, CalmTask
<1>6. calm' => files' = Stored(clip')
  BY <1>5
<1> QED BY <1>3, <1>4, <1>5, <1>6, Zenon DEF ClipInv, Stored

LEMMA ClipStep == ClipInv /\ Clip!ClipNext => ClipInv'
<1> SUFFICES ASSUME ClipInv, NEW w \in Workers,
                    \/ Clip!OpenClipEdit(w)
                    \/ \E new \in Clips : Clip!ReplaceClip(w, new)
                    \/ Clip!RemoveClip(w) \/ Clip!EditClipAltOnly(w)
                    \/ Clip!WriteClip(w) \/ Clip!DropEdit(w)
             PROVE  ClipInv'
  BY DEF Clip!ClipNext
<1>1. Clip!ClipTypeOK
  BY DEF ClipInv
<1>2. None \notin Clips \cup Alts
  BY ClipConstants DEF Clip!ClipAssumption
<1>3. Clip!Loaded \in Clip!Columns
  BY <1>1 DEF Clip!ClipTypeOK, Clip!Loaded, Clip!Columns
<1>4. CASE Clip!OpenClipEdit(w)
  <2>1. PICK t \in Clip!Tasks : /\ Clip!OpenEdit(w, t) /\ t.seen = Clip!Loaded
                                /\ t.step \in {"replace", "alt", "remove"}
    <3>1. ASSUME NEW kind \in {"replace", "alt"}, NEW ask \in Alts
          PROVE  [step |-> kind, seen |-> Clip!Loaded, ask |-> ask] \in Clip!Tasks
      BY <1>3 DEF Clip!Tasks
    <3>2. [step |-> "remove", seen |-> Clip!Loaded] \in Clip!Tasks
      BY <1>3 DEF Clip!Tasks
    <3> QED BY <1>4, <3>1, <3>2 DEF Clip!OpenClipEdit
  <2> QED BY <2>1, ClipOpens
<1>5. ASSUME NEW new \in Clips, Clip!ReplaceClip(w, new)
      PROVE  ClipInv'
  <2> DEFINE columns == [clip |-> new, alt |-> task[w].ask]
  <2>1. columns \in Clip!Columns /\ Paired(columns)
    BY <1>1, <1>2, <1>5, TaskType DEF Clip!ReplaceClip, Clip!Columns, Paired
  <2>2. /\ task[w].step = "replace" /\ UNCHANGED <<clip, alt, calm>>
        /\ files' = (files \ {task[w].seen.clip}) \cup {new} /\ used' = used \cup {new}
        /\ Clip!WillWrite(w, columns)
    BY <1>5 DEF Clip!ReplaceClip
  <2>3. used' \subseteq Clips /\ files' \subseteq used'
    BY <1>1, <2>2 DEF Clip!ClipTypeOK
  <2>4. task[w].seen = Clip!Loaded /\ files = Stored(clip) => files' = Stored(columns.clip)
    BY <1>2, <2>2 DEF Stored, Clip!Loaded
  <2> QED BY <2>1, <2>2, <2>3, <2>4, ClipTouched
<1>6. CASE Clip!RemoveClip(w)
  <2> DEFINE columns == [clip |-> None, alt |-> None]
  <2>1. columns \in Clip!Columns /\ Paired(columns)
    BY DEF Clip!Columns, Paired
  <2>2. /\ task[w].step = "remove" /\ UNCHANGED <<clip, alt, used, calm>>
        /\ files' = files \ {task[w].seen.clip} /\ Clip!WillWrite(w, columns)
    BY <1>6 DEF Clip!RemoveClip
  <2>3. used' \subseteq Clips /\ files' \subseteq used'
    BY <1>1, <2>2 DEF Clip!ClipTypeOK
  <2>4. task[w].seen = Clip!Loaded /\ files = Stored(clip) => files' = Stored(columns.clip)
    BY <2>2 DEF Stored, Clip!Loaded
  <2> QED BY <2>1, <2>2, <2>3, <2>4, ClipTouched
<1>7. CASE Clip!EditClipAltOnly(w)
  <2> DEFINE columns == [clip |-> task[w].seen.clip, alt |-> task[w].ask]
  <2>1. columns \in Clip!Columns /\ Paired(columns)
    BY <1>1, <1>2, <1>7, TaskType DEF Clip!EditClipAltOnly, Clip!Columns, Paired
  <2>2. /\ task[w].step = "alt" /\ UNCHANGED <<clip, alt, files, used, calm>>
        /\ Clip!WillWrite(w, columns)
    BY <1>7 DEF Clip!EditClipAltOnly
  <2>3. used' \subseteq Clips /\ files' \subseteq used'
    BY <1>1, <2>2 DEF Clip!ClipTypeOK
  <2>4. task[w].seen = Clip!Loaded /\ files = Stored(clip) => files' = Stored(columns.clip)
    BY <2>2 DEF Clip!Loaded
  <2> QED BY <2>1, <2>2, <2>3, <2>4, ClipTouched
<1>8. CASE Clip!WriteClip(w)
  <2>1. /\ task[w].step = "write" /\ clip' = task[w].write.clip /\ alt' = task[w].write.alt
        /\ task' = [task EXCEPT ![w] = Clip!Rest] /\ UNCHANGED <<files, used, calm>>
    BY <1>8 DEF Clip!WriteClip
  <2>2. task[w] # Clip!Rest /\ task[w].write \in Clip!Columns /\ Paired(task[w].write)
    BY <1>1, <2>1, TaskType DEF ClipInv
  <2>3. clip' \in Clips \cup {None} /\ alt' \in Alts \cup {None} /\ (clip' = None <=> alt' = None)
    BY <2>1, <2>2 DEF Clip!Columns, Paired
  <2>4. CalmTask(w) => files = Stored(clip')
    BY <2>1 DEF CalmTask
  <2> QED BY <1>1, <2>1, <2>2, <2>3, <2>4, ClipEnds DEF Clip!ClipTypeOK
<1>9. CASE Clip!DropEdit(w)
  <2>1. /\ task[w] # Clip!Rest /\ task' = [task EXCEPT ![w] = Clip!Rest]
        /\ calm' = (calm /\ task[w].step # "write") /\ UNCHANGED <<clip, alt, files, used>>
    BY <1>9 DEF Clip!DropEdit
  <2>2. calm' /\ CalmTask(w) => files = Stored(clip')
    BY <2>1 DEF CalmTask
  <2>3. calm' \in BOOLEAN /\ (calm' => calm)
    BY <2>1
  <2> QED BY <1>1, <2>1, <2>2, <2>3, ClipEnds DEF Clip!ClipTypeOK, ClipInv
<1> QED BY <1>4, <1>5, <1>6, <1>7, <1>8, <1>9

LEMMA ClipHolds == Spec => [](part = "clip" => ClipInv)
<1> DEFINE Inv == part = "clip" => ClipInv
<1>1. Init => Inv
  <2> SUFFICES ASSUME Init, part = "clip" PROVE ClipInv
    OBVIOUS
  <2>1. Clip!ClipInit
    BY DEF Init
  <2>2. None \notin Clips \cup Alts
    BY ClipConstants DEF Clip!ClipAssumption
  <2>3. Clip!Rest \in Clip!Tasks /\ Clip!Rest.step = "idle"
    BY DEF Clip!Tasks, Clip!Rest
  <2>4. Clip!ClipTypeOK
    BY <2>1, <2>3 DEF Clip!ClipInit, Clip!ClipTypeOK
  <2> QED BY <2>1, <2>2, <2>3, <2>4 DEF Clip!ClipInit, ClipInv, Stored
<1>2. Inv /\ [Next]_vars => Inv'
  <2> SUFFICES ASSUME Inv, [Next]_vars, part' = "clip" PROVE ClipInv'
    OBVIOUS
  <2>1. part = "clip" /\ (Clip!ClipNext \/ UNCHANGED clipState)
    BY DEF Next, NextEdit, NextRead, vars, editState
  <2>2. CASE UNCHANGED clipState
    BY <2>1, <2>2 DEF clipState, ClipInv, CalmTask, Clip!ClipTypeOK, Clip!Serving, Clip!Loaded,
                      Paired, Stored
  <2> QED BY <2>1, <2>2, ClipStep
<1> QED BY <1>1, <1>2, PTL DEF Spec

\* As long as edits come one at a time and none fails half-way, the storage holds the file
\* of the clip and no other; and a clip always has its alt text (_apply_clip_edit).
THEOREM ClipStored == Spec => []ClipStoredWhenCalm
<1>1. (part = "clip" => ClipInv) => ClipStoredWhenCalm
  BY DEF ClipStoredWhenCalm, Clip!ClipStoredWhenCalm, ClipInv, Stored
<1> QED BY <1>1, ClipHolds, PTL

-------------------------------------------------------------------------------
(***************************************************************************)
(* The tags.  An edit during which no other has committed deletes what the *)
(* snapshot of its DELETE showed, and that is all there is.                *)
(***************************************************************************)
InTheWay == {"deleting", "deleted", "inserted"}

LinkInv ==
  /\ Tagging!LinksTypeOK
  /\ rows # {}
  /\ \A w \in Workers : edit[w].step \in InTheWay /\ edit[w].alone => edit[w].victims = rows

LEMMA EditType ==
  ASSUME Tagging!LinksTypeOK, NEW w \in Workers, edit[w].step # "idle"
  PROVE  /\ edit[w] = [step |-> edit[w].step, ask |-> edit[w].ask,
                       victims |-> edit[w].victims, alone |-> edit[w].alone]
         /\ edit[w].step \in {"asked", "differs"} \cup InTheWay
         /\ edit[w].ask \in TagAsks /\ edit[w].victims \subseteq Labels
         /\ edit[w].alone \in BOOLEAN
BY DEF Tagging!LinksTypeOK, Tagging!LinkEdits, Tagging!Quiet, InTheWay

\* A step that commits nothing, and leaves the edit of w in order.
LEMMA LinksUncommitted ==
  ASSUME LinkInv, NEW w \in Workers, NEW e \in Tagging!LinkEdits,
         edit' = [edit EXCEPT ![w] = e], UNCHANGED rows,
         e.step \in InTheWay /\ e.alone => e.victims = rows
  PROVE  LinkInv'
BY DEF LinkInv, Tagging!LinksTypeOK

LEMMA LinksCommit ==
  ASSUME LinkInv, NEW w \in Workers, Tagging!CommitLinks(w)
  PROVE  LinkInv'
<1>1. /\ edit[w].step = "inserted" /\ rows' = (rows \ edit[w].victims) \cup edit[w].ask
      /\ edit' = [v \in Workers |->
                    IF v = w THEN Tagging!Quiet
                    ELSE IF Tagging!InFlight(v) THEN [edit[v] EXCEPT !.alone = FALSE]
                         ELSE edit[v]]
  BY DEF Tagging!CommitLinks
<1>2. edit[w].ask \in TagAsks /\ rows \subseteq Labels
  BY <1>1, EditType DEF LinkInv, Tagging!LinksTypeOK
<1>3. rows' # {} /\ rows' \subseteq Labels
  BY <1>1, <1>2 DEF TagAsks
<1>4. ASSUME NEW v \in Workers
      PROVE  /\ edit'[v] \in Tagging!LinkEdits
             /\ ~ (edit'[v].step \in InTheWay /\ edit'[v].alone)
  <2>1. edit[v] \in Tagging!LinkEdits
    BY DEF LinkInv, Tagging!LinksTypeOK
  <2>2. CASE v # w /\ Tagging!InFlight(v)
    <3>1. edit'[v] = [edit[v] EXCEPT !.alone = FALSE]
      BY <1>1, <2>2
    <3>2. edit[v] \in [step : {"asked", "differs", "deleting", "deleted", "inserted"},
                       ask : TagAsks, victims : SUBSET Labels, alone : BOOLEAN]
      BY <2>1, <2>2 DEF Tagging!LinkEdits, Tagging!InFlight
    <3> QED BY <3>1, <3>2 DEF Tagging!LinkEdits
  <2>3. CASE v = w \/ ~ Tagging!InFlight(v)
    <3>1. edit'[v] = Tagging!Quiet
      BY <1>1, <2>3 DEF Tagging!InFlight
    <3> QED BY <3>1 DEF Tagging!Quiet, Tagging!LinkEdits, InTheWay
  <2> QED BY <2>2, <2>3
<1>5. edit' \in [Workers -> Tagging!LinkEdits]
  BY <1>1, <1>4
<1> QED BY <1>3, <1>4, <1>5 DEF LinkInv, Tagging!LinksTypeOK

LEMMA LinksStep == LinkInv /\ Tagging!LinksNext => LinkInv'
<1> SUFFICES ASSUME LinkInv, NEW w \in Workers,
                    \/ \E ask \in TagAsks : Tagging!Ask(w, ask)
                    \/ Tagging!Compare(w) \/ Tagging!SnapshotVictims(w)
                    \/ Tagging!DeleteRows(w) \/ Tagging!InsertRows(w)
                    \/ Tagging!CommitLinks(w) \/ Tagging!RollBackLinks(w)
             PROVE  LinkInv'
  BY DEF Tagging!LinksNext
<1>1. Tagging!Quiet \in Tagging!LinkEdits /\ Tagging!Quiet.step \notin InTheWay
  BY DEF Tagging!LinkEdits, Tagging!Quiet, InTheWay
<1>2. CASE edit' = [edit EXCEPT ![w] = Tagging!Quiet] /\ UNCHANGED rows
  BY <1>1, <1>2, LinksUncommitted
<1>3. ASSUME NEW ask \in TagAsks, Tagging!Ask(w, ask)
      PROVE  LinkInv'
  <2> DEFINE e == [step |-> "asked", ask |-> ask, victims |-> {}, alone |-> TRUE]
  <2>1. e \in Tagging!LinkEdits /\ e.step \notin InTheWay
    BY DEF Tagging!LinkEdits, InTheWay
  <2>2. edit' = [edit EXCEPT ![w] = e] /\ UNCHANGED rows
    BY <1>3 DEF Tagging!Ask
  <2> HIDE DEF e
  <2> QED BY <2>1, <2>2, LinksUncommitted
<1>4. ASSUME NEW step \in {"differs"} \cup InTheWay, NEW victims \in SUBSET Labels,
             edit[w].step # "idle", UNCHANGED rows,
             edit' = [edit EXCEPT ![w] = [edit[w] EXCEPT !.step = step, !.victims = victims]],
             step \in InTheWay /\ edit[w].alone => victims = rows
      PROVE  LinkInv'
  <2> DEFINE e == [edit[w] EXCEPT !.step = step, !.victims = victims]
  <2>1. edit[w] \in [step : {"asked", "differs", "deleting", "deleted", "inserted"},
                    ask : TagAsks, victims : SUBSET Labels, alone : BOOLEAN]
    BY <1>4 DEF LinkInv, Tagging!LinksTypeOK, Tagging!LinkEdits, Tagging!Quiet
  <2>2. e \in Tagging!LinkEdits
    BY <1>4, <2>1 DEF Tagging!LinkEdits, InTheWay
  <2>3. e.step = step /\ e.victims = victims /\ e.alone = edit[w].alone
    BY <2>1
  <2>4. edit' = [edit EXCEPT ![w] = e]
    BY <1>4
  <2> HIDE DEF e
  <2> QED BY <1>4, <2>2, <2>3, <2>4, LinksUncommitted
<1>5. ASSUME NEW from, NEW to, edit[w].step = from, from # "idle",
             edit' = [edit EXCEPT ![w].step = to]
      PROVE  edit' = [edit EXCEPT ![w] = [edit[w] EXCEPT !.step = to,
                                                         !.victims = edit[w].victims]]
  <2>1. [edit[w] EXCEPT !.step = to] = [edit[w] EXCEPT !.step = to, !.victims = edit[w].victims]
    BY <1>5, EditType DEF LinkInv
  <2> QED BY <1>5, <2>1
<1>6. CASE Tagging!Compare(w)
  <2>1. CASE edit[w].step = "asked" /\ Tagging!Step(w, "asked", "differs") /\ UNCHANGED rows
    <3>1. edit[w].victims \in SUBSET Labels
      BY <2>1, EditType DEF LinkInv
    <3>2. edit[w].step = "asked" /\ edit' = [edit EXCEPT ![w].step = "differs"]
      BY <2>1 DEF Tagging!Step
    <3>3. edit' = [edit EXCEPT ![w] = [edit[w] EXCEPT !.step = "differs",
                                                     !.victims = edit[w].victims]]
      BY <1>5, <3>2
    <3> QED BY <1>4, <2>1, <3>1, <3>2, <3>3 DEF InTheWay
  <2> QED BY <1>2, <1>6, <2>1 DEF Tagging!Compare
<1>7. CASE Tagging!SnapshotVictims(w)
  <2>1. /\ edit[w].step = "differs" /\ UNCHANGED rows /\ rows \in SUBSET Labels
        /\ edit' = [edit EXCEPT ![w] = [edit[w] EXCEPT !.step = "deleting", !.victims = rows]]
    BY <1>7 DEF Tagging!SnapshotVictims, LinkInv, Tagging!LinksTypeOK
  <2> QED BY <1>4, <2>1 DEF InTheWay
<1>8. CASE Tagging!DeleteRows(w)
  <2> DEFINE gone == edit[w].victims \cap rows
  <2>1. /\ edit[w].step = "deleting" /\ UNCHANGED rows
        /\ edit' = [edit EXCEPT ![w] = [edit[w] EXCEPT !.step = "deleted", !.victims = gone]]
    BY <1>8 DEF Tagging!DeleteRows, LinkInv, Tagging!LinksTypeOK
  <2>2. gone \in SUBSET Labels /\ (edit[w].alone => gone = rows)
    BY <2>1, EditType DEF LinkInv, InTheWay
  <2> HIDE DEF gone
  <2> QED BY <1>4, <2>1, <2>2 DEF InTheWay
<1>9. CASE Tagging!InsertRows(w)
  <2>1. CASE edit[w].step = "deleted" /\ Tagging!Step(w, "deleted", "inserted") /\ UNCHANGED rows
    <3>1. edit[w].victims \in SUBSET Labels /\ (edit[w].alone => edit[w].victims = rows)
      BY <2>1, EditType DEF LinkInv, InTheWay
    <3>2. edit[w].step = "deleted" /\ edit' = [edit EXCEPT ![w].step = "inserted"]
      BY <2>1 DEF Tagging!Step
    <3>3. edit' = [edit EXCEPT ![w] = [edit[w] EXCEPT !.step = "inserted",
                                                     !.victims = edit[w].victims]]
      BY <1>5, <3>2
    <3> QED BY <1>4, <2>1, <3>1, <3>2, <3>3 DEF InTheWay
  <2> QED BY <1>2, <1>9, <2>1 DEF Tagging!InsertRows
<1>10. CASE Tagging!CommitLinks(w)
  BY <1>10, LinksCommit
<1>11. CASE Tagging!RollBackLinks(w)
  BY <1>2, <1>11 DEF Tagging!RollBackLinks
<1> QED BY <1>3, <1>6, <1>7, <1>8, <1>9, <1>10, <1>11

\* An edit that no other overlaps replaces the set by what it asked for.
LEMMA LinksReplaced == LinkInv /\ Tagging!LinksNext => Tagging!EditReplaces
<1> SUFFICES ASSUME LinkInv, Tagging!LinksNext, NEW w \in Workers,
                    edit[w].step = "inserted", edit[w].alone,
                    edit'[w] = Tagging!Quiet, rows' # rows
             PROVE  rows' = edit[w].ask
  BY DEF Tagging!EditReplaces
<1>1. PICK v \in Workers : Tagging!CommitLinks(v)
  BY DEF Tagging!LinksNext, Tagging!Ask, Tagging!Compare, Tagging!SnapshotVictims,
         Tagging!DeleteRows, Tagging!InsertRows, Tagging!RollBackLinks
<1>2. v = w
  <2> SUFFICES ASSUME v # w PROVE FALSE
    OBVIOUS
  <2>1. edit'[w] = [edit[w] EXCEPT !.alone = FALSE]
    BY <1>1 DEF Tagging!CommitLinks, Tagging!InFlight, Tagging!Quiet
  <2>2. edit'[w].step = "inserted"
    BY <2>1, EditType DEF LinkInv
  <2> QED BY <2>2 DEF Tagging!Quiet
<1>3. edit[w].victims = rows
  BY DEF LinkInv, InTheWay
<1> QED BY <1>1, <1>2, <1>3 DEF Tagging!CommitLinks

LEMMA LinksSteps ==
  ASSUME [Next]_vars, part' = "tags"
  PROVE  part = "tags" /\ (Tagging!LinksNext \/ UNCHANGED linkState)
BY DEF Next, NextEdit, NextRead, vars, editState

LEMMA LinksHold == Spec => [](part = "tags" => LinkInv)
<1> DEFINE Inv == part = "tags" => LinkInv
<1>1. Init => Inv
  <2> SUFFICES ASSUME Init, part = "tags" PROVE LinkInv
    OBVIOUS
  <2>1. Tagging!LinksInit
    BY DEF Init
  <2> QED BY <2>1 DEF Tagging!LinksInit, LinkInv, Tagging!LinksTypeOK, Tagging!LinkEdits,
                      Tagging!Quiet, TagAsks, InTheWay
<1>2. Inv /\ [Next]_vars => Inv'
  <2> SUFFICES ASSUME Inv, [Next]_vars, part' = "tags" PROVE LinkInv'
    OBVIOUS
  <2>1. CASE UNCHANGED linkState
    BY LinksSteps, <2>1 DEF linkState, LinkInv, Tagging!LinksTypeOK
  <2> QED BY LinksSteps, <2>1, LinksStep
<1> QED BY <1>1, <1>2, PTL DEF Spec

\* No reader ever finds a submitted application without a tag, and an edit of the tags
\* that no other overlaps replaces the set (_set_tags).
THEOREM TagsReplaced == Spec => TagsHold
<1>1. (part = "tags" => LinkInv) /\ (part = "tags" => LinkInv)' /\ [Next]_vars =>
        [part = "tags" => Tagging!EditReplaces /\ Tagging!NeverUntagged']_linkState
  <2> SUFFICES ASSUME part = "tags" => LinkInv, (part = "tags" => LinkInv)', [Next]_vars,
                      part = "tags", ~ UNCHANGED linkState
               PROVE  Tagging!EditReplaces /\ Tagging!NeverUntagged'
    OBVIOUS
  <2>1. part' = "tags"
    BY DEF Next, NextEdit, NextRead, vars
  <2>2. Tagging!LinksNext /\ LinkInv /\ LinkInv'
    BY <2>1, LinksSteps
  <2> QED BY <2>2, LinksReplaced DEF LinkInv, Tagging!NeverUntagged
<1> QED BY <1>1, LinksHold, PTL DEF Spec, TagsHold

-------------------------------------------------------------------------------
(***************************************************************************)
(* The values of a facet, of which an application may have none.           *)
(***************************************************************************)
LEMMA FacetEdit ==
  ASSUME Facet!LinksTypeOK, NEW w \in Workers
  PROVE  /\ edit[w] \in Facet!LinkEdits
         /\ edit[w].step # "idle" =>
              edit[w] \in [step : {"asked", "differs", "deleting", "deleted", "inserted"},
                           ask : FacetAsks, victims : SUBSET Labels, alone : BOOLEAN]
BY DEF Facet!LinksTypeOK, Facet!LinkEdits, Facet!Quiet

LEMMA FacetUncommitted ==
  ASSUME Facet!LinksTypeOK, NEW w \in Workers, NEW e \in Facet!LinkEdits,
         edit' = [edit EXCEPT ![w] = e], UNCHANGED rows
  PROVE  Facet!LinksTypeOK'
BY DEF Facet!LinksTypeOK

LEMMA FacetCommit ==
  ASSUME Facet!LinksTypeOK, NEW w \in Workers, Facet!CommitLinks(w)
  PROVE  Facet!LinksTypeOK'
<1>1. /\ edit[w].step = "inserted" /\ rows' = (rows \ edit[w].victims) \cup edit[w].ask
      /\ edit' = [v \in Workers |->
                    IF v = w THEN Facet!Quiet
                    ELSE IF Facet!InFlight(v) THEN [edit[v] EXCEPT !.alone = FALSE]
                         ELSE edit[v]]
  BY DEF Facet!CommitLinks
<1>2. edit[w].ask \in FacetAsks
  BY <1>1, FacetEdit
<1>3. rows' \subseteq Labels
  BY <1>1, <1>2 DEF FacetAsks, Facet!LinksTypeOK
<1>4. ASSUME NEW v \in Workers
      PROVE  edit'[v] \in Facet!LinkEdits
  <2>1. CASE v # w /\ Facet!InFlight(v)
    <3>1. edit'[v] = [edit[v] EXCEPT !.alone = FALSE]
      BY <1>1, <2>1
    <3>2. edit[v] \in [step : {"asked", "differs", "deleting", "deleted", "inserted"},
                       ask : FacetAsks, victims : SUBSET Labels, alone : BOOLEAN]
      BY <2>1, FacetEdit DEF Facet!LinkEdits, Facet!InFlight
    <3> QED BY <3>1, <3>2 DEF Facet!LinkEdits
  <2>2. CASE v = w \/ ~ Facet!InFlight(v)
    <3>1. edit'[v] = Facet!Quiet
      BY <1>1, <2>2 DEF Facet!InFlight
    <3> QED BY <3>1 DEF Facet!LinkEdits
  <2> QED BY <2>1, <2>2
<1>5. edit' \in [Workers -> Facet!LinkEdits]
  BY <1>1, <1>4
<1> QED BY <1>3, <1>5 DEF Facet!LinksTypeOK

LEMMA FacetNext == Facet!LinksTypeOK /\ Facet!LinksNext => Facet!LinksTypeOK'
<1> SUFFICES ASSUME Facet!LinksTypeOK, NEW w \in Workers,
                    \/ \E ask \in FacetAsks : Facet!Ask(w, ask)
                    \/ Facet!Compare(w) \/ Facet!SnapshotVictims(w)
                    \/ Facet!DeleteRows(w) \/ Facet!InsertRows(w)
                    \/ Facet!CommitLinks(w) \/ Facet!RollBackLinks(w)
             PROVE  Facet!LinksTypeOK'
  BY DEF Facet!LinksNext
<1>1. CASE edit' = [edit EXCEPT ![w] = Facet!Quiet] /\ UNCHANGED rows
  <2>1. Facet!Quiet \in Facet!LinkEdits
    BY DEF Facet!LinkEdits
  <2> QED BY <1>1, <2>1, FacetUncommitted
<1>2. ASSUME NEW ask \in FacetAsks, Facet!Ask(w, ask)
      PROVE  Facet!LinksTypeOK'
  <2> DEFINE e == [step |-> "asked", ask |-> ask, victims |-> {}, alone |-> TRUE]
  <2>1. e \in Facet!LinkEdits
    BY DEF Facet!LinkEdits
  <2>2. edit' = [edit EXCEPT ![w] = e] /\ UNCHANGED rows
    BY <1>2 DEF Facet!Ask
  <2> HIDE DEF e
  <2> QED BY <2>1, <2>2, FacetUncommitted
<1>3. ASSUME NEW step \in {"differs", "deleting", "deleted", "inserted"},
             NEW victims \in SUBSET Labels, edit[w].step # "idle", UNCHANGED rows,
             edit' = [edit EXCEPT ![w] = [edit[w] EXCEPT !.step = step, !.victims = victims]]
      PROVE  Facet!LinksTypeOK'
  <2> DEFINE e == [edit[w] EXCEPT !.step = step, !.victims = victims]
  <2>1. edit[w] \in [step : {"asked", "differs", "deleting", "deleted", "inserted"},
                     ask : FacetAsks, victims : SUBSET Labels, alone : BOOLEAN]
    BY <1>3, FacetEdit
  <2>2. e \in Facet!LinkEdits
    BY <1>3, <2>1 DEF Facet!LinkEdits
  <2>3. edit' = [edit EXCEPT ![w] = e]
    BY <1>3
  <2> HIDE DEF e
  <2> QED BY <1>3, <2>2, <2>3, FacetUncommitted
<1>4. ASSUME NEW from \in {"asked", "deleted"}, NEW to \in {"differs", "inserted"},
             Facet!Step(w, from, to), UNCHANGED rows
      PROVE  Facet!LinksTypeOK'
  <2>1. edit[w].step # "idle" /\ edit' = [edit EXCEPT ![w].step = to]
    BY <1>4 DEF Facet!Step
  <2>2. edit[w] \in [step : {"asked", "differs", "deleting", "deleted", "inserted"},
                     ask : FacetAsks, victims : SUBSET Labels, alone : BOOLEAN]
    BY <2>1, FacetEdit
  <2>3. /\ edit[w].victims \in SUBSET Labels
        /\ [edit[w] EXCEPT !.step = to] = [edit[w] EXCEPT !.step = to, !.victims = edit[w].victims]
    BY <2>2
  <2>4. edit' = [edit EXCEPT ![w] = [edit[w] EXCEPT !.step = to, !.victims = edit[w].victims]]
    BY <2>1, <2>3
  <2> QED BY <1>3, <1>4, <2>1, <2>3, <2>4
<1>5. CASE Facet!Compare(w)
  BY <1>1, <1>4, <1>5 DEF Facet!Compare
<1>6. CASE Facet!SnapshotVictims(w)
  <2>1. /\ edit[w].step # "idle" /\ UNCHANGED rows /\ rows \in SUBSET Labels
        /\ edit' = [edit EXCEPT ![w] = [edit[w] EXCEPT !.step = "deleting", !.victims = rows]]
    BY <1>6 DEF Facet!SnapshotVictims, Facet!LinksTypeOK
  <2> QED BY <1>3, <2>1
<1>7. CASE Facet!DeleteRows(w)
  <2> DEFINE gone == edit[w].victims \cap rows
  <2>1. /\ edit[w].step # "idle" /\ UNCHANGED rows /\ gone \in SUBSET Labels
        /\ edit' = [edit EXCEPT ![w] = [edit[w] EXCEPT !.step = "deleted", !.victims = gone]]
    BY <1>7 DEF Facet!DeleteRows, Facet!LinksTypeOK
  <2> HIDE DEF gone
  <2> QED BY <1>3, <2>1
<1>8. CASE Facet!InsertRows(w)
  BY <1>1, <1>4, <1>8 DEF Facet!InsertRows
<1>9. CASE Facet!RollBackLinks(w)
  BY <1>1, <1>9 DEF Facet!RollBackLinks
<1> QED BY <1>2, <1>5, <1>6, <1>7, <1>8, <1>9, FacetCommit

LEMMA FacetHolds == Spec => [](part = "facet" => Facet!LinksTypeOK)
<1> DEFINE Inv == part = "facet" => Facet!LinksTypeOK
<1>1. Init => Inv
  <2> SUFFICES ASSUME Init, part = "facet" PROVE Facet!LinksTypeOK
    OBVIOUS
  <2>1. Facet!LinksInit
    BY DEF Init
  <2> QED BY <2>1 DEF Facet!LinksInit, Facet!LinksTypeOK, Facet!LinkEdits, FacetAsks
<1>2. Inv /\ [Next]_vars => Inv'
  <2> SUFFICES ASSUME Inv, [Next]_vars, part' = "facet" PROVE Facet!LinksTypeOK'
    OBVIOUS
  <2>1. part = "facet" /\ (Facet!LinksNext \/ UNCHANGED linkState)
    BY DEF Next, NextEdit, NextRead, vars, editState
  <2>2. CASE UNCHANGED linkState
    BY <2>1, <2>2 DEF linkState, Facet!LinksTypeOK
  <2> QED BY <2>1, <2>2, FacetNext
<1> QED BY <1>1, <1>2, PTL DEF Spec

-------------------------------------------------------------------------------
(***************************************************************************)
(* The screenshots.  A request that will add one, and still may, has seen  *)
(* room for it; so the committed screenshots together with those that are  *)
(* about to come exceed the cap by the requests at work beside the first.  *)
(* In the same way for those that are about to go.                         *)
(***************************************************************************)
Adds(t) == t.step \in {"place", "inserted"} \/ (t.step = "add" /\ t.seen + 1 <= MaxCount)
Removes(t) == t.step = "deleted" \/ (t.step = "remove" /\ t.seen > 1)

Adding == {w \in Workers : Adds(txn[w])}
Removing == {w \in Workers : Removes(txn[w])}

\* An uncommitted screenshot has its file, and a place and an image of its own.
InsertedApart ==
  \A w \in Workers : txn[w].step = "inserted" =>
    /\ txn[w].row.image \in stored
    /\ \A r \in media : r.position # txn[w].row.position /\ r.image # txn[w].row.image
    /\ \A v \in Workers \ {w} : txn[v].step = "inserted" =>
         /\ txn[v].row.position # txn[w].row.position
         /\ txn[v].row.image # txn[w].row.image

MediaInv ==
  /\ MediaTypeOK
  /\ IsFiniteSet(media)
  /\ Cardinality(AtWork) <= crowd
  /\ Cardinality(media) + Cardinality(Adding) <= MaxCount - 1 + crowd
  /\ Cardinality(media) - Cardinality(Removing) >= 2 - crowd
  /\ InsertedApart
  /\ ScreenshotsShown

LEMMA Larger ==
  \A m, n \in Int : /\ Max({m, n}) \in {m, n}
                    /\ Max({m, n}) >= m /\ Max({m, n}) >= n
<1> TAKE m, n \in Int
<1>1. \E x \in {m, n} : \A y \in {m, n} : x >= y
  OBVIOUS
<1> QED BY <1>1 DEF Max

LEMMA MediaFinite == IsFiniteSet(Workers) /\ IsFiniteSet(Images) /\ MaxCount \in Nat \ {0}
BY MediaAssumption

LEMMA TxnType ==
  ASSUME MediaTypeOK, NEW w \in Workers
  PROVE  /\ txn[w] = Free <=> txn[w].step = "idle"
         /\ txn[w].step \in {"add", "remove"} => txn[w].seen \in Nat
         /\ txn[w].step = "place" => txn[w].position \in Positions
         /\ txn[w].step \in {"remove", "inserted", "deleted"} => txn[w].row \in MediaRows
BY DEF MediaTypeOK, MediaTxns, Free

\* The sets of workers are finite, and whoever will add or remove is at work.
LEMMA WorkersCounted ==
  ASSUME NEW S \in SUBSET Workers
  PROVE  IsFiniteSet(S) /\ Cardinality(S) \in Nat /\ Cardinality(S) <= Cardinality(Workers)
BY MediaFinite, FS_Subset, FS_CardinalityType

LEMMA MediaMoves ==
  ASSUME MediaInv, NEW w \in Workers, NEW t \in MediaTxns, Become(w, t)
  PROVE  /\ txn' \in [Workers -> MediaTxns]
         /\ txn'[w] = t /\ \A v \in Workers \ {w} : txn'[v] = txn[v]
         /\ crowd \in Nat /\ crowd' \in 1 .. Max({1, Cardinality(Workers)})
         /\ crowd' \in Nat /\ crowd' >= crowd
         /\ Cardinality(AtWork)' <= crowd'
<1>1. /\ txn' = [txn EXCEPT ![w] = t]
      /\ crowd' = Max({crowd, Cardinality(AtWork)'})
  BY DEF Become
<1>2. AtWork' \subseteq Workers
  BY DEF AtWork
<1>3. /\ Cardinality(AtWork') \in Nat
      /\ Cardinality(AtWork') <= Cardinality(Workers)
      /\ Cardinality(Workers) \in Nat
  BY <1>2, WorkersCounted
<1>4. /\ Max({1, Cardinality(Workers)}) >= Cardinality(Workers)
      /\ Max({1, Cardinality(Workers)}) \in Nat
  <2> DEFINE c == Cardinality(Workers)
  <2>1. c \in Nat /\ c \in Int /\ 1 \in Int
    BY <1>3
  <2> HIDE DEF c
  <2>2. Max({1, c}) \in {1, c} /\ Max({1, c}) >= c
    BY <2>1, Larger
  <2>3. Max({1, c}) >= c /\ Max({1, c}) \in Nat
    BY <2>1, <2>2
  <2> QED BY <2>3 DEF c
<1>5. crowd \in 1 .. Max({1, Cardinality(Workers)})
  BY DEF MediaInv, MediaTypeOK
<1>6. /\ crowd' \in {crowd, Cardinality(AtWork')}
      /\ crowd' >= crowd /\ crowd' >= Cardinality(AtWork')
  BY <1>1, <1>3, <1>4, <1>5, Larger
<1>7. /\ txn' \in [Workers -> MediaTxns]
      /\ txn'[w] = t /\ \A v \in Workers \ {w} : txn'[v] = txn[v]
  BY <1>1 DEF MediaInv, MediaTypeOK
<1> QED BY <1>3, <1>4, <1>5, <1>6, <1>7

\* How a request's step changes the number of those that satisfy P.
LEMMA AddingMoves ==
  ASSUME MediaInv, NEW w \in Workers, NEW t \in MediaTxns, Become(w, t)
  PROVE  /\ Cardinality(Adding) \in Nat /\ Cardinality(Adding') \in Nat
         /\ Cardinality(Adding') <= crowd'
         /\ Adds(txn[w]) \/ ~Adds(t) => Cardinality(Adding') <= Cardinality(Adding)
         /\ Adds(txn[w]) /\ ~Adds(t) => Cardinality(Adding') = Cardinality(Adding) - 1
<1>1. txn'[w] = t /\ \A v \in Workers \ {w} : txn'[v] = txn[v]
  BY MediaMoves
<1>2. Adding \subseteq Workers /\ Adding' \subseteq Workers
  BY DEF Adding
<1>3. Adding' \subseteq AtWork' /\ AtWork' \subseteq Workers
  BY DEF Adding, Adds, AtWork, Free
<1>4. /\ Cardinality(Adding') <= Cardinality(AtWork')
      /\ Cardinality(AtWork') \in Nat /\ Cardinality(Adding') \in Nat
  BY <1>2, <1>3, FS_Subset, WorkersCounted
<1>5. Cardinality(Adding') <= crowd'
  BY <1>4, MediaMoves
<1>6. ASSUME ~Adds(t) PROVE Adding' = Adding \ {w}
  BY <1>1, <1>6 DEF Adding
<1>7. ASSUME Adds(t), Adds(txn[w]) PROVE Adding' = Adding
  BY <1>1, <1>7 DEF Adding
<1>8. Adds(txn[w]) <=> w \in Adding
  BY DEF Adding
<1>9. IsFiniteSet(Adding) /\ Cardinality(Adding) \in Nat
  BY <1>2, WorkersCounted
<1>10. Cardinality(Adding \ {w}) = IF w \in Adding THEN Cardinality(Adding) - 1
                                   ELSE Cardinality(Adding)
  BY <1>9, FS_RemoveElement
<1> QED BY <1>4, <1>5, <1>6, <1>7, <1>8, <1>9, <1>10

LEMMA RemovingMoves ==
  ASSUME MediaInv, NEW w \in Workers, NEW t \in MediaTxns, Become(w, t)
  PROVE  /\ Cardinality(Removing) \in Nat /\ Cardinality(Removing') \in Nat
         /\ Cardinality(Removing') <= crowd'
         /\ Removes(txn[w]) \/ ~Removes(t) => Cardinality(Removing') <= Cardinality(Removing)
         /\ Removes(txn[w]) /\ ~Removes(t) => Cardinality(Removing') = Cardinality(Removing) - 1
<1>1. txn'[w] = t /\ \A v \in Workers \ {w} : txn'[v] = txn[v]
  BY MediaMoves
<1>2. Removing \subseteq Workers /\ Removing' \subseteq Workers
  BY DEF Removing
<1>3. Removing' \subseteq AtWork' /\ AtWork' \subseteq Workers
  BY DEF Removing, Removes, AtWork, Free
<1>4. /\ Cardinality(Removing') <= Cardinality(AtWork')
      /\ Cardinality(AtWork') \in Nat /\ Cardinality(Removing') \in Nat
  BY <1>2, <1>3, FS_Subset, WorkersCounted
<1>5. Cardinality(Removing') <= crowd'
  BY <1>4, MediaMoves
<1>6. ASSUME ~Removes(t) PROVE Removing' = Removing \ {w}
  BY <1>1, <1>6 DEF Removing
<1>7. ASSUME Removes(t), Removes(txn[w]) PROVE Removing' = Removing
  BY <1>1, <1>7 DEF Removing
<1>8. Removes(txn[w]) <=> w \in Removing
  BY DEF Removing
<1>9. IsFiniteSet(Removing) /\ Cardinality(Removing) \in Nat
  BY <1>2, WorkersCounted
<1>10. Cardinality(Removing \ {w}) = IF w \in Removing THEN Cardinality(Removing) - 1
                                     ELSE Cardinality(Removing)
  BY <1>9, FS_RemoveElement
<1> QED BY <1>4, <1>5, <1>6, <1>7, <1>8, <1>9, <1>10

\* A step that commits nothing: a request that begins to add has seen room, one that
\* begins to remove has seen two, and what is inserted is apart from the rest.
LEMMA MediaUncommitted ==
  ASSUME MediaInv, NEW w \in Workers, NEW t \in MediaTxns, Become(w, t),
         UNCHANGED media, stored \subseteq stored', stored' \subseteq Images,
         Adds(t) => Adds(txn[w]) \/ Cardinality(media) + 1 <= MaxCount,
         Removes(t) => Removes(txn[w]) \/ Cardinality(media) > 1,
         InsertedApart'
  PROVE  MediaInv'
<1>1. /\ txn' \in [Workers -> MediaTxns]
      /\ crowd \in Nat /\ crowd' \in 1 .. Max({1, Cardinality(Workers)})
      /\ crowd' \in Nat /\ crowd' >= crowd
      /\ Cardinality(AtWork)' <= crowd'
  BY MediaMoves
<1>2. Cardinality(media) \in Nat /\ MaxCount \in Nat
  BY MediaFinite, FS_CardinalityType DEF MediaInv
<1>3. MediaTypeOK'
  BY <1>1 DEF MediaInv, MediaTypeOK
<1>4. (Cardinality(media) + Cardinality(Adding) <= MaxCount - 1 + crowd)'
  BY <1>1, <1>2, AddingMoves DEF MediaInv
<1>5. (Cardinality(media) - Cardinality(Removing) >= 2 - crowd)'
  BY <1>1, <1>2, RemovingMoves DEF MediaInv
<1>6. ScreenshotsShown'
  BY DEF MediaInv, ScreenshotsShown
<1> QED BY <1>1, <1>3, <1>4, <1>5, <1>6 DEF MediaInv

\* A step that inserts nothing keeps what is inserted apart.
LEMMA NothingInserted ==
  ASSUME MediaInv, NEW w \in Workers, NEW t \in MediaTxns, Become(w, t),
         t.step # "inserted", media' \subseteq media, stored \subseteq stored'
  PROVE  InsertedApart'
BY MediaMoves DEF MediaInv, InsertedApart

\* The file is stored under a fresh name and the row inserted at a place nobody holds.
LEMMA ScreenshotInserted ==
  ASSUME MediaInv, NEW w \in Workers, NEW image \in Images, StoreAndInsert(w, image)
  PROVE  MediaInv'
<1> DEFINE place == txn[w].position
           t == [step |-> "inserted", row |-> [image |-> image, position |-> place]]
<1>1. /\ txn[w].step = "place" /\ ~HeldByOther(w, place) /\ image \notin stored
      /\ stored' = stored \cup {image} /\ UNCHANGED media
  BY DEF StoreAndInsert
<1>2. stored \subseteq Images /\ media \subseteq MediaRows
  BY DEF MediaInv, MediaTypeOK
<1>3. CASE Become(w, Free)
  <2>1. Free \in MediaTxns /\ Free.step = "idle"
    BY DEF Free, MediaTxns
  <2>2. InsertedApart'
    BY <1>1, <1>3, <2>1, NothingInserted
  <2> QED BY <1>1, <1>2, <1>3, <2>1, <2>2, MediaUncommitted DEF Adds, Removes
<1>4. CASE Become(w, t) /\ \A r \in media : r.position # place
  <2>1. place \in Positions
    BY <1>1, TxnType DEF MediaInv
  <2>2. t \in MediaTxns /\ t.step = "inserted"
    BY <2>1 DEF MediaTxns, MediaRows
  <2>3. t.row.image = image /\ t.row.position = place
    OBVIOUS
  <2>4. Adds(t) /\ Adds(txn[w]) /\ ~Removes(t)
    BY <1>1, <2>2 DEF Adds, Removes
  <2>5. txn'[w] = t /\ \A v \in Workers \ {w} : txn'[v] = txn[v]
    BY <1>4, <2>2, MediaMoves
  <2> HIDE DEF t, place
  <2>6. \A v \in Workers \ {w} : txn[v].step = "inserted" => txn[v].row.position # place
    BY <1>1 DEF HeldByOther
  <2>7. \A r \in media : r.image \in stored
    BY DEF MediaInv, ScreenshotsShown
  <2>8. InsertedApart'
    <3>1. ASSUME NEW v \in Workers, txn'[v].step = "inserted"
          PROVE  /\ txn'[v].row.image \in stored'
                 /\ \A r \in media : /\ r.position # txn'[v].row.position
                                     /\ r.image # txn'[v].row.image
      <4>1. CASE v = w
        BY <1>1, <1>4, <2>3, <2>5, <2>7, <4>1
      <4>2. CASE v # w
        BY <1>1, <2>5, <3>1, <4>2 DEF MediaInv, InsertedApart
      <4> QED BY <4>1, <4>2
    <3>2. ASSUME NEW u \in Workers, NEW v \in Workers, u # v,
                 txn'[u].step = "inserted", txn'[v].step = "inserted"
          PROVE  /\ txn'[v].row.position # txn'[u].row.position
                 /\ txn'[v].row.image # txn'[u].row.image
      <4>1. CASE u # w /\ v # w
        BY <2>5, <3>2, <4>1 DEF MediaInv, InsertedApart
      <4>2. \A x \in Workers \ {w} : txn[x].step = "inserted" =>
              txn[x].row.position # place /\ txn[x].row.image # image
        BY <1>1, <2>6 DEF MediaInv, InsertedApart
      <4> QED BY <2>3, <2>5, <3>2, <4>1, <4>2
    <3> QED BY <1>1, <3>1, <3>2 DEF InsertedApart
  <2> QED BY <1>1, <1>2, <1>4, <2>2, <2>4, <2>8, MediaUncommitted
<1> QED BY <1>3, <1>4 DEF StoreAndInsert

LEMMA MediaCommitted ==
  ASSUME MediaInv, NEW w \in Workers, CommitMedia(w)
  PROVE  MediaInv'
<1>1. Free \in MediaTxns /\ Free.step = "idle" /\ ~Adds(Free) /\ ~Removes(Free)
  BY DEF Free, MediaTxns, Adds, Removes
<1>2. Become(w, Free) /\ UNCHANGED stored
  BY DEF CommitMedia
<1>3. /\ txn' \in [Workers -> MediaTxns]
      /\ txn'[w] = Free /\ \A v \in Workers \ {w} : txn'[v] = txn[v]
      /\ crowd \in Nat /\ crowd' \in 1 .. Max({1, Cardinality(Workers)})
      /\ crowd' \in Nat /\ crowd' >= crowd
      /\ Cardinality(AtWork)' <= crowd'
  BY <1>1, <1>2, MediaMoves
<1>4. Cardinality(media) \in Nat /\ MaxCount \in Nat
  BY MediaFinite, FS_CardinalityType DEF MediaInv
<1>5. CASE txn[w].step = "inserted" /\ media' = media \cup {txn[w].row}
  <2>1. txn[w].row \in MediaRows
    BY <1>5, TxnType DEF MediaInv
  <2>2. /\ \A r \in media : /\ r.position # txn[w].row.position
                            /\ r.image # txn[w].row.image
        /\ txn[w].row.image \in stored
    BY <1>5 DEF MediaInv, InsertedApart
  <2>3. IsFiniteSet(media') /\ Cardinality(media') = Cardinality(media) + 1
    BY <1>5, <2>2, FS_AddElement DEF MediaInv
  <2>4. MediaTypeOK'
    BY <1>2, <1>3, <1>5, <2>1 DEF MediaInv, MediaTypeOK
  <2>5. Adds(txn[w])
    BY <1>5 DEF Adds
  <2>6. (Cardinality(media) + Cardinality(Adding) <= MaxCount - 1 + crowd)'
    BY <1>1, <1>2, <1>3, <1>4, <2>3, <2>5, AddingMoves DEF MediaInv
  <2>7. (Cardinality(media) - Cardinality(Removing) >= 2 - crowd)'
    BY <1>1, <1>2, <1>3, <1>4, <2>3, RemovingMoves DEF MediaInv
  <2>8. InsertedApart'
    <3>1. ASSUME NEW v \in Workers, txn'[v].step = "inserted"
          PROVE  v # w /\ txn'[v] = txn[v]
      BY <1>1, <1>3, <3>1
    <3>2. ASSUME NEW v \in Workers, txn'[v].step = "inserted"
          PROVE  /\ txn[w].row.position # txn'[v].row.position
                 /\ txn[w].row.image # txn'[v].row.image
      BY <1>5, <3>1, <3>2 DEF MediaInv, InsertedApart
    <3> QED BY <1>2, <1>5, <3>1, <3>2 DEF MediaInv, InsertedApart
  <2>9. ScreenshotsShown'
    BY <1>2, <1>5, <2>2 DEF MediaInv, ScreenshotsShown
  <2> QED BY <1>3, <2>3, <2>4, <2>6, <2>7, <2>8, <2>9 DEF MediaInv
<1>6. CASE txn[w].step = "deleted" /\ media' = media \ {txn[w].row}
  <2>1. /\ IsFiniteSet(media') /\ Cardinality(media') \in Nat
        /\ Cardinality(media') <= Cardinality(media)
        /\ Cardinality(media') >= Cardinality(media) - 1
    <3>1. IsFiniteSet(media)
      BY DEF MediaInv
    <3>2. /\ IsFiniteSet(media')
          /\ Cardinality(media') = IF txn[w].row \in media THEN Cardinality(media) - 1
                                    ELSE Cardinality(media)
      BY <1>6, <3>1, FS_RemoveElement
    <3>3. Cardinality(media') \in Nat
      BY <3>2, FS_CardinalityType
    <3> QED BY <1>4, <3>2, <3>3
  <2>2. MediaTypeOK'
    BY <1>2, <1>3, <1>6 DEF MediaInv, MediaTypeOK
  <2>3. Removes(txn[w])
    BY <1>6 DEF Removes
  <2>4. (Cardinality(media) + Cardinality(Adding) <= MaxCount - 1 + crowd)'
    BY <1>1, <1>2, <1>3, <1>4, <2>1, AddingMoves DEF MediaInv
  <2>5. (Cardinality(media) - Cardinality(Removing) >= 2 - crowd)'
    BY <1>1, <1>2, <1>3, <1>4, <2>1, <2>3, RemovingMoves DEF MediaInv
  <2>6. InsertedApart'
    BY <1>1, <1>2, <1>6, NothingInserted
  <2>7. ScreenshotsShown'
    BY <1>2, <1>6 DEF MediaInv, ScreenshotsShown
  <2> QED BY <1>3, <2>1, <2>2, <2>4, <2>5, <2>6, <2>7 DEF MediaInv
<1> QED BY <1>5, <1>6 DEF CommitMedia

LEMMA MediaStep == MediaInv /\ MediaNext => MediaInv'
<1> SUFFICES ASSUME MediaInv, NEW w \in Workers,
                    \/ OpenAdd(w) \/ CheckAndPlace(w)
                    \/ \E image \in Images : StoreAndInsert(w, image)
                    \/ \E old \in media : OpenRemove(w, old)
                    \/ Delete(w) \/ CommitMedia(w) \/ RollBackMedia(w)
             PROVE  MediaInv'
  BY DEF MediaNext
<1>1. stored \subseteq Images /\ media \subseteq MediaRows /\ Cardinality(media) \in Nat
  BY FS_CardinalityType DEF MediaInv, MediaTypeOK
<1>2. ASSUME NEW t \in MediaTxns, Become(w, t), UNCHANGED <<media, stored>>,
             t.step # "inserted",
             Adds(t) => Adds(txn[w]) \/ Cardinality(media) + 1 <= MaxCount,
             Removes(t) => Removes(txn[w]) \/ Cardinality(media) > 1
      PROVE  MediaInv'
  BY <1>1, <1>2, NothingInserted, MediaUncommitted
<1>3. CASE OpenAdd(w)
  <2> DEFINE t == [step |-> "add", seen |-> Cardinality(media)]
  <2>1. t \in MediaTxns /\ Become(w, t) /\ UNCHANGED <<media, stored>>
    BY <1>1, <1>3 DEF OpenAdd, MediaTxns
  <2>2. /\ t.step # "inserted" /\ ~Removes(t)
        /\ Adds(t) => Cardinality(media) + 1 <= MaxCount
    BY DEF Adds, Removes
  <2> HIDE DEF t
  <2> QED BY <1>2, <2>1, <2>2
<1>4. CASE CheckAndPlace(w)
  <2> DEFINE t == [step |-> "place", position |-> NextPosition]
  <2>1. t \in MediaTxns /\ Become(w, t) /\ UNCHANGED <<media, stored>>
    BY <1>4 DEF CheckAndPlace, MediaTxns
  <2>2. t.step # "inserted" /\ ~Removes(t) /\ Adds(txn[w])
    BY <1>4 DEF CheckAndPlace, HasRoom, Adds, Removes
  <2> HIDE DEF t
  <2> QED BY <1>2, <2>1, <2>2
<1>5. ASSUME NEW old \in media, OpenRemove(w, old)
      PROVE  MediaInv'
  <2> DEFINE t == [step |-> "remove", seen |-> Cardinality(media), row |-> old]
  <2>1. t \in MediaTxns /\ Become(w, t) /\ UNCHANGED <<media, stored>>
    BY <1>1, <1>5 DEF OpenRemove, MediaTxns
  <2>2. t.step # "inserted" /\ ~Adds(t) /\ (Removes(t) => Cardinality(media) > 1)
    BY DEF Adds, Removes
  <2> HIDE DEF t
  <2> QED BY <1>2, <2>1, <2>2
<1>6. CASE Delete(w)
  <2> DEFINE t == [step |-> "deleted", row |-> txn[w].row]
  <2>1. txn[w].step = "remove" /\ txn[w].seen > 1 /\ Become(w, t) /\ UNCHANGED <<media, stored>>
    BY <1>6 DEF Delete, CanSpare
  <2>2. t \in MediaTxns
    BY <2>1, TxnType DEF MediaInv, MediaTxns
  <2>3. t.step # "inserted" /\ ~Adds(t) /\ Removes(txn[w])
    BY <2>1 DEF Adds, Removes
  <2> HIDE DEF t
  <2> QED BY <1>2, <2>1, <2>2, <2>3
<1>7. CASE RollBackMedia(w)
  <2>1. Free \in MediaTxns /\ Free.step # "inserted" /\ ~Adds(Free) /\ ~Removes(Free)
    BY DEF Free, MediaTxns, Adds, Removes
  <2> QED BY <1>2, <1>7, <2>1 DEF RollBackMedia
<1> QED BY <1>3, <1>4, <1>5, <1>6, <1>7, ScreenshotInserted, MediaCommitted

\* submit_app stored between one and MaxCount screenshots, at the first places.
LEMMA MediaStarts == MediaInit => MediaInv
<1> SUFFICES ASSUME MediaInit PROVE MediaInv
  OBVIOUS
<1>1. PICK n \in 1 .. MaxCount, sent \in [0 .. MaxCount - 1 -> Images] :
        /\ \A i, j \in 0 .. n - 1 : sent[i] = sent[j] => i = j
        /\ media = {[image |-> sent[i], position |-> i] : i \in 0 .. n - 1}
  BY DEF MediaInit
<1>2. /\ stored = {r.image : r \in media} /\ txn = [w \in Workers |-> Free] /\ crowd = 1
  BY DEF MediaInit
<1>3. n \in Nat /\ MaxCount \in Nat /\ n <= MaxCount /\ n >= 1
      /\ 0 .. n - 1 \subseteq 0 .. MaxCount - 1
  BY MediaFinite
<1>4. IsFiniteSet(0 .. n - 1) /\ Cardinality(0 .. n - 1) = n
  BY <1>3, FS_Interval
<1>5. Cardinality(Images) \in Nat /\ n <= Cardinality(Images)
  <2> DEFINE f == [i \in 0 .. n - 1 |-> sent[i]]
  <2>1. f \in [0 .. n - 1 -> Images] /\ \A i, j \in 0 .. n - 1 : f[i] = f[j] => i = j
    BY <1>1, <1>3
  <2> HIDE DEF f
  <2>3. f \in Injection(0 .. n - 1, Images)
    BY <2>1, Fun_IsInj
  <2>2. Cardinality(0 .. n - 1) <= Cardinality(Images)
    BY <2>3, MediaFinite, FS_Injection
  <2> QED BY <1>4, <2>2, MediaFinite, FS_CardinalityType
<1>6. media \subseteq MediaRows
  BY <1>1, <1>3, <1>5 DEF MediaRows, Positions
<1>7. IsFiniteSet(media) /\ Cardinality(media) = n
  <2> DEFINE g == [i \in 0 .. n - 1 |-> [image |-> sent[i], position |-> i]]
  <2>1. /\ g \in [0 .. n - 1 -> media]
        /\ \A i, j \in 0 .. n - 1 : g[i] = g[j] => i = j
        /\ \A r \in media : \E i \in 0 .. n - 1 : g[i] = r
    BY <1>1
  <2> HIDE DEF g
  <2>2. g \in Bijection(0 .. n - 1, media)
    BY <2>1, Fun_IsBij
  <2>3. ExistsBijection(0 .. n - 1, media)
    BY <2>2 DEF ExistsBijection
  <2> QED BY <1>4, <2>3, FS_Bijection
<1>8. \A w \in Workers : txn[w] = Free
  BY <1>2
<1>9. AtWork = {} /\ Adding = {} /\ Removing = {}
  BY <1>8 DEF AtWork, Adding, Removing, Adds, Removes, Free
<1>10. Cardinality({}) = 0
  BY FS_EmptySet
<1>11. MediaTypeOK
  <2> DEFINE c == Cardinality(Workers)
  <2>1. c \in Nat /\ c \in Int /\ 1 \in Int
    BY MediaFinite, FS_CardinalityType
  <2> HIDE DEF c
  <2>2. Max({1, c}) \in {1, c} /\ Max({1, c}) >= 1
    BY <2>1, Larger
  <2>3. crowd \in 1 .. Max({1, c})
    BY <1>2, <2>1, <2>2
  <2>4. txn \in [Workers -> MediaTxns]
    BY <1>2 DEF MediaTxns
  <2>5. stored \subseteq Images
    BY <1>2, <1>6 DEF MediaRows
  <2> QED BY <1>6, <2>3, <2>4, <2>5 DEF MediaTypeOK, c
<1>12. ScreenshotsShown
  <2>1. ASSUME NEW r \in media, NEW s \in media, r.position = s.position \/ r.image = s.image
        PROVE  r = s
    BY <1>1, <2>1
  <2> QED BY <1>2, <2>1 DEF ScreenshotsShown
<1>13. InsertedApart
  BY <1>8 DEF InsertedApart, Free
<1> QED BY <1>2, <1>3, <1>7, <1>9, <1>10, <1>11, <1>12, <1>13 DEF MediaInv

LEMMA GalleryBounds == MediaInv => MediaTypeOK /\ MediaCountBounded /\ ScreenshotsShown
<1> SUFFICES ASSUME MediaInv PROVE MediaCountBounded
  BY DEF MediaInv
<1>1. Adding \subseteq Workers /\ Removing \subseteq Workers
  BY DEF Adding, Removing
<1>2. Cardinality(Adding) \in Nat /\ Cardinality(Removing) \in Nat
  BY <1>1, WorkersCounted
<1>3. Cardinality(media) \in Nat /\ MaxCount \in Nat
  BY MediaFinite, FS_CardinalityType DEF MediaInv
<1>4. crowd \in Int
  BY DEF MediaInv, MediaTypeOK
<1> QED BY <1>2, <1>3, <1>4 DEF MediaInv, MediaCountBounded

LEMMA MediaHolds == Spec => [](part = "media" => MediaInv)
<1> DEFINE Inv == part = "media" => MediaInv
<1>1. Init => Inv
  BY MediaStarts DEF Init
<1>2. Inv /\ [Next]_vars => Inv'
  <2> SUFFICES ASSUME Inv, [Next]_vars, part' = "media" PROVE MediaInv'
    OBVIOUS
  <2>1. part = "media" /\ (MediaNext \/ UNCHANGED mediaVars)
    BY DEF Next, NextEdit, NextRead, vars, editState
  <2>2. CASE UNCHANGED mediaVars
    BY <2>1, <2>2 DEF mediaVars, MediaInv, MediaTypeOK, AtWork, Adding, Removing,
                      InsertedApart, ScreenshotsShown
  <2> QED BY <2>1, <2>2, MediaStep
<1> QED BY <1>1, <1>2, PTL DEF Spec

\* The number of screenshots stays within its caps up to the requests that were ever at
\* work at once, and those that are shown have files and places of their own (add_media,
\* remove_media, _store_media).
THEOREM GalleryStands == Spec => []GalleryHolds
<1>1. (part = "media" => MediaInv) => GalleryHolds
  BY GalleryBounds DEF GalleryHolds
<1> QED BY <1>1, MediaHolds, PTL

-------------------------------------------------------------------------------
(***************************************************************************)
(* Sifted lists.  The entries at a set of places come in the order of the  *)
(* places, each once.                                                      *)
(***************************************************************************)
LEMMA Counted == \A n \in Nat : IsFiniteSet(1 .. n) /\ Cardinality(1 .. n) = n
BY FS_Interval

LEMMA UptoGrows ==
  ASSUME NEW K, IsFiniteSet(K), K \subseteq Nat
  PROVE  /\ \A i \in K : Upto(K, i) \in 1 .. Cardinality(K)
         /\ \A i, j \in K : i < j => Upto(K, i) < Upto(K, j)
<1> DEFINE n == Cardinality(K)
           Before(i) == {j \in K : j <= i}
<1>1. n \in Nat
  BY FS_CardinalityType
<1>2. \A i \in K : IsFiniteSet(Before(i)) /\ Upto(K, i) = Cardinality(Before(i)) /\ i \in Before(i)
  <2> SUFFICES ASSUME NEW i \in K PROVE IsFiniteSet(Before(i)) /\ i \in Before(i)
    BY DEF Upto
  <2>1. Before(i) \subseteq K
    OBVIOUS
  <2> QED BY <2>1, FS_Subset
<1>3. \A i \in K : Upto(K, i) \in 1 .. n
  <2> SUFFICES ASSUME NEW i \in K PROVE Cardinality(Before(i)) \in 1 .. n
    BY <1>2
  <2>1. Before(i) \subseteq K /\ IsFiniteSet(Before(i)) /\ Before(i) # {}
    BY <1>2
  <2> HIDE DEF Before
  <2> QED BY <1>1, <2>1, FS_Subset, FS_CardinalityType, FS_EmptySet
<1>4. ASSUME NEW i \in K, NEW j \in K, i < j
      PROVE  Upto(K, i) < Upto(K, j)
  <2>1. Before(i) \subseteq Before(j) /\ j \in Before(j) /\ j \notin Before(i)
    <3>1. i \in Nat /\ j \in Nat /\ \A x \in K : x \in Nat
      OBVIOUS
    <3>2. \A x \in K : x <= i => x <= j
      BY <1>4, <3>1
    <3>3. j <= j /\ ~(j <= i)
      BY <1>4, <3>1
    <3> QED BY <3>2, <3>3
  <2>2. IsFiniteSet(Before(j)) /\ IsFiniteSet(Before(i))
    BY <1>2
  <2>3. Before(i) # Before(j)
    BY <2>1
  <2>4. Cardinality(Before(i)) < Cardinality(Before(j))
    <3> HIDE DEF Before
    <3>1. Cardinality(Before(i)) <= Cardinality(Before(j))
      BY <2>1, <2>2, FS_Subset
    <3>2. Cardinality(Before(i)) # Cardinality(Before(j))
      BY <2>1, <2>2, <2>3, FS_Subset
    <3> QED BY <2>2, <3>1, <3>2, FS_CardinalityType
  <2> QED BY <1>2, <2>4
<1> QED BY <1>3, <1>4

\* What is numbered without repetition takes every number.
LEMMA Numbered ==
  ASSUME NEW K, IsFiniteSet(K), NEW g \in [K -> 1 .. Cardinality(K)],
         \A i, j \in K : g[i] = g[j] => i = j,
         NEW k \in 1 .. Cardinality(K)
  PROVE  \E i \in K : g[i] = k
<1> DEFINE n == Cardinality(K)
           R == {g[i] : i \in K}
<1>1. n \in Nat /\ IsFiniteSet(1 .. n) /\ Cardinality(1 .. n) = n
  BY FS_CardinalityType, Counted
<1>2. g \in [K -> R] /\ R \subseteq 1 .. n /\ \A r \in R : \E i \in K : g[i] = r
  OBVIOUS
<1>3. g \in Bijection(K, R)
  <2> HIDE DEF R
  <2> QED BY <1>2, Fun_IsBij
<1>4. IsFiniteSet(R) /\ Cardinality(R) = n
  <2> HIDE DEF R
  <2>1. ExistsBijection(K, R)
    BY <1>3 DEF ExistsBijection
  <2> QED BY <2>1, FS_Bijection
<1>5. R = 1 .. n
  <2> HIDE DEF R
  <2> QED BY <1>1, <1>2, <1>4, FS_Subset
<1> QED BY <1>5

LEMMA PlaceFound ==
  ASSUME NEW K, IsFiniteSet(K), K \subseteq Nat, NEW k \in 1 .. Cardinality(K)
  PROVE  \E i \in K : Upto(K, i) = k
<1> DEFINE g == [i \in K |-> Upto(K, i)]
<1>1. g \in [K -> 1 .. Cardinality(K)]
  BY UptoGrows
<1>2. \A i, j \in K : g[i] = g[j] => i = j
  <2> SUFFICES ASSUME NEW i \in K, NEW j \in K, Upto(K, i) = Upto(K, j), i # j PROVE FALSE
    OBVIOUS
  <2>1. i < j \/ j < i
    OBVIOUS
  <2>2. Upto(K, i) < Upto(K, j) \/ Upto(K, j) < Upto(K, i)
    BY <2>1, UptoGrows
  <2>3. Upto(K, i) \in Nat
    <3>1. Cardinality(K) \in Nat
      BY FS_CardinalityType
    <3>2. Upto(K, i) \in 1 .. Cardinality(K)
      BY UptoGrows
    <3> QED BY <3>1, <3>2
  <2> QED BY <2>2, <2>3
<1>3. \E i \in K : g[i] = k
  <2> HIDE DEF g
  <2> QED BY <1>1, <1>2, Numbered, ZenonT(40)
<1> QED BY <1>3

\* The entries at the places, in their order, each once.
Placing(place, seq, K) ==
  /\ place \in [1 .. Cardinality(K) -> K]
  /\ \A k \in 1 .. Cardinality(K) : Picked(seq, K)[k] = seq[place[k]]
  /\ \A i \in K : \E k \in 1 .. Cardinality(K) : place[k] = i
  /\ \A j, k \in 1 .. Cardinality(K) : j < k => place[j] < place[k]

LEMMA PickedPlaces ==
  ASSUME NEW S, NEW seq \in Seq(S), NEW K \in SUBSET DOMAIN seq
  PROVE  /\ IsFiniteSet(K) /\ Cardinality(K) \in Nat /\ Cardinality(K) <= Len(seq)
         /\ Picked(seq, K) \in Seq(S) /\ Len(Picked(seq, K)) = Cardinality(K)
         /\ \E place : Placing(place, seq, K)
<1> DEFINE n == Cardinality(K)
           place == [k \in 1 .. n |-> CHOOSE i \in K : Upto(K, i) = k]
<1>1. Len(seq) \in Nat /\ DOMAIN seq = 1 .. Len(seq) /\ \A i \in DOMAIN seq : seq[i] \in S
  BY LenProperties, ElementOfSeq
<1>2. IsFiniteSet(K) /\ n \in Nat /\ n <= Len(seq) /\ K \subseteq Nat
  <2>1. IsFiniteSet(1 .. Len(seq)) /\ Cardinality(1 .. Len(seq)) = Len(seq)
    BY <1>1, Counted
  <2> QED BY <1>1, <2>1, FS_Subset, FS_CardinalityType
<1>3. \A k \in 1 .. n : place[k] \in K /\ Upto(K, place[k]) = k
  <2> TAKE k \in 1 .. n
  <2>1. \E i \in K : Upto(K, i) = k
    BY <1>2, PlaceFound
  <2> QED BY <2>1
<1>4. place \in [1 .. n -> K] /\ \A k \in 1 .. n : Picked(seq, K)[k] = seq[place[k]]
  BY <1>3 DEF Picked
<1>5. Picked(seq, K) \in [1 .. n -> S]
  BY <1>1, <1>3 DEF Picked
<1>6. Picked(seq, K) \in Seq(S) /\ Len(Picked(seq, K)) = n
  <2> HIDE DEF n
  <2> QED BY <1>2, <1>5
<1>7. ASSUME NEW i \in K, NEW j \in K, i < j PROVE Upto(K, i) < Upto(K, j)
  BY <1>2, <1>7, UptoGrows
<1>8. \A i \in K : Upto(K, i) \in 1 .. n
  BY <1>2, UptoGrows
<1> HIDE DEF place
<1>9. \A i, j \in K : Upto(K, i) = Upto(K, j) => i = j
  <2> SUFFICES ASSUME NEW i \in K, NEW j \in K, Upto(K, i) = Upto(K, j), i # j PROVE FALSE
    OBVIOUS
  <2>1. i < j \/ j < i
    BY <1>2
  <2> QED BY <1>2, <1>7, <1>8, <2>1
<1>10. \A i \in K : \E k \in 1 .. n : place[k] = i
  <2> TAKE i \in K
  <2>1. place[Upto(K, i)] = i
    BY <1>3, <1>8, <1>9
  <2> QED BY <1>8, <2>1
<1>11. \A j, k \in 1 .. n : j < k => place[j] < place[k]
  <2> SUFFICES ASSUME NEW j \in 1 .. n, NEW k \in 1 .. n, j < k, ~(place[j] < place[k])
               PROVE  FALSE
    OBVIOUS
  <2>1. place[j] = place[k] \/ place[k] < place[j]
    BY <1>2, <1>3
  <2>2. Upto(K, place[k]) = k /\ Upto(K, place[j]) = j
    BY <1>3
  <2> QED BY <1>2, <1>3, <1>7, <2>1, <2>2
<1>12. Placing(place, seq, K)
  BY <1>4, <1>10, <1>11 DEF Placing
<1> QED BY <1>2, <1>6, <1>12

LEMMA PickedOnce ==
  ASSUME NEW S, NEW seq \in Seq(S), NEW K \in SUBSET DOMAIN seq,
         \A i, j \in DOMAIN seq : seq[i] = seq[j] => i = j
  PROVE  /\ Picked(seq, K) \in Seq(S)
         /\ \A i, j \in DOMAIN Picked(seq, K) : Picked(seq, K)[i] = Picked(seq, K)[j] => i = j
         /\ {Picked(seq, K)[k] : k \in DOMAIN Picked(seq, K)} = {seq[i] : i \in K}
<1> DEFINE n == Cardinality(K)
           p == Picked(seq, K)
<1>9. PICK place : Placing(place, seq, K)
  BY PickedPlaces
<1>1. /\ place \in [1 .. n -> K]
      /\ \A k \in 1 .. n : p[k] = seq[place[k]]
      /\ \A i \in K : \E k \in 1 .. n : place[k] = i
      /\ \A j, k \in 1 .. n : j < k => place[j] < place[k]
  BY <1>9 DEF Placing
<1>2. p \in Seq(S) /\ Len(p) = n /\ n \in Nat
  BY PickedPlaces
<1>3. DOMAIN p = 1 .. n
  BY <1>2, LenProperties
<1>4. K \subseteq Nat
  <2>1. DOMAIN seq = 1 .. Len(seq) /\ Len(seq) \in Nat
    BY LenProperties
  <2> QED BY <2>1
<1> HIDE DEF p, n
<1>5. ASSUME NEW i \in 1 .. n, NEW j \in 1 .. n, p[i] = p[j], i # j PROVE FALSE
  <2>1. place[i] = place[j] /\ place[i] \in K
    BY <1>1, <1>5
  <2>2. i < j \/ j < i
    BY <1>2, <1>5
  <2> QED BY <1>1, <1>4, <2>1, <2>2
<1>6. {p[k] : k \in 1 .. n} = {seq[i] : i \in K}
  <2>1. \A k \in 1 .. n : \E i \in K : p[k] = seq[i]
    BY <1>1
  <2>2. \A i \in K : \E k \in 1 .. n : p[k] = seq[i]
    BY <1>1
  <2> QED BY <2>1, <2>2
<1>7. /\ p \in Seq(S)
      /\ \A i, j \in DOMAIN p : p[i] = p[j] => i = j
      /\ {p[k] : k \in DOMAIN p} = {seq[i] : i \in K}
  BY <1>2, <1>3, <1>5, <1>6
<1> QED BY <1>7 DEF p

-------------------------------------------------------------------------------
(***************************************************************************)
(* The duplicate hints.  Nothing but the requests in between makes what a  *)
(* page has read of an application differ from the application; the URLs   *)
(* that are equal but for the case lead to the same address.               *)
(***************************************************************************)
ReadOf(read) == read.app \in Queue!Submitted /\ read.key = Queue!Key(read.app)

HintRead(read) ==
  /\ read.app \in Apps
  /\ \E u \in Urls : read.key = Queue!normalize_url(u)
  /\ hints.late = 0 => ReadOf(read)

QueueInv ==
  /\ Queue!SignalTypeOK
  /\ hints = [at |-> hints.at, keys |-> hints.keys, given |-> hints.given, late |-> hints.late]
  /\ hints.at \notin {"queue", "page"} => hints.given = <<>>
  /\ hints.at \in {"pending", "refreshed"} =>
       \A i \in DOMAIN hints.keys : HintRead(hints.keys[i])
  /\ hints.at = "refreshed" => hints.keys = <<hints.keys[1]>>
  /\ Queue!HintsTold

\* The words of the standard modules, as the instance has them.
LEMMA QueueWords ==
  /\ \A S : Queue!IsFiniteSet(S) <=> IsFiniteSet(S)
  /\ \A S : Queue!Cardinality(S) = Cardinality(S)
  /\ \A s : Queue!Range(s) = {s[i] : i \in DOMAIN s}
  /\ \A f : Queue!IsInjective(f) <=> \A i, j \in DOMAIN f : f[i] = f[j] => i = j
  /\ \A s, K : Queue!Picked(s, K) = Picked(s, K)
<1>1. \A S : Queue!IsFiniteSet(S) <=> IsFiniteSet(S)
  BY DEF Queue!IsFiniteSet, IsFiniteSet
<1>2. \A S : Queue!Cardinality(S) = Cardinality(S)
  BY DEF Queue!Cardinality, Cardinality
<1>3. \A s, K : Queue!Picked(s, K) = Picked(s, K)
  BY DEF Queue!Picked, Picked, Queue!Upto, Upto, Queue!Cardinality, Cardinality
<1> QED BY <1>1, <1>2, <1>3 DEF Queue!Range, Queue!IsInjective

LEMMA QueueFinite == IsFiniteSet(Apps) /\ MaxMoves \in Nat /\ None \notin Urls
BY ReadConstants, QueueWords DEF Queue!SignalAssumption

LEMMA UrlType ==
  \A u \in Urls : u \in [site : STRING, host : {"lower", "Upper"}, path : {"lower", "Upper"},
                     port : {"none", "default", "other"}, slashes : Nat]
BY ReadConstants DEF Queue!SignalAssumption

LEMMA Normalized ==
  ASSUME NEW u \in Urls
  PROVE  Queue!normalize_url(u) =
           [site |-> u.site, host |-> "lower", path |-> u.path,
            port |-> IF u.port = "default" THEN "none" ELSE u.port, slashes |-> 0]
<1> DEFINE n == [site |-> u.site, host |-> "lower", path |-> u.path, port |-> u.port,
                 slashes |-> u.slashes]
           p == IF u.port = "default" THEN "none" ELSE u.port
<1>1. u = [site |-> u.site, host |-> u.host, path |-> u.path, port |-> u.port,
           slashes |-> u.slashes]
  BY UrlType
<1>2. [u EXCEPT !.host = "lower"] = n
  BY <1>1
<1>3. [[u EXCEPT !.host = "lower"] EXCEPT !.port = p] = [n EXCEPT !.port = p]
  BY <1>2
<1> HIDE DEF p
<1>4. [n EXCEPT !.port = p] = [site |-> u.site, host |-> "lower", path |-> u.path,
                               port |-> p, slashes |-> u.slashes]
  OBVIOUS
<1>5. [[site |-> u.site, host |-> "lower", path |-> u.path, port |-> p,
        slashes |-> u.slashes] EXCEPT !.slashes = 0] =
      [site |-> u.site, host |-> "lower", path |-> u.path, port |-> p, slashes |-> 0]
  OBVIOUS
<1>6. Queue!normalize_url(u) =
      [[[u EXCEPT !.host = "lower"] EXCEPT !.port = p] EXCEPT !.slashes = 0]
  BY <1>2 DEF Queue!normalize_url, p
<1> HIDE DEF n
<1> QED BY <1>3, <1>4, <1>5, <1>6 DEF p

\* Two URLs are told under one group exactly if they lead to the same address.
LEMMA SameGroup ==
  ASSUME NEW u \in Urls, NEW v \in Urls
  PROVE  LET k == Queue!normalize_url(u)
             l == Queue!normalize_url(v)
         IN /\ Queue!SameText(k, l) <=> Queue!SameAddress(u, l)
            /\ Queue!SameText(k, l) => (k = l <=> u.path = l.path)
            /\ k.path = u.path
<1>1. /\ u.port \in {"none", "default", "other"} /\ v.port \in {"none", "default", "other"}
  BY UrlType
<1> QED BY <1>1, Normalized DEF Queue!SameText, Queue!SameAddress

Spelled == {Queue!normalize_url(u) : u \in Urls}

LEMMA OneAddress ==
  /\ \A k \in Spelled : Queue!SameText(k, k)
  /\ \A k, l \in Spelled : Queue!SameText(k, l) => Queue!SameText(l, k)
  /\ \A k, l, m \in Spelled :
       Queue!SameText(k, l) /\ Queue!SameText(l, m) => Queue!SameText(k, m)
<1>1. \A k \in Spelled : k = [site |-> k.site, host |-> "lower", path |-> k.path,
                              port |-> k.port, slashes |-> 0]
  BY Normalized DEF Spelled
<1>2. \A k, l \in Spelled : Queue!SameText(k, l) <=> k.site = l.site /\ k.port = l.port
  <2> SUFFICES ASSUME NEW k \in Spelled, NEW l \in Spelled
               PROVE  Queue!SameText(k, l) <=> k.site = l.site /\ k.port = l.port
    OBVIOUS
  <2>1. [k EXCEPT !.path = l.path] = [site |-> k.site, host |-> "lower", path |-> l.path,
                                      port |-> k.port, slashes |-> 0]
    BY <1>1
  <2>2. l = [site |-> l.site, host |-> "lower", path |-> l.path, port |-> l.port,
             slashes |-> 0]
    BY <1>1
  <2> QED BY <2>1, <2>2 DEF Queue!SameText
<1> QED BY <1>2

\* The grouped count gives a key the size of its group, or a group is told under another
\* spelling.
SharersOf(key) == {a \in Queue!Submitted : Queue!SameText(Queue!Key(a), key)}

LEMMA GroupTold ==
  ASSUME \A a \in Queue!Submitted : Queue!Key(a) \in Spelled,
         NEW keys, NEW counts \in Queue!url_share_counts(keys),
         NEW i \in DOMAIN keys, keys[i] \in Spelled
  PROVE  IF keys[i] \in DOMAIN counts
         THEN counts[keys[i]] = Cardinality(SharersOf(keys[i]))
         ELSE SharersOf(keys[i]) = {} \/ \E b \in SharersOf(keys[i]) : Queue!Key(b) # keys[i]
<1> DEFINE key == keys[i]
           Same(k, l) == Queue!SameText(k, l)
           KeyOf(a) == Queue!Key(a)
           Rows == {a \in Queue!Submitted : \E j \in DOMAIN keys : Same(KeyOf(a), keys[j])}
           Group(a) == {b \in Rows : Same(KeyOf(b), KeyOf(a))}
           Groups == {Group(a) : a \in Rows}
           Under(told, k) == UNION {g \in Groups : KeyOf(told[g]) = k}
           Told == {f \in [Groups -> Rows] : \A g \in Groups : f[g] \in g}
           Counts(told) == [k \in {KeyOf(told[g]) : g \in Groups} |->
                              Queue!Cardinality(Under(told, k))]
<1>1. PICK told \in Told : counts = Counts(told)
  <2>1. Queue!url_share_counts(keys) = {Counts(told) : told \in Told}
    BY DEF Queue!url_share_counts, Queue!UrlShareCounts
  <2> HIDE DEF Told, Counts
  <2> QED BY <2>1
<1>2. \A a \in Rows : KeyOf(a) \in Spelled /\ a \in Queue!Submitted
  OBVIOUS
<1>3. SharersOf(key) = {b \in Rows : Same(KeyOf(b), key)}
  BY DEF SharersOf
<1> HIDE DEF Rows, KeyOf, key
<1>4. \A a \in Rows : \A b \in Group(a) : b \in Rows /\ Same(KeyOf(b), KeyOf(a))
  OBVIOUS
<1>5. key \in Spelled
  BY DEF key
<1> HIDE DEF Same
<1>6. \A a \in Rows : Same(KeyOf(a), key) => Group(a) = SharersOf(key)
  BY <1>2, <1>3, <1>5, OneAddress DEF Same
<1>7. CASE key \in DOMAIN counts
  <2>1. PICK g \in Groups : KeyOf(told[g]) = key
    BY <1>1, <1>7
  <2>2. ASSUME NEW h \in Groups, KeyOf(told[h]) = key PROVE h = SharersOf(key)
    <3>1. PICK a \in Rows : h = Group(a)
      OBVIOUS
    <3>2. told[h] \in Rows /\ Same(key, KeyOf(a))
      BY <1>1, <1>4, <2>2, <3>1
    <3>3. Same(KeyOf(a), key)
      BY <1>2, <1>5, <3>2, OneAddress DEF Same
    <3> QED BY <1>6, <3>1, <3>3
  <2>3. Under(told, key) = SharersOf(key)
    BY <2>1, <2>2
  <2>4. counts[key] = Cardinality(Under(told, key))
    BY <1>1, <1>7, QueueWords
  <2> QED BY <1>7, <2>3, <2>4 DEF key
<1>8. CASE key \notin DOMAIN counts
  <2> SUFFICES ASSUME NEW a \in SharersOf(key)
               PROVE  \E b \in SharersOf(key) : KeyOf(b) # key
    BY <1>8 DEF key, KeyOf
  <2>1. a \in Rows /\ Same(KeyOf(a), key)
    BY <1>3
  <2>2. Group(a) \in Groups /\ Group(a) = SharersOf(key)
    BY <1>6, <2>1
  <2>3. told[Group(a)] \in SharersOf(key) /\ KeyOf(told[Group(a)]) \in DOMAIN counts
    BY <1>1, <2>2
  <2> QED BY <1>8, <2>3
<1> QED BY <1>7, <1>8

\* Those that share the address of what was read; the application itself is one of them, if
\* it still has that address.
Sharing(read) == {b \in Queue!Submitted \ {read.app} : Queue!SameAddress(url[b], read.key)}

LEMMA SubmittedKeys ==
  ASSUME Queue!SignalTypeOK
  PROVE  \A a \in Queue!Submitted : a \in Apps /\ url[a] \in Urls /\ Queue!Key(a) \in Spelled
BY DEF Queue!SignalTypeOK, Queue!Submitted, Queue!Key, Spelled

LEMMA SharersCounted ==
  ASSUME Queue!SignalTypeOK, NEW read, HintRead(read)
  PROVE  /\ read.key \in Spelled
         /\ \A b \in SharersOf(read.key) : b \in Queue!Submitted /\
              (Queue!Key(b) # read.key => url[b].path # read.key.path)
         /\ SharersOf(read.key) \subseteq Sharing(read) \cup ({read.app} \cap Queue!Submitted)
         /\ Cardinality(Sharing(read)) \in Nat
         /\ Cardinality(SharersOf(read.key)) =
              Cardinality(Sharing(read)) + (IF read.app \in SharersOf(read.key) THEN 1 ELSE 0)
         /\ hints.late = 0 => read.app \in SharersOf(read.key)
         /\ {a \in Queue!Submitted \ {read.app} : Queue!SameText(Queue!Key(a), read.key)} =
              Sharing(read)
<1>1. PICK v \in Urls : read.key = Queue!normalize_url(v)
  BY DEF HintRead
<1>2. \A b \in Queue!Submitted :
        /\ Queue!SameText(Queue!Key(b), read.key) <=> Queue!SameAddress(url[b], read.key)
        /\ Queue!SameText(Queue!Key(b), read.key) =>
             (Queue!Key(b) = read.key <=> url[b].path = read.key.path)
  BY <1>1, SubmittedKeys, SameGroup DEF Queue!Key
<1>3. SharersOf(read.key) = {b \in Queue!Submitted : Queue!SameAddress(url[b], read.key)}
  BY <1>2 DEF SharersOf
<1>4. Sharing(read) = SharersOf(read.key) \ {read.app}
  BY <1>3 DEF Sharing
<1>5. IsFiniteSet(SharersOf(read.key))
  <2>1. SharersOf(read.key) \subseteq Apps
    BY <1>3, SubmittedKeys
  <2> QED BY <2>1, QueueFinite, FS_Subset
<1>6. hints.late = 0 => read.app \in SharersOf(read.key)
  BY SubmittedKeys, OneAddress DEF HintRead, ReadOf, SharersOf
<1>7. /\ Cardinality(Sharing(read)) \in Nat
      /\ Cardinality(SharersOf(read.key)) =
           Cardinality(Sharing(read)) + (IF read.app \in SharersOf(read.key) THEN 1 ELSE 0)
  <2>1. Cardinality(SharersOf(read.key)) \in Nat /\ IsFiniteSet(Sharing(read))
    BY <1>4, <1>5, FS_CardinalityType, FS_Subset
  <2>2. CASE read.app \in SharersOf(read.key)
    <3>1. Cardinality(Sharing(read)) = Cardinality(SharersOf(read.key)) - 1
      BY <1>4, <1>5, <2>2, FS_RemoveElement
    <3>2. Cardinality(Sharing(read)) \in Nat
      BY <2>1, FS_CardinalityType
    <3> QED BY <2>1, <2>2, <3>1, <3>2
  <2>3. CASE read.app \notin SharersOf(read.key)
    <3>1. Sharing(read) = SharersOf(read.key)
      BY <1>4, <2>3
    <3> QED BY <2>1, <2>3, <3>1
  <2> QED BY <2>2, <2>3
<1>8. read.key \in Spelled
  BY <1>1 DEF Spelled
<1>9. \A b \in SharersOf(read.key) : b \in Queue!Submitted /\
        (Queue!Key(b) # read.key => url[b].path # read.key.path)
  BY <1>2 DEF SharersOf
<1>10. {a \in Queue!Submitted \ {read.app} : Queue!SameText(Queue!Key(a), read.key)} =
         Sharing(read)
  BY <1>2 DEF Sharing
<1>11. SharersOf(read.key) \subseteq Sharing(read) \cup ({read.app} \cap Queue!Submitted)
  BY <1>4, <1>9
<1> QED BY <1>6, <1>7, <1>8, <1>9, <1>10, <1>11

\* What HintsTold says of one row of the page.
TellsOf(read, given, at) ==
  /\ given <= Cardinality(Sharing(read)) + hints.late
  /\ \/ given + hints.late >= Cardinality(Sharing(read))
     \/ /\ at = "queue" /\ given = 0
        /\ \E b \in Sharing(read) \cup ({read.app} \cap Queue!Submitted) :
             url[b].path # read.key.path

LEMMA AtLeastNone ==
  ASSUME NEW n \in Int
  PROVE  Queue!Max({0, n}) = IF n > 0 THEN n ELSE 0
BY DEF Queue!Max

\* list_review_queue: the count under the spelling of the row, or none.
LEMMA QueueHint ==
  ASSUME Queue!SignalTypeOK, NEW read, HintRead(read), hints.late \in Nat,
         NEW keys, NEW counts \in Queue!url_share_counts(keys),
         NEW i \in DOMAIN keys, keys[i] = read.key
  PROVE  TellsOf(read, Queue!duplicate_hint(counts, read.key), "queue")
<1> DEFINE key == read.key
           n == Cardinality(Sharing(read))
           given == Queue!duplicate_hint(counts, key)
<1>1. /\ n \in Nat
      /\ Cardinality(SharersOf(key)) = n + (IF read.app \in SharersOf(key) THEN 1 ELSE 0)
      /\ hints.late = 0 => read.app \in SharersOf(key)
      /\ SharersOf(key) \subseteq Sharing(read) \cup ({read.app} \cap Queue!Submitted)
      /\ \A b \in SharersOf(key) : Queue!Key(b) # key => url[b].path # key.path
  BY SharersCounted
<1>2. IF key \in DOMAIN counts THEN counts[key] = Cardinality(SharersOf(key))
      ELSE SharersOf(key) = {} \/ \E b \in SharersOf(key) : Queue!Key(b) # key
  <2>1. keys[i] \in Spelled
    BY SharersCounted
  <2> QED BY <2>1, SubmittedKeys, GroupTold
<1>3. CASE key \in DOMAIN counts
  <2>1. given = Queue!Max({0, Cardinality(SharersOf(key)) - 1})
    BY <1>2, <1>3 DEF Queue!duplicate_hint
  <2> HIDE DEF n, given, key
  <2>2. Cardinality(SharersOf(key)) \in Nat
    BY <1>1
  <2>3. given = IF Cardinality(SharersOf(key)) - 1 > 0 THEN Cardinality(SharersOf(key)) - 1 ELSE 0
    BY <2>1, <2>2, AtLeastNone
  <2>4. given <= n + hints.late /\ given + hints.late >= n
    BY <1>1, <2>2, <2>3
  <2> QED BY <2>4 DEF TellsOf, n, given, key
<1>4. CASE key \notin DOMAIN counts
  <2>1. given = 0
    BY <1>4, AtLeastNone DEF Queue!duplicate_hint
  <2>2. CASE SharersOf(key) = {}
    <3>1. n = 0
      BY <1>1, <2>2, FS_EmptySet
    <3> QED BY <2>1, <3>1 DEF TellsOf
  <2>3. CASE \E b \in SharersOf(key) : Queue!Key(b) # key
    <3>1. \E b \in Sharing(read) \cup ({read.app} \cap Queue!Submitted) : url[b].path # key.path
      BY <1>1, <2>3
    <3> HIDE DEF n, given
    <3>2. given <= n + hints.late
      BY <1>1, <2>1
    <3> QED BY <2>1, <3>1, <3>2 DEF TellsOf, n, given
  <2> QED BY <1>2, <1>4, <2>2, <2>3
<1> QED BY <1>3, <1>4

LEMMA WaitingWithout ==
  ASSUME Queue!SignalTypeOK, NEW a
  PROVE  LET w == Queue!Without(waiting, a)
         IN /\ w \in Seq(Apps) /\ Queue!IsInjective(w)
            /\ Queue!Range(w) = Queue!Range(waiting) \ {a}
<1> DEFINE K == {i \in DOMAIN waiting : waiting[i] # a}
           w == Picked(waiting, K)
<1>1. Queue!Without(waiting, a) = w
  BY QueueWords DEF Queue!Without
<1>2. waiting \in Seq(Apps) /\ K \in SUBSET DOMAIN waiting
  BY DEF Queue!SignalTypeOK
<1>3. \A i, j \in DOMAIN waiting : waiting[i] = waiting[j] => i = j
  BY QueueWords DEF Queue!SignalTypeOK
<1>4. /\ w \in Seq(Apps)
      /\ \A i, j \in DOMAIN w : w[i] = w[j] => i = j
      /\ {w[k] : k \in DOMAIN w} = {waiting[i] : i \in K}
  <2> HIDE DEF K
  <2> QED BY <1>2, <1>3, PickedOnce
<1>5. {waiting[i] : i \in K} = Queue!Range(waiting) \ {a}
  BY QueueWords
<1> HIDE DEF w, K
<1>6. Queue!IsInjective(w) /\ Queue!Range(w) = {w[k] : k \in DOMAIN w}
  BY <1>4, QueueWords
<1> QED BY <1>1, <1>4, <1>5, <1>6

LEMMA WaitingAppended ==
  ASSUME Queue!SignalTypeOK, NEW a \in Apps, a \notin Queue!Range(waiting)
  PROVE  LET w == Append(waiting, a)
         IN /\ w \in Seq(Apps) /\ Queue!IsInjective(w)
            /\ Queue!Range(w) = Queue!Range(waiting) \cup {a}
<1> DEFINE w == Append(waiting, a)
           n == Len(waiting)
<1>1. waiting \in Seq(Apps)
  BY DEF Queue!SignalTypeOK
<1>2. n \in Nat /\ DOMAIN waiting = 1 .. n
  BY <1>1, LenProperties
<1>3. /\ w \in Seq(Apps) /\ Len(w) = n + 1
      /\ \A i \in 1 .. n : w[i] = waiting[i]
      /\ w[n + 1] = a
  BY <1>1, AppendProperties
<1>4. DOMAIN w = 1 .. n + 1
  BY <1>3, LenProperties
<1>5. \A i, j \in DOMAIN waiting : waiting[i] = waiting[j] => i = j
  BY QueueWords DEF Queue!SignalTypeOK
<1>6. \A i \in DOMAIN waiting : waiting[i] # a
  BY QueueWords
<1> HIDE DEF w, n
<1>7. \A i \in 1 .. n + 1 : i \in 1 .. n \/ i = n + 1
  BY <1>2
<1>8. \A i, j \in DOMAIN w : w[i] = w[j] => i = j
  BY <1>2, <1>3, <1>4, <1>5, <1>6, <1>7
<1>9. {w[i] : i \in DOMAIN w} = {waiting[i] : i \in DOMAIN waiting} \cup {a}
  <2>1. \A i \in 1 .. n : i \in 1 .. n + 1
    BY <1>2
  <2>2. n + 1 \in 1 .. n + 1
    BY <1>2
  <2> QED BY <1>2, <1>3, <1>4, <1>7, <2>1, <2>2
<1> QED BY <1>3, <1>8, <1>9, QueueWords DEF w

LEMMA HintsToldRows ==
  ASSUME \A i \in DOMAIN hints.given : TellsOf(hints.keys[i], hints.given[i], hints.at)
  PROVE  Queue!HintsTold
BY QueueWords DEF TellsOf, Sharing, Queue!HintsTold

LEMMA HintsToldRowsNext ==
  ASSUME \A i \in DOMAIN hints'.given : TellsOf(hints.keys[i], hints.given[i], hints.at)'
  PROVE  Queue!HintsTold'
BY QueueWords DEF TellsOf, Sharing, Queue!HintsTold

\* A request between the statements of a page.
LEMMA QueueMoves ==
  ASSUME QueueInv, Queue!Move,
         url' \in [Apps -> Urls \cup {None}],
         waiting' \in Seq(Apps), Queue!IsInjective(waiting)',
         (Queue!Range(waiting) \cap offered = {})',
         (Queue!Range(waiting) \cup offered \subseteq {a \in Apps : url[a] # None})'
  PROVE  QueueInv'
<1>1. /\ hints.at \in {"pending", "refreshed"} /\ hints.late < MaxMoves
      /\ hints' = [at |-> hints.at, keys |-> hints.keys, given |-> <<>>, late |-> hints.late + 1]
  BY DEF Queue!Move, QueueInv
<1>2. /\ hints'.at = hints.at /\ hints'.keys = hints.keys /\ hints'.given = <<>>
      /\ hints'.late = hints.late + 1
      /\ hints' = [at |-> hints'.at, keys |-> hints'.keys, given |-> hints'.given,
                   late |-> hints'.late]
  BY <1>1
<1>3. hints.late \in 0 .. MaxMoves /\ MaxMoves \in Nat
  BY QueueFinite DEF QueueInv, Queue!SignalTypeOK
<1>4. hints'.late \in 0 .. MaxMoves /\ hints'.late # 0
  BY <1>1, <1>2, <1>3
<1>5. Queue!SignalTypeOK'
  BY <1>1, <1>2, <1>4 DEF Queue!SignalTypeOK
<1>6. \A i \in DOMAIN hints'.keys : HintRead(hints.keys[i])'
  BY <1>1, <1>2, <1>4 DEF QueueInv, HintRead
<1>7. Queue!HintsTold'
  <2>1. DOMAIN hints'.given = {}
    BY <1>2
  <2> QED BY <2>1, HintsToldRowsNext
<1> QED BY <1>1, <1>2, <1>5, <1>6, <1>7 DEF QueueInv

LEMMA QueueStep == QueueInv /\ Queue!SignalNext => QueueInv'
<1> SUFFICES ASSUME QueueInv, Queue!SignalNext PROVE QueueInv'
  OBVIOUS
<1>1. /\ Queue!SignalTypeOK
      /\ url \in [Apps -> Urls \cup {None}] /\ waiting \in Seq(Apps)
      /\ Queue!IsInjective(waiting) /\ Queue!Range(waiting) \cap offered = {}
      /\ Queue!Range(waiting) \cup offered \subseteq {a \in Apps : url[a] # None}
      /\ hints.late \in 0 .. MaxMoves /\ MaxMoves \in Nat
  BY QueueFinite DEF QueueInv, Queue!SignalTypeOK
<1>2. ASSUME NEW a \in Apps, NEW u \in Urls, Queue!submit_app(a, u) PROVE QueueInv'
  <2>1. a \notin Queue!Range(waiting) \cup offered
    BY <1>1, <1>2 DEF Queue!submit_app
  <2>2. /\ waiting' \in Seq(Apps) /\ Queue!IsInjective(waiting')
        /\ Queue!Range(waiting') = Queue!Range(waiting) \cup {a}
    BY <1>1, <1>2, <2>1, WaitingAppended DEF Queue!submit_app
  <2>3. u # None
    BY QueueFinite
  <2> QED BY <1>1, <1>2, <2>1, <2>2, <2>3, QueueMoves DEF Queue!submit_app
<1>3. ASSUME NEW a \in Apps, NEW u \in Urls, Queue!edit_app(a, u) PROVE QueueInv'
  <2>1. /\ waiting' \in Seq(Apps) /\ Queue!IsInjective(waiting')
        /\ Queue!Range(waiting') = Queue!Range(waiting) \cup (offered \cap {a})
    <3>1. CASE a \in offered
      <4>1. a \notin Queue!Range(waiting)
        BY <1>1, <3>1
      <4> QED BY <1>1, <1>3, <3>1, <4>1, WaitingAppended DEF Queue!edit_app
    <3>2. CASE a \notin offered
      BY <1>1, <1>3, <3>2 DEF Queue!edit_app
    <3> QED BY <3>1, <3>2
  <2>2. u # None
    BY QueueFinite
  <2> QED BY <1>1, <1>3, <2>1, <2>2, QueueMoves DEF Queue!edit_app
<1>4. ASSUME NEW a \in Apps, Queue!accept_app(a) PROVE QueueInv'
  <2>1. /\ waiting' \in Seq(Apps) /\ Queue!IsInjective(waiting')
        /\ Queue!Range(waiting') = Queue!Range(waiting) \ {a}
    BY <1>1, <1>4, WaitingWithout DEF Queue!accept_app
  <2> QED BY <1>1, <1>4, <2>1, QueueMoves DEF Queue!accept_app
<1>5. ASSUME NEW a \in Apps, Queue!Close(a) PROVE QueueInv'
  <2>1. /\ waiting' \in Seq(Apps) /\ Queue!IsInjective(waiting')
        /\ Queue!Range(waiting') = Queue!Range(waiting) \ {a}
    BY <1>1, <1>5, WaitingWithout DEF Queue!Close
  <2> QED BY <1>1, <1>5, <2>1, QueueMoves DEF Queue!Close
<1>6. ASSUME NEW a \in Apps, Queue!resubmit_app(a) PROVE QueueInv'
  <2>1. a \notin Queue!Range(waiting) \cup offered /\ url[a] # None
    BY <1>6 DEF Queue!resubmit_app, Queue!Submitted
  <2>2. /\ waiting' \in Seq(Apps) /\ Queue!IsInjective(waiting')
        /\ Queue!Range(waiting') = Queue!Range(waiting) \cup {a}
    BY <1>1, <1>6, <2>1, WaitingAppended DEF Queue!resubmit_app
  <2> QED BY <1>1, <1>6, <2>1, <2>2, QueueMoves DEF Queue!resubmit_app
<1>7. ASSUME NEW a \in Apps, Queue!OwnerLeaves(a) PROVE QueueInv'
  <2>1. /\ waiting' \in Seq(Apps) /\ Queue!IsInjective(waiting')
        /\ Queue!Range(waiting') = Queue!Range(waiting) \ {a}
    BY <1>1, <1>7, WaitingWithout DEF Queue!OwnerLeaves
  <2> QED BY <1>1, <1>7, <2>1, QueueMoves DEF Queue!OwnerLeaves
<1>8. ASSUME hints'.at \in {"pending", "refreshed"}, hints.at = "none",
             NEW keys, \A i \in DOMAIN keys : keys[i].app \in Queue!Submitted /\
                                              keys[i].key = Queue!Key(keys[i].app),
             hints'.at = "refreshed" => keys = <<keys[1]>>,
             hints' = [at |-> hints'.at, keys |-> keys, given |-> <<>>, late |-> hints.late],
             UNCHANGED <<url, waiting, offered>>
      PROVE  QueueInv'
  <2>1. hints'.keys = keys /\ hints'.given = <<>> /\ hints'.late = hints.late
    BY <1>8
  <2>2. Queue!SignalTypeOK'
    BY <1>1, <1>8, <2>1 DEF Queue!SignalTypeOK
  <2>3. \A i \in DOMAIN hints'.keys : HintRead(hints.keys[i])'
    BY <1>1, <1>8, <2>1, SubmittedKeys DEF HintRead, ReadOf, Queue!Submitted, Queue!Key, Spelled
  <2>4. Queue!HintsTold'
    <3>1. DOMAIN hints'.given = {}
      BY <2>1
    <3> QED BY <3>1, HintsToldRowsNext
  <2> QED BY <1>8, <2>1, <2>2, <2>3, <2>4 DEF QueueInv
<1>9. CASE Queue!ReadPending
  <2> DEFINE keys == [i \in DOMAIN waiting |->
                        [app |-> waiting[i], key |-> Queue!Key(waiting[i])]]
  <2>1. hints.at = "none" /\ hints.given = <<>>
        /\ hints' = [at |-> "pending", keys |-> keys, given |-> <<>>, late |-> hints.late]
        /\ UNCHANGED <<url, waiting, offered>>
    BY <1>9 DEF Queue!ReadPending, Queue!Read, QueueInv
  <2>2. \A i \in DOMAIN keys : keys[i].app \in Queue!Submitted /\
                               keys[i].key = Queue!Key(keys[i].app)
    BY <1>1, QueueWords DEF Queue!Submitted
  <2> HIDE DEF keys
  <2>3. hints'.at = "pending"
    BY <2>1
  <2> QED BY <1>8, <2>1, <2>2, <2>3
<1>10. ASSUME NEW a \in Apps, Queue!RefreshApp(a) PROVE QueueInv'
  <2> DEFINE keys == <<[app |-> a, key |-> Queue!Key(a)]>>
  <2>1. hints.at = "none" /\ hints.given = <<>> /\ a \in Queue!Submitted
        /\ hints' = [at |-> "refreshed", keys |-> keys, given |-> <<>>, late |-> hints.late]
        /\ UNCHANGED <<url, waiting, offered>>
    BY <1>10 DEF Queue!RefreshApp, Queue!Read, QueueInv
  <2>2. \A i \in DOMAIN keys : keys[i].app \in Queue!Submitted /\
                               keys[i].key = Queue!Key(keys[i].app)
    BY <2>1
  <2>3. keys = <<keys[1]>>
    OBVIOUS
  <2> HIDE DEF keys
  <2>4. hints'.at = "refreshed"
    BY <2>1
  <2> QED BY <1>8, <2>1, <2>2, <2>3, <2>4
<1>11. ASSUME hints'.at \in {"queue", "page"}, NEW given,
              \A i \in DOMAIN given : TellsOf(hints.keys[i], given[i], hints'.at),
              hints' = [at |-> hints'.at, keys |-> hints.keys, given |-> given,
                        late |-> hints.late],
              UNCHANGED <<url, waiting, offered>>
       PROVE  QueueInv'
  <2>1. hints'.keys = hints.keys /\ hints'.given = given /\ hints'.late = hints.late
    BY <1>11
  <2>2. Queue!SignalTypeOK'
    BY <1>1, <1>11, <2>1 DEF Queue!SignalTypeOK
  <2>3. Queue!HintsTold'
    <3>1. \A i \in DOMAIN hints'.given : TellsOf(hints.keys[i], hints.given[i], hints.at)'
      BY <1>11, <2>1 DEF TellsOf, Sharing, Queue!Submitted
    <3> QED BY <3>1, HintsToldRowsNext
  <2> QED BY <1>11, <2>1, <2>2, <2>3 DEF QueueInv
<1>12. CASE Queue!ReadCounts
  <2> DEFINE keys == [i \in DOMAIN hints.keys |-> hints.keys[i].key]
  <2>1. PICK counts \in Queue!url_share_counts(keys) :
          Queue!Read("pending", "queue",
            [hints EXCEPT !.given = [i \in DOMAIN hints.keys |->
                                       Queue!duplicate_hint(counts, hints.keys[i].key)]])
    BY <1>12 DEF Queue!ReadCounts
  <2> DEFINE given == [i \in DOMAIN hints.keys |->
                         Queue!duplicate_hint(counts, hints.keys[i].key)]
  <2>2. hints.at = "pending" /\ UNCHANGED <<url, waiting, offered>>
        /\ hints' = [at |-> "queue", keys |-> hints.keys, given |-> given, late |-> hints.late]
    BY <2>1 DEF Queue!Read, QueueInv
  <2>3. ASSUME NEW i \in DOMAIN hints.keys
        PROVE  TellsOf(hints.keys[i], Queue!duplicate_hint(counts, hints.keys[i].key), "queue")
    <3>1. HintRead(hints.keys[i])
      BY <2>2 DEF QueueInv
    <3>2. i \in DOMAIN keys /\ keys[i] = hints.keys[i].key
      OBVIOUS
    <3> HIDE DEF keys
    <3> QED BY <1>1, <3>1, <3>2, QueueHint
  <2>4. \A i \in DOMAIN given : TellsOf(hints.keys[i], given[i], "queue")
    BY <2>3
  <2> HIDE DEF given
  <2>5. hints'.at = "queue"
    BY <2>2
  <2> QED BY <1>11, <2>2, <2>4, <2>5
<1>13. CASE Queue!ReadSharing
  <2> DEFINE read == hints.keys[1]
             n == Queue!Cardinality(Queue!apps_sharing_url(read.key, read.app))
             given == <<n>>
  <2>1. hints.at = "refreshed" /\ UNCHANGED <<url, waiting, offered>>
        /\ hints' = [at |-> "page", keys |-> hints.keys, given |-> given, late |-> hints.late]
    BY <1>13 DEF Queue!ReadSharing, Queue!Read, QueueInv
  <2>2. hints.keys = <<read>>
    BY <2>1 DEF QueueInv
  <2>3. HintRead(read)
    <3>1. 1 \in DOMAIN <<read>>
      OBVIOUS
    <3>2. 1 \in DOMAIN hints.keys
      BY <2>2, <3>1
    <3> QED BY <2>1, <3>2 DEF QueueInv
  <2>4. n = Cardinality(Sharing(read)) /\ n \in Nat
    BY <1>1, <2>3, SharersCounted, QueueWords DEF Queue!apps_sharing_url
  <2> HIDE DEF n, read
  <2>5. TellsOf(read, n, "page")
    BY <1>1, <2>4 DEF TellsOf
  <2>6. \A i \in DOMAIN given : TellsOf(hints.keys[i], given[i], "page")
    BY <2>5 DEF read
  <2> HIDE DEF given
  <2>7. hints'.at = "page"
    BY <2>1
  <2> QED BY <1>11, <2>1, <2>6, <2>7
<1> QED BY <1>2, <1>3, <1>4, <1>5, <1>6, <1>7, <1>9, <1>10, <1>12, <1>13
        DEF Queue!SignalNext

\* A finite set can be lined up.
LEMMA LinedUp ==
  ASSUME NEW S, IsFiniteSet(S)
  PROVE  /\ LineUp(S) \in Seq(S)
         /\ \A i, j \in DOMAIN LineUp(S) : LineUp(S)[i] = LineUp(S)[j] => i = j
         /\ {LineUp(S)[i] : i \in DOMAIN LineUp(S)} = S
<1> DEFINE n == Cardinality(S)
           D == 1 .. n
<1>1. n \in Nat /\ IsFiniteSet(D) /\ Cardinality(D) = n
  BY Counted, FS_CardinalityType
<1>2. PICK g : g \in Bijection(D, S)
  <2>1. ExistsBijection(1 .. Cardinality(S), S)
    BY FS_CardinalityType
  <2> QED BY <2>1 DEF ExistsBijection
<1>3. g \in [D -> S] /\ \A i, j \in D : g[i] = g[j] => i = j
  <2> HIDE DEF D
  <2> QED BY <1>2 DEF Bijection, Injection, IsInjective
<1> DEFINE f == LineUp(S)
<1>4. f \in [D -> S] /\ \A i, j \in DOMAIN f : f[i] = f[j] => i = j
  <2>1. \E h \in [D -> S] : \A i, j \in DOMAIN h : h[i] = h[j] => i = j
    <3>1. DOMAIN g = D
      BY <1>3
    <3> HIDE DEF D
    <3> QED BY <1>3, <3>1
  <2> QED BY <2>1 DEF LineUp, IsInjective
<1> DEFINE R == {f[i] : i \in D}
<1> HIDE DEF f
<1>5. DOMAIN f = D /\ R \subseteq S
  BY <1>4
<1>6. R = S
  <2>1. f \in [D -> R] /\ \A r \in R : \E i \in D : f[i] = r
    BY <1>4
  <2> HIDE DEF R, D, n
  <2>2. f \in Bijection(D, R)
    BY <1>4, <1>5, <2>1, Fun_IsBij
  <2>3. ExistsBijection(D, R)
    BY <2>2 DEF ExistsBijection
  <2>4. IsFiniteSet(R) /\ Cardinality(R) = Cardinality(D)
    BY <1>1, <2>3, FS_Bijection
  <2> QED BY <1>1, <1>5, <2>4, FS_Subset DEF n
<1>7. f \in Seq(S)
  <2> HIDE DEF n
  <2> QED BY <1>1, <1>4
<1> QED BY <1>4, <1>5, <1>6, <1>7 DEF f

LEMMA QueueStarts == Queue!SignalInit => QueueInv
<1> SUFFICES ASSUME Queue!SignalInit PROVE QueueInv
  OBVIOUS
<1>1. PICK pending \in SUBSET Queue!Submitted :
        waiting = Queue!LineUp(pending) /\ offered \in {{}, Queue!Submitted \ pending}
  BY DEF Queue!SignalInit
<1>2. url \in [Apps -> Urls \cup {None}] /\ hints = Queue!Unread
  BY DEF Queue!SignalInit
<1>3. waiting = LineUp(pending)
  BY <1>1 DEF Queue!LineUp, LineUp, Queue!IsInjective, IsInjective, Queue!Cardinality, Cardinality
<1>4. pending \subseteq Apps /\ IsFiniteSet(pending)
  <2>1. pending \subseteq Apps
    BY DEF Queue!Submitted
  <2> QED BY <2>1, QueueFinite, FS_Subset
<1>5. /\ waiting \in Seq(pending) /\ Queue!IsInjective(waiting)
      /\ Queue!Range(waiting) = pending
  <2>1. /\ waiting \in Seq(pending)
        /\ \A i, j \in DOMAIN waiting : waiting[i] = waiting[j] => i = j
        /\ {waiting[i] : i \in DOMAIN waiting} = pending
    BY <1>3, <1>4, LinedUp
  <2> QED BY <2>1, QueueWords
<1>6. waiting \in Seq(Apps)
  BY <1>4, <1>5, SeqMonotonic
<1>7. /\ hints.at = "none" /\ hints.late = 0 /\ hints.given = <<>>
      /\ hints = [at |-> hints.at, keys |-> hints.keys, given |-> hints.given,
                  late |-> hints.late]
  BY <1>2 DEF Queue!Unread
<1>8. Queue!SignalTypeOK
  BY <1>1, <1>2, <1>5, <1>6, <1>7, QueueFinite DEF Queue!SignalTypeOK, Queue!Submitted
<1>9. Queue!HintsTold
  <2>1. DOMAIN hints.given = {}
    BY <1>7
  <2> QED BY <2>1, HintsToldRows
<1> QED BY <1>7, <1>8, <1>9 DEF QueueInv

LEMMA QueueHolds == Spec => [](part = "queue" => QueueInv)
<1> DEFINE Inv == part = "queue" => QueueInv
<1>1. Init => Inv
  BY QueueStarts DEF Init
<1>2. Inv /\ [Next]_vars => Inv'
  <2> SUFFICES ASSUME Inv, [Next]_vars, part' = "queue" PROVE QueueInv'
    OBVIOUS
  <2>1. part = "queue" /\ (Queue!SignalNext \/ UNCHANGED queueState)
    BY DEF Next, NextEdit, NextRead, vars
  <2>2. CASE UNCHANGED queueState
    BY <2>1, <2>2 DEF queueState, QueueInv, Queue!SignalTypeOK, HintRead, ReadOf,
      Queue!HintsTold, Queue!Submitted, Queue!Key
  <2> QED BY <2>1, <2>2, QueueStep
<1> QED BY <1>1, <1>2, PTL DEF Spec

\* The hints count the other applications whose URL leads to the same address, up to the
\* requests between the statements and, in the queue, to the case of a path, for any number
\* of applications, of URLs and of requests (list_review_queue, apps_sharing_url).
THEOREM HintsStand == Spec => [](part = "queue" => Queue!HintsTold)
<1>1. QueueInv => Queue!HintsTold
  BY DEF QueueInv
<1> QED BY <1>1, QueueHolds, PTL

In(seq) == {seq[i] : i \in DOMAIN seq}
Once(seq) == \A i, j \in DOMAIN seq : seq[i] = seq[j] => i = j

LEMMA PickedIn ==
  ASSUME NEW S, NEW seq \in Seq(S), NEW K \in SUBSET DOMAIN seq
  PROVE  In(Picked(seq, K)) = {seq[i] : i \in K}
<1> DEFINE n == Cardinality(K)
           p == Picked(seq, K)
<1>1. PICK place : Placing(place, seq, K)
  BY PickedPlaces
<1>2. /\ place \in [1 .. n -> K]
      /\ \A k \in 1 .. n : p[k] = seq[place[k]]
      /\ \A i \in K : \E k \in 1 .. n : place[k] = i
  BY <1>1 DEF Placing
<1>3. DOMAIN p = 1 .. n
  <2>1. p \in Seq(S) /\ Len(p) = n
    BY PickedPlaces
  <2> HIDE DEF p, n
  <2> QED BY <2>1, LenProperties
<1> HIDE DEF p, n
<1>4. In(p) = {seq[i] : i \in K}
  BY <1>2, <1>3 DEF In
<1> QED BY <1>4 DEF p

LEMMA PrefixIs ==
  ASSUME NEW S, NEW seq \in Seq(S), NEW limit \in Nat
  PROVE  LET p == Pages!Prefix(seq, limit)
         IN /\ p \in Seq(S) /\ Len(p) <= limit /\ Len(p) <= Len(seq)
            /\ DOMAIN p = 1 .. Len(p) /\ Len(p) \in Nat
            /\ \A k \in DOMAIN p : p[k] = seq[k]
            /\ Len(p) = limit \/ Len(p) = Len(seq)
<1> DEFINE m == IF Len(seq) < limit THEN Len(seq) ELSE limit
           p == SubSeq(seq, 1, m)
<1>1. Len(seq) \in Nat
  BY LenProperties
<1>2. m \in Nat /\ m <= limit /\ m <= Len(seq) /\ (m = limit \/ m = Len(seq))
  BY <1>1
<1>3. Pages!Prefix(seq, limit) = p
  BY DEF Pages!Prefix
<1> HIDE DEF m
<1>4. p \in Seq(S) /\ Len(p) = m /\ \A k \in 1 .. m : p[k] = seq[k]
  <2>1. p = [k \in 1 .. m |-> seq[k]]
    BY <1>1, <1>2
  <2>2. \A k \in 1 .. m : seq[k] \in S
    BY <1>1, <1>2, ElementOfSeq
  <2>3. p \in [1 .. m -> S]
    BY <2>1, <2>2
  <2> HIDE DEF p
  <2> QED BY <1>2, <2>1, <2>3
<1> HIDE DEF p
<1>5. DOMAIN p = 1 .. m
  BY <1>4, LenProperties
<1> QED BY <1>2, <1>3, <1>4, <1>5

\* What a limited query leaves out comes after all it returns.
LEMMA FirstPicked ==
  ASSUME NEW S, NEW seq \in Seq(S), NEW K \in SUBSET DOMAIN seq, NEW limit \in Nat
  PROVE  LET p == Pages!Prefix(Picked(seq, K), limit)
         IN /\ p \in Seq(S) /\ Len(p) <= limit
            /\ \A e \in In(p) : \E i \in K : e = seq[i]
            /\ \A i \in K : \/ seq[i] \in In(p)
                            \/ /\ Len(p) = limit
                               /\ \A e \in In(p) : \E j \in K : j < i /\ e = seq[j]
<1> DEFINE n == Cardinality(K)
           q == Picked(seq, K)
           p == Pages!Prefix(q, limit)
<1>1. PICK place : Placing(place, seq, K)
  BY PickedPlaces
<1>2. /\ place \in [1 .. n -> K]
      /\ \A k \in 1 .. n : q[k] = seq[place[k]]
      /\ \A i \in K : \E k \in 1 .. n : place[k] = i
      /\ \A j, k \in 1 .. n : j < k => place[j] < place[k]
  BY <1>1 DEF Placing
<1>3. q \in Seq(S) /\ Len(q) = n /\ n \in Nat
  BY PickedPlaces
<1> HIDE DEF q, n
<1>4. /\ p \in Seq(S) /\ Len(p) <= limit /\ Len(p) <= n /\ Len(p) \in Nat
      /\ DOMAIN p = 1 .. Len(p)
      /\ \A k \in DOMAIN p : p[k] = q[k]
      /\ Len(p) = limit \/ Len(p) = n
  BY <1>3, PrefixIs
<1> HIDE DEF p
<1>5. \A k \in DOMAIN p : k \in 1 .. n /\ p[k] = seq[place[k]] /\ place[k] \in K
  <2> DEFINE m == Len(p)
  <2>1. m \in Nat /\ m <= n /\ n \in Nat /\ DOMAIN p = 1 .. m
    BY <1>3, <1>4
  <2> HIDE DEF m
  <2>2. \A k \in 1 .. m : k \in 1 .. n
    BY <2>1
  <2> SUFFICES ASSUME NEW k \in DOMAIN p
               PROVE  k \in 1 .. n /\ p[k] = seq[place[k]] /\ place[k] \in K
    OBVIOUS
  <2>3. k \in 1 .. n
    BY <2>1, <2>2
  <2>4. p[k] = q[k] /\ q[k] = seq[place[k]]
    BY <1>2, <1>4, <2>3
  <2> QED BY <1>2, <2>3, <2>4
<1>6. \A e \in In(p) : \E i \in K : e = seq[i]
  BY <1>5 DEF In
<1>7. ASSUME NEW i \in K, seq[i] \notin In(p)
      PROVE  Len(p) = limit /\ \A e \in In(p) : \E j \in K : j < i /\ e = seq[j]
  <2>1. PICK k \in 1 .. n : place[k] = i
    BY <1>2
  <2>2. k \notin DOMAIN p
    <3> SUFFICES ASSUME k \in DOMAIN p PROVE FALSE
      OBVIOUS
    <3>1. p[k] = seq[i]
      BY <1>5, <2>1
    <3> QED BY <1>7, <3>1 DEF In
  <2> DEFINE m == Len(p)
  <2>3. m \in Nat /\ DOMAIN p = 1 .. m /\ (m = limit \/ m = n)
    BY <1>4
  <2> HIDE DEF m
  <2>4. k > m /\ k \in Nat /\ k <= n
    BY <1>3, <2>2, <2>3
  <2>5. m = limit
    BY <1>3, <2>4, <2>3
  <2>6. \A l \in DOMAIN p : l < k
    BY <2>4, <2>3
  <2>7. \A l \in DOMAIN p : place[l] < i /\ place[l] \in K /\ p[l] = seq[place[l]]
    BY <1>2, <1>5, <2>1, <2>6
  <2> QED BY <2>5, <2>7 DEF In, m
<1>8. /\ p \in Seq(S) /\ Len(p) <= limit
      /\ \A e \in In(p) : \E i \in K : e = seq[i]
      /\ \A i \in K : \/ seq[i] \in In(p)
                      \/ /\ Len(p) = limit
                         /\ \A e \in In(p) : \E j \in K : j < i /\ e = seq[j]
  BY <1>4, <1>6, <1>7
<1> QED BY <1>8 DEF p, q

-------------------------------------------------------------------------------
(***************************************************************************)
(* The pages that show applications.  What has not changed since a page    *)
(* was begun is as it was then, and what has changed is marked with the    *)
(* time of its change: a statement about a page that only uses either      *)
(* outlives whatever other requests do.                                    *)
(***************************************************************************)
LEMMA PagesWords ==
  /\ \A S : Pages!IsFiniteSet(S) <=> IsFiniteSet(S)
  /\ \A S : Pages!Cardinality(S) = Cardinality(S)
  /\ \A s : Pages!Range(s) = In(s)
  /\ \A s : Pages!IsInjective(s) <=> Once(s)
  /\ \A s, K : Pages!Picked(s, K) = Picked(s, K)
  /\ \A s, e : Pages!Without(s, e) = Picked(s, {i \in DOMAIN s : s[i] # e})
<1>1. \A S : Pages!IsFiniteSet(S) <=> IsFiniteSet(S)
  BY DEF Pages!IsFiniteSet, IsFiniteSet
<1>2. \A S : Pages!Cardinality(S) = Cardinality(S)
  BY DEF Pages!Cardinality, Cardinality
<1>3. \A s, K : Pages!Picked(s, K) = Picked(s, K)
  BY DEF Pages!Picked, Picked, Pages!Upto, Upto, Pages!Cardinality, Cardinality
<1>4. \A s, e : Pages!Without(s, e) = Picked(s, {i \in DOMAIN s : s[i] # e})
  BY <1>3 DEF Pages!Without
<1>5. \A s : Pages!Range(s) = In(s)
  BY DEF Pages!Range, In
<1>6. \A s : Pages!IsInjective(s) <=> Once(s)
  BY DEF Pages!IsInjective, Once
<1> QED BY <1>1, <1>2, <1>3, <1>4, <1>5, <1>6

LEMMA PagesConstants ==
  /\ IsFiniteSet(Pages!Held) /\ PageMoves \in Nat /\ MaxAge \in Nat
  /\ FeedSize \in Nat /\ FeedNotices \in Nat /\ WidgetNotices \in Nat /\ OtherApps \in Nat
  /\ None \notin BOOLEAN
  /\ \A a \in Pages!Held : Owner[a] \in Developers
BY ReadConstants, PagesWords DEF Pages!PagesAssumption

\* At some moment since b, and all the time since b.
AppWas(a, b) == a \in In(catalogue) \/ changed.app[a] > b
AppStayed(a, b) == a \in In(catalogue) /\ changed.app[a] <= b
FollowWas(a, b) == a \in In(follows) \/ changed.follow[a] > b
FollowStayed(a, b) == a \in In(follows) /\ changed.follow[a] <= b
FollowToldOf(a, told, b) == (told <=> a \in In(follows)) \/ changed.follow[a] > b
NoticeWas(n, b) == n \in In(news) \/ changed.notice[n.id] > b
NoticeStayed(n, b) == n \in In(news) /\ changed.notice[n.id] <= b

Later(x, a) == \E i, j \in DOMAIN follows : i < j /\ follows[i] = x /\ follows[j] = a
Newest(a, b) == {x \in Pages!Held : changed.follow[x] > b \/ Later(x, a)}

PagesTyped ==
  /\ catalogue \in Seq(Pages!Held) /\ Once(catalogue)
  /\ follows \in Seq(Pages!Held) /\ Once(follows)
  /\ news \in Seq(Pages!Notices)
  /\ \A i, j \in DOMAIN news : i < j => news[i].id > news[j].id
  /\ \A i \in DOMAIN news : news[i].id <= moves
  /\ owners \subseteq Developers /\ moves \in 0 .. PageMoves
  /\ changed = [app |-> changed.app, follow |-> changed.follow, notice |-> changed.notice]
  /\ changed.app \in [Pages!Held -> 0 .. moves]
  /\ changed.follow \in [Pages!Held -> 0 .. moves]
  /\ changed.notice \in [Pages!Ids -> 0 .. moves]

PageShape(p) ==
  /\ DOMAIN p = {"at", "kind", "app", "began", "apps", "others", "news", "follows", "gap"}
  /\ p.began \in 0 .. moves
  /\ p.at \in {"apps", "others", "news", "slots", "shown"}
  /\ p.kind \in {"none", "feed", "widget", "unavailable", "app_page", "channel"}
  /\ p.apps \in Seq(Pages!Held) /\ p.others \in Seq(Pages!Held) /\ p.news \in Seq(Pages!Notices)
  /\ p.kind \in {"widget", "app_page", "channel", "unavailable"} => p.app \in Pages!Held
  /\ p.kind \in {"widget", "app_page"} => p.apps = <<p.app>>
  /\ p.kind \in {"none", "unavailable", "channel"} => p.apps = <<>>
  /\ p.at = "apps" => p.kind = "feed" /\ p.gap = {}
  /\ p.at = "others" => p.kind = "app_page" /\ p.others = <<>>
  /\ p.at = "news" => p.kind \in {"feed", "widget"}
  /\ p.at = "slots" => p.kind \in {"app_page", "channel"}
  /\ p.at # "shown" => p.news = <<>>
  /\ p.kind # "app_page" => p.others = <<>>
  /\ p.follows \in BOOLEAN => p.kind \in {"app_page", "channel"}
  /\ p.at # "shown" /\ p.kind = "app_page" => p.follows = None
  /\ p.kind # "channel" => \A n \in In(p.news) : n.app \in In(p.apps)
  /\ p.kind = "feed" => Len(p.apps) <= FeedSize /\ Len(p.news) <= FeedNotices
  /\ p.kind = "widget" => Len(p.news) <= WidgetNotices
  /\ Len(p.others) <= OtherApps

WasThere(p) ==
  /\ \A n \in In(p.news) : NoticeWas(n, p.began)
  /\ p.at # "apps" => \A a \in In(p.apps) : AppWas(a, p.began)
  /\ \A a \in In(p.others) : AppWas(a, p.began)
  /\ p.kind = "feed" => \A a \in In(p.apps) : FollowWas(a, p.began)
  /\ p.follows \in BOOLEAN => FollowToldOf(p.app, p.follows, p.began)

FeedWhole(p) ==
  p.kind = "feed" /\ "apps" \notin p.gap =>
    \A a \in Pages!Held :
      FollowStayed(a, p.began) /\ (p.at = "apps" \/ AppStayed(a, p.began)) =>
        a \in In(p.apps) \/ Cardinality(Newest(a, p.began)) >= FeedSize

LimitOf(kind) == IF kind = "feed" THEN FeedNotices ELSE WidgetNotices
AppsOf(p) == IF p.kind = "channel" THEN {p.app} ELSE In(p.apps)

NewsWhole(p) ==
  p.at = "shown" /\ p.kind \in {"feed", "widget", "channel"} /\ "news" \notin p.gap =>
    \A n \in Pages!Notices :
      NoticeStayed(n, p.began) /\ n \notin In(p.news) /\ n.app \in AppsOf(p) =>
        /\ p.kind # "channel" /\ Len(p.news) = LimitOf(p.kind)
        /\ \A m \in In(p.news) : m.id > n.id

OthersWhole(p) ==
  /\ p.kind = "unavailable" /\ p.gap = {} => ~AppStayed(p.app, p.began)
  /\ p.kind = "app_page" /\ p.at # "others" =>
       \A a \in Pages!Held :
         AppStayed(a, p.began) /\ a \notin In(p.others) /\ a # p.app /\ Owner[a] = Owner[p.app] =>
           Len(p.others) = OtherApps

PageTells(p) ==
  PageShape(p) /\ WasThere(p) /\ FeedWhole(p) /\ NewsWhole(p) /\ OthersWhole(p)

CopyTells(c) ==
  c # None =>
    /\ DOMAIN c = {"kind", "app", "news", "began", "age"} /\ c.kind = "widget"
    /\ c.app \in Pages!Held /\ c.began \in 0 .. moves /\ c.age \in 0 .. MaxAge
    /\ c.news \in Seq(Pages!Notices)
    /\ \A n \in In(c.news) : NoticeWas(n, c.began)
    /\ AppWas(c.app, c.began)

PagesInv == PagesTyped /\ PageTells(page) /\ CopyTells(copy)

\* The promise about the pages, as a list of what each of them says.
LEMMA PagesTold == PagesInv => Pages!PagesTypeOK /\ Pages!PagesTellTheirTime
<1> SUFFICES ASSUME PagesInv PROVE Pages!PagesTypeOK /\ Pages!PagesTellTheirTime
  OBVIOUS
<1>1. PagesTyped /\ PageShape(page) /\ WasThere(page) /\ FeedWhole(page) /\ NewsWhole(page)
      /\ OthersWhole(page) /\ CopyTells(copy)
  BY DEF PagesInv, PageTells
<1>2. Pages!PagesTypeOK
  <2>1. Once(news)
    <3> SUFFICES ASSUME NEW i \in DOMAIN news, NEW j \in DOMAIN news, news[i] = news[j], i # j
                 PROVE  FALSE
      BY DEF Once
    <3>1. DOMAIN news = 1 .. Len(news) /\ Len(news) \in Nat /\ news[i] \in Pages!Notices
      BY <1>1, LenProperties, ElementOfSeq DEF PagesTyped
    <3>2. news[i].id \in Nat
      BY <3>1 DEF Pages!Notices, Pages!Ids
    <3>3. i < j \/ j < i
      BY <3>1
    <3>4. news[i].id > news[j].id \/ news[j].id > news[i].id
      BY <1>1, <3>3 DEF PagesTyped
    <3> QED BY <3>2, <3>4
  <2>2. copy # None => copy.age <= MaxAge /\ copy.kind = "widget"
    <3>1. copy # None => copy.kind = "widget" /\ copy.age \in 0 .. MaxAge
      BY <1>1 DEF CopyTells
    <3> QED BY <3>1, PagesConstants
  <2> QED BY <1>1, <2>1, <2>2, PagesWords DEF PagesTyped, PageShape, Pages!PagesTypeOK
<1>3. \A seq \in Seq(Pages!Held) : \A a \in In(seq) : a \in Pages!Held
  BY ElementOfSeq DEF In
<1>4. \A n \in In(news) : n \in Pages!Notices
  BY <1>1, ElementOfSeq DEF In, PagesTyped
<1>5. (Pages!NothingOfThePast /\ Pages!ReallyThere(page)) \/ page.at # "shown"
  BY <1>1, PagesWords DEF WasThere, NoticeWas, AppWas, FollowWas, FollowToldOf,
    Pages!NothingOfThePast, Pages!ReallyThere, Pages!Sometime, Pages!Listed
<1>6. page.at = "shown" => Pages!NothingLeftOut
  <2> SUFFICES ASSUME page.at = "shown" PROVE Pages!NothingLeftOut
    OBVIOUS
  <2> DEFINE Limit == [feed |-> FeedNotices, widget |-> WidgetNotices]
             ShownApps == IF page.kind = "channel" THEN {page.app} ELSE Pages!Range(page.apps)
             Newer(a) == {b \in Pages!Held : \/ changed.follow[b] > page.began
                                \/ \E i, j \in DOMAIN follows :
                                     i < j /\ follows[i] = b /\ follows[j] = a}
             AppThroughout(a) == Pages!Throughout("app", a, Pages!Listed(a), page.began)
  <2>1. page.kind = "feed" /\ "apps" \notin page.gap =>
          \A a \in Pages!Range(follows) :
            AppThroughout(a) /\ Pages!Throughout("follow", a, TRUE, page.began) =>
              a \in Pages!Range(page.apps) \/ Pages!Cardinality(Newer(a)) >= FeedSize
    <3>1. \A a : Newer(a) = Newest(a, page.began)
      BY DEF Newest, Later
    <3> HIDE DEF Newer
    <3>2. \A a \in In(follows) : a \in Pages!Held
      BY <1>1, <1>3 DEF PagesTyped
    <3> QED BY <1>1, <3>1, <3>2, PagesWords
          DEF FeedWhole, FollowStayed, AppStayed, Pages!Throughout, Pages!Listed
  <2>2. page.kind \in {"feed", "widget", "channel"} /\ "news" \notin page.gap =>
          \A n \in {m \in Pages!Range(news) \ Pages!Range(page.news) : m.app \in ShownApps} :
            Pages!Throughout("notice", n.id, TRUE, page.began) =>
              /\ page.kind \in DOMAIN Limit /\ Len(page.news) = Limit[page.kind]
              /\ \A m \in Pages!Range(page.news) : m.id > n.id
    <3>1. ShownApps = AppsOf(page)
      BY PagesWords DEF AppsOf
    <3>2. page.kind \in {"feed", "widget"} =>
            page.kind \in DOMAIN Limit /\ Limit[page.kind] = LimitOf(page.kind)
      BY DEF LimitOf
    <3> HIDE DEF ShownApps, Limit
    <3> QED BY <1>1, <1>4, <3>1, <3>2, PagesWords DEF NewsWhole, NoticeStayed, Pages!Throughout
  <2>3. page.kind = "unavailable" /\ page.gap = {} => ~AppThroughout(page.app)
    BY <1>1, PagesWords DEF OthersWhole, AppStayed, Pages!Throughout, Pages!Listed
  <2>4. page.kind = "app_page" =>
          \A a \in Pages!Range(catalogue) \ (Pages!Range(page.others) \cup {page.app}) :
            Owner[a] = Owner[page.app] /\ AppThroughout(a) => Len(page.others) = OtherApps
    <3>1. \A a \in In(catalogue) : a \in Pages!Held
      BY <1>1, <1>3 DEF PagesTyped
    <3> QED BY <1>1, <3>1, PagesWords DEF OthersWhole, AppStayed, Pages!Throughout, Pages!Listed
  <2> QED BY <2>1, <2>2, <2>3, <2>4 DEF Pages!NothingLeftOut
<1>7. page.kind # "channel" => \A n \in Pages!Range(page.news) : n.app \in Pages!Range(page.apps)
  BY <1>1, PagesWords DEF PageShape
<1>8. copy # None =>
        /\ Pages!ReallyThere(copy)
        /\ Pages!Sometime("app", copy.app, Pages!Listed(copy.app), copy.began)
  BY <1>1, PagesWords DEF CopyTells, NoticeWas, AppWas, Pages!ReallyThere, Pages!Sometime,
    Pages!Listed
<1> QED BY <1>2, <1>5, <1>6, <1>7, <1>8 DEF Pages!PagesTellTheirTime

\* What a request did not touch is as it was: it is in its list or not, and the follows
\* keep their order.
Untouched(touched) ==
  /\ \A a \in Pages!Held : <<"app", a>> \notin touched =>
       (a \in In(catalogue') <=> a \in In(catalogue))
  /\ \A a \in Pages!Held : <<"follow", a>> \notin touched =>
       (a \in In(follows') <=> a \in In(follows))
  /\ \A a, x \in Pages!Held :
       {<<"follow", a>>, <<"follow", x>>} \cap touched = {} /\ Later(x, a) => Later(x, a)'
  /\ \A n \in Pages!Notices : <<"notice", n.id>> \notin touched =>
       (n \in In(news') <=> n \in In(news))

LEMMA Marked ==
  ASSUME PagesTyped, NEW touched, Pages!Move(touched)
  PROVE  /\ moves' = moves + 1 /\ moves' \in 0 .. PageMoves /\ page' = page /\ copy' = copy
         /\ changed' = [app |-> changed'.app, follow |-> changed'.follow,
                        notice |-> changed'.notice]
         /\ changed'.app \in [Pages!Held -> 0 .. moves']
         /\ changed'.follow \in [Pages!Held -> 0 .. moves']
         /\ changed'.notice \in [Pages!Ids -> 0 .. moves']
         /\ \A a \in Pages!Held : changed'.app[a] =
              IF <<"app", a>> \in touched THEN moves + 1 ELSE changed.app[a]
         /\ \A a \in Pages!Held : changed'.follow[a] =
              IF <<"follow", a>> \in touched THEN moves + 1 ELSE changed.follow[a]
         /\ \A i \in Pages!Ids : changed'.notice[i] =
              IF <<"notice", i>> \in touched THEN moves + 1 ELSE changed.notice[i]
<1> DEFINE Mark(k, f) == [x \in DOMAIN f |-> IF <<k, x>> \in touched THEN moves + 1 ELSE f[x]]
<1>1. moves' = moves + 1 /\ moves' \in 0 .. PageMoves /\ moves \in Nat /\ page' = page
        /\ copy' = copy
  BY PagesConstants DEF PagesTyped, Pages!Move
<1>2. DOMAIN changed = {"app", "follow", "notice"}
  <2> DEFINE c == [app |-> changed.app, follow |-> changed.follow, notice |-> changed.notice]
  <2>1. DOMAIN c = {"app", "follow", "notice"}
    OBVIOUS
  <2>2. changed = c
    BY DEF PagesTyped
  <2> HIDE DEF c
  <2> QED BY <2>1, <2>2
<1>3. changed' = [k \in {"app", "follow", "notice"} |-> Mark(k, changed[k])]
  BY <1>2 DEF Pages!Move
<1> HIDE DEF Mark
<1>4. /\ changed' = [app |-> changed'.app, follow |-> changed'.follow,
                     notice |-> changed'.notice]
      /\ changed'.app = Mark("app", changed.app)
      /\ changed'.follow = Mark("follow", changed.follow)
      /\ changed'.notice = Mark("notice", changed.notice)
  BY <1>3
<1>5. \A k, S : \A f \in [S -> 0 .. moves] :
        /\ Mark(k, f) \in [S -> 0 .. moves']
        /\ \A x \in S : Mark(k, f)[x] = IF <<k, x>> \in touched THEN moves + 1 ELSE f[x]
  BY <1>1 DEF Mark
<1>6. /\ changed.app \in [Pages!Held -> 0 .. moves]
      /\ changed.follow \in [Pages!Held -> 0 .. moves]
      /\ changed.notice \in [Pages!Ids -> 0 .. moves]
  BY DEF PagesTyped
<1> QED BY <1>1, <1>4, <1>5, <1>6

LEMMA Outlives ==
  ASSUME PagesTyped, NEW touched, Pages!Move(touched), Untouched(touched),
         NEW b \in 0 .. moves
  PROVE  /\ \A a \in Pages!Held : /\ AppWas(a, b) => AppWas(a, b)'
                                  /\ AppStayed(a, b)' => AppStayed(a, b)
         /\ \A a \in Pages!Held : /\ FollowWas(a, b) => FollowWas(a, b)'
                                  /\ FollowStayed(a, b)' => FollowStayed(a, b)
                                  /\ FollowStayed(a, b)' => Newest(a, b) \subseteq Newest(a, b)'
         /\ \A a \in Pages!Held : \A told \in BOOLEAN :
              FollowToldOf(a, told, b) => FollowToldOf(a, told, b)'
         /\ \A n \in Pages!Notices : /\ NoticeWas(n, b) => NoticeWas(n, b)'
                                     /\ NoticeStayed(n, b)' => NoticeStayed(n, b)
<1>1. /\ moves \in Nat /\ b \in Nat /\ moves + 1 > b /\ ~(moves + 1 <= b)
  BY PagesConstants DEF PagesTyped
<1>2. \A a \in Pages!Held : changed'.app[a] =
        IF <<"app", a>> \in touched THEN moves + 1 ELSE changed.app[a]
  BY Marked
<1>3. \A a \in Pages!Held : changed'.follow[a] =
        IF <<"follow", a>> \in touched THEN moves + 1 ELSE changed.follow[a]
  BY Marked
<1>4. \A i \in Pages!Ids : changed'.notice[i] =
        IF <<"notice", i>> \in touched THEN moves + 1 ELSE changed.notice[i]
  BY Marked
<1>5. ASSUME NEW a \in Pages!Held
      PROVE  /\ AppWas(a, b) => AppWas(a, b)'
             /\ AppStayed(a, b)' => AppStayed(a, b)
  <2>1. <<"app", a>> \notin touched =>
          (a \in In(catalogue') <=> a \in In(catalogue))
    BY DEF Untouched
  <2> QED BY <1>1, <1>2, <2>1 DEF AppWas, AppStayed
<1>6. ASSUME NEW a \in Pages!Held
      PROVE  /\ FollowWas(a, b) => FollowWas(a, b)'
             /\ FollowStayed(a, b)' => FollowStayed(a, b)
             /\ \A told \in BOOLEAN : FollowToldOf(a, told, b) => FollowToldOf(a, told, b)'
  <2>1. <<"follow", a>> \notin touched =>
          (a \in In(follows') <=> a \in In(follows))
    BY DEF Untouched
  <2> QED BY <1>1, <1>3, <2>1 DEF FollowWas, FollowStayed, FollowToldOf
<1>7. ASSUME NEW a \in Pages!Held, FollowStayed(a, b)', NEW x \in Newest(a, b)
      PROVE  x \in Newest(a, b)'
  <2>1. x \in Pages!Held /\ (changed.follow[x] > b \/ Later(x, a))
    BY DEF Newest
  <2>2. <<"follow", a>> \notin touched
    BY <1>1, <1>3, <1>7 DEF FollowStayed
  <2>3. CASE <<"follow", x>> \in touched
    BY <1>1, <1>3, <2>1, <2>3 DEF Newest
  <2>4. CASE <<"follow", x>> \notin touched
    <3>1. Later(x, a) => Later(x, a)'
      BY <2>1, <2>2, <2>4 DEF Untouched
    <3> QED BY <1>3, <2>1, <2>4, <3>1 DEF Newest
  <2> QED BY <2>3, <2>4
<1>8. ASSUME NEW n \in Pages!Notices
      PROVE  /\ NoticeWas(n, b) => NoticeWas(n, b)'
             /\ NoticeStayed(n, b)' => NoticeStayed(n, b)
  <2>1. <<"notice", n.id>> \notin touched =>
          (n \in In(news') <=> n \in In(news))
    BY DEF Untouched
  <2>2. n.id \in Pages!Ids
    BY DEF Pages!Notices
  <2> QED BY <1>1, <1>4, <2>1, <2>2 DEF NoticeWas, NoticeStayed
<1> QED BY <1>5, <1>6, <1>7, <1>8

LEMMA PagesMoved ==
  ASSUME PagesInv, NEW touched, Pages!Move(touched), Untouched(touched), PagesTyped'
  PROVE  PagesInv'
<1>1. page' = page /\ copy' = copy /\ moves' = moves + 1 /\ moves \in Nat
  BY Marked, PagesConstants, SMTT(40) DEF PagesInv, PagesTyped
<1>2. PagesTyped /\ PageShape(page) /\ WasThere(page) /\ FeedWhole(page) /\ NewsWhole(page)
      /\ OthersWhole(page) /\ CopyTells(copy)
  BY DEF PagesInv, PageTells
<1>3. \A b \in 0 .. moves : b \in 0 .. moves'
  BY <1>1
<1>4. PICK began \in 0 .. moves : began = page.began
  BY <1>2 DEF PageShape
<1>5. PageShape(page)'
  BY <1>1, <1>2, <1>3 DEF PageShape
<1>6. \A seq \in Seq(Pages!Held) : \A a \in In(seq) : a \in Pages!Held
  BY ElementOfSeq DEF In
<1>7. \A seq \in Seq(Pages!Notices) : \A a \in In(seq) : a \in Pages!Notices
  BY ElementOfSeq DEF In
<1>8. /\ page.apps \in Seq(Pages!Held) /\ page.others \in Seq(Pages!Held)
      /\ page.news \in Seq(Pages!Notices)
      /\ page.kind \in {"widget", "app_page", "channel", "unavailable"} => page.app \in Pages!Held
      /\ page.follows \in BOOLEAN => page.app \in Pages!Held
  BY <1>2 DEF PageShape
<1>9. WasThere(page)'
  <2>1. \A n \in In(page.news) : NoticeWas(n, began)'
    BY <1>2, <1>4, <1>7, <1>8, Outlives DEF WasThere
  <2>2. page.at # "apps" => \A a \in In(page.apps) : AppWas(a, began)'
    BY <1>2, <1>4, <1>6, <1>8, Outlives DEF WasThere
  <2>3. \A a \in In(page.others) : AppWas(a, began)'
    BY <1>2, <1>4, <1>6, <1>8, Outlives DEF WasThere
  <2>4. page.kind = "feed" => \A a \in In(page.apps) : FollowWas(a, began)'
    BY <1>2, <1>4, <1>6, <1>8, Outlives DEF WasThere
  <2>5. \A a \in Pages!Held : \A told \in BOOLEAN :
          a = page.app /\ told = page.follows => FollowToldOf(a, told, began)'
    BY <1>2, <1>4, <1>8, Outlives DEF WasThere
  <2> QED BY <1>1, <1>4, <1>8, <2>1, <2>2, <2>3, <2>4, <2>5 DEF WasThere
<1>10. FeedWhole(page)'
  <2> SUFFICES ASSUME page.kind = "feed", "apps" \notin page.gap, NEW a \in Pages!Held,
                      FollowStayed(a, began)',
                      page.at = "apps" \/ AppStayed(a, began)', a \notin In(page.apps)
               PROVE  Cardinality(Newest(a, began)') >= FeedSize
    BY <1>1, <1>4 DEF FeedWhole
  <2>1. FollowStayed(a, began) /\ (page.at = "apps" \/ AppStayed(a, began))
    BY <1>2, <1>4, Outlives
  <2>2. Cardinality(Newest(a, began)) >= FeedSize
    BY <1>2, <1>4, <2>1 DEF FeedWhole
  <2>3. Newest(a, began) \subseteq Newest(a, began)'
    BY <1>2, <1>4, Outlives
  <2>4. IsFiniteSet(Newest(a, began)')
    <3>1. Newest(a, began)' \subseteq Pages!Held
      BY DEF Newest
    <3> QED BY <3>1, PagesConstants, FS_Subset
  <2>5. Cardinality(Newest(a, began)) <= Cardinality(Newest(a, began)')
    BY <2>3, <2>4, FS_Subset
  <2>6. Cardinality(Newest(a, began)) \in Nat /\ Cardinality(Newest(a, began)') \in Nat
    BY <2>3, <2>4, FS_Subset, FS_CardinalityType
  <2> QED BY <2>2, <2>5, <2>6, PagesConstants
<1>11. NewsWhole(page)'
  <2>1. \A n \in Pages!Notices : NoticeStayed(n, began)' => NoticeStayed(n, began)
    BY <1>2, <1>4, Outlives
  <2> QED BY <1>1, <1>2, <1>4, <2>1 DEF NewsWhole
<1>12. OthersWhole(page)'
  <2>1. \A a \in Pages!Held : AppStayed(a, began)' => AppStayed(a, began)
    BY <1>2, <1>4, Outlives
  <2> QED BY <1>1, <1>2, <1>4, <1>8, <2>1 DEF OthersWhole
<1>13. CopyTells(copy)'
  <2> SUFFICES ASSUME copy # None PROVE CopyTells(copy)'
    BY <1>1 DEF CopyTells
  <2>1. /\ copy.app \in Pages!Held /\ copy.began \in 0 .. moves
        /\ copy.news \in Seq(Pages!Notices)
        /\ \A n \in In(copy.news) : NoticeWas(n, copy.began)
        /\ AppWas(copy.app, copy.began)
    BY <1>2 DEF CopyTells
  <2>2. PICK since \in 0 .. moves : since = copy.began
    BY <2>1
  <2>3. \A n \in In(copy.news) : NoticeWas(n, since)'
    BY <1>2, <1>7, <2>1, <2>2, Outlives
  <2>4. \A a \in Pages!Held : a = copy.app => AppWas(a, since)'
    BY <1>2, <2>1, <2>2, Outlives
  <2> QED BY <1>1, <1>2, <1>3, <2>1, <2>2, <2>3, <2>4 DEF CopyTells
<1> QED BY <1>5, <1>9, <1>10, <1>11, <1>12, <1>13 DEF PagesInv, PageTells

\* e stands before f in seq.
Precedes(seq, e, f) == \E i, j \in DOMAIN seq : i < j /\ seq[i] = e /\ seq[j] = f

LEMMA PickedKeeps ==
  ASSUME NEW S, NEW seq \in Seq(S), NEW K \in SUBSET DOMAIN seq
  PROVE  LET p == Picked(seq, K)
         IN /\ p \in Seq(S) /\ In(p) = {seq[i] : i \in K}
            /\ Once(seq) => Once(p)
            /\ \A i, j \in K : i < j => Precedes(p, seq[i], seq[j])
            /\ \A k, l \in DOMAIN p : k < l
                 => \E i, j \in K : i < j /\ p[k] = seq[i] /\ p[l] = seq[j]
<1> DEFINE n == Cardinality(K)
           p == Picked(seq, K)
<1>1. PICK place : Placing(place, seq, K)
  BY PickedPlaces
<1>2. /\ place \in [1 .. n -> K]
      /\ \A k \in 1 .. n : p[k] = seq[place[k]]
      /\ \A i \in K : \E k \in 1 .. n : place[k] = i
      /\ \A j, k \in 1 .. n : j < k => place[j] < place[k]
  BY <1>1 DEF Placing
<1>3. p \in Seq(S) /\ Len(p) = n /\ n \in Nat /\ K \subseteq Nat
  <2>1. DOMAIN seq = 1 .. Len(seq) /\ Len(seq) \in Nat
    BY LenProperties
  <2> QED BY <2>1, PickedPlaces
<1>4. DOMAIN p = 1 .. n
  BY <1>3, LenProperties
<1>5. In(p) = {seq[i] : i \in K}
  BY PickedIn
<1>6. Once(seq) => Once(p)
  <2> SUFFICES ASSUME Once(seq) PROVE Once(p)
    OBVIOUS
  <2> QED BY PickedOnce DEF Once
<1> HIDE DEF p, n
<1>7. ASSUME NEW i \in K, NEW j \in K, i < j PROVE Precedes(p, seq[i], seq[j])
  <2>1. PICK k \in 1 .. n : place[k] = i
    BY <1>2
  <2>2. PICK l \in 1 .. n : place[l] = j
    BY <1>2
  <2>3. k # l /\ ~(l < k)
    BY <1>2, <1>3, <1>7, <2>1, <2>2
  <2>4. k < l
    BY <1>3, <2>3
  <2> QED BY <1>2, <1>4, <2>1, <2>2, <2>4 DEF Precedes
<1>8. ASSUME NEW k \in DOMAIN p, NEW l \in DOMAIN p, k < l
      PROVE  \E i, j \in K : i < j /\ p[k] = seq[i] /\ p[l] = seq[j]
  BY <1>2, <1>4, <1>8
<1> QED BY <1>3, <1>5, <1>6, <1>7, <1>8 DEF p

LEMMA WithoutKeeps ==
  ASSUME NEW S, NEW seq \in Seq(S), NEW e
  PROVE  LET p == Pages!Without(seq, e)
         IN /\ p \in Seq(S) /\ In(p) = In(seq) \ {e}
            /\ Once(seq) => Once(p)
            /\ \A a, x : a # e /\ x # e /\ Precedes(seq, x, a) => Precedes(p, x, a)
            /\ \A k, l \in DOMAIN p :
                 k < l => \E i, j \in DOMAIN seq : i < j /\ p[k] = seq[i] /\ p[l] = seq[j]
<1> DEFINE K == {i \in DOMAIN seq : seq[i] # e}
           p == Picked(seq, K)
<1>1. Pages!Without(seq, e) = p
  BY PagesWords
<1>2. K \in SUBSET DOMAIN seq /\ {seq[i] : i \in K} = In(seq) \ {e}
  BY DEF In
<1>3. \A i \in DOMAIN seq : seq[i] # e => i \in K
  OBVIOUS
<1> HIDE DEF K
<1>4. /\ p \in Seq(S) /\ In(p) = {seq[i] : i \in K}
      /\ Once(seq) => Once(p)
      /\ \A i, j \in K : i < j => Precedes(p, seq[i], seq[j])
      /\ \A k, l \in DOMAIN p : k < l => \E i, j \in K : i < j /\ p[k] = seq[i] /\ p[l] = seq[j]
  BY <1>2, PickedKeeps
<1> HIDE DEF p
<1>5. \A a, x : a # e /\ x # e /\ Precedes(seq, x, a) => Precedes(p, x, a)
  <2> SUFFICES ASSUME NEW a, NEW x, a # e, x # e, Precedes(seq, x, a) PROVE Precedes(p, x, a)
    OBVIOUS
  <2>1. PICK i \in DOMAIN seq : \E j \in DOMAIN seq : i < j /\ seq[i] = x /\ seq[j] = a
    BY DEF Precedes
  <2>2. PICK j \in DOMAIN seq : i < j /\ seq[i] = x /\ seq[j] = a
    BY <2>1
  <2> QED BY <1>3, <1>4, <2>2
<1> QED BY <1>1, <1>2, <1>4, <1>5

LEMMA InFront ==
  ASSUME NEW S, NEW seq \in Seq(S), NEW e \in S
  PROVE  LET q == <<e>> \o seq
         IN /\ q \in Seq(S) /\ In(q) = In(seq) \cup {e} /\ Len(q) = Len(seq) + 1
            /\ 1 \in DOMAIN q /\ q[1] = e
            /\ \A i \in DOMAIN seq : i + 1 \in DOMAIN q /\ q[i + 1] = seq[i]
            /\ Once(seq) /\ e \notin In(seq) => Once(q)
            /\ \A a, x : Precedes(seq, x, a) => Precedes(q, x, a)
            /\ \A k, l \in DOMAIN q : k < l =>
                 /\ q[l] \in In(seq)
                 /\ \/ q[k] = e
                    \/ \E i, j \in DOMAIN seq : i < j /\ q[k] = seq[i] /\ q[l] = seq[j]
<1> DEFINE q == <<e>> \o seq
           n == Len(seq)
<1>1. n \in Nat /\ DOMAIN seq = 1 .. n
  BY LenProperties
<1>2. /\ q \in Seq(S) /\ Len(q) = n + 1 /\ q[1] = e
      /\ \A i \in 1 .. n : q[i + 1] = seq[i]
  <2>1. <<e>> \in Seq(S) /\ Len(<<e>>) = 1 /\ <<e>>[1] = e
    OBVIOUS
  <2>2. /\ q \in Seq(S) /\ Len(q) = Len(<<e>>) + Len(seq)
        /\ \A i \in 1 .. (Len(<<e>>) + Len(seq)) :
             q[i] = IF i <= Len(<<e>>) THEN <<e>>[i] ELSE seq[i - Len(<<e>>)]
    BY <2>1, ConcatProperties
  <2> HIDE DEF q, n
  <2>3. \A i \in 1 .. 1 + n : q[i] = IF i <= 1 THEN e ELSE seq[i - 1]
    BY <2>1, <2>2 DEF n
  <2>4. \A i \in 1 .. n : q[i + 1] = seq[i]
    <3> TAKE i \in 1 .. n
    <3>1. i + 1 \in 1 .. 1 + n /\ ~(i + 1 <= 1) /\ (i + 1) - 1 = i
      BY <1>1
    <3> QED BY <2>3, <3>1
  <2>5. q[1] = e
    BY <1>1, <2>3
  <2> QED BY <1>1, <2>1, <2>2, <2>4, <2>5 DEF n
<1>3. DOMAIN q = 1 .. n + 1
  BY <1>1, <1>2, LenProperties
<1> HIDE DEF q, n
<1>4. \A k \in 1 .. n + 1 : k = 1 \/ (k - 1 \in 1 .. n /\ q[k] = seq[k - 1])
  <2> SUFFICES ASSUME NEW k \in 1 .. n + 1, k # 1 PROVE k - 1 \in 1 .. n /\ q[k] = seq[k - 1]
    OBVIOUS
  <2>1. k - 1 \in 1 .. n /\ (k - 1) + 1 = k
    BY <1>1
  <2> QED BY <1>2, <2>1
<1>5. \A i \in 1 .. n : i + 1 \in 1 .. n + 1
  BY <1>1
<1>6. In(q) = In(seq) \cup {e}
  <2>1. ASSUME NEW k \in 1 .. n + 1 PROVE q[k] \in In(seq) \cup {e}
    <3>1. k - 1 \in 1 .. n => seq[k - 1] \in In(seq)
      BY <1>1 DEF In
    <3> QED BY <1>2, <1>4, <3>1
  <2>2. In(seq) \subseteq In(q)
    BY <1>1, <1>2, <1>3, <1>5 DEF In
  <2>3. e \in In(q)
    <3>1. 1 \in 1 .. n + 1
      BY <1>1
    <3> QED BY <1>2, <1>3, <3>1 DEF In
  <2>4. \A x \in In(q) : \E k \in 1 .. n + 1 : x = q[k]
    BY <1>3 DEF In
  <2> QED BY <2>1, <2>2, <2>3, <2>4
<1>7. Once(seq) /\ e \notin In(seq) => Once(q)
  <2> SUFFICES ASSUME Once(seq), e \notin In(seq), NEW i \in 1 .. n + 1, NEW j \in 1 .. n + 1,
                      q[i] = q[j]
               PROVE  i = j
    BY <1>3 DEF Once
  <2>1. \A k \in 1 .. n : seq[k] # e
    BY <1>1 DEF In
  <2>2. CASE i = 1 \/ j = 1
    BY <1>2, <1>4, <2>1, <2>2
  <2>3. CASE i # 1 /\ j # 1
    <3>1. i - 1 \in 1 .. n /\ j - 1 \in 1 .. n /\ seq[i - 1] = seq[j - 1]
      BY <1>4, <2>3
    <3>2. i - 1 = j - 1
      BY <1>1, <3>1 DEF Once
    <3> QED BY <1>1, <3>2
  <2> QED BY <2>2, <2>3
<1>8. \A a, x : Precedes(seq, x, a) => Precedes(q, x, a)
  <2> SUFFICES ASSUME NEW a, NEW x, Precedes(seq, x, a) PROVE Precedes(q, x, a)
    OBVIOUS
  <2>1. PICK i \in 1 .. n : \E j \in 1 .. n : i < j /\ seq[i] = x /\ seq[j] = a
    BY <1>1 DEF Precedes
  <2>2. PICK j \in 1 .. n : i < j /\ seq[i] = x /\ seq[j] = a
    BY <2>1
  <2>3. i + 1 < j + 1
    BY <1>1, <2>2
  <2>4. q[i + 1] = x /\ q[j + 1] = a /\ i + 1 \in DOMAIN q /\ j + 1 \in DOMAIN q
    BY <1>2, <1>3, <1>5, <2>2
  <2> QED BY <2>3, <2>4 DEF Precedes
<1>9. ASSUME NEW k \in 1 .. n + 1, NEW l \in 1 .. n + 1, k < l
      PROVE  /\ q[l] \in In(seq)
             /\ \/ q[k] = e
                \/ \E i, j \in DOMAIN seq : i < j /\ q[k] = seq[i] /\ q[l] = seq[j]
  <2>1. l # 1
    BY <1>1, <1>9
  <2>2. l - 1 \in 1 .. n /\ q[l] = seq[l - 1]
    BY <1>4, <2>1
  <2>3. CASE k = 1
    BY <1>1, <1>2, <2>2, <2>3 DEF In
  <2>4. CASE k # 1
    <3>1. k - 1 \in 1 .. n /\ q[k] = seq[k - 1]
      BY <1>4, <2>4
    <3>2. k - 1 < l - 1
      BY <1>1, <1>9
    <3> QED BY <1>1, <2>2, <3>1, <3>2 DEF In
  <2> QED BY <2>3, <2>4
<1>10. 1 \in DOMAIN q /\ \A i \in DOMAIN seq : i + 1 \in DOMAIN q /\ q[i + 1] = seq[i]
  <2>1. 1 \in 1 .. n + 1
    BY <1>1
  <2> QED BY <1>1, <1>2, <1>3, <1>5, <2>1
<1> QED BY <1>2, <1>3, <1>6, <1>7, <1>8, <1>9, <1>10 DEF q, n

LEMMA LaterPrecedes ==
  /\ \A a, x : Later(x, a) <=> Precedes(follows, x, a)
  /\ \A a, x : Later(x, a)' <=> Precedes(follows', x, a)
BY DEF Later, Precedes

LEMMA ListedIn ==
  /\ \A a : Pages!Listed(a) <=> a \in In(catalogue)
BY PagesWords DEF Pages!Listed

\* The notices are numbered by the moves, the newest first.
Dated(seq, last) ==
  /\ seq \in Seq(Pages!Notices)
  /\ \A i, j \in DOMAIN seq : i < j => seq[i].id > seq[j].id
  /\ \A i \in DOMAIN seq : seq[i].id <= last

LEMMA MovedTypes ==
  ASSUME PagesTyped, NEW touched, Pages!Move(touched),
         catalogue' \in Seq(Pages!Held), Once(catalogue'),
         follows' \in Seq(Pages!Held), Once(follows'),
         Dated(news', moves'), owners' \subseteq Developers
  PROVE  PagesTyped'
BY Marked DEF PagesTyped, Dated

LEMMA DatedLater ==
  ASSUME NEW seq, NEW last \in Nat, Dated(seq, last)
  PROVE  Dated(seq, last + 1)
<1>1. \A i \in DOMAIN seq : seq[i] \in Pages!Notices /\ seq[i].id <= last
  BY ElementOfSeq, LenProperties DEF Dated
<1>2. \A i \in DOMAIN seq : seq[i].id \in Nat
  BY <1>1 DEF Pages!Notices, Pages!Ids
<1>3. \A i \in DOMAIN seq : seq[i].id <= last + 1
  BY <1>1, <1>2
<1> QED BY <1>3 DEF Dated

LEMMA MovedApart ==
  ASSUME PagesInv, NEW touched, Pages!Move(touched)
  PROVE  /\ PagesTyped /\ Dated(news, moves) /\ Dated(news, moves') /\ moves' = moves + 1
         /\ moves \in Nat
         /\ catalogue \in Seq(Pages!Held) /\ Once(catalogue)
         /\ follows \in Seq(Pages!Held) /\ Once(follows) /\ owners \subseteq Developers
<1>1. PagesTyped
  BY DEF PagesInv
<1>2. moves' = moves + 1 /\ moves \in Nat
  BY <1>1, Marked, PagesConstants DEF PagesTyped
<1>3. Dated(news, moves)
  BY <1>1 DEF PagesTyped, Dated
<1>4. Dated(news, moves')
  BY <1>2, <1>3, DatedLater
<1> QED BY <1>1, <1>2, <1>3, <1>4 DEF PagesTyped

\* The requests in between, one by one.
LEMMA AcceptStep ==
  ASSUME PagesInv, NEW a \in Pages!Held, Pages!Accept(a)
  PROVE  PagesInv'
<1> DEFINE touched == {<<"app", a>>}
<1>1. Pages!Move(touched) /\ a \notin In(catalogue)
      /\ catalogue' = <<a>> \o catalogue /\ UNCHANGED <<follows, news, owners>>
  BY ListedIn DEF Pages!Accept
<1>2. catalogue' \in Seq(Pages!Held) /\ Once(catalogue') /\ In(catalogue') = In(catalogue) \cup {a}
  BY <1>1, InFront, MovedApart
<1>3. Untouched(touched)
  BY <1>1, <1>2 DEF Untouched, Later
<1> HIDE DEF touched
<1>4. PagesTyped'
  BY <1>1, <1>2, MovedApart, MovedTypes
<1> QED BY <1>1, <1>3, <1>4, PagesMoved

LEMMA LeaveStep ==
  ASSUME PagesInv, NEW a \in Pages!Held, Pages!Leave(a)
  PROVE  PagesInv'
<1> DEFINE touched == {<<"app", a>>}
<1>1. Pages!Move(touched) /\ catalogue' = Pages!Without(catalogue, a)
      /\ UNCHANGED <<follows, news, owners>>
  BY DEF Pages!Leave
<1>2. catalogue' \in Seq(Pages!Held) /\ Once(catalogue') /\ In(catalogue') = In(catalogue) \ {a}
  BY <1>1, WithoutKeeps, MovedApart
<1>3. Untouched(touched)
  BY <1>1, <1>2 DEF Untouched, Later
<1> HIDE DEF touched
<1>4. PagesTyped'
  BY <1>1, <1>2, MovedApart, MovedTypes
<1> QED BY <1>1, <1>3, <1>4, PagesMoved

LEMMA FollowStep ==
  ASSUME PagesInv, NEW a \in Pages!Held, Pages!follow_app(a)
  PROVE  PagesInv'
<1> DEFINE touched == {<<"follow", a>>}
<1>1. Pages!Move(touched) /\ a \notin In(follows)
      /\ follows' = <<a>> \o follows /\ UNCHANGED <<catalogue, news, owners>>
  BY PagesWords DEF Pages!follow_app
<1>2. /\ follows' \in Seq(Pages!Held) /\ Once(follows') /\ In(follows') = In(follows) \cup {a}
      /\ \A b, x : Precedes(follows, x, b) => Precedes(follows', x, b)
  BY <1>1, InFront, MovedApart, SMTT(40)
<1>3. Untouched(touched)
  BY <1>1, <1>2, LaterPrecedes DEF Untouched
<1> HIDE DEF touched
<1>4. PagesTyped'
  BY <1>1, <1>2, MovedApart, MovedTypes
<1> QED BY <1>1, <1>3, <1>4, PagesMoved

LEMMA UnfollowStep ==
  ASSUME PagesInv, NEW a \in Pages!Held, Pages!unfollow_app(a)
  PROVE  PagesInv'
<1> DEFINE touched == {<<"follow", a>>}
<1>1. Pages!Move(touched) /\ follows' = Pages!Without(follows, a)
      /\ UNCHANGED <<catalogue, news, owners>>
  BY DEF Pages!unfollow_app
<1>2. /\ follows' \in Seq(Pages!Held) /\ Once(follows') /\ In(follows') = In(follows) \ {a}
      /\ \A b, x : b # a /\ x # a /\ Precedes(follows, x, b) => Precedes(follows', x, b)
  BY <1>1, WithoutKeeps, MovedApart
<1>3. Untouched(touched)
  BY <1>1, <1>2, LaterPrecedes DEF Untouched
<1> HIDE DEF touched
<1>4. PagesTyped'
  BY <1>1, <1>2, MovedApart, MovedTypes
<1> QED BY <1>1, <1>3, <1>4, PagesMoved

LEMMA PostStep ==
  ASSUME PagesInv, NEW a \in Pages!Held, Pages!post_notice(a)
  PROVE  PagesInv'
<1> DEFINE touched == {<<"notice", moves + 1>>}
           new == [id |-> moves + 1, app |-> a]
<1>1. Pages!Move(touched) /\ news' = <<new>> \o news /\ UNCHANGED <<catalogue, follows, owners>>
  BY DEF Pages!post_notice
<1>2. new \in Pages!Notices /\ new.id = moves' /\ new.id = moves + 1
  <2>1. moves' = moves + 1 /\ moves \in Nat /\ moves < PageMoves
    BY <1>1, MovedApart DEF Pages!Move
  <2>2. moves + 1 \in Pages!Ids
    BY <2>1, PagesConstants DEF Pages!Ids
  <2> QED BY <2>1, <2>2 DEF Pages!Notices
<1>3. news \in Seq(Pages!Notices)
  BY <1>1, MovedApart DEF Dated
<1>4. \A n \in In(news) : n \in Pages!Notices /\ n.id \in Nat /\ n.id <= moves
  <2>1. \A i \in DOMAIN news : news[i] \in Pages!Notices /\ news[i].id <= moves
    BY <1>1, MovedApart, ElementOfSeq, LenProperties DEF Dated
  <2> QED BY <2>1 DEF In, Pages!Notices, Pages!Ids
<1> HIDE DEF new
<1>5. /\ news' \in Seq(Pages!Notices) /\ In(news') = In(news) \cup {new}
      /\ \A k, l \in DOMAIN news' : k < l =>
           /\ news'[l] \in In(news)
           /\ \/ news'[k] = new
              \/ \E i, j \in DOMAIN news : i < j /\ news'[k] = news[i] /\ news'[l] = news[j]
  BY <1>1, <1>2, <1>3, InFront
<1>6. Untouched(touched)
  BY <1>1, <1>2, <1>5 DEF Untouched, Later
<1> HIDE DEF touched
<1>7. Dated(news', moves')
  <2>1. \A k \in DOMAIN news' : news'[k].id <= moves'
    <3>1. \A k \in DOMAIN news' : news'[k] \in In(news) \cup {new}
      BY <1>5 DEF In
    <3>2. \A n \in In(news) \cup {new} : n.id <= moves'
      BY <1>1, <1>2, <1>4, MovedApart
    <3> QED BY <3>1, <3>2
  <2>2. ASSUME NEW k \in DOMAIN news', NEW l \in DOMAIN news', k < l
        PROVE  news'[k].id > news'[l].id
    <3>1. news'[l] \in In(news) /\ news'[l].id < moves + 1
      BY <1>1, <1>4, <1>5, <2>2, MovedApart
    <3>2. CASE news'[k] = new
      BY <1>2, <1>4, <3>1, <3>2
    <3>3. CASE \E i, j \in DOMAIN news : i < j /\ news'[k] = news[i] /\ news'[l] = news[j]
      BY <1>1, <3>3, MovedApart DEF Dated
    <3> QED BY <1>5, <2>2, <3>2, <3>3
  <2> QED BY <1>5, <2>1, <2>2 DEF Dated
<1>8. PagesTyped'
  BY <1>1, <1>7, MovedApart, MovedTypes
<1> QED BY <1>1, <1>6, <1>8, PagesMoved

\* Fewer notices are in the same order.
LEMMA DatedFewer ==
  ASSUME NEW seq, NEW last, Dated(seq, last), NEW q \in Seq(Pages!Notices), In(q) \subseteq In(seq),
         \A k, l \in DOMAIN q :
           k < l => \E i, j \in DOMAIN seq : i < j /\ q[k] = seq[i] /\ q[l] = seq[j]
  PROVE  Dated(q, last)
<1>1. \A k \in DOMAIN q : q[k].id <= last
  <2>1. \A k \in DOMAIN q : \E i \in DOMAIN seq : q[k] = seq[i]
    BY DEF In
  <2> QED BY <2>1 DEF Dated
<1> QED BY <1>1 DEF Dated

LEMMA WithdrawStep ==
  ASSUME PagesInv, NEW n \in In(news), Pages!withdraw_notice(n)
  PROVE  PagesInv'
<1> DEFINE touched == {<<"notice", n.id>>}
<1>1. Pages!Move(touched) /\ news' = Pages!Without(news, n)
      /\ UNCHANGED <<catalogue, follows, owners>>
  BY DEF Pages!withdraw_notice
<1>2. /\ news' \in Seq(Pages!Notices) /\ In(news') = In(news) \ {n}
      /\ \A k, l \in DOMAIN news' :
           k < l => \E i, j \in DOMAIN news : i < j /\ news'[k] = news[i] /\ news'[l] = news[j]
  BY <1>1, WithoutKeeps, MovedApart DEF Dated
<1>3. Untouched(touched)
  BY <1>1, <1>2 DEF Untouched, Later
<1> HIDE DEF touched
<1>4. Dated(news', moves')
  BY <1>1, <1>2, MovedApart, DatedFewer
<1>5. PagesTyped'
  BY <1>1, <1>4, MovedApart, MovedTypes
<1> QED BY <1>1, <1>3, <1>5, PagesMoved

LEMMA LeavesStep ==
  ASSUME PagesInv, NEW d \in Developers, Pages!DeveloperLeaves(d)
  PROVE  PagesInv'
<1> DEFINE ofApps == {b \in In(catalogue) : Owner[b] = d}
           ofNews == {m \in In(news) : Owner[m.app] = d}
           touched == {<<"app", a>> : a \in ofApps} \cup {<<"notice", n.id>> : n \in ofNews}
           K == {i \in DOMAIN catalogue : Owner[catalogue[i]] # d}
           L == {i \in DOMAIN news : Owner[news[i].app] # d}
<1>1. Pages!Move(touched) /\ catalogue' = Picked(catalogue, K) /\ news' = Picked(news, L)
      /\ owners' = owners \ {d} /\ follows' = follows
  BY PagesWords DEF Pages!DeveloperLeaves
<1>2. K \in SUBSET DOMAIN catalogue /\ {catalogue[i] : i \in K} = In(catalogue) \ ofApps
  BY DEF In
<1>3. L \in SUBSET DOMAIN news /\ {news[i] : i \in L} = In(news) \ ofNews
  BY DEF In
<1> HIDE DEF K, L
<1>4. catalogue' \in Seq(Pages!Held) /\ Once(catalogue') /\ In(catalogue') = In(catalogue) \ ofApps
  BY <1>1, <1>2, PickedKeeps, MovedApart
<1>5. /\ news' \in Seq(Pages!Notices) /\ In(news') = In(news) \ ofNews
      /\ \A k, l \in DOMAIN news' :
           k < l => \E i, j \in DOMAIN news : i < j /\ news'[k] = news[i] /\ news'[l] = news[j]
  <2>1. news \in Seq(Pages!Notices)
    BY <1>1, MovedApart DEF Dated
  <2>2. /\ news' \in Seq(Pages!Notices) /\ In(news') = {news[i] : i \in L}
        /\ \A k, l \in DOMAIN news' : k < l
             => \E i, j \in L : i < j /\ news'[k] = news[i] /\ news'[l] = news[j]
    BY <1>1, <1>3, <2>1, PickedKeeps
  <2> QED BY <1>3, <2>2
<1>6. Untouched(touched)
  <2>1. \A a : <<"app", a>> \notin touched => a \notin ofApps
    OBVIOUS
  <2>2. \A n : <<"notice", n.id>> \notin touched => n \notin ofNews
    OBVIOUS
  <2> QED BY <1>1, <1>4, <1>5, <2>1, <2>2 DEF Untouched, Later
<1> HIDE DEF touched, ofApps, ofNews
<1>7. Dated(news', moves')
  BY <1>1, <1>5, MovedApart, DatedFewer
<1>8. PagesTyped'
  BY <1>1, <1>4, <1>7, MovedApart, MovedTypes
<1> QED BY <1>1, <1>6, <1>8, PagesMoved

LEMMA PageStands ==
  ASSUME PagesInv, UNCHANGED <<catalogue, follows, news, owners, moves, changed>>,
         NEW q, page' = q, PageTells(q), NEW c, copy' = c, CopyTells(c)
  PROVE  PagesInv'
<1>1. PagesTyped'
  BY DEF PagesInv, PagesTyped
<1>2. PageShape(q) /\ WasThere(q) /\ FeedWhole(q) /\ NewsWhole(q) /\ OthersWhole(q)
  BY DEF PageTells
<1>3. PageShape(page)'
  BY <1>2 DEF PageShape
<1>4. WasThere(page)'
  BY <1>2 DEF WasThere, AppWas, FollowWas, NoticeWas, FollowToldOf
<1>5. FeedWhole(page)'
  BY <1>2 DEF FeedWhole, AppStayed, FollowStayed, Newest, Later
<1>6. NewsWhole(page)'
  BY <1>2 DEF NewsWhole, NoticeStayed
<1>7. OthersWhole(page)'
  BY <1>2 DEF OthersWhole, AppStayed
<1>8. CopyTells(copy)'
  BY DEF CopyTells, AppWas, NoticeWas
<1> QED BY <1>1, <1>3, <1>4, <1>5, <1>6, <1>7, <1>8 DEF PagesInv, PageTells

\* A page by its fields.
Made(q, at, kind, app, began, apps, others, told, follow, gap) ==
  /\ DOMAIN q = {"at", "kind", "app", "began", "apps", "others", "news", "follows", "gap"}
  /\ q.at = at /\ q.kind = kind /\ q.app = app /\ q.began = began /\ q.apps = apps
  /\ q.others = others /\ q.news = told /\ q.follows = follow /\ q.gap = gap

LEMMA MadeOf ==
  /\ PageShape(page) => Made(page, page.at, page.kind, page.app, page.began, page.apps,
                             page.others, page.news, page.follows, page.gap)
  /\ \A kind, a : Made(Pages!Open(kind, a), "shown", kind, a, moves, <<>>, <<>>, <<>>, None, {})
BY DEF PageShape, Made, Pages!Open, Pages!Blank

LEMMA OnceCounted ==
  ASSUME NEW S, NEW seq \in Seq(S), Once(seq)
  PROVE  IsFiniteSet(In(seq)) /\ Cardinality(In(seq)) = Len(seq)
<1> DEFINE D == DOMAIN seq
           R == In(seq)
<1>1. IsFiniteSet(D) /\ Cardinality(D) = Len(seq)
  BY LenProperties, Counted
<1>2. seq \in [D -> R] /\ \A r \in R : \E i \in D : seq[i] = r
  <2>1. seq \in [D -> S]
    BY LenProperties
  <2> QED BY <2>1 DEF In
<1>3. \A i, j \in D : seq[i] = seq[j] => i = j
  BY DEF Once
<1> HIDE DEF D, R
<1>4. seq \in Bijection(D, R)
  BY <1>2, <1>3, Fun_IsBij
<1>5. ExistsBijection(D, R)
  BY <1>4 DEF ExistsBijection
<1>6. IsFiniteSet(R) /\ Cardinality(R) = Cardinality(D)
  BY <1>1, <1>5, FS_Bijection
<1> QED BY <1>1, <1>6 DEF R

\* The first follows: whoever is not among them has that many before.
LEMMA FollowedFirst ==
  ASSUME PagesTyped
  PROVE  LET p == Pages!Prefix(follows, FeedSize)
         IN /\ p \in Seq(Pages!Held) /\ Len(p) <= FeedSize /\ In(p) \subseteq In(follows)
            /\ \A a \in In(follows) \ In(p) : \A b : Cardinality(Newest(a, b)) >= FeedSize
<1> DEFINE p == Pages!Prefix(follows, FeedSize)
           m == Len(p)
           n == Len(follows)
<1>1. follows \in Seq(Pages!Held) /\ Once(follows) /\ FeedSize \in Nat
  BY PagesConstants DEF PagesTyped
<1>2. DOMAIN follows = 1 .. n /\ n \in Nat
  BY <1>1, LenProperties
<1>3. /\ p \in Seq(Pages!Held) /\ m <= FeedSize /\ m <= n
      /\ DOMAIN p = 1 .. m /\ m \in Nat
      /\ \A k \in DOMAIN p : p[k] = follows[k]
      /\ m = FeedSize \/ m = n
  BY <1>1, PrefixIs
<1> HIDE DEF p, n, m
<1>4. \A k \in 1 .. m : k \in 1 .. n
  BY <1>2, <1>3
<1>5. In(p) \subseteq In(follows)
  BY <1>2, <1>3, <1>4 DEF In
<1>6. Once(p)
  BY <1>1, <1>2, <1>3, <1>4 DEF Once
<1>7. ASSUME NEW a \in In(follows), a \notin In(p), NEW b
      PROVE  Cardinality(Newest(a, b)) >= FeedSize
  <2>1. PICK i \in 1 .. n : follows[i] = a
    BY <1>2 DEF In
  <2>2. i \notin 1 .. m
    BY <1>3, <1>7, <2>1 DEF In
  <2>3. m = FeedSize /\ \A k \in 1 .. m : k < i
    BY <1>2, <1>3, <2>2
  <2>4. In(p) \subseteq Newest(a, b)
    <3> SUFFICES ASSUME NEW k \in 1 .. m PROVE p[k] \in Newest(a, b)
      BY <1>3 DEF In
    <3>1. p[k] = follows[k] /\ k \in 1 .. n /\ k < i
      BY <1>3, <1>4, <2>3
    <3>2. Later(p[k], a)
      BY <1>2, <2>1, <3>1 DEF Later
    <3>3. p[k] \in Pages!Held
      BY <1>1, <1>2, <3>1, ElementOfSeq
    <3> QED BY <3>2, <3>3 DEF Newest
  <2>5. Cardinality(In(p)) = FeedSize
    BY <1>3, <1>6, <2>3, OnceCounted DEF m
  <2>6. IsFiniteSet(Newest(a, b))
    <3>1. Newest(a, b) \subseteq Pages!Held
      BY DEF Newest
    <3> QED BY <3>1, PagesConstants, FS_Subset
  <2>7. Cardinality(In(p)) <= Cardinality(Newest(a, b))
    BY <2>4, <2>6, FS_Subset
  <2> QED BY <2>5, <2>7
<1> QED BY <1>3, <1>5, <1>7 DEF p, m

\* A page has what was posted for its applications, the newest first, up to its limit.
LEMMA Published ==
  ASSUME PagesTyped, NEW A, NEW limit \in Nat
  PROVE  LET p == Pages!published_notices_for_apps(A, limit)
         IN /\ p \in Seq(Pages!Notices) /\ Len(p) <= limit
            /\ \A n \in In(p) : n \in In(news) /\ n.app \in A
            /\ \A n \in In(news) : n.app \in A /\ n \notin In(p) =>
                 Len(p) = limit /\ \A m \in In(p) : m.id > n.id
<1> DEFINE K == {i \in DOMAIN news : news[i].app \in A}
           p == Pages!Prefix(Picked(news, K), limit)
<1>1. Pages!published_notices_for_apps(A, limit) = p
  BY PagesWords DEF Pages!published_notices_for_apps
<1>2. news \in Seq(Pages!Notices) /\ K \in SUBSET DOMAIN news
  BY DEF PagesTyped
<1>3. \A i \in K : i \in DOMAIN news /\ news[i].app \in A
  OBVIOUS
<1>4. \A i \in DOMAIN news : news[i].app \in A => i \in K
  OBVIOUS
<1> HIDE DEF K
<1>5. /\ p \in Seq(Pages!Notices) /\ Len(p) <= limit
      /\ \A e \in In(p) : \E i \in K : e = news[i]
      /\ \A i \in K : \/ news[i] \in In(p)
                      \/ /\ Len(p) = limit
                         /\ \A e \in In(p) : \E j \in K : j < i /\ e = news[j]
  BY <1>2, FirstPicked
<1> HIDE DEF p
<1>6. \A n \in In(p) : n \in In(news) /\ n.app \in A
  BY <1>3, <1>5 DEF In
<1>7. ASSUME NEW n \in In(news), n.app \in A, n \notin In(p)
      PROVE  Len(p) = limit /\ \A m \in In(p) : m.id > n.id
  <2>1. PICK i \in DOMAIN news : news[i] = n
    BY DEF In
  <2>2. i \in K
    BY <1>4, <1>7, <2>1
  <2> QED BY <1>3, <1>5, <1>7, <2>1, <2>2 DEF PagesTyped
<1> QED BY <1>1, <1>5, <1>6, <1>7

LEMMA OthersListed ==
  ASSUME PagesTyped, NEW a
  PROVE  LET p == Pages!accepted_apps_by_owner(a, OtherApps)
         IN /\ p \in Seq(Pages!Held) /\ Len(p) <= OtherApps
            /\ In(p) \subseteq In(catalogue)
            /\ \A b \in In(catalogue) : Owner[b] = Owner[a] /\ b # a /\ b \notin In(p) =>
                 Len(p) = OtherApps
<1> DEFINE OfOwner == {b \in Pages!Held : Owner[b] = Owner[a] /\ b # a}
           K == {i \in DOMAIN catalogue : catalogue[i] \in OfOwner}
           p == Pages!Prefix(Picked(catalogue, K), OtherApps)
<1>1. Pages!accepted_apps_by_owner(a, OtherApps) = p
  BY PagesWords DEF Pages!accepted_apps_by_owner
<1>2. catalogue \in Seq(Pages!Held) /\ K \in SUBSET DOMAIN catalogue /\ OtherApps \in Nat
  BY PagesConstants DEF PagesTyped
<1>3. \A b \in In(catalogue) : Owner[b] = Owner[a] /\ b # a => \E i \in K : catalogue[i] = b
  <2>1. \A i \in DOMAIN catalogue : catalogue[i] \in Pages!Held
    BY <1>2, ElementOfSeq, LenProperties
  <2> QED BY <2>1 DEF In
<1>4. \A i \in K : i \in DOMAIN catalogue
  OBVIOUS
<1> HIDE DEF K
<1>5. /\ p \in Seq(Pages!Held) /\ Len(p) <= OtherApps
      /\ \A e \in In(p) : \E i \in K : e = catalogue[i]
      /\ \A i \in K : \/ catalogue[i] \in In(p)
                      \/ /\ Len(p) = OtherApps
                         /\ \A e \in In(p) : \E j \in K : j < i /\ e = catalogue[j]
  BY <1>2, FirstPicked
<1> HIDE DEF p
<1>6. In(p) \subseteq In(catalogue)
  BY <1>4, <1>5 DEF In
<1> QED BY <1>1, <1>3, <1>5, <1>6

\* The steps of a page, one by one.
LEMMA EmptyIn == In(<<>>) = {} /\ \A S : <<>> \in Seq(S) /\ Len(<<>>) = 0
BY DEF In

\* A page that was begun just now is in the list of what is there.
LEMMA JustNow ==
  ASSUME PagesTyped
  PROVE  /\ moves \in 0 .. moves /\ moves \in Nat
         /\ \A a \in Pages!Held : /\ AppWas(a, moves) <=> a \in In(catalogue)
                                  /\ AppStayed(a, moves) <=> a \in In(catalogue)
                                  /\ FollowWas(a, moves) <=> a \in In(follows)
                                  /\ FollowStayed(a, moves) <=> a \in In(follows)
<1>1. moves \in Nat
  BY PagesConstants DEF PagesTyped
<1>2. \A a \in Pages!Held : /\ changed.app[a] <= moves /\ ~(changed.app[a] > moves)
                            /\ changed.follow[a] <= moves /\ ~(changed.follow[a] > moves)
  BY <1>1 DEF PagesTyped
<1> QED BY <1>1, <1>2 DEF AppWas, AppStayed, FollowWas, FollowStayed

LEMMA Putting ==
  ASSUME NEW to, NEW read, Pages!Put(to, read), PagesInv
  PROVE  /\ UNCHANGED <<catalogue, follows, news, owners, moves, changed>>
         /\ page' = [read EXCEPT !.at = to]
         /\ \A q : PageTells(q) /\ page' = q => PagesInv'
<1>1. UNCHANGED <<catalogue, follows, news, owners, moves, changed, copy>>
  BY DEF Pages!Put
<1>2. CopyTells(copy)
  BY DEF PagesInv
<1>3. \A c : c = copy => CopyTells(c)
  BY <1>2
<1>4. ASSUME NEW q, PageTells(q), page' = q PROVE PagesInv'
  BY <1>1, <1>3, <1>4, PageStands
<1> QED BY <1>1, <1>4 DEF Pages!Put

LEMMA OpenFeedStep ==
  ASSUME PagesInv, Pages!OpenFeed
  PROVE  PagesInv'
<1> DEFINE p == Pages!Prefix(follows, FeedSize)
           r == Pages!Open("feed", None)
<1>1. PagesTyped
  BY DEF PagesInv
<1>2. CASE Pages!Put("apps", [r EXCEPT !.apps = p])
  <2> DEFINE q == [[r EXCEPT !.apps = p] EXCEPT !.at = "apps"]
  <2>1. Made(q, "apps", "feed", None, moves, p, <<>>, <<>>, None, {})
    BY DEF Made, Pages!Open, Pages!Blank
  <2>2. /\ p \in Seq(Pages!Held) /\ Len(p) <= FeedSize /\ In(p) \subseteq In(follows)
        /\ \A a \in In(follows) \ In(p) : \A b : Cardinality(Newest(a, b)) >= FeedSize
    BY <1>1, FollowedFirst
  <2> HIDE DEF q, p
  <2>3. PageShape(q)
    BY <1>1, <2>1, <2>2, EmptyIn, JustNow, PagesConstants DEF PageShape, Made
  <2>4. \A a \in In(p) : a \in Pages!Held /\ FollowWas(a, moves)
    <3>1. \A a \in In(p) : a \in Pages!Held
      BY <2>2, ElementOfSeq DEF In
    <3> QED BY <1>1, <2>2, <3>1, JustNow
  <2>5. WasThere(q)
    BY <2>1, <2>4, EmptyIn, PagesConstants DEF WasThere, Made
  <2>6. FeedWhole(q)
    BY <1>1, <2>1, <2>2, JustNow DEF FeedWhole, Made
  <2>7. NewsWhole(q) /\ OthersWhole(q)
    BY <2>1 DEF NewsWhole, OthersWhole, Made
  <2> QED BY <1>2, <2>3, <2>5, <2>6, <2>7, Putting DEF PageTells, q, p
<1>3. CASE Pages!Put("news", [r EXCEPT !.gap = {"apps"}])
  <2> DEFINE q == [[r EXCEPT !.gap = {"apps"}] EXCEPT !.at = "news"]
  <2>1. Made(q, "news", "feed", None, moves, <<>>, <<>>, <<>>, None, {"apps"})
    BY DEF Made, Pages!Open, Pages!Blank
  <2> HIDE DEF q
  <2>2. PageShape(q)
    BY <1>1, <2>1, EmptyIn, JustNow, PagesConstants DEF PageShape, Made
  <2>3. WasThere(q) /\ FeedWhole(q) /\ NewsWhole(q) /\ OthersWhole(q)
    BY <2>1, EmptyIn, PagesConstants DEF WasThere, FeedWhole, NewsWhole, OthersWhole, Made
  <2> QED BY <1>3, <2>2, <2>3, Putting DEF PageTells, q
<1> QED BY <1>2, <1>3 DEF Pages!OpenFeed

\* What a list of applications keeps of those that are listed.
LEMMA Catalogued ==
  ASSUME NEW seq \in Seq(Pages!Held)
  PROVE  LET p == Pages!get_catalogued_apps(seq)
         IN p \in Seq(Pages!Held) /\ Len(p) <= Len(seq) /\ In(p) = In(seq) \cap In(catalogue)
<1> DEFINE K == {i \in DOMAIN seq : Pages!Listed(seq[i])}
           p == Picked(seq, K)
<1>1. Pages!get_catalogued_apps(seq) = p
  BY PagesWords DEF Pages!get_catalogued_apps
<1>2. K \in SUBSET DOMAIN seq /\ {seq[i] : i \in K} = In(seq) \cap In(catalogue)
  BY ListedIn DEF In
<1> HIDE DEF K
<1>3. p \in Seq(Pages!Held) /\ Len(p) <= Len(seq)
  BY <1>2, PickedPlaces
<1>4. In(p) = {seq[i] : i \in K}
  BY <1>2, PickedIn
<1> QED BY <1>1, <1>2, <1>3, <1>4

LEMMA PageParts ==
  ASSUME PagesInv
  PROVE  /\ PagesTyped /\ PageShape(page) /\ WasThere(page) /\ FeedWhole(page)
         /\ NewsWhole(page) /\ OthersWhole(page)
         /\ Made(page, page.at, page.kind, page.app, page.began, page.apps,
                 page.others, page.news, page.follows, page.gap)
         /\ moves \in Nat /\ page.began \in Nat /\ page.began <= moves
<1>1. PagesTyped /\ PageShape(page)
  BY DEF PagesInv, PageTells
<1>2. moves \in Nat
  BY <1>1, JustNow
<1>3. page.began \in Nat /\ page.began <= moves
  BY <1>1, <1>2 DEF PageShape
<1> QED BY <1>1, <1>2, <1>3, MadeOf DEF PagesInv, PageTells

LEMMA ReadFollowedStep ==
  ASSUME PagesInv, Pages!ReadFollowed
  PROVE  PagesInv'
<1> DEFINE p == Pages!get_catalogued_apps(page.apps)
<1>1. /\ PagesTyped /\ PageShape(page) /\ WasThere(page) /\ FeedWhole(page)
      /\ Made(page, page.at, page.kind, page.app, page.began, page.apps,
                 page.others, page.news, page.follows, page.gap)
  BY PageParts
<1>2. page.at = "apps" /\ page.kind = "feed" /\ page.gap = {} /\ page.news = <<>>
      /\ page.others = <<>> /\ page.follows \notin BOOLEAN
  BY <1>1 DEF Pages!ReadFollowed, Pages!Building, PageShape
<1>3. CASE Pages!Put("news", [page EXCEPT !.apps = p])
  <2> DEFINE q == [[page EXCEPT !.apps = p] EXCEPT !.at = "news"]
  <2>1. Made(q, "news", "feed", page.app, page.began, p, <<>>, <<>>, page.follows, {})
    BY <1>1, <1>2 DEF Made
  <2>2. p \in Seq(Pages!Held) /\ Len(p) <= Len(page.apps)
          /\ In(p) = In(page.apps) \cap In(catalogue)
    BY <1>1, Catalogued DEF PageShape
  <2> HIDE DEF q, p
  <2>3. Len(p) <= FeedSize
    <3>1. page.apps \in Seq(Pages!Held) /\ Len(page.apps) <= FeedSize
      BY <1>1, <1>2 DEF PageShape
    <3>2. Len(page.apps) \in Nat /\ Len(p) \in Nat
      BY <2>2, <3>1, LenProperties
    <3> QED BY <2>2, <3>1, <3>2, PagesConstants
  <2>4. PageShape(q)
    BY <1>1, <1>2, <2>1, <2>2, <2>3, EmptyIn, PagesConstants DEF PageShape, Made
  <2>5. WasThere(q)
    BY <1>1, <1>2, <2>1, <2>2, EmptyIn DEF WasThere, Made, AppWas
  <2>6. FeedWhole(q)
    BY <1>1, <1>2, <2>1, <2>2 DEF FeedWhole, Made, AppStayed
  <2>7. NewsWhole(q) /\ OthersWhole(q)
    BY <2>1 DEF NewsWhole, OthersWhole, Made
  <2> QED BY <1>3, <2>4, <2>5, <2>6, <2>7, Putting DEF PageTells, q
<1>4. CASE Pages!Put("news", [page EXCEPT !.apps = <<>>, !.gap = {"apps"}])
  <2> DEFINE q == [[page EXCEPT !.apps = <<>>, !.gap = {"apps"}] EXCEPT !.at = "news"]
  <2>1. Made(q, "news", "feed", page.app, page.began, <<>>, <<>>, <<>>, page.follows, {"apps"})
    BY <1>1, <1>2 DEF Made
  <2> HIDE DEF q
  <2>2. PageShape(q)
    BY <1>1, <1>2, <2>1, EmptyIn, PagesConstants DEF PageShape, Made
  <2>3. WasThere(q) /\ FeedWhole(q) /\ NewsWhole(q) /\ OthersWhole(q)
    BY <1>2, <2>1, EmptyIn DEF WasThere, FeedWhole, NewsWhole, OthersWhole, Made
  <2> QED BY <1>4, <2>2, <2>3, Putting DEF PageTells, q
<1> QED BY <1>3, <1>4 DEF Pages!ReadFollowed

LEMMA ReadFeedNoticesStep ==
  ASSUME PagesInv, Pages!ReadFeedNotices
  PROVE  PagesInv'
<1> DEFINE told == Pages!published_notices_for_apps(Pages!Range(page.apps), FeedNotices)
<1>1. /\ PagesTyped /\ PageShape(page) /\ WasThere(page) /\ FeedWhole(page)
      /\ Made(page, page.at, page.kind, page.app, page.began, page.apps,
                 page.others, page.news, page.follows, page.gap)
  BY PageParts
<1>2. page.at = "news" /\ page.kind = "feed" /\ page.news = <<>>
      /\ page.others = <<>> /\ page.follows \notin BOOLEAN
  BY <1>1 DEF Pages!ReadFeedNotices, Pages!Building, PageShape
<1>3. CASE Pages!Put("shown", [page EXCEPT !.news = told])
  <2> DEFINE q == [[page EXCEPT !.news = told] EXCEPT !.at = "shown"]
  <2>1. Made(q, "shown", "feed", page.app, page.began, page.apps, <<>>, told, page.follows,
          page.gap)
    BY <1>1, <1>2 DEF Made
  <2>2. /\ told \in Seq(Pages!Notices) /\ Len(told) <= FeedNotices
        /\ \A n \in In(told) : n \in In(news) /\ n.app \in In(page.apps)
        /\ \A n \in In(news) : n.app \in In(page.apps) /\ n \notin In(told) =>
             Len(told) = FeedNotices /\ \A m \in In(told) : m.id > n.id
    BY <1>1, Published, PagesWords, PagesConstants
  <2> HIDE DEF q, told
  <2>3. PageShape(q)
    BY <1>1, <1>2, <2>1, <2>2, EmptyIn DEF PageShape, Made
  <2>4. WasThere(q)
    BY <1>1, <1>2, <2>1, <2>2, EmptyIn DEF WasThere, Made, NoticeWas
  <2>5. FeedWhole(q)
    BY <1>1, <1>2, <2>1 DEF FeedWhole, Made
  <2>6. NewsWhole(q)
    BY <2>1, <2>2 DEF NewsWhole, Made, AppsOf, LimitOf, NoticeStayed
  <2>7. OthersWhole(q)
    BY <2>1 DEF OthersWhole, Made
  <2> QED BY <1>3, <2>3, <2>4, <2>5, <2>6, <2>7, Putting DEF PageTells, q
<1>4. CASE Pages!Put("shown", [page EXCEPT !.gap = page.gap \cup {"news"}])
  <2> DEFINE q == [[page EXCEPT !.gap = page.gap \cup {"news"}] EXCEPT !.at = "shown"]
  <2>1. Made(q, "shown", "feed", page.app, page.began, page.apps, <<>>, <<>>, page.follows,
             page.gap \cup {"news"})
    BY <1>1, <1>2 DEF Made
  <2> HIDE DEF q
  <2>2. PageShape(q)
    BY <1>1, <1>2, <2>1, EmptyIn, PagesConstants DEF PageShape, Made
  <2>3. WasThere(q)
    BY <1>1, <1>2, <2>1, EmptyIn DEF WasThere, Made
  <2>4. FeedWhole(q)
    BY <1>1, <1>2, <2>1 DEF FeedWhole, Made
  <2>5. NewsWhole(q) /\ OthersWhole(q)
    BY <2>1 DEF NewsWhole, OthersWhole, Made
  <2> QED BY <1>4, <2>2, <2>3, <2>4, <2>5, Putting DEF PageTells, q
<1> QED BY <1>3, <1>4 DEF Pages!ReadFeedNotices

\* A page with one application, that is listed.
LEMMA Single ==
  ASSUME NEW a \in Pages!Held
  PROVE  <<a>> \in Seq(Pages!Held) /\ In(<<a>>) = {a}
<1>1. <<a>> \in Seq(Pages!Held) /\ DOMAIN <<a>> = {1} /\ <<a>>[1] = a
  OBVIOUS
<1> QED BY <1>1 DEF In

LEMMA OpenStep ==
  ASSUME PagesInv, NEW a \in Pages!Held, NEW kind \in {"widget", "app_page"}, NEW to,
         to = IF kind = "widget" THEN "news" ELSE "others",
         Pages!Listed(a) /\ Pages!Put(to, [Pages!Open(kind, a) EXCEPT !.apps = <<a>>])
  PROVE  PagesInv'
<1> DEFINE q == [[Pages!Open(kind, a) EXCEPT !.apps = <<a>>] EXCEPT !.at = to]
<1>1. PagesTyped
  BY DEF PagesInv
<1>2. Made(q, to, kind, a, moves, <<a>>, <<>>, <<>>, None, {})
  BY DEF Made, Pages!Open, Pages!Blank
<1> HIDE DEF q
<1>3. PageShape(q)
  BY <1>1, <1>2, EmptyIn, JustNow, Single, PagesConstants DEF PageShape, Made
<1>4. WasThere(q)
  BY <1>1, <1>2, EmptyIn, Single, PagesConstants, ListedIn, JustNow DEF WasThere, Made
<1>5. FeedWhole(q) /\ NewsWhole(q) /\ OthersWhole(q)
  BY <1>2 DEF FeedWhole, NewsWhole, OthersWhole, Made
<1> QED BY <1>3, <1>4, <1>5, Putting DEF PageTells, q

LEMMA Neutral ==
  ASSUME PagesTyped, NEW a \in Pages!Held, NEW q, NEW gap,
         Made(q, "shown", "unavailable", a, moves, <<>>, <<>>, <<>>, None, gap),
         gap # {} \/ a \notin In(catalogue)
  PROVE  PageTells(q)
<1>1. PageShape(q)
  BY EmptyIn, JustNow, PagesConstants DEF PageShape, Made
<1>2. WasThere(q) /\ FeedWhole(q) /\ NewsWhole(q)
  BY EmptyIn, PagesConstants DEF WasThere, FeedWhole, NewsWhole, Made
<1>3. OthersWhole(q)
  BY JustNow DEF OthersWhole, Made
<1> QED BY <1>1, <1>2, <1>3 DEF PageTells

LEMMA UnavailableStep ==
  ASSUME PagesInv, NEW a \in Pages!Held,
         \/ ~Pages!Listed(a) /\ Pages!Put("shown", Pages!Open("unavailable", a))
         \/ Pages!Put("shown", [Pages!Open("unavailable", a) EXCEPT !.gap = {"apps"}])
  PROVE  PagesInv'
<1>1. PagesTyped
  BY DEF PagesInv
<1>2. CASE ~Pages!Listed(a) /\ Pages!Put("shown", Pages!Open("unavailable", a))
  <2> DEFINE q == [Pages!Open("unavailable", a) EXCEPT !.at = "shown"]
  <2>1. Made(q, "shown", "unavailable", a, moves, <<>>, <<>>, <<>>, None, {})
    BY DEF Made, Pages!Open, Pages!Blank
  <2> HIDE DEF q
  <2>2. PageTells(q)
    BY <1>1, <1>2, <2>1, Neutral, ListedIn
  <2> QED BY <1>2, <2>2, Putting DEF q
<1>3. CASE Pages!Put("shown", [Pages!Open("unavailable", a) EXCEPT !.gap = {"apps"}])
  <2> DEFINE q == [[Pages!Open("unavailable", a) EXCEPT !.gap = {"apps"}] EXCEPT !.at = "shown"]
  <2>1. Made(q, "shown", "unavailable", a, moves, <<>>, <<>>, <<>>, None, {"apps"})
    BY DEF Made, Pages!Open, Pages!Blank
  <2> HIDE DEF q
  <2>2. PageTells(q)
    BY <1>1, <2>1, Neutral
  <2> QED BY <1>3, <2>2, Putting DEF q
<1> QED BY <1>2, <1>3

\* A notice that is there is among those that were there at any time since.
LEMMA InNews == \A b : \A n \in In(news) : NoticeWas(n, b)
BY DEF NoticeWas

LEMMA LoadNoticesStep ==
  ASSUME PagesInv, Pages!LoadNotices
  PROVE  PagesInv'
<1> DEFINE told == Pages!published_notices_for_apps({page.app}, WidgetNotices)
<1>1. /\ PagesTyped /\ PageShape(page) /\ WasThere(page)
      /\ Made(page, page.at, page.kind, page.app, page.began, page.apps,
                 page.others, page.news, page.follows, page.gap)
  BY PageParts
<1>2. page.at = "news" /\ page.kind = "widget" /\ page.news = <<>> /\ page.apps = <<page.app>>
      /\ page.app \in Pages!Held /\ page.others = <<>> /\ page.follows \notin BOOLEAN
  BY <1>1 DEF Pages!LoadNotices, Pages!Building, PageShape
<1>3. In(page.apps) = {page.app}
  BY <1>2, Single
<1>4. UNCHANGED <<catalogue, follows, news, owners, moves, changed>>
  BY DEF Pages!LoadNotices
<1>5. ASSUME NEW q, page' = q, NEW shown, NEW gap,
             Made(q, "shown", "widget", page.app, page.began, page.apps, <<>>, shown,
                  page.follows, gap),
             shown \in Seq(Pages!Notices), Len(shown) <= WidgetNotices,
             \A n \in In(shown) : n \in In(news) /\ n.app = page.app,
             "news" \in gap \/
               \A n \in In(news) : n.app = page.app /\ n \notin In(shown) =>
                 Len(shown) = WidgetNotices /\ \A m \in In(shown) : m.id > n.id
      PROVE  PagesInv'
  <2>1. PageShape(q)
    BY <1>1, <1>2, <1>3, <1>5, EmptyIn DEF PageShape, Made
  <2>2. WasThere(q)
    BY <1>1, <1>2, <1>5, EmptyIn DEF WasThere, Made, NoticeWas
  <2>3. FeedWhole(q) /\ OthersWhole(q)
    BY <1>5 DEF FeedWhole, OthersWhole, Made
  <2>4. NewsWhole(q)
    BY <1>3, <1>5 DEF NewsWhole, Made, AppsOf, LimitOf, NoticeStayed
  <2> DEFINE c == [kind |-> "widget", app |-> page.app, news |-> shown, began |-> page.began,
                   age |-> 0]
  <2>5. copy' = c
    BY <1>5 DEF Made, Pages!LoadNotices
  <2>6. CopyTells(c)
    <3>1. \A n \in In(shown) : NoticeWas(n, page.began)
      BY <1>5, InNews
    <3>2. AppWas(page.app, page.began) /\ page.began \in 0 .. moves
      BY <1>1, <1>2, <1>3 DEF WasThere, PageShape
    <3>3. 0 \in 0 .. MaxAge
      BY PagesConstants
    <3> QED BY <1>2, <1>5, <3>1, <3>2, <3>3 DEF CopyTells
  <2> HIDE DEF c
  <2> QED BY <1>4, <1>5, <2>1, <2>2, <2>3, <2>4, <2>5, <2>6, PageStands DEF PageTells
<1>6. CASE page' = [page EXCEPT !.at = "shown", !.news = told]
  <2> DEFINE q == [page EXCEPT !.at = "shown", !.news = told]
  <2>1. Made(q, "shown", "widget", page.app, page.began, page.apps, <<>>, told,
             page.follows, page.gap)
    BY <1>1, <1>2 DEF Made
  <2>2. /\ told \in Seq(Pages!Notices) /\ Len(told) <= WidgetNotices
        /\ \A n \in In(told) : n \in In(news) /\ n.app \in {page.app}
        /\ \A n \in In(news) : n.app \in {page.app} /\ n \notin In(told) =>
             Len(told) = WidgetNotices /\ \A m \in In(told) : m.id > n.id
    BY <1>1, Published, PagesConstants
  <2> HIDE DEF told
  <2>3. page' = q
    BY <1>6
  <2> HIDE DEF q
  <2>4. /\ \A n \in In(told) : n \in In(news) /\ n.app = page.app
        /\ \A n \in In(news) : n.app = page.app /\ n \notin In(told) =>
             Len(told) = WidgetNotices /\ \A m \in In(told) : m.id > n.id
    BY <2>2
  <2> QED BY <1>5, <2>1, <2>2, <2>3, <2>4
<1>7. CASE page' = [page EXCEPT !.at = "shown", !.gap = {"news"}]
  <2> DEFINE q == [page EXCEPT !.at = "shown", !.gap = {"news"}]
  <2>1. Made(q, "shown", "widget", page.app, page.began, page.apps, <<>>, <<>>,
             page.follows, {"news"})
    BY <1>1, <1>2 DEF Made
  <2>2. page' = q
    BY <1>7
  <2> HIDE DEF q
  <2>3. <<>> \in Seq(Pages!Notices) /\ Len(<<>>) <= WidgetNotices /\ In(<<>>) = {}
    BY EmptyIn, PagesConstants
  <2> QED BY <1>5, <2>1, <2>2, <2>3
<1> QED BY <1>6, <1>7 DEF Pages!LoadNotices

LEMMA TimePassesStep ==
  ASSUME PagesInv, Pages!TimePasses
  PROVE  PagesInv'
<1>1. UNCHANGED <<catalogue, follows, news, owners, moves, changed>> /\ page' = page
      /\ copy # None /\ CopyTells(copy) /\ PageTells(page)
  BY DEF Pages!TimePasses, PagesInv
<1>2. ASSUME NEW c, copy' = c, CopyTells(c) PROVE PagesInv'
  <2>1. \A q : q = page => PageTells(q) /\ page' = q
    BY <1>1
  <2> QED BY <1>1, <1>2, <2>1, PageStands
<1>3. CASE copy.age = MaxAge
  <2>1. CopyTells(None) /\ copy' = None
    BY <1>3 DEF CopyTells, Pages!TimePasses
  <2> QED BY <1>2, <2>1
<1>4. CASE copy.age # MaxAge
  <2> DEFINE c == [copy EXCEPT !.age = copy.age + 1]
  <2>1. copy' = c
    BY <1>4 DEF Pages!TimePasses
  <2>2. DOMAIN copy = {"kind", "app", "news", "began", "age"} /\ copy.age \in 0 .. MaxAge
    BY <1>1 DEF CopyTells
  <2>3. /\ DOMAIN c = {"kind", "app", "news", "began", "age"} /\ c.age = copy.age + 1
        /\ c.kind = copy.kind /\ c.app = copy.app /\ c.news = copy.news /\ c.began = copy.began
    BY <2>2
  <2>4. copy.age + 1 \in 0 .. MaxAge
    BY <1>4, <2>2, PagesConstants
  <2> HIDE DEF c
  <2>5. CopyTells(c)
    BY <1>1, <2>3, <2>4 DEF CopyTells
  <2> QED BY <1>2, <2>1, <2>5
<1> QED BY <1>3, <1>4

LEMMA ReadOthersStep ==
  ASSUME PagesInv, Pages!ReadOthers
  PROVE  PagesInv'
<1> DEFINE p == Pages!accepted_apps_by_owner(page.app, OtherApps)
<1>1. /\ PagesTyped /\ PageShape(page) /\ WasThere(page)
      /\ Made(page, page.at, page.kind, page.app, page.began, page.apps,
                 page.others, page.news, page.follows, page.gap)
      /\ page.began \in Nat
  BY PageParts
<1>2. page.at = "others" /\ page.kind = "app_page" /\ page.news = <<>> /\ page.apps = <<page.app>>
      /\ page.app \in Pages!Held /\ page.others = <<>> /\ page.follows = None
  BY <1>1 DEF Pages!ReadOthers, Pages!Building, PageShape
<1>3. CASE Pages!Put("slots", [page EXCEPT !.others = p])
  <2> DEFINE q == [[page EXCEPT !.others = p] EXCEPT !.at = "slots"]
  <2>1. Made(q, "slots", "app_page", page.app, page.began, page.apps, p, <<>>, None, page.gap)
    BY <1>1, <1>2 DEF Made
  <2>2. /\ p \in Seq(Pages!Held) /\ Len(p) <= OtherApps
        /\ In(p) \subseteq In(catalogue)
        /\ \A b \in In(catalogue) : Owner[b] = Owner[page.app] /\ b # page.app /\ b \notin In(p) =>
             Len(p) = OtherApps
    BY <1>1, OthersListed
  <2> HIDE DEF q, p
  <2>3. PageShape(q)
    BY <1>1, <1>2, <2>1, <2>2, EmptyIn, PagesConstants DEF PageShape, Made
  <2>4. WasThere(q)
    BY <1>1, <1>2, <2>1, <2>2, EmptyIn, PagesConstants DEF WasThere, Made, AppWas
  <2>5. FeedWhole(q) /\ NewsWhole(q)
    BY <2>1 DEF FeedWhole, NewsWhole, Made
  <2>6. OthersWhole(q)
    BY <2>1, <2>2 DEF OthersWhole, Made, AppStayed
  <2> QED BY <1>3, <2>3, <2>4, <2>5, <2>6, Putting DEF PageTells, q
<1>4. CASE Pages!Put("shown", [page EXCEPT !.kind = "unavailable", !.apps = <<>>, !.gap = {"apps"}])
  <2> DEFINE q == [[page EXCEPT !.kind = "unavailable", !.apps = <<>>, !.gap = {"apps"}]
                     EXCEPT !.at = "shown"]
  <2>1. Made(q, "shown", "unavailable", page.app, page.began, <<>>, <<>>, <<>>, None, {"apps"})
    BY <1>1, <1>2 DEF Made
  <2> HIDE DEF q
  <2>2. PageShape(q)
    BY <1>1, <1>2, <2>1, EmptyIn, PagesConstants DEF PageShape, Made
  <2>3. WasThere(q) /\ FeedWhole(q) /\ NewsWhole(q) /\ OthersWhole(q)
    BY <2>1, EmptyIn, PagesConstants DEF WasThere, FeedWhole, NewsWhole, OthersWhole, Made
  <2> QED BY <1>4, <2>2, <2>3, Putting DEF PageTells, q
<1> QED BY <1>3, <1>4 DEF Pages!ReadOthers

LEMMA AppFollowStep ==
  ASSUME PagesInv, Pages!AppFollow
  PROVE  PagesInv'
<1> DEFINE told == page.app \in Pages!Range(follows)
<1>1. /\ PagesTyped /\ PageShape(page) /\ WasThere(page) /\ OthersWhole(page)
      /\ Made(page, page.at, page.kind, page.app, page.began, page.apps,
                 page.others, page.news, page.follows, page.gap)
  BY PageParts
<1>2. page.at = "slots" /\ page.kind = "app_page" /\ page.news = <<>>
      /\ page.apps = <<page.app>> /\ page.app \in Pages!Held /\ page.follows = None
  BY <1>1 DEF Pages!AppFollow, Pages!Building, PageShape
<1>3. ASSUME NEW q, NEW follow, NEW gap,
             Made(q, "shown", "app_page", page.app, page.began, page.apps, page.others, <<>>,
                  follow, gap),
             follow \in BOOLEAN => (follow <=> page.app \in In(follows))
      PROVE  PageTells(q)
  <2>1. PageShape(q)
    BY <1>1, <1>2, <1>3, EmptyIn DEF PageShape, Made
  <2>2. WasThere(q)
    BY <1>1, <1>2, <1>3, EmptyIn DEF WasThere, Made, FollowToldOf
  <2>3. FeedWhole(q) /\ NewsWhole(q)
    BY <1>3 DEF FeedWhole, NewsWhole, Made
  <2>4. OthersWhole(q)
    BY <1>1, <1>2, <1>3 DEF OthersWhole, Made
  <2> QED BY <2>1, <2>2, <2>3, <2>4 DEF PageTells
<1>4. CASE Pages!Put("shown", [page EXCEPT !.follows = told])
  <2> DEFINE q == [[page EXCEPT !.follows = told] EXCEPT !.at = "shown"]
  <2>1. told <=> page.app \in In(follows)
    BY PagesWords
  <2> HIDE DEF told
  <2>2. Made(q, "shown", "app_page", page.app, page.began, page.apps, page.others, <<>>,
             told, page.gap)
    BY <1>1, <1>2 DEF Made
  <2> HIDE DEF q
  <2>3. PageTells(q)
    BY <1>3, <2>1, <2>2
  <2> QED BY <1>4, <2>3, Putting DEF q, told
<1>5. CASE Pages!Put("shown", [page EXCEPT !.gap = {"slot"}])
  <2> DEFINE q == [[page EXCEPT !.gap = {"slot"}] EXCEPT !.at = "shown"]
  <2>1. Made(q, "shown", "app_page", page.app, page.began, page.apps, page.others, <<>>,
             None, {"slot"})
    BY <1>1, <1>2 DEF Made
  <2> HIDE DEF q
  <2>2. PageTells(q)
    BY <1>3, <2>1, PagesConstants
  <2> QED BY <1>5, <2>2, Putting DEF q
<1> QED BY <1>4, <1>5 DEF Pages!AppFollow

LEMMA OpenChannelStep ==
  ASSUME PagesInv, NEW a \in Pages!Held, Pages!OpenChannel(a)
  PROVE  PagesInv'
<1> DEFINE told == a \in Pages!Range(follows)
           r == Pages!Open("channel", a)
<1>1. PagesTyped
  BY DEF PagesInv
<1>2. ASSUME NEW q, NEW follow, NEW gap,
             Made(q, "slots", "channel", a, moves, <<>>, <<>>, <<>>, follow, gap),
             follow \in BOOLEAN => (follow <=> a \in In(follows))
      PROVE  PageTells(q)
  <2>1. PageShape(q)
    BY <1>1, <1>2, EmptyIn, JustNow, PagesConstants DEF PageShape, Made
  <2>2. WasThere(q)
    BY <1>2, EmptyIn DEF WasThere, Made, FollowToldOf
  <2>3. FeedWhole(q) /\ NewsWhole(q) /\ OthersWhole(q)
    BY <1>2 DEF FeedWhole, NewsWhole, OthersWhole, Made
  <2> QED BY <2>1, <2>2, <2>3 DEF PageTells
<1>3. CASE Pages!Put("slots", [r EXCEPT !.follows = told])
  <2> DEFINE q == [[r EXCEPT !.follows = told] EXCEPT !.at = "slots"]
  <2>1. told <=> a \in In(follows)
    BY PagesWords
  <2> HIDE DEF told
  <2>2. Made(q, "slots", "channel", a, moves, <<>>, <<>>, <<>>, told, {})
    BY DEF Made, Pages!Open, Pages!Blank
  <2> HIDE DEF q
  <2>3. PageTells(q)
    BY <1>2, <2>1, <2>2
  <2> QED BY <1>3, <2>3, Putting DEF q, told
<1>4. CASE Pages!Put("slots", [r EXCEPT !.gap = {"slot"}])
  <2> DEFINE q == [[r EXCEPT !.gap = {"slot"}] EXCEPT !.at = "slots"]
  <2>1. Made(q, "slots", "channel", a, moves, <<>>, <<>>, <<>>, None, {"slot"})
    BY DEF Made, Pages!Open, Pages!Blank
  <2> HIDE DEF q
  <2>2. PageTells(q)
    BY <1>2, <2>1, PagesConstants
  <2> QED BY <1>4, <2>2, Putting DEF q
<1> QED BY <1>3, <1>4 DEF Pages!OpenChannel

LEMMA ChannelNoticesStep ==
  ASSUME PagesInv, Pages!ChannelNotices
  PROVE  PagesInv'
<1> DEFINE K == {i \in DOMAIN news : news[i].app = page.app}
           told == Picked(news, K)
<1>1. /\ PagesTyped /\ PageShape(page) /\ WasThere(page)
      /\ Made(page, page.at, page.kind, page.app, page.began, page.apps,
                 page.others, page.news, page.follows, page.gap)
  BY PageParts
<1>2. page.at = "slots" /\ page.kind = "channel" /\ page.news = <<>>
      /\ page.apps = <<>> /\ page.app \in Pages!Held /\ page.others = <<>>
  BY <1>1 DEF Pages!ChannelNotices, Pages!Building, PageShape
<1>3. ASSUME NEW q, NEW shown, NEW gap,
             Made(q, "shown", "channel", page.app, page.began, <<>>, <<>>, shown,
                  page.follows, gap),
             shown \in Seq(Pages!Notices), In(shown) \subseteq In(news),
             "news" \in gap \/ \A n \in In(news) : n.app = page.app => n \in In(shown)
      PROVE  PageTells(q)
  <2>1. PageShape(q)
    BY <1>1, <1>2, <1>3, EmptyIn DEF PageShape, Made
  <2>2. WasThere(q)
    BY <1>1, <1>2, <1>3, EmptyIn DEF WasThere, Made, NoticeWas
  <2>3. FeedWhole(q) /\ OthersWhole(q)
    BY <1>3 DEF FeedWhole, OthersWhole, Made
  <2>4. NewsWhole(q)
    BY <1>3 DEF NewsWhole, Made, AppsOf, NoticeStayed
  <2> QED BY <2>1, <2>2, <2>3, <2>4 DEF PageTells
<1>4. CASE Pages!Put("shown", [page EXCEPT !.news = told])
  <2> DEFINE q == [[page EXCEPT !.news = told] EXCEPT !.at = "shown"]
  <2>1. news \in Seq(Pages!Notices) /\ K \in SUBSET DOMAIN news
    BY <1>1 DEF PagesTyped
  <2>2. \A n \in In(news) : n.app = page.app => \E i \in K : n = news[i]
    BY DEF In
  <2>3. {news[i] : i \in K} \subseteq In(news)
    BY DEF In
  <2> HIDE DEF K
  <2>4. told \in Seq(Pages!Notices) /\ In(told) = {news[i] : i \in K}
    BY <2>1, PickedKeeps
  <2> HIDE DEF told
  <2>5. Made(q, "shown", "channel", page.app, page.began, <<>>, <<>>, told, page.follows, page.gap)
    BY <1>1, <1>2 DEF Made
  <2> HIDE DEF q
  <2>6. PageTells(q)
    BY <1>3, <2>2, <2>3, <2>4, <2>5
  <2> QED BY <1>4, <2>6, Putting DEF q
<1>5. CASE Pages!Put("shown", [page EXCEPT !.gap = page.gap \cup {"news"}])
  <2> DEFINE q == [[page EXCEPT !.gap = page.gap \cup {"news"}] EXCEPT !.at = "shown"]
  <2>1. Made(q, "shown", "channel", page.app, page.began, <<>>, <<>>, <<>>, page.follows,
             page.gap \cup {"news"})
    BY <1>1, <1>2 DEF Made
  <2> HIDE DEF q
  <2>2. PageTells(q)
    BY <1>3, <2>1, EmptyIn
  <2> QED BY <1>5, <2>2, Putting DEF q
<1> QED BY <1>4, <1>5, PagesWords DEF Pages!ChannelNotices

LEMMA Reversed ==
  ASSUME NEW S, NEW seq \in Seq(S), Once(seq)
  PROVE  LET r == [i \in DOMAIN seq |-> seq[Len(seq) + 1 - i]]
         IN  r \in Seq(S) /\ Once(r)
<1> DEFINE n == Len(seq)
           r == [i \in DOMAIN seq |-> seq[n + 1 - i]]
<1>1. n \in Nat /\ DOMAIN seq = 1 .. n /\ \A i \in 1 .. n : seq[i] \in S
  BY LenProperties, ElementOfSeq
<1> HIDE DEF n
<1>3. \A i \in 1 .. n : n + 1 - i \in 1 .. n
  BY <1>1
<1>4. r \in [1 .. n -> S]
  BY <1>1, <1>3
<1>5. ASSUME NEW i \in 1 .. n, NEW j \in 1 .. n, r[i] = r[j] PROVE i = j
  <2>1. seq[n + 1 - i] = seq[n + 1 - j]
    BY <1>1, <1>5
  <2>2. n + 1 - i = n + 1 - j
    BY <1>1, <1>3, <2>1 DEF Once
  <2> QED BY <1>1, <2>2
<1>6. DOMAIN r = 1 .. n
  BY <1>1
<1> HIDE DEF r
<1>7. r \in Seq(S) /\ Once(r)
  BY <1>1, <1>4, <1>5, <1>6 DEF Once
<1> QED BY <1>7 DEF r, n

LEMMA PagesStart == Pages!PagesInit => PagesInv
<1> SUFFICES ASSUME Pages!PagesInit PROVE PagesInv
  OBVIOUS
<1>1. catalogue = LineUp(Pages!Held)
  BY DEF Pages!PagesInit, Pages!LineUp, LineUp, Pages!IsInjective, IsInjective, Pages!Cardinality,
         Cardinality
<1>2. catalogue \in Seq(Pages!Held) /\ Once(catalogue)
  BY <1>1, PagesConstants, LinedUp DEF Once
<1>3. follows \in Seq(Pages!Held) /\ Once(follows)
  BY <1>2, Reversed DEF Pages!PagesInit
<1>4. /\ news = <<>> /\ owners = Developers /\ moves = 0 /\ page = Pages!Blank /\ copy = None
      /\ changed = [app |-> [a \in Pages!Held |-> 0], follow |-> [a \in Pages!Held |-> 0],
                    notice |-> [i \in Pages!Ids |-> 0]]
  BY DEF Pages!PagesInit
<1>5. PagesTyped
  <2>1. /\ changed = [app |-> changed.app, follow |-> changed.follow, notice |-> changed.notice]
        /\ changed.app = [a \in Pages!Held |-> 0]
        /\ changed.follow = [a \in Pages!Held |-> 0]
        /\ changed.notice = [i \in Pages!Ids |-> 0]
    BY <1>4
  <2>2. 0 \in 0 .. moves /\ moves \in 0 .. PageMoves
    BY <1>4, PagesConstants
  <2>3. news \in Seq(Pages!Notices) /\ DOMAIN news = {}
    BY <1>4
  <2> QED BY <1>2, <1>3, <1>4, <2>1, <2>2, <2>3 DEF PagesTyped
<1>6. Made(page, "shown", "none", None, 0, <<>>, <<>>, <<>>, None, {})
  BY <1>4 DEF Made, Pages!Blank
<1>7. PageShape(page)
  <2>1. 0 \in 0 .. moves
    BY <1>4
  <2> QED BY <1>6, <2>1, EmptyIn, PagesConstants DEF PageShape, Made
<1>8. WasThere(page) /\ FeedWhole(page) /\ NewsWhole(page) /\ OthersWhole(page)
  BY <1>6, EmptyIn, PagesConstants DEF WasThere, FeedWhole, NewsWhole, OthersWhole, Made
<1>9. CopyTells(copy)
  BY <1>4 DEF CopyTells
<1> QED BY <1>5, <1>7, <1>8, <1>9 DEF PagesInv, PageTells

LEMMA PagesStep == PagesInv /\ Pages!PagesNext => PagesInv'
<1> SUFFICES ASSUME PagesInv, Pages!PagesNext PROVE PagesInv'
  OBVIOUS
<1>1. CASE Pages!OpenFeed \/ Pages!ReadFollowed \/ Pages!ReadFeedNotices \/ Pages!LoadNotices
           \/ Pages!TimePasses \/ Pages!ReadOthers \/ Pages!AppFollow \/ Pages!ChannelNotices
  BY <1>1, OpenFeedStep, ReadFollowedStep, ReadFeedNoticesStep, LoadNoticesStep,
    TimePassesStep, ReadOthersStep, AppFollowStep, ChannelNoticesStep
<1>2. ASSUME NEW a \in Pages!Held, Pages!OpenWidget(a) PROVE PagesInv'
  BY <1>2, OpenStep, UnavailableStep DEF Pages!OpenWidget
<1>3. ASSUME NEW a \in Pages!Held, Pages!OpenAppPage(a) PROVE PagesInv'
  BY <1>3, OpenStep, UnavailableStep DEF Pages!OpenAppPage
<1>4. ASSUME NEW a \in Pages!Held,
             \/ Pages!OpenChannel(a) \/ Pages!Accept(a) \/ Pages!Leave(a)
             \/ Pages!follow_app(a) \/ Pages!unfollow_app(a) \/ Pages!post_notice(a)
      PROVE  PagesInv'
  BY <1>4, OpenChannelStep, AcceptStep, LeaveStep, FollowStep, UnfollowStep, PostStep
<1>5. CASE \E n \in Pages!Range(news) : Pages!withdraw_notice(n)
  <2>1. Pages!Range(news) = In(news)
    BY PagesWords
  <2> QED BY <1>5, <2>1, WithdrawStep
<1>6. CASE \E d \in Developers : Pages!DeveloperLeaves(d)
  BY <1>6, LeavesStep
<1> QED BY <1>1, <1>2, <1>3, <1>4, <1>5, <1>6 DEF Pages!PagesNext

LEMMA PagesHold == Spec => [](part = "pages" => PagesInv)
<1> DEFINE Inv == part = "pages" => PagesInv
<1>1. Init => Inv
  BY PagesStart DEF Init
<1>2. Inv /\ [Next]_vars => Inv'
  <2> SUFFICES ASSUME Inv, [Next]_vars, part' = "pages" PROVE PagesInv'
    OBVIOUS
  <2>1. part = "pages" /\ (Pages!PagesNext \/ UNCHANGED pagesState)
    BY DEF Next, NextEdit, NextRead, vars
  <2>2. CASE UNCHANGED pagesState
    <3>1. UNCHANGED <<catalogue, follows, news, owners, moves, changed>> /\ page' = page
          /\ copy' = copy
      BY <2>2 DEF pagesState
    <3>2. PageTells(page) /\ CopyTells(copy)
      BY <2>1 DEF PagesInv
    <3>3. \A q, c : q = page /\ c = copy => PageTells(q) /\ CopyTells(c) /\ page' = q /\ copy' = c
      BY <3>1, <3>2
    <3> QED BY <2>1, <3>1, <3>3, PageStands
  <2> QED BY <2>1, <2>2, PagesStep
<1> QED BY <1>1, <1>2, PTL DEF Spec

\* A feed, a widget, the page of an application and a developer's channel show nothing that
\* was not public while they were put together, leave nothing out that was public all the
\* while and has room, and a widget that a browser keeps does so for the time it was made,
\* for any number of applications, notices and requests in between (followed_apps,
\* published_notices_for_apps, get_app_page_content, build_widget_view).
THEOREM PagesStand == Spec => [](part = "pages" => Pages!PagesTellTheirTime)
<1>1. PagesInv => Pages!PagesTellTheirTime
  BY PagesTold
<1> QED BY <1>1, PagesHold, PTL

-------------------------------------------------------------------------------
(***************************************************************************)
(* The reviews.  The counts by score add up to the ratings there were      *)
(* when they were read, and each request between two reads changes one     *)
(* rating at most.                                                         *)
(***************************************************************************)
LEMMA ReviewsWords ==
  /\ \A S : Reviews!Cardinality(S) = Cardinality(S)
  /\ \A S : Reviews!IsFiniteSet(S) <=> IsFiniteSet(S)
  /\ \A s : Reviews!Range(s) = In(s)
  /\ \A s, K : Reviews!Picked(s, K) = Picked(s, K)
  /\ \A m, entries : Reviews!OfMember(m, entries) =
       Picked(entries, {i \in DOMAIN entries : entries[i].user = m})
<1>1. \A S : Reviews!IsFiniteSet(S) <=> IsFiniteSet(S)
  BY DEF Reviews!IsFiniteSet, IsFiniteSet
<1>2. \A S : Reviews!Cardinality(S) = Cardinality(S)
  BY DEF Reviews!Cardinality, Cardinality
<1>3. \A s, K : Reviews!Picked(s, K) = Picked(s, K)
  BY DEF Reviews!Picked, Picked, Reviews!Upto, Upto, Reviews!Cardinality, Cardinality
<1>4. \A m, entries : Reviews!OfMember(m, entries) =
       Picked(entries, {i \in DOMAIN entries : entries[i].user = m})
  BY <1>3 DEF Reviews!OfMember
<1>5. \A s : Reviews!Range(s) = In(s)
  BY DEF Reviews!Range, In
<1> QED BY <1>1, <1>2, <1>3, <1>4, <1>5

LEMMA ReviewsConstants ==
  /\ IsFiniteSet(Members) /\ None \notin Members /\ Scales \subseteq 1 .. TopScore
  /\ TopScore \in Nat \ {0} /\ DisplayLimit \in Nat \ {0} /\ MaxMoves \in Nat
BY ReadConstants, ReviewsWords DEF Reviews!SlotAssumption

\* g sums d over each set of scores within T.
IsSum(g, d, T) ==
  g = [s \in SUBSET T |-> IF s = {} THEN 0
                          ELSE LET x == CHOOSE y \in s : TRUE IN d[x] + g[s \ {x}]]

LEMMA SummedOnce ==
  ASSUME NEW T, IsFiniteSet(T), NEW d, NEW f, NEW g, IsSum(f, d, T), IsSum(g, d, T)
  PROVE  f = g
<1> DEFINE Bad == {s \in SUBSET T : f[s] # g[s]}
<1>1. /\ DOMAIN f = SUBSET T /\ DOMAIN g = SUBSET T /\ f = [s \in SUBSET T |-> f[s]]
      /\ g = [s \in SUBSET T |-> g[s]]
  BY DEF IsSum
<1>2. Bad = {}
  <2> SUFFICES ASSUME Bad # {} PROVE FALSE
    OBVIOUS
  <2>1. Bad \subseteq FiniteSubsetsOf(T)
    BY FS_Subset DEF FiniteSubsetsOf
  <2>2. PICK s \in Bad : \A r \in Bad : ~ (<<r, s>> \in StrictSubsetOrdering(T))
    <3> HIDE DEF Bad
    <3> QED BY <2>1, WFMin, FS_StrictSubsetOrderingWellFounded, Zenon
  <2>3. s # {}
    BY <2>2 DEF IsSum
  <2> DEFINE x == CHOOSE y \in s : TRUE
  <2>4. x \in s
    BY <2>3
  <2>5. f[s] = d[x] + f[s \ {x}] /\ g[s] = d[x] + g[s \ {x}]
    BY <2>2, <2>3 DEF IsSum
  <2> HIDE DEF x
  <2>6. s \ {x} \notin Bad
    <3>1. IsFiniteSet(s) /\ IsFiniteSet(s \ {x})
      BY <2>2, FS_Subset
    <3>2. <<s \ {x}, s>> \in StrictSubsetOrdering(T)
      BY <2>2, <2>4, <3>1 DEF StrictSubsetOrdering
    <3> QED BY <2>2, <3>2
  <2> QED BY <2>2, <2>5, <2>6
<1> QED BY <1>1, <1>2

\* The counts of the scores in T add up to the rows that have one of them.
Having(entries, T) == Cardinality({i \in DOMAIN entries : entries[i].score \in T})

LEMMA HavingAdds ==
  ASSUME NEW S, NEW entries \in Seq(S), NEW s, NEW x \in s
  PROVE  /\ Having(entries, s) = Having(entries, {x}) + Having(entries, s \ {x})
         /\ Having(entries, s) \in Nat /\ Having(entries, {}) = 0
<1> DEFINE D == DOMAIN entries
           A == {i \in D : entries[i].score \in {x}}
           B == {i \in D : entries[i].score \in s \ {x}}
           C == {i \in D : entries[i].score \in s}
<1>1. IsFiniteSet(D)
  BY LenProperties, Counted
<1>2. A \subseteq D /\ B \subseteq D /\ C = A \cup B /\ A \cap B = {}
  OBVIOUS
<1>3. {i \in D : entries[i].score \in {}} = {}
  OBVIOUS
<1> HIDE DEF A, B, C, D
<1>4. IsFiniteSet(A) /\ IsFiniteSet(B) /\ IsFiniteSet(C)
  BY <1>1, <1>2, FS_Subset, FS_Union
<1>5. Cardinality(C) = Cardinality(A) + Cardinality(B) - Cardinality({})
  BY <1>2, <1>4, FS_Union
<1>6. Cardinality(C) = Cardinality(A) + Cardinality(B) /\ Cardinality(C) \in Nat
  BY <1>4, <1>5, FS_CardinalityType, FS_EmptySet
<1> QED BY <1>3, <1>6, FS_EmptySet DEF Having, A, B, C, D

LEMMA SumIs ==
  ASSUME NEW T, IsFiniteSet(T), NEW d, NEW g, IsSum(g, d, T)
  PROVE  Reviews!SumFunctionOnSet(d, T) = g[T]
<1>1. Reviews!SumFunctionOnSet(d, T) = (CHOOSE h : IsSum(h, d, T))[T]
  BY DEF Reviews!SumFunctionOnSet, Reviews!FoldFunctionOnSet, Reviews!MapThenFoldSet, IsSum
<1>2. IsSum(CHOOSE h : IsSum(h, d, T), d, T)
  OBVIOUS
<1> DEFINE c == CHOOSE h : IsSum(h, d, T)
<1> HIDE DEF c
<1>3. c = g
  BY <1>2, SummedOnce DEF c
<1> QED BY <1>1, <1>3 DEF c

LEMMA ScoresSummed ==
  ASSUME NEW S, NEW entries \in Seq(S), NEW T, IsFiniteSet(T),
         NEW d, \A s \in T : d[s] = Having(entries, {s})
  PROVE  Reviews!SumFunctionOnSet(d, T) = Having(entries, T)
<1> DEFINE g == [s \in SUBSET T |-> Having(entries, s)]
<1>1. IsSum(g, d, T)
  <2>1. ASSUME NEW s \in SUBSET T
        PROVE  g[s] = IF s = {} THEN 0
                      ELSE LET x == CHOOSE y \in s : TRUE IN d[x] + g[s \ {x}]
    <3>1. CASE s = {}
      <4>1. {i \in DOMAIN entries : entries[i].score \in {}} = {}
        OBVIOUS
      <4> QED BY <3>1, <4>1, FS_EmptySet DEF Having
    <3>2. CASE s # {}
      <4> DEFINE x == CHOOSE y \in s : TRUE
      <4>1. x \in s
        BY <3>2
      <4> HIDE DEF x
      <4>2. Having(entries, s) = Having(entries, {x}) + Having(entries, s \ {x})
        BY <4>1, HavingAdds
      <4>3. d[x] = Having(entries, {x}) /\ g[s \ {x}] = Having(entries, s \ {x})
              /\ g[s] = Having(entries, s)
        BY <4>1
      <4> QED BY <3>2, <4>2, <4>3 DEF x
    <3> QED BY <3>1, <3>2
  <2> HIDE DEF g
  <2>2. g = [s \in SUBSET T |-> g[s]]
    BY DEF g
  <2> QED BY <2>1, <2>2 DEF IsSum
<1>2. g[T] = Having(entries, T)
  OBVIOUS
<1> HIDE DEF g
<1> QED BY <1>1, <1>2, SumIs

OneEach(entries) ==
  \A i, j \in DOMAIN entries : entries[i].user = entries[j].user /\ entries[i].user \in Members
    => i = j

SlotTyped ==
  /\ ratings \in Seq(Reviews!Rows) /\ OneEach(ratings)
  /\ \A i \in DOMAIN ratings : ratings[i].user \notin left
  /\ scale \in Scales /\ left \subseteq Members

SlotShape(p) ==
  /\ DOMAIN p = {"at", "viewer", "scale", "left", "distribution", "list", "own", "late", "before"}
  /\ p.at \in {"none", "opened", "counted", "listed", "shown", "degraded", "saved"}
  /\ p.viewer \in Members \cup {None} /\ p.late \in 0 .. MaxMoves /\ p.scale \in 1 .. TopScore
  /\ p.left \subseteq left
  /\ p.list \in Seq(Reviews!Rows) /\ Len(p.list) <= DisplayLimit
  /\ p.own \in Seq(Reviews!Rows) /\ Len(p.own) <= 1
  /\ p.at \in {"none", "opened", "counted"} => p.list = <<>>
  /\ \A i \in DOMAIN p.list : p.list[i].user \notin p.left

\* The rows with a score above s.
Above(entries, s) == Cardinality({i \in DOMAIN entries : entries[i].score > s})
Total(p) == Reviews!SumFunctionOnSet(p.distribution, Reviews!Scores)
Low(p) == Reviews!SumFunctionOnSet(p.distribution, 1 .. p.scale)

CountsHold(p) ==
  p.at \in {"counted", "listed", "shown"} =>
    /\ Total(p) \in Nat /\ Low(p) \in Nat
    /\ Len(ratings) <= Total(p) + p.late /\ Total(p) <= Len(ratings) + p.late
    /\ Total(p) - Low(p) <= p.late + Above(ratings, p.scale)

ListHolds(p) ==
  p.at \in {"listed", "shown"} =>
    /\ Len(p.list) <= Total(p) + p.late
    /\ Total(p) <= Len(p.list) + p.late \/ Len(p.list) = DisplayLimit
    /\ p.late = 0 => \A i \in DOMAIN p.list : i \in DOMAIN ratings /\ p.list[i] = ratings[i]

OwnHolds(p) ==
  p.at = "shown" /\ p.late = 0 =>
    p.own = IF p.viewer = None THEN <<>> ELSE Reviews!OfMember(p.viewer, ratings)

SlotTells(p) == SlotShape(p) /\ CountsHold(p) /\ ListHolds(p) /\ OwnHolds(p)

SlotInv ==
  /\ SlotTyped /\ SlotTells(slot)
  /\ slot.at = "saved" => Reviews!FormKeepsRating

\* What the page of a member shows of his rating.
LEMMA OfMemberIs ==
  ASSUME NEW entries \in Seq(Reviews!Rows), OneEach(entries), NEW m \in Members
  PROVE  /\ Reviews!OfMember(m, entries) \in Seq(Reviews!Rows)
           /\ Len(Reviews!OfMember(m, entries)) <= 1
         /\ Reviews!OfMember(m, entries) = <<>> <=> \A i \in DOMAIN entries : entries[i].user # m
         /\ \A i \in DOMAIN entries : entries[i].user = m
              => Reviews!OfMember(m, entries) = <<entries[i]>>
<1> DEFINE K == {i \in DOMAIN entries : entries[i].user = m}
           p == Picked(entries, K)
<1>1. Reviews!OfMember(m, entries) = p
  BY ReviewsWords
<1>2. K \in SUBSET DOMAIN entries /\ \A i, j \in K : i = j
  BY DEF OneEach
<1>3. (K = {} <=> \A i \in DOMAIN entries : entries[i].user # m)
      /\ \A i \in DOMAIN entries : entries[i].user = m => i \in K
  OBVIOUS
<1> HIDE DEF K
<1>4. /\ p \in Seq(Reviews!Rows) /\ Len(p) = Cardinality(K) /\ IsFiniteSet(K)
      /\ In(p) = {entries[i] : i \in K}
  BY <1>2, PickedPlaces, PickedIn
<1> HIDE DEF p
<1>5. CASE K = {}
  <2>1. Len(p) = 0
    BY <1>4, <1>5, FS_EmptySet
  <2>2. p = <<>>
    BY <1>4, <2>1, EmptySeq
  <2> QED BY <1>1, <1>3, <1>4, <1>5, <2>1, <2>2
<1>6. ASSUME NEW i \in K
      PROVE  Len(p) = 1 /\ p = <<entries[i]>>
  <2>1. K = {i}
    BY <1>2
  <2>2. Len(p) = 1
    BY <1>4, <2>1, FS_Singleton
  <2>3. DOMAIN p = 1 .. 1 /\ In(p) = {entries[i]}
    BY <1>4, <2>1, <2>2, LenProperties
  <2>4. p[1] = entries[i]
    <3>1. 1 \in DOMAIN p
      BY <2>3
    <3>2. p[1] \in In(p)
      BY <3>1 DEF In
    <3> QED BY <2>3, <3>2
  <2> QED BY <1>4, <2>2, <2>4, SeqEqual
<1>7. CASE K # {}
  <2>1. PICK i \in K : TRUE
    BY <1>7
  <2>2. Len(p) = 1 /\ p # <<>>
    BY <1>6, <2>1
  <2> QED BY <1>1, <1>3, <1>4, <1>6, <1>7, <2>2
<1> QED BY <1>5, <1>7

\* One request changes one row at most.
Slight(entries, next) ==
  /\ Len(entries) <= Len(next) + 1 /\ Len(next) <= Len(entries) + 1
  /\ \A s \in Nat : Above(entries, s) <= Above(next, s) + 1

LEMMA AboveFinite ==
  ASSUME NEW S, NEW entries \in Seq(S), NEW s
  PROVE  IsFiniteSet({i \in DOMAIN entries : entries[i].score > s}) /\ Above(entries, s) \in Nat
<1>1. IsFiniteSet(DOMAIN entries)
  BY LenProperties, Counted
<1>2. {i \in DOMAIN entries : entries[i].score > s} \subseteq DOMAIN entries
  OBVIOUS
<1> QED BY <1>1, <1>2, FS_Subset, FS_CardinalityType DEF Above

\* All rows but one are found in the next list, at places of their own.
LEMMA Kept ==
  ASSUME NEW S, NEW entries \in Seq(S), NEW next \in Seq(S), NEW s, NEW but,
         NEW f \in [DOMAIN entries \ {but} -> DOMAIN next],
         \A i, j \in DOMAIN entries \ {but} : f[i] = f[j] => i = j,
         \A i \in DOMAIN entries \ {but} : next[f[i]].score = entries[i].score
  PROVE  Above(entries, s) <= Above(next, s) + 1
<1> DEFINE A == {i \in DOMAIN entries : entries[i].score > s}
           B == {i \in DOMAIN next : next[i].score > s}
           g == [i \in A \ {but} |-> f[i]]
<1>1. IsFiniteSet(A) /\ IsFiniteSet(B) /\ Cardinality(A) \in Nat /\ Cardinality(B) \in Nat
      /\ Cardinality(A) = Above(entries, s) /\ Cardinality(B) = Above(next, s)
  BY AboveFinite, ZenonT(40) DEF Above
<1>2. g \in [A \ {but} -> B] /\ \A i, j \in A \ {but} : g[i] = g[j] => i = j
  OBVIOUS
<1> HIDE DEF A, B, g
<1>3. g \in Injection(A \ {but}, B)
  BY <1>2, Fun_IsInj
<1>4. Cardinality(A \ {but}) <= Cardinality(B)
  BY <1>1, <1>3, FS_Injection
<1>5. Cardinality(A \ {but}) = IF but \in A THEN Cardinality(A) - 1 ELSE Cardinality(A)
  BY <1>1, FS_RemoveElement
<1>6. Cardinality(A) <= Cardinality(A \ {but}) + 1 /\ Cardinality(A \ {but}) \in Int
  BY <1>1, <1>5
<1> QED BY <1>1, <1>4, <1>5, <1>6

LEMMA SlotMoved ==
  ASSUME SlotInv, Reviews!Move, SlotTyped', Slight(ratings, ratings'), left \subseteq left'
  PROVE  SlotInv'
<1> DEFINE p == [slot EXCEPT !.late = slot.late + 1]
<1>1. SlotShape(slot) /\ CountsHold(slot) /\ ListHolds(slot)
  BY DEF SlotInv, SlotTells
<1>2. /\ DOMAIN p
           = {"at", "viewer", "scale", "left", "distribution", "list", "own", "late", "before"}
      /\ p.at = slot.at /\ p.viewer = slot.viewer /\ p.scale = slot.scale /\ p.left = slot.left
      /\ p.distribution = slot.distribution /\ p.list = slot.list /\ p.own = slot.own
      /\ p.late = slot.late + 1
  BY <1>1 DEF SlotShape
<1>3. slot' = p
  BY DEF Reviews!Move
<1> HIDE DEF p
<1>4. slot.late \in Nat /\ slot.late < MaxMoves /\ slot.scale \in Nat /\ slot.at # "saved"
      /\ p.late \in 0 .. MaxMoves /\ p.late # 0
  BY <1>1, <1>2, ReviewsConstants DEF SlotShape, Reviews!Move
<1>5. SlotShape(slot)'
  BY <1>1, <1>2, <1>3, <1>4 DEF SlotShape
<1>6. ratings \in Seq(Reviews!Rows) /\ ratings' \in Seq(Reviews!Rows)
  BY DEF SlotInv, SlotTyped
<1>7. /\ Len(ratings) \in Nat /\ Len(ratings') \in Nat
      /\ Above(ratings, slot.scale) \in Nat /\ Above(ratings', slot.scale) \in Nat
      /\ Len(ratings) <= Len(ratings') + 1 /\ Len(ratings') <= Len(ratings) + 1
      /\ Above(ratings, slot.scale) <= Above(ratings', slot.scale) + 1
  BY <1>4, <1>6, LenProperties, AboveFinite DEF Slight
<1>8. Total(slot)' = Total(slot) /\ Low(slot)' = Low(slot)
  BY <1>2, <1>3 DEF Total, Low
<1>9. CountsHold(slot)'
  <2> SUFFICES ASSUME slot.at \in {"counted", "listed", "shown"}
               PROVE  /\ Total(slot) \in Nat /\ Low(slot) \in Nat
                      /\ Len(ratings') <= Total(slot) + p.late
                      /\ Total(slot) <= Len(ratings') + p.late
                      /\ Total(slot) - Low(slot) <= p.late + Above(ratings', slot.scale)
    BY <1>2, <1>3, <1>8 DEF CountsHold, Above
  <2>1. /\ Total(slot) \in Nat /\ Low(slot) \in Nat
        /\ Len(ratings) <= Total(slot) + slot.late
        /\ Total(slot) <= Len(ratings) + slot.late
        /\ Total(slot) - Low(slot) <= slot.late + Above(ratings, slot.scale)
    BY <1>1 DEF CountsHold
  <2> DEFINE t == Total(slot)
             l == Low(slot)
             n == Len(ratings)
             o == Len(ratings')
             a == Above(ratings, slot.scale)
             b == Above(ratings', slot.scale)
             z == slot.late
  <2>2. /\ t \in Nat /\ l \in Nat /\ n \in Nat /\ o \in Nat /\ a \in Nat /\ b \in Nat /\ z \in Nat
        /\ n <= t + z /\ t <= n + z /\ t - l <= z + a /\ n <= o + 1 /\ o <= n + 1 /\ a <= b + 1
    BY <1>4, <1>7, <2>1
  <2> HIDE DEF t, l, n, o, a, b, z
  <2>3. t \in Nat /\ l \in Nat /\ o <= t + (z + 1) /\ t <= o + (z + 1) /\ t - l <= (z + 1) + b
    BY <2>2
  <2> QED BY <1>2, <2>3 DEF t, l, o, b, z
<1>10. ListHolds(slot)'
  <2> SUFFICES ASSUME slot.at \in {"listed", "shown"}
               PROVE  /\ Len(slot.list) <= Total(slot) + p.late
                      /\ Total(slot) <= Len(slot.list) + p.late \/ Len(slot.list) = DisplayLimit
    BY <1>2, <1>3, <1>4, <1>8 DEF ListHolds
  <2>1. /\ Len(slot.list) <= Total(slot) + slot.late
        /\ Total(slot) <= Len(slot.list) + slot.late \/ Len(slot.list) = DisplayLimit
        /\ Total(slot) \in Nat
    BY <1>1 DEF ListHolds, CountsHold
  <2>2. Len(slot.list) \in Nat
    BY <1>1, LenProperties DEF SlotShape
  <2> QED BY <1>2, <1>4, <2>1, <2>2
<1>11. OwnHolds(slot)'
  BY <1>3, <1>4 DEF OwnHolds
<1>12. slot'.at # "saved"
  BY <1>2, <1>3, <1>4
<1> QED BY <1>5, <1>9, <1>10, <1>11, <1>12 DEF SlotInv, SlotTells

\* Lists in which every two rows are two rows of a list with one row for each member.
LEMMA OneEachOf ==
  ASSUME NEW entries, OneEach(entries), NEW next \in Seq(Reviews!Rows),
         \A k, l \in DOMAIN next : k < l
           => next[k].user # next[l].user \/ next[k].user \notin Members
           \/ \E i, j \in DOMAIN entries : i # j /\ next[k] = entries[i] /\ next[l] = entries[j]
  PROVE  OneEach(next)
<1> SUFFICES ASSUME NEW k \in DOMAIN next, NEW l \in DOMAIN next,
                    next[k].user = next[l].user, next[k].user \in Members, k # l
             PROVE  FALSE
  BY DEF OneEach
<1>1. k \in Nat /\ l \in Nat
  BY LenProperties
<1>2. k < l \/ l < k
  BY <1>1
<1> QED BY <1>2 DEF OneEach

LEMMA RatedIs ==
  ASSUME NEW entries \in Seq(Reviews!Rows), OneEach(entries), NEW m \in Members,
         NEW score \in Reviews!Scores
  PROVE  LET next == Reviews!Rated(entries, m, score)
         IN /\ next \in Seq(Reviews!Rows) /\ OneEach(next) /\ Slight(entries, next)
            /\ \A i \in DOMAIN next : next[i].user = m \/ next[i] \in In(entries)
            /\ Reviews!OfMember(m, next) = <<[user |-> m, score |-> score]>>
<1> DEFINE new == [user |-> m, score |-> score]
           next == Reviews!Rated(entries, m, score)
           n == Len(entries)
<1>1. new \in Reviews!Rows /\ new.user = m
  BY DEF Reviews!Rows
<1>2. n \in Nat /\ DOMAIN entries = 1 .. n /\ \A i \in DOMAIN entries : entries[i] \in Reviews!Rows
  BY LenProperties, ElementOfSeq
<1>3. Reviews!OfMember(m, entries) = <<>> <=> \A i \in DOMAIN entries : entries[i].user # m
  BY OfMemberIs
<1>4. CASE Reviews!OfMember(m, entries) = <<>>
  <2>1. next = <<new>> \o entries
    BY <1>4 DEF Reviews!Rated
  <2> HIDE DEF next, new, n
  <2>2. /\ next \in Seq(Reviews!Rows) /\ In(next) = In(entries) \cup {new} /\ Len(next) = n + 1
        /\ 1 \in DOMAIN next /\ next[1] = new
        /\ \A i \in DOMAIN entries : i + 1 \in DOMAIN next /\ next[i + 1] = entries[i]
        /\ \A k, l \in DOMAIN next : k < l =>
             /\ next[l] \in In(entries)
             /\ \/ next[k] = new
                \/ \E i, j \in DOMAIN entries : i < j /\ next[k] = entries[i]
                     /\ next[l] = entries[j]
    BY <1>1, <2>1, InFront DEF n
  <2>3. \A r \in In(entries) : r.user # m
    BY <1>3, <1>4 DEF In
  <2>4. OneEach(next)
    <3>1. ASSUME NEW k \in DOMAIN next, NEW l \in DOMAIN next, k < l
          PROVE  next[k].user # next[l].user
                   \/ \E i, j \in DOMAIN entries : i # j /\ next[k] = entries[i]
                        /\ next[l] = entries[j]
      <4>1. \A i, j \in DOMAIN entries : i < j => i # j
        BY <1>2
      <4> QED BY <1>1, <2>2, <2>3, <3>1, <4>1
    <3> QED BY <2>2, <3>1, OneEachOf
  <2>5. \A i \in DOMAIN next : next[i] \in In(next)
    BY DEF In
  <2>6. \A i \in DOMAIN next : next[i].user = m \/ next[i] \in In(entries)
    BY <1>1, <2>2, <2>5
  <2>7. Slight(entries, next)
    <3>1. ASSUME NEW s \in Nat PROVE Above(entries, s) <= Above(next, s) + 1
      <4> DEFINE f == [i \in DOMAIN entries \ {0} |-> i + 1]
      <4>1. f \in [DOMAIN entries \ {0} -> DOMAIN next]
        BY <2>2
      <4>2. \A i, j \in DOMAIN entries \ {0} : f[i] = f[j] => i = j
        BY <1>2
      <4>3. \A i \in DOMAIN entries \ {0} : next[f[i]].score = entries[i].score
        BY <2>2
      <4> HIDE DEF f
      <4>4. next \in Seq(Reviews!Rows)
        BY <2>2
      <4> QED BY <4>1, <4>2, <4>3, <4>4, Kept
    <3> QED BY <1>2, <2>2, <3>1 DEF Slight, n
  <2>8. Reviews!OfMember(m, next) = <<new>>
    BY <1>1, <2>2, <2>4, OfMemberIs
  <2> QED BY <2>2, <2>4, <2>6, <2>7, <2>8 DEF new, next
<1>5. CASE Reviews!OfMember(m, entries) # <<>>
  <2> DEFINE q == [i \in DOMAIN entries |-> IF entries[i].user = m THEN new ELSE entries[i]]
  <2>1. next = q
    BY <1>5 DEF Reviews!Rated
  <2>2. PICK at \in DOMAIN entries : entries[at].user = m
    BY <1>3, <1>5
  <2> HIDE DEF next, new, n
  <2>3. q \in Seq(Reviews!Rows) /\ Len(q) = n
    <3>1. q \in [1 .. n -> Reviews!Rows]
      BY <1>1, <1>2
    <3> HIDE DEF q
    <3> QED BY <1>2, <3>1
  <2>4. DOMAIN q = DOMAIN entries
          /\ \A i \in DOMAIN entries : q[i] = IF entries[i].user = m THEN new ELSE entries[i]
    OBVIOUS
  <2> HIDE DEF q
  <2>5. OneEach(q)
    BY <1>1, <2>4 DEF OneEach
  <2>6. \A i \in DOMAIN q : q[i].user = m \/ q[i] \in In(entries)
    BY <1>1, <2>4 DEF In
  <2>7. Slight(entries, q)
    <3>1. ASSUME NEW s \in Nat PROVE Above(entries, s) <= Above(q, s) + 1
      <4> DEFINE f == [i \in DOMAIN entries \ {at} |-> i]
      <4>1. f \in [DOMAIN entries \ {at} -> DOMAIN q]
        BY <2>4
      <4>2. \A i, j \in DOMAIN entries \ {at} : f[i] = f[j] => i = j
        OBVIOUS
      <4>3. \A i \in DOMAIN entries \ {at} : q[f[i]].score = entries[i].score
        <5>1. \A i \in DOMAIN entries \ {at} : entries[i].user # m
          BY <2>2 DEF OneEach
        <5> QED BY <2>4, <5>1
      <4> HIDE DEF f
      <4> QED BY <2>3, <4>1, <4>2, <4>3, Kept
    <3> QED BY <1>2, <2>3, <3>1 DEF Slight, n
  <2>8. Reviews!OfMember(m, q) = <<new>>
    <3>1. at \in DOMAIN q /\ q[at] = new /\ new.user = m
      BY <1>1, <2>2, <2>4
    <3>2. Reviews!OfMember(m, q) = <<q[at]>>
      BY <2>3, <2>5, <3>1, OfMemberIs
    <3> QED BY <3>1, <3>2
  <2> QED BY <2>1, <2>3, <2>5, <2>6, <2>7, <2>8 DEF new, next
<1> QED BY <1>4, <1>5

LEMMA SlotTypes ==
  ASSUME SlotInv
  PROVE  /\ ratings \in Seq(Reviews!Rows) /\ OneEach(ratings) /\ scale \in Scales
         /\ left \subseteq Members /\ None \notin Members
         /\ \A r \in In(ratings) : r \in Reviews!Rows /\ r.user \notin left
         /\ \A i \in DOMAIN ratings : ratings[i] \in In(ratings)
         /\ Len(ratings) \in Nat /\ DOMAIN ratings = 1 .. Len(ratings)
         /\ \A s \in Nat : Above(ratings, s) \in Nat
<1>1. SlotTyped
  BY DEF SlotInv
<1>2. \A i \in DOMAIN ratings : ratings[i] \in Reviews!Rows
  BY <1>1, LenProperties, ElementOfSeq DEF SlotTyped
<1> QED BY <1>1, <1>2, LenProperties, AboveFinite, ReviewsConstants DEF SlotTyped, In

LEMMA SubmitStep ==
  ASSUME SlotInv, NEW m \in Members, NEW score \in Reviews!Scores, Reviews!submit_rating(m, score)
  PROVE  SlotInv'
<1>1. Reviews!Move /\ m \notin left /\ ratings' = Reviews!Rated(ratings, m, score)
      /\ scale' = scale /\ left' = left
  BY DEF Reviews!submit_rating
<1>2. /\ ratings' \in Seq(Reviews!Rows) /\ OneEach(ratings') /\ Slight(ratings, ratings')
      /\ \A i \in DOMAIN ratings' : ratings'[i].user = m \/ ratings'[i] \in In(ratings)
  BY <1>1, SlotTypes, RatedIs
<1>3. SlotTyped'
  BY <1>1, <1>2, SlotTypes DEF SlotTyped, OneEach
<1> QED BY <1>1, <1>2, <1>3, SlotMoved

LEMMA RemoveStep ==
  ASSUME SlotInv, NEW m \in Members, Reviews!remove_rating(m)
  PROVE  SlotInv'
<1> DEFINE K == {i \in DOMAIN ratings : ratings[i].user # m}
           q == Picked(ratings, K)
<1>1. Reviews!Move /\ Reviews!OfMember(m, ratings) # <<>> /\ ratings' = q
      /\ scale' = scale /\ left' = left
  BY ReviewsWords DEF Reviews!remove_rating
<1>2. PICK at \in DOMAIN ratings : ratings[at].user = m
  BY <1>1, SlotTypes, OfMemberIs
<1>3. K = DOMAIN ratings \ {at}
  BY <1>2, SlotTypes DEF OneEach
<1> HIDE DEF K
<1>4. ratings \in Seq(Reviews!Rows) /\ K \in SUBSET DOMAIN ratings
  BY <1>3, SlotTypes
<1>5. /\ q \in Seq(Reviews!Rows) /\ In(q) = {ratings[i] : i \in K}
      /\ \A k, l \in DOMAIN q : k < l =>
           \E i, j \in K : i < j /\ q[k] = ratings[i] /\ q[l] = ratings[j]
  BY <1>4, PickedKeeps
<1>6. PICK place : Placing(place, ratings, K)
  BY <1>4, PickedPlaces
<1>7. /\ place \in [1 .. Cardinality(K) -> K]
      /\ \A k \in 1 .. Cardinality(K) : q[k] = ratings[place[k]]
      /\ \A i \in K : \E k \in 1 .. Cardinality(K) : place[k] = i
  BY <1>6 DEF Placing
<1>8. Len(q) = Cardinality(K) /\ Cardinality(K) \in Nat
  BY <1>4, PickedPlaces
<1>9. DOMAIN q = 1 .. Cardinality(K)
  BY <1>5, <1>8, LenProperties
<1>10. Cardinality(K) = Len(ratings) - 1
  <2>1. IsFiniteSet(DOMAIN ratings) /\ Cardinality(DOMAIN ratings) = Len(ratings)
    BY SlotTypes, Counted
  <2> QED BY <1>3, <2>1, FS_RemoveElement
<1> HIDE DEF q
<1>11. Slight(ratings, q)
  <2>1. ASSUME NEW s \in Nat PROVE Above(ratings, s) <= Above(q, s) + 1
    <3> DEFINE f == [i \in DOMAIN ratings \ {at} |->
                       CHOOSE k \in 1 .. Cardinality(K) : place[k] = i]
    <3>1. \A i \in DOMAIN ratings \ {at} : f[i] \in 1 .. Cardinality(K) /\ place[f[i]] = i
      <4>1. ASSUME NEW i \in DOMAIN ratings \ {at}
            PROVE  f[i] \in 1 .. Cardinality(K) /\ place[f[i]] = i
        <5>1. \E k \in 1 .. Cardinality(K) : place[k] = i
          BY <1>3, <1>7
        <5> QED BY <5>1
      <4> QED BY <4>1
    <3>2. f \in [DOMAIN ratings \ {at} -> DOMAIN q]
      BY <1>9, <3>1
    <3> HIDE DEF f
    <3>3. \A i, j \in DOMAIN ratings \ {at} : f[i] = f[j] => i = j
      BY <3>1
    <3>4. \A i \in DOMAIN ratings \ {at} : q[f[i]].score = ratings[i].score
      BY <1>7, <3>1
    <3>5. q \in Seq(Reviews!Rows) /\ ratings \in Seq(Reviews!Rows)
      BY <1>4, <1>5
    <3> HIDE DEF q, K
    <3> QED BY <3>2, <3>3, <3>4, <3>5, Kept, Zenon
  <2>2. Len(ratings) \in Nat
    BY SlotTypes
  <2> QED BY <1>8, <1>10, <2>1, <2>2 DEF Slight
<1>12. OneEach(q)
  <2>1. \A i, j \in K : i < j => i # j
    BY <1>4, SlotTypes
  <2>2. \A k, l \in DOMAIN q : k < l =>
          \E i, j \in DOMAIN ratings : i # j /\ q[k] = ratings[i] /\ q[l] = ratings[j]
    BY <1>4, <1>5, <2>1
  <2>3. OneEach(ratings) /\ q \in Seq(Reviews!Rows)
    BY <1>5, SlotTypes
  <2> QED BY <2>2, <2>3, OneEachOf
<1>13. \A i \in DOMAIN q : q[i].user \notin left
  <2>1. \A i \in DOMAIN q : \E j \in DOMAIN ratings : q[i] = ratings[j]
    BY <1>4, <1>5 DEF In
  <2> QED BY <2>1, SlotTypes
<1>14. SlotTyped'
  BY <1>1, <1>5, <1>12, <1>13, SlotTypes DEF SlotTyped, OneEach
<1> QED BY <1>1, <1>11, <1>14, SlotMoved

LEMMA MemberLeavesStep ==
  ASSUME SlotInv, NEW m \in Members, Reviews!MemberLeaves(m)
  PROVE  SlotInv'
<1> DEFINE q == [i \in DOMAIN ratings |->
                   IF ratings[i].user = m THEN [ratings[i] EXCEPT !.user = None] ELSE ratings[i]]
<1>1. Reviews!Move /\ m \notin left /\ ratings' = q /\ scale' = scale /\ left' = left \cup {m}
  BY DEF Reviews!MemberLeaves
<1>2. \A r \in Reviews!Rows : /\ [r EXCEPT !.user = None] \in Reviews!Rows
                              /\ [r EXCEPT !.user = None].score = r.score
                              /\ [r EXCEPT !.user = None].user = None
  BY DEF Reviews!Rows
<1>3. \A i \in DOMAIN ratings : ratings[i] \in Reviews!Rows /\ ratings[i].user \notin left
  BY SlotTypes
<1>4. /\ DOMAIN q = DOMAIN ratings
      /\ \A i \in DOMAIN ratings : /\ q[i] \in Reviews!Rows /\ q[i].score = ratings[i].score
                                   /\ q[i].user = IF ratings[i].user = m THEN None
                                        ELSE ratings[i].user
  BY <1>2, <1>3
<1>5. q \in Seq(Reviews!Rows) /\ Len(q) = Len(ratings)
  <2> DEFINE n == Len(ratings)
  <2>1. n \in Nat /\ DOMAIN ratings = 1 .. n
    BY SlotTypes
  <2> HIDE DEF n
  <2>2. q \in [1 .. n -> Reviews!Rows]
    BY <1>4, <2>1
  <2> HIDE DEF q
  <2>3. q \in Seq(Reviews!Rows) /\ Len(q) = n
    BY <2>1, <2>2
  <2> QED BY <2>3 DEF n
<1> HIDE DEF q
<1>6. OneEach(q)
  BY <1>4, SlotTypes DEF OneEach
<1>7. \A i \in DOMAIN q : q[i].user \notin left \cup {m}
  BY <1>3, <1>4, SlotTypes
<1>8. Slight(ratings, q)
  <2>1. ASSUME NEW s \in Nat PROVE Above(ratings, s) <= Above(q, s) + 1
    <3> DEFINE f == [i \in DOMAIN ratings \ {0} |-> i]
    <3>1. f \in [DOMAIN ratings \ {0} -> DOMAIN q]
      BY <1>4
    <3>2. \A i, j \in DOMAIN ratings \ {0} : f[i] = f[j] => i = j
      OBVIOUS
    <3>3. \A i \in DOMAIN ratings \ {0} : q[f[i]].score = ratings[i].score
      BY <1>4
    <3> HIDE DEF f
    <3> QED BY <1>5, <3>1, <3>2, <3>3, SlotTypes, Kept
  <2>2. Len(ratings) \in Nat
    BY SlotTypes
  <2> QED BY <1>5, <2>1, <2>2 DEF Slight
<1>9. SlotTyped'
  BY <1>1, <1>5, <1>6, <1>7, SlotTypes DEF SlotTyped, OneEach
<1> QED BY <1>1, <1>8, <1>9, SlotMoved

LEMMA RescaleStep ==
  ASSUME SlotInv, NEW s \in Scales, Reviews!Rescale(s)
  PROVE  SlotInv'
<1>1. Reviews!Move /\ scale' = s /\ ratings' = ratings /\ left' = left
  BY DEF Reviews!Rescale
<1>2. Slight(ratings, ratings)
  <2>1. \A a \in Nat : a <= a + 1
    OBVIOUS
  <2> QED BY <2>1, SlotTypes DEF Slight
<1>3. SlotTyped'
  BY <1>1, SlotTypes DEF SlotTyped, OneEach
<1> QED BY <1>1, <1>2, <1>3, SlotMoved

\* The slot by its fields.
Filled(q, at, viewer, sc, gone, distribution, list, own, late) ==
  /\ DOMAIN q = {"at", "viewer", "scale", "left", "distribution", "list", "own", "late", "before"}
  /\ q.at = at /\ q.viewer = viewer /\ q.scale = sc /\ q.left = gone
  /\ q.distribution = distribution /\ q.list = list /\ q.own = own /\ q.late = late

LEMMA SlotParts ==
  ASSUME SlotInv
  PROVE  /\ SlotShape(slot) /\ CountsHold(slot) /\ ListHolds(slot) /\ OwnHolds(slot)
         /\ Filled(slot, slot.at, slot.viewer, slot.scale, slot.left, slot.distribution,
                   slot.list, slot.own, slot.late)
BY DEF SlotInv, SlotTells, SlotShape, Filled

LEMMA SlotReads ==
  ASSUME SlotInv, NEW from, NEW to, NEW read, Reviews!Read(from, to, read), to # "saved"
  PROVE  /\ slot.at = from /\ slot' = [read EXCEPT !.at = to]
         /\ \A q : SlotTells(q) /\ q.at = to /\ slot' = q => SlotInv'
<1>1. /\ slot.at = from /\ slot' = [read EXCEPT !.at = to]
      /\ ratings' = ratings /\ scale' = scale /\ left' = left
  BY DEF Reviews!Read
<1>2. SlotTyped'
  BY <1>1 DEF SlotInv, SlotTyped, OneEach
<1>3. ASSUME NEW q, SlotTells(q), q.at = to, slot' = q PROVE SlotInv'
  <2>1. SlotShape(slot)' /\ CountsHold(slot)' /\ ListHolds(slot)'
    BY <1>1, <1>3 DEF SlotTells, SlotShape, CountsHold, ListHolds, Total, Low, Above
  <2>2. OwnHolds(slot)'
    BY <1>1, <1>3 DEF SlotTells, OwnHolds
  <2> QED BY <1>2, <1>3, <2>1, <2>2 DEF SlotInv, SlotTells
<1> QED BY <1>1, <1>3

LEMMA EmptyRows ==
  /\ <<>> \in Seq(Reviews!Rows) /\ Len(<<>>) <= DisplayLimit /\ DOMAIN <<>> = {}
  /\ Len(<<>>) = 0
BY ReviewsConstants

LEMMA OpenSlotStep ==
  ASSUME SlotInv, Reviews!OpenSlot
  PROVE  SlotInv'
<1>1. PICK v \in (Members \ left) \cup {None} :
        Reviews!Read("none", "opened", [slot EXCEPT !.viewer = v, !.scale = scale, !.left = left])
  BY DEF Reviews!OpenSlot
<1> DEFINE q == [[slot EXCEPT !.viewer = v, !.scale = scale, !.left = left] EXCEPT !.at = "opened"]
<1>2. Filled(q, "opened", v, scale, left, slot.distribution, slot.list, slot.own, slot.late)
  BY SlotParts DEF Filled
<1>3. slot.at = "none" /\ SlotShape(slot)
  BY <1>1, SlotParts DEF Reviews!Read
<1> HIDE DEF q
<1>4. slot.list = <<>>
  BY <1>3 DEF SlotShape
<1>5. scale \in 1 .. TopScore
  BY SlotTypes, ReviewsConstants
<1>6. SlotShape(q)
  BY <1>2, <1>3, <1>4, <1>5, EmptyRows DEF SlotShape, Filled
<1>7. CountsHold(q) /\ ListHolds(q) /\ OwnHolds(q)
  BY <1>2 DEF CountsHold, ListHolds, OwnHolds, Filled
<1>8. SlotTells(q) /\ q.at = "opened"
  BY <1>2, <1>6, <1>7 DEF SlotTells, Filled
<1> QED BY <1>1, <1>8, SlotReads DEF q

\* The counts tell the ratings there are.
LEMMA Distribution ==
  ASSUME SlotInv
  PROVE  LET d == Reviews!score_distribution
             high == Reviews!SumFunctionOnSet(d, Reviews!Scores)
             low == Reviews!SumFunctionOnSet(d, 1 .. slot.scale)
         IN /\ high = Len(ratings) /\ high \in Nat /\ low \in Nat
            /\ high - low = Above(ratings, slot.scale)
<1> DEFINE d == Reviews!score_distribution
           D == DOMAIN ratings
           A == {i \in D : ratings[i].score \in 1 .. slot.scale}
           B == {i \in D : ratings[i].score > slot.scale}
<1>1. /\ ratings \in Seq(Reviews!Rows) /\ D = 1 .. Len(ratings) /\ Len(ratings) \in Nat
      /\ \A i \in D : ratings[i].score \in Reviews!Scores
  <2>1. \A i \in D : ratings[i] \in Reviews!Rows
    BY SlotTypes
  <2> QED BY <2>1, SlotTypes DEF Reviews!Rows
<1>2. slot.scale \in 1 .. TopScore /\ TopScore \in Nat
  BY SlotParts, ReviewsConstants DEF SlotShape
<1>3. \A s \in Reviews!Scores : d[s] = Having(ratings, {s})
  <2> TAKE s \in Reviews!Scores
  <2>1. {i \in D : ratings[i].score = s} = {i \in D : ratings[i].score \in {s}}
    OBVIOUS
  <2>2. d[s] = Cardinality({i \in D : ratings[i].score = s})
    BY ReviewsWords DEF Reviews!score_distribution
  <2> QED BY <2>1, <2>2 DEF Having
<1>4. IsFiniteSet(Reviews!Scores) /\ IsFiniteSet(1 .. slot.scale)
        /\ 1 .. slot.scale \subseteq Reviews!Scores
  BY <1>2, Counted DEF Reviews!Scores
<1> HIDE DEF d
<1>5. Reviews!SumFunctionOnSet(d, Reviews!Scores) = Having(ratings, Reviews!Scores)
  BY <1>1, <1>3, <1>4, ScoresSummed
<1>6. Reviews!SumFunctionOnSet(d, 1 .. slot.scale) = Having(ratings, 1 .. slot.scale)
  BY <1>1, <1>3, <1>4, ScoresSummed
<1>7. Having(ratings, Reviews!Scores) = Cardinality(D)
  <2>1. {i \in D : ratings[i].score \in Reviews!Scores} = D
    BY <1>1
  <2> QED BY <2>1 DEF Having
<1>8. D = A \cup B /\ A \cap B = {}
  BY <1>1, <1>2 DEF Reviews!Scores
<1>9. IsFiniteSet(D) /\ Cardinality(D) = Len(ratings)
  BY <1>1, Counted
<1>10. Cardinality(A) = Having(ratings, 1 .. slot.scale)
         /\ Cardinality(B) = Above(ratings, slot.scale)
  BY DEF Having, Above
<1> HIDE DEF A, B, D
<1>11. IsFiniteSet(A) /\ IsFiniteSet(B) /\ Cardinality(A) \in Nat /\ Cardinality(B) \in Nat
       /\ Cardinality({}) = 0
  <2>1. IsFiniteSet(A) /\ IsFiniteSet(B)
    BY <1>8, <1>9, FS_Subset
  <2> QED BY <2>1, FS_CardinalityType, FS_EmptySet
<1>12. Cardinality(A \cup B) = Cardinality(A) + Cardinality(B) - Cardinality(A \cap B)
  BY <1>11, FS_Union
<1>13. Cardinality(D) = Cardinality(A) + Cardinality(B)
  <2>1. Cardinality(D) = Cardinality(A) + Cardinality(B) - Cardinality({})
    BY <1>8, <1>12
  <2>2. Cardinality({}) = 0 /\ Cardinality(A) \in Nat /\ Cardinality(B) \in Nat
    BY <1>11
  <2> DEFINE a == Cardinality(A)
             b == Cardinality(B)
             c == Cardinality(D)
             e == Cardinality({})
  <2> HIDE DEF a, b, c, e
  <2>3. c = a + b - e /\ e = 0 /\ a \in Nat /\ b \in Nat
    BY <2>1, <2>2 DEF a, b, c, e
  <2>4. c = a + b
    BY <2>3
  <2> QED BY <2>4 DEF a, b, c
<1> QED BY <1>1, <1>5, <1>6, <1>7, <1>9, <1>10, <1>11, <1>13 DEF d

LEMMA ReadDistributionStep ==
  ASSUME SlotInv, Reviews!ReadDistribution
  PROVE  SlotInv'
<1> DEFINE d == Reviews!score_distribution
           q == [[slot EXCEPT !.distribution = d] EXCEPT !.at = "counted"]
<1>1. Reviews!Read("opened", "counted", [slot EXCEPT !.distribution = d])
  BY DEF Reviews!ReadDistribution
<1>2. LET high == Reviews!SumFunctionOnSet(d, Reviews!Scores)
          low == Reviews!SumFunctionOnSet(d, 1 .. slot.scale)
      IN /\ high = Len(ratings) /\ high \in Nat /\ low \in Nat
         /\ high - low = Above(ratings, slot.scale)
  BY Distribution
<1> HIDE DEF d
<1>3. Filled(q, "counted", slot.viewer, slot.scale, slot.left, d, slot.list, slot.own, slot.late)
  BY SlotParts DEF Filled
<1>4. slot.at = "opened" /\ SlotShape(slot)
  BY <1>1, SlotParts DEF Reviews!Read
<1> HIDE DEF q
<1>5. SlotShape(q)
  BY <1>3, <1>4 DEF SlotShape, Filled
<1>6. CountsHold(q)
  <2>1. slot.late \in Nat /\ slot.scale \in Nat /\ q.scale = slot.scale /\ q.late = slot.late
    BY <1>3, <1>4, ReviewsConstants DEF SlotShape, Filled
  <2>2. /\ Total(q) = Len(ratings) /\ Total(q) \in Nat /\ Low(q) \in Nat
        /\ Total(q) - Low(q) = Above(ratings, slot.scale)
    BY <1>2, <1>3 DEF Total, Low, Filled
  <2>3. Above(ratings, slot.scale) \in Nat
    BY <2>1, SlotTypes
  <2> DEFINE t == Total(q)
             l == Low(q)
             n == Len(ratings)
             a == Above(ratings, slot.scale)
             z == slot.late
  <2>4. t = n /\ t \in Nat /\ l \in Nat /\ t - l = a /\ a \in Nat /\ z \in Nat
    BY <2>1, <2>2, <2>3
  <2> HIDE DEF t, l, n, a, z
  <2>5. t \in Nat /\ l \in Nat /\ n <= t + z /\ t <= n + z /\ t - l <= z + a
    BY <2>4
  <2> QED BY <2>1, <2>5 DEF CountsHold, t, l, n, a, z
<1>7. ListHolds(q) /\ OwnHolds(q)
  BY <1>3 DEF ListHolds, OwnHolds, Filled
<1>8. SlotTells(q) /\ q.at = "counted"
  BY <1>3, <1>5, <1>6, <1>7 DEF SlotTells, Filled
<1> QED BY <1>1, <1>8, SlotReads DEF q

LEMMA Smaller ==
  ASSUME NEW m \in Nat, NEW n \in Nat
  PROVE  Reviews!Min({m, n}) = IF m < n THEN m ELSE n
BY DEF Reviews!Min

LEMMA ReadListStep ==
  ASSUME SlotInv, Reviews!ReadList
  PROVE  SlotInv'
<1> DEFINE r == Reviews!recent_ratings
           q == [[slot EXCEPT !.list = r] EXCEPT !.at = "listed"]
<1>1. Reviews!Read("counted", "listed", [slot EXCEPT !.list = r])
  BY DEF Reviews!ReadList
<1>2. /\ r \in Seq(Reviews!Rows) /\ Len(r) <= DisplayLimit /\ Len(r) <= Len(ratings)
      /\ DOMAIN r = 1 .. Len(r) /\ Len(r) \in Nat
      /\ \A k \in DOMAIN r : r[k] = ratings[k]
      /\ Len(r) = DisplayLimit \/ Len(r) = Len(ratings)
  <2>1. Len(ratings) \in Nat /\ DisplayLimit \in Nat /\ ratings \in Seq(Reviews!Rows)
    BY SlotTypes, ReviewsConstants
  <2>2. r = Pages!Prefix(ratings, DisplayLimit)
    BY <2>1, Smaller DEF Reviews!recent_ratings, Pages!Prefix
  <2> HIDE DEF r
  <2> QED BY <2>1, <2>2, PrefixIs
<1> HIDE DEF r
<1>3. Filled(q, "listed", slot.viewer, slot.scale, slot.left, slot.distribution, r, slot.own,
        slot.late)
  BY SlotParts DEF Filled
<1>4. slot.at = "counted" /\ SlotShape(slot) /\ CountsHold(slot)
  BY <1>1, SlotParts DEF Reviews!Read
<1> HIDE DEF q
<1>5. \A k \in DOMAIN r : k \in DOMAIN ratings /\ r[k] = ratings[k]
  <2> DEFINE m == Len(r)
             n == Len(ratings)
  <2>1. DOMAIN ratings = 1 .. n /\ n \in Nat /\ DOMAIN r = 1 .. m /\ m \in Nat /\ m <= n
    BY <1>2, SlotTypes
  <2> HIDE DEF m, n
  <2>2. 1 .. m \subseteq 1 .. n
    BY <2>1
  <2> QED BY <1>2, <2>1, <2>2
<1>6. SlotShape(q)
  <2>1. \A k \in DOMAIN r : r[k].user \notin slot.left
    BY <1>4, <1>5, SlotTypes DEF SlotShape
  <2> QED BY <1>2, <1>3, <1>4, <2>1 DEF SlotShape, Filled
<1>7. Total(q) = Total(slot) /\ Low(q) = Low(slot)
  BY <1>3 DEF Total, Low, Filled
<1>8. CountsHold(q)
  BY <1>3, <1>4, <1>7 DEF CountsHold, Filled
<1>9. ListHolds(q)
  <2> DEFINE t == Total(slot)
             n == Len(ratings)
             z == slot.late
             k == Len(r)
  <2>1. t \in Nat /\ n <= t + z /\ t <= n + z
    BY <1>4 DEF CountsHold
  <2>2. z \in Nat /\ n \in Nat
    BY <1>4, SlotTypes, ReviewsConstants DEF SlotShape
  <2>3. k \in Nat /\ k <= n /\ (k = DisplayLimit \/ k = n)
    BY <1>2
  <2> HIDE DEF t, n, z, k
  <2>4. k <= t + z /\ (t <= k + z \/ k = DisplayLimit)
    BY <2>1, <2>2, <2>3
  <2> QED BY <1>3, <1>5, <1>7, <2>4 DEF ListHolds, Filled, t, z, k
<1>10. OwnHolds(q)
  BY <1>3 DEF OwnHolds, Filled
<1>11. SlotTells(q) /\ q.at = "listed"
  BY <1>3, <1>6, <1>8, <1>9, <1>10 DEF SlotTells, Filled
<1> QED BY <1>1, <1>11, SlotReads DEF q

LEMMA ReadOwnStep ==
  ASSUME SlotInv, Reviews!ReadOwn
  PROVE  SlotInv'
<1> DEFINE r == Reviews!user_rating
           q == [[slot EXCEPT !.own = r] EXCEPT !.at = "shown"]
<1>1. Reviews!Read("listed", "shown", [slot EXCEPT !.own = r])
  BY DEF Reviews!ReadOwn
<1>2. r = (IF slot.viewer = None THEN <<>> ELSE Reviews!OfMember(slot.viewer, ratings))
  BY DEF Reviews!user_rating
<1> HIDE DEF r
<1>3. Filled(q, "shown", slot.viewer, slot.scale, slot.left, slot.distribution, slot.list, r,
        slot.late)
  BY SlotParts DEF Filled
<1>4. slot.at = "listed" /\ SlotShape(slot) /\ CountsHold(slot) /\ ListHolds(slot)
  BY <1>1, SlotParts DEF Reviews!Read
<1> HIDE DEF q
<1>5. r \in Seq(Reviews!Rows) /\ Len(r) <= 1
  <2>1. slot.viewer \in Members \cup {None}
    BY <1>4 DEF SlotShape
  <2>2. ratings \in Seq(Reviews!Rows) /\ OneEach(ratings)
    BY SlotTypes
  <2> QED BY <1>2, <2>1, <2>2, OfMemberIs, EmptyRows
<1>6. SlotShape(q)
  BY <1>3, <1>4, <1>5 DEF SlotShape, Filled
<1>7. Total(q) = Total(slot) /\ Low(q) = Low(slot)
  BY <1>3 DEF Total, Low, Filled
<1>8. CountsHold(q) /\ ListHolds(q)
  BY <1>3, <1>4, <1>7 DEF CountsHold, ListHolds, Filled
<1>9. OwnHolds(q)
  BY <1>2, <1>3 DEF OwnHolds, Filled
<1>10. SlotTells(q) /\ q.at = "shown"
  BY <1>3, <1>6, <1>8, <1>9 DEF SlotTells, Filled
<1> QED BY <1>1, <1>10, SlotReads DEF q

LEMMA SlotDegradesStep ==
  ASSUME SlotInv, Reviews!SlotDegrades
  PROVE  SlotInv'
<1>1. PICK from \in {"opened", "counted", "listed"} :
        Reviews!Read(from, "degraded", [slot EXCEPT !.list = <<>>])
  BY DEF Reviews!SlotDegrades
<1> DEFINE q == [[slot EXCEPT !.list = <<>>] EXCEPT !.at = "degraded"]
<1>2. Filled(q, "degraded", slot.viewer, slot.scale, slot.left, slot.distribution, <<>>, slot.own,
        slot.late)
  BY SlotParts DEF Filled
<1> HIDE DEF q
<1>3. SlotShape(q)
  BY <1>2, SlotParts, EmptyRows DEF SlotShape, Filled
<1>4. CountsHold(q) /\ ListHolds(q) /\ OwnHolds(q)
  BY <1>2 DEF CountsHold, ListHolds, OwnHolds, Filled
<1>5. SlotTells(q) /\ q.at = "degraded"
  BY <1>2, <1>3, <1>4 DEF SlotTells, Filled
<1> QED BY <1>1, <1>5, SlotReads DEF q

LEMMA SaveFormStep ==
  ASSUME SlotInv, Reviews!SaveForm
  PROVE  SlotInv'
<1> DEFINE v == slot.viewer
           before == Reviews!OfMember(v, ratings)
           q == [slot EXCEPT !.at = "saved", !.before = before]
           chosen == Reviews!Selected
           next == Reviews!Rated(ratings, v, chosen)
<1>1. /\ slot.at = "shown" /\ v \in Members \ left /\ slot' = q
      /\ ratings' = (IF chosen <= scale THEN next ELSE ratings)
      /\ scale' = scale /\ left' = left
  BY DEF Reviews!SaveForm
<1>2. /\ Filled(q, "saved", v, slot.scale, slot.left, slot.distribution, slot.list, slot.own,
           slot.late)
      /\ q.before = before
  BY SlotParts DEF Filled
<1>3. SlotShape(slot) /\ OwnHolds(slot)
  BY SlotParts
<1>4. /\ ratings \in Seq(Reviews!Rows) /\ OneEach(ratings)
      /\ before \in Seq(Reviews!Rows) /\ Len(before) <= 1
  BY <1>1, SlotTypes, OfMemberIs
<1>5. /\ slot.own \in Seq(Reviews!Rows)
      /\ slot.own # <<>> => slot.own[1].score \in Reviews!Scores
  <2>1. slot.own # <<>> => slot.own[1] \in Reviews!Rows
    BY <1>3, EmptySeq, LenProperties, ElementOfSeq DEF SlotShape
  <2> QED BY <1>3, <2>1 DEF SlotShape, Reviews!Rows
<1>6. /\ chosen \in Reviews!Scores
      /\ chosen = (IF slot.own # <<>> /\ slot.own[1].score <= slot.scale
                   THEN slot.own[1].score ELSE 1)
  BY <1>5, ReviewsConstants DEF Reviews!Selected, Reviews!Scores
<1>7. scale \in 1 .. TopScore /\ scale \in Nat /\ 1 <= scale
  <2>1. scale \in 1 .. TopScore /\ TopScore \in Nat
    BY SlotTypes, ReviewsConstants
  <2> QED BY <2>1
<1> HIDE DEF chosen, before, q, v
<1>8. /\ next \in Seq(Reviews!Rows) /\ OneEach(next)
      /\ \A i \in DOMAIN next : next[i].user = v \/ next[i] \in In(ratings)
      /\ Reviews!OfMember(v, next) = <<[user |-> v, score |-> chosen]>>
  BY <1>1, <1>4, <1>6, RatedIs
<1> HIDE DEF next
<1>9. SlotTyped'
  BY <1>1, <1>8, SlotTypes DEF SlotInv, SlotTyped, OneEach
<1>10. SlotTells(q)
  <2>1. SlotShape(q)
    BY <1>1, <1>2, <1>3 DEF SlotShape, Filled
  <2> QED BY <1>2, <2>1 DEF SlotTells, CountsHold, ListHolds, OwnHolds, Filled
<1>11. SlotTells(slot)'
  BY <1>1, <1>2, <1>10 DEF SlotTells, SlotShape, CountsHold, ListHolds, OwnHolds, Filled
<1>12. Reviews!FormKeepsRating'
  <2> DEFINE after == Reviews!OfMember(v, ratings')
  <2>1. Reviews!FormKeepsRating' = (
           \/ after = before
           \/ slot.late > 0
           \/ slot.own = <<>> /\ after = <<[user |-> v, score |-> 1]>>
           \/ slot.own # <<>> /\ slot.own[1].score > slot.scale /\ after[1].score = 1)
    <3>1. slot'.viewer = v /\ slot'.before = before /\ slot'.late = slot.late
          /\ slot'.own = slot.own /\ slot'.scale = slot.scale
      BY <1>1, <1>2 DEF Filled
    <3> QED BY <3>1 DEF Reviews!FormKeepsRating, Reviews!OfMember
  <2>2. CASE slot.late > 0
    BY <2>1, <2>2
  <2>3. CASE slot.late = 0 /\ slot.own = <<>>
    <3>1. after = <<[user |-> v, score |-> 1]>>
      BY <1>1, <1>6, <1>7, <1>8, <2>3
    <3> QED BY <2>1, <2>3, <3>1
  <2>4. CASE slot.late = 0 /\ slot.own # <<>>
    <3>1. slot.own = before
      <4>1. v # None
        BY <1>1, SlotTypes
      <4> QED BY <1>1, <1>3, <2>4, <4>1 DEF OwnHolds, before, v
    <3>2. PICK i \in DOMAIN ratings : ratings[i].user = v /\ before = <<ratings[i]>>
      BY <1>1, <1>4, <2>4, <3>1, OfMemberIs DEF before
    <3>3. ratings[i] \in Reviews!Rows /\ slot.own[1] = ratings[i]
      BY <3>1, <3>2, SlotTypes
    <3>4. CASE chosen > scale
      <4>1. ratings' = ratings
        BY <1>1, <1>6, <1>7, <3>4 DEF Reviews!Scores
      <4>2. after = before
        BY <4>1 DEF before
      <4> QED BY <2>1, <4>2
    <3>5. CASE chosen <= scale /\ slot.own[1].score <= slot.scale
      <4>1. after = <<[user |-> v, score |-> slot.own[1].score]>>
        BY <1>1, <1>6, <1>8, <2>4, <3>5
      <4>2. [user |-> v, score |-> slot.own[1].score] = ratings[i]
        BY <3>2, <3>3 DEF Reviews!Rows
      <4> QED BY <2>1, <3>2, <4>1, <4>2
    <3>6. CASE chosen <= scale /\ ~ (slot.own[1].score <= slot.scale)
      <4>1. chosen = 1 /\ after = <<[user |-> v, score |-> 1]>>
        BY <1>1, <1>6, <1>8, <3>6
      <4>2. after[1].score = 1
        BY <4>1
      <4>3. slot.own[1].score > slot.scale
        BY <1>3, <1>5, <2>4, <3>6, ReviewsConstants DEF SlotShape, Reviews!Scores
      <4> QED BY <2>1, <2>4, <4>2, <4>3
    <3> QED BY <1>6, <1>7, <3>4, <3>5, <3>6 DEF Reviews!Scores
  <2>5. slot.late \in Nat
    BY <1>3, ReviewsConstants DEF SlotShape
  <2> QED BY <2>2, <2>3, <2>4, <2>5
<1> QED BY <1>9, <1>11, <1>12 DEF SlotInv

LEMMA SlotStart ==
  ASSUME Reviews!SlotInit
  PROVE  SlotInv
<1> DEFINE N == Cardinality(Members) + 1
<1>1. /\ ratings \in UNION {[1 .. n -> Reviews!Rows] : n \in 0 .. N}
      /\ \A m \in Members : Len(Reviews!OfMember(m, ratings)) <= 1
      /\ scale \in Scales /\ left = {} /\ slot = Reviews!Unopened
  BY ReviewsWords DEF Reviews!SlotInit
<1>2. N \in Nat
  BY ReviewsConstants, FS_CardinalityType
<1> HIDE DEF N
<1>3. ratings \in Seq(Reviews!Rows)
  <2>1. PICK n \in 0 .. N : ratings \in [1 .. n -> Reviews!Rows]
    BY <1>1, <1>2
  <2> QED BY <1>2, <2>1
<1>4. OneEach(ratings)
  <2> SUFFICES ASSUME NEW i \in DOMAIN ratings, NEW j \in DOMAIN ratings,
                      ratings[i].user = ratings[j].user, ratings[i].user \in Members, i # j
               PROVE  FALSE
    BY DEF OneEach
  <2> DEFINE m == ratings[i].user
             K == {k \in DOMAIN ratings : ratings[k].user = m}
  <2>1. K \in SUBSET DOMAIN ratings /\ {i, j} \subseteq K
    OBVIOUS
  <2>2. Reviews!OfMember(m, ratings) = Picked(ratings, K)
    BY ReviewsWords
  <2>3. Len(Reviews!OfMember(m, ratings)) <= 1
    BY <1>1
  <2> HIDE DEF K, m
  <2>4. IsFiniteSet(K) /\ Len(Picked(ratings, K)) = Cardinality(K)
    BY <1>3, <2>1, PickedPlaces
  <2>5. Cardinality({i, j}) <= Cardinality(K)
    BY <2>1, <2>4, FS_Subset
  <2>6. Cardinality({i, j}) = 2
    <3>1. IsFiniteSet({i}) /\ Cardinality({i}) = 1
      BY FS_Singleton
    <3>2. Cardinality({i} \cup {j}) = Cardinality({i}) + 1
      BY <3>1, FS_AddElement
    <3>3. {i} \cup {j} = {i, j}
      OBVIOUS
    <3> QED BY <3>1, <3>2, <3>3
  <2>7. Cardinality(K) <= 1 /\ Cardinality(K) \in Nat
    BY <2>2, <2>3, <2>4, FS_CardinalityType
  <2> QED BY <2>5, <2>6, <2>7
<1>5. SlotShape(slot)
  BY <1>1, EmptyRows, ReviewsConstants DEF Reviews!Unopened, SlotShape
<1>6. slot.at = "none"
  BY <1>1 DEF Reviews!Unopened
<1> QED BY <1>1, <1>3, <1>4, <1>5, <1>6
    DEF SlotInv, SlotTyped, SlotTells, CountsHold, ListHolds, OwnHolds

LEMMA SlotStep ==
  ASSUME SlotInv, Reviews!SlotNext
  PROVE  SlotInv'
<1>1. CASE Reviews!OpenSlot
  BY <1>1, OpenSlotStep
<1>2. CASE Reviews!ReadDistribution
  BY <1>2, ReadDistributionStep
<1>3. CASE Reviews!ReadList
  BY <1>3, ReadListStep
<1>4. CASE Reviews!ReadOwn
  BY <1>4, ReadOwnStep
<1>5. CASE Reviews!SlotDegrades
  BY <1>5, SlotDegradesStep
<1>6. CASE Reviews!SaveForm
  BY <1>6, SaveFormStep
<1>7. ASSUME NEW m \in Members, Reviews!remove_rating(m) PROVE SlotInv'
  BY <1>7, RemoveStep
<1>8. ASSUME NEW m \in Members, Reviews!MemberLeaves(m) PROVE SlotInv'
  BY <1>8, MemberLeavesStep
<1>9. ASSUME NEW m \in Members, NEW s \in Reviews!Scores, Reviews!submit_rating(m, s) PROVE SlotInv'
  BY <1>9, SubmitStep
<1>10. ASSUME NEW s \in Scales, Reviews!Rescale(s) PROVE SlotInv'
  BY <1>10, RescaleStep
<1> QED BY <1>1, <1>2, <1>3, <1>4, <1>5, <1>6, <1>7, <1>8, <1>9, <1>10 DEF Reviews!SlotNext

LEMMA SlotTold ==
  ASSUME SlotInv
  PROVE  Reviews!SlotTypeOK /\ Reviews!SlotTold
<1>1. SlotTyped /\ SlotShape(slot) /\ CountsHold(slot) /\ ListHolds(slot) /\ OwnHolds(slot)
  BY SlotParts DEF SlotInv
<1>2. Reviews!SlotTypeOK
  <2>1. ASSUME NEW m \in Members
        PROVE  Len(Reviews!OfMember(m, ratings)) <= (IF m \in left THEN 0 ELSE 1)
    <3>1. CASE m \in left
      <4>1. \A i \in DOMAIN ratings : ratings[i].user # m
        BY <3>1, <1>1 DEF SlotTyped
      <4>2. Reviews!OfMember(m, ratings) = <<>>
        BY <4>1, SlotTypes, OfMemberIs
      <4> QED BY <3>1, <4>2, EmptyRows
    <3>2. CASE m \notin left
      BY <3>2, SlotTypes, OfMemberIs
    <3> QED BY <3>1, <3>2
  <2>2. scale \in Reviews!Scores
    BY SlotTypes, ReviewsConstants DEF Reviews!Scores
  <2> QED BY <1>1, <2>1, <2>2 DEF Reviews!SlotTypeOK, SlotTyped, SlotShape
<1>3. ASSUME slot.at = "shown" PROVE Reviews!CountsAndListAgree
  <2>1. /\ Total(slot) \in Nat /\ Low(slot) \in Nat
        /\ Len(ratings) <= Total(slot) + slot.late /\ Total(slot) <= Len(ratings) + slot.late
        /\ Total(slot) - Low(slot) <= slot.late + Above(ratings, slot.scale)
        /\ Len(slot.list) <= Total(slot) + slot.late
        /\ Total(slot) <= Len(slot.list) + slot.late \/ Len(slot.list) = DisplayLimit
    BY <1>1, <1>3 DEF CountsHold, ListHolds
  <2>2. \A i \in DOMAIN slot.list : slot.list[i].user \notin slot.left
    BY <1>1 DEF SlotShape
  <2>3. ASSUME NEW i \in DOMAIN slot.list, slot.list[i].user = slot.viewer, slot.viewer # None
        PROVE  slot.own = <<slot.list[i]>> \/ slot.late > 0
    <3>1. slot.late \in Nat
      BY <1>1, ReviewsConstants DEF SlotShape
    <3>2. CASE slot.late = 0
      <4>1. i \in DOMAIN ratings /\ slot.list[i] = ratings[i] /\ ratings[i].user = slot.viewer
        BY <1>1, <1>3, <2>3, <3>2 DEF ListHolds
      <4>2. slot.own = Reviews!OfMember(slot.viewer, ratings)
        BY <1>1, <1>3, <2>3, <3>2 DEF OwnHolds
      <4>3. slot.viewer \in Members
        BY <1>1, <2>3 DEF SlotShape
      <4>4. Reviews!OfMember(slot.viewer, ratings) = <<ratings[i]>>
        BY <4>1, <4>3, SlotTypes, OfMemberIs
      <4> QED BY <4>1, <4>2, <4>4
    <3> QED BY <3>1, <3>2
  <2>4. Reviews!Cardinality({i \in DOMAIN ratings : ratings[i].score > slot.scale})
          = Above(ratings, slot.scale)
    BY ReviewsWords DEF Above
  <2>5. Reviews!TotalOf(Reviews!Scores) = Total(slot)
          /\ Reviews!TotalOf(1 .. slot.scale) = Low(slot)
    BY DEF Reviews!TotalOf, Total, Low
  <2> HIDE DEF Total, Low, Above
  <2> QED BY <2>1, <2>2, <2>3, <2>4, <2>5 DEF Reviews!CountsAndListAgree
<1> QED BY <1>2, <1>3 DEF SlotInv, Reviews!SlotTold

LEMMA SlotHolds == Spec => [](part = "reviews" => SlotInv)
<1> DEFINE Inv == part = "reviews" => SlotInv
<1>1. Init => Inv
  BY SlotStart DEF Init
<1>2. Inv /\ [Next]_vars => Inv'
  <2> SUFFICES ASSUME Inv, [Next]_vars, part' = "reviews" PROVE SlotInv'
    OBVIOUS
  <2>1. part = "reviews" /\ (Reviews!SlotNext \/ UNCHANGED slotState)
    BY DEF Next, NextEdit, NextRead, vars
  <2>2. CASE UNCHANGED slotState
    <3>1. ratings' = ratings /\ scale' = scale /\ left' = left /\ slot' = slot
      BY <2>2 DEF slotState
    <3>2. SlotInv
      BY <2>1
    <3>3. SlotTyped' /\ SlotTells(slot)'
      BY <3>1, <3>2 DEF SlotInv, SlotTyped, SlotTells, SlotShape, CountsHold, ListHolds, OwnHolds,
        OneEach, Total, Low, Above, Reviews!OfMember
    <3>4. Reviews!FormKeepsRating => Reviews!FormKeepsRating'
      BY <3>1 DEF Reviews!FormKeepsRating, Reviews!OfMember
    <3> QED BY <3>1, <3>2, <3>3, <3>4 DEF SlotInv
  <2> QED BY <2>1, <2>2, SlotStep
<1> QED BY <1>1, <1>2, PTL DEF Spec

\* The counts, the rows, the list and the form of the reviews tell one set of ratings, up to
\* the requests between the reads, and the form keeps the rating of who sends it as it is,
\* for any number of members, of ratings and of requests (app_reviews, rate).
THEOREM ReviewsStand == Spec => [](part = "reviews" => Reviews!SlotTold)
<1>1. SlotInv => Reviews!SlotTold
  BY SlotTold
<1> QED BY <1>1, SlotHolds, PTL

-------------------------------------------------------------------------------
(***************************************************************************)
(* The catalogue page by page.  The matches in their order have places; an *)
(* application that comes or goes shifts those behind it by one.           *)
(***************************************************************************)
Ordered(M, R) ==
  /\ IsFiniteSet(M) /\ \A a \in M : <<a, a>> \notin R
  /\ \A a, b, c \in M : <<a, b>> \in R /\ <<b, c>> \in R => <<a, c>> \in R
  /\ \A a, b \in M : a # b => <<a, b>> \in R \/ <<b, a>> \in R

Place(M, R, a) == Cardinality({b \in M : <<b, a>> \in R}) + 1

LEMMA Placed ==
  ASSUME NEW M, NEW R, Ordered(M, R)
  PROVE  /\ IsFiniteSet(M) /\ Cardinality(M) \in Nat
         /\ \A a \in M : Place(M, R, a) \in 1 .. Cardinality(M)
         /\ \A a, b \in M : <<a, b>> \in R => Place(M, R, a) < Place(M, R, b)
         /\ \A a, b \in M : Place(M, R, a) = Place(M, R, b) => a = b
         /\ \A k \in 1 .. Cardinality(M) : \E a \in M : Place(M, R, a) = k
<1> DEFINE Ahead(a) == {b \in M : <<b, a>> \in R}
           n == Cardinality(M)
<1>1. IsFiniteSet(M) /\ n \in Nat
  BY FS_CardinalityType DEF Ordered
<1>2. ASSUME NEW a \in M
      PROVE  IsFiniteSet(Ahead(a)) /\ Cardinality(Ahead(a)) \in Nat /\ Cardinality(Ahead(a)) < n
  <2>1. Ahead(a) \subseteq M /\ a \notin Ahead(a)
    BY DEF Ordered
  <2> HIDE DEF Ahead
  <2>2. IsFiniteSet(Ahead(a)) /\ Cardinality(Ahead(a)) \in Nat /\ Cardinality(Ahead(a)) <= n
    BY <1>1, <2>1, FS_Subset, FS_CardinalityType
  <2>3. Cardinality(Ahead(a)) # n
    BY <1>1, <2>1, FS_Subset
  <2> QED BY <1>1, <2>2, <2>3
<1>3. ASSUME NEW a \in M, NEW b \in M, <<a, b>> \in R
      PROVE  Cardinality(Ahead(a)) < Cardinality(Ahead(b))
  <2>1. Ahead(a) \subseteq Ahead(b) /\ a \in Ahead(b) /\ a \notin Ahead(a)
    BY <1>3 DEF Ordered
  <2>2. IsFiniteSet(Ahead(a)) /\ IsFiniteSet(Ahead(b))
        /\ Cardinality(Ahead(a)) \in Nat /\ Cardinality(Ahead(b)) \in Nat
    BY <1>2
  <2> HIDE DEF Ahead
  <2>3. Cardinality(Ahead(a)) <= Cardinality(Ahead(b))
    BY <2>1, <2>2, FS_Subset
  <2>4. Cardinality(Ahead(a)) # Cardinality(Ahead(b))
    BY <2>1, <2>2, FS_Subset
  <2> QED BY <2>2, <2>3, <2>4
<1>4. \A a : Place(M, R, a) = Cardinality(Ahead(a)) + 1
  BY DEF Place
<1> HIDE DEF Ahead
<1>5. \A a \in M : Place(M, R, a) \in 1 .. n
  BY <1>1, <1>2, <1>4
<1>6. \A a, b \in M : <<a, b>> \in R => Place(M, R, a) < Place(M, R, b)
  BY <1>2, <1>3, <1>4
<1>7. \A a, b \in M : Place(M, R, a) = Place(M, R, b) => a = b
  <2> SUFFICES ASSUME NEW a \in M, NEW b \in M, Place(M, R, a) = Place(M, R, b), a # b PROVE FALSE
    OBVIOUS
  <2>1. Place(M, R, a) < Place(M, R, b) \/ Place(M, R, b) < Place(M, R, a)
    BY <1>6 DEF Ordered
  <2> QED BY <1>1, <1>5, <2>1
<1>8. ASSUME NEW k \in 1 .. n PROVE \E a \in M : Place(M, R, a) = k
  <2> DEFINE g == [a \in M |-> Place(M, R, a)]
  <2>1. g \in [M -> 1 .. n] /\ \A a, b \in M : g[a] = g[b] => a = b
    BY <1>5, <1>7
  <2>2. \E a \in M : g[a] = k
    <3> HIDE DEF g
    <3> QED BY <1>1, <2>1, Numbered
  <2> QED BY <2>2
<1> QED BY <1>1, <1>5, <1>6, <1>7, <1>8

\* x joins the matches.
Joined(M, R, x, N, Q) ==
  /\ Ordered(M, R) /\ Ordered(N, Q)
  /\ x \notin M /\ N = M \cup {x} /\ \A a, b \in M : <<a, b>> \in R <=> <<a, b>> \in Q

LEMMA Shifted ==
  ASSUME NEW M, NEW R, NEW x, NEW N, NEW Q, Joined(M, R, x, N, Q), NEW a \in M
  PROVE  Place(N, Q, a) = IF <<x, a>> \in Q THEN Place(M, R, a) + 1 ELSE Place(M, R, a)
<1> DEFINE A == {b \in M : <<b, a>> \in R}
           B == {b \in N : <<b, a>> \in Q}
<1>1. IsFiniteSet(A)
  <2>1. A \subseteq M /\ IsFiniteSet(M)
    BY DEF Joined, Ordered
  <2> QED BY <2>1, FS_Subset
<1>2. x \notin A /\ B = (IF <<x, a>> \in Q THEN A \cup {x} ELSE A)
  BY DEF Joined
<1>3. Place(N, Q, a) = Cardinality(B) + 1 /\ Place(M, R, a) = Cardinality(A) + 1
  BY DEF Place
<1> HIDE DEF A, B
<1>4. Cardinality(A) \in Nat /\ Cardinality(A \cup {x}) = Cardinality(A) + 1
  BY <1>1, <1>2, FS_CardinalityType, FS_AddElement
<1> QED BY <1>2, <1>3, <1>4

LEMMA ShiftedBy ==
  ASSUME NEW M, NEW R, NEW x, NEW N, NEW Q, Joined(M, R, x, N, Q), NEW a \in M, NEW off \in Nat
  PROVE  /\ Place(N, Q, a) > off => Place(N, Q, a) = off + 1 \/ Place(M, R, a) > off
         /\ Place(M, R, a) <= off => Place(N, Q, a) = off + 1 \/ Place(N, Q, a) <= off
         /\ Place(N, Q, a) > off /\ Place(M, R, a) <= off => <<x, a>> \in Q
         /\ Place(M, R, a) > off => Place(N, Q, a) > off
         /\ Place(N, Q, a) <= off => Place(M, R, a) <= off
         /\ Place(N, Q, a) <= off <=> ~ (Place(N, Q, a) > off)
         /\ Place(M, R, a) <= off <=> ~ (Place(M, R, a) > off)
<1> DEFINE p == Place(M, R, a)
           q == Place(N, Q, a)
<1>1. q = IF <<x, a>> \in Q THEN p + 1 ELSE p
  BY Shifted
<1>2. p \in Nat
  <2>1. Ordered(M, R)
    BY DEF Joined
  <2>2. p \in 1 .. Cardinality(M) /\ Cardinality(M) \in Nat
    BY <2>1, Placed
  <2> QED BY <2>2
<1> HIDE DEF p, q
<1>3. /\ q > off => q = off + 1 \/ p > off
      /\ p <= off => q = off + 1 \/ q <= off
      /\ q > off /\ p <= off => <<x, a>> \in Q
      /\ p > off => q > off
      /\ q <= off => p <= off
      /\ q <= off <=> ~ (q > off)
      /\ p <= off <=> ~ (p > off)
  BY <1>1, <1>2
<1> QED BY <1>3 DEF p, q

Soon(M, R, S, off) == {a \in S \cap M : Place(M, R, a) <= off}
Late(M, R, S, off) == {a \in S \cap M : Place(M, R, a) > off}

LEMMA FewOf ==
  ASSUME NEW M, NEW R, Ordered(M, R), NEW S, NEW off
  PROVE  /\ IsFiniteSet(Soon(M, R, S, off)) /\ Cardinality(Soon(M, R, S, off)) \in Nat
         /\ IsFiniteSet(Late(M, R, S, off)) /\ Cardinality(Late(M, R, S, off)) \in Nat
<1>1. IsFiniteSet(M) /\ Soon(M, R, S, off) \subseteq M /\ Late(M, R, S, off) \subseteq M
  BY DEF Ordered, Soon, Late
<1> QED BY <1>1, FS_Subset, FS_CardinalityType

LEMMA OneMore ==
  ASSUME NEW A, IsFiniteSet(A), NEW B, NEW e, B \subseteq A \cup {e}
  PROVE  Cardinality(B) <= Cardinality(A) + 1
<1>1. IsFiniteSet(A \cup {e})
        /\ Cardinality(A \cup {e}) = IF e \in A THEN Cardinality(A) ELSE Cardinality(A) + 1
  BY FS_AddElement
<1>2. IsFiniteSet(B) /\ Cardinality(B) <= Cardinality(A \cup {e})
  BY <1>1, FS_Subset
<1>3. Cardinality(A) \in Nat /\ Cardinality(B) \in Nat
  BY <1>2, FS_CardinalityType
<1> QED BY <1>1, <1>2, <1>3

\* At most one match is moved across a place.
LEMMA OneCrosses ==
  ASSUME NEW M, NEW R, NEW x, NEW N, NEW Q, Joined(M, R, x, N, Q), NEW off \in Nat
  PROVE  \E e : \A a \in N :
           /\ Place(N, Q, a) > off => a = e \/ (a \in M /\ Place(M, R, a) > off)
           /\ a \in M /\ Place(M, R, a) <= off => a = e \/ Place(N, Q, a) <= off
<1>1. Ordered(M, R) /\ Ordered(N, Q) /\ N = M \cup {x} /\ x \notin M
  BY DEF Joined
<1>2. \A a \in M :
        /\ Place(N, Q, a) > off => Place(N, Q, a) = off + 1 \/ Place(M, R, a) > off
        /\ Place(M, R, a) <= off => Place(N, Q, a) = off + 1 \/ Place(N, Q, a) <= off
        /\ Place(N, Q, a) > off /\ Place(M, R, a) <= off => <<x, a>> \in Q
        /\ Place(N, Q, a) <= off <=> ~ (Place(N, Q, a) > off)
        /\ Place(M, R, a) <= off <=> ~ (Place(M, R, a) > off)
  BY ShiftedBy
<1>3. CASE Place(N, Q, x) > off
  <2>1. ASSUME NEW a \in M, Place(N, Q, a) > off, Place(M, R, a) <= off PROVE FALSE
    <3>1. Place(N, Q, x) < Place(N, Q, a)
      BY <1>1, <1>2, <2>1, Placed
    <3>2. Place(N, Q, a) = off + 1
      BY <1>2, <2>1
    <3>3. Place(N, Q, x) \in 1 .. Cardinality(N) /\ Cardinality(N) \in Nat
      BY <1>1, Placed
    <3> HIDE DEF Place
    <3> QED BY <1>3, <3>1, <3>2, <3>3
  <2> QED BY <1>1, <1>2, <2>1
<1>4. CASE ~ (Place(N, Q, x) > off)
  <2> DEFINE e == CHOOSE a \in N : Place(N, Q, a) = off + 1
  <2>1. \A a \in N : Place(N, Q, a) = off + 1 => a = e
    BY <1>1, Placed
  <2> HIDE DEF e
  <2> QED BY <1>1, <1>2, <1>4, <2>1
<1> QED BY <1>3, <1>4

LEMMA JoinedCounts ==
  ASSUME NEW M, NEW R, NEW x, NEW N, NEW Q, Joined(M, R, x, N, Q), NEW off \in Nat, NEW S
  PROVE  /\ Cardinality(Late(N, Q, S, off)) <= Cardinality(Late(M, R, S, off)) + 1
         /\ Cardinality(Late(M, R, S, off)) <= Cardinality(Late(N, Q, S, off))
         /\ \A T : T \subseteq M =>
              Cardinality(Soon(N, Q, T, off)) <= Cardinality(Soon(M, R, T, off))
         /\ \A T : T \subseteq S =>
              Cardinality(Soon(M, R, T, off)) <= Cardinality(Soon(N, Q, S, off)) + 1
         /\ Cardinality(N) = Cardinality(M) + 1
<1>1. Ordered(M, R) /\ Ordered(N, Q) /\ N = M \cup {x} /\ x \notin M
  BY DEF Joined
<1>2. /\ \A a \in M : /\ Place(M, R, a) > off => Place(N, Q, a) > off
                      /\ Place(N, Q, a) <= off => Place(M, R, a) <= off
      /\ IsFiniteSet(M) /\ Cardinality(M) \in Nat
  BY <1>1, ShiftedBy, Placed
<1>3. PICK e : \A a \in N :
           /\ Place(N, Q, a) > off => a = e \/ (a \in M /\ Place(M, R, a) > off)
           /\ a \in M /\ Place(M, R, a) <= off => a = e \/ Place(N, Q, a) <= off
  BY OneCrosses
<1>4. Cardinality(Late(N, Q, S, off)) <= Cardinality(Late(M, R, S, off)) + 1
  <2>1. Late(N, Q, S, off) \subseteq Late(M, R, S, off) \cup {e}
    BY <1>3 DEF Late
  <2> QED BY <1>1, <2>1, FewOf, OneMore
<1>5. Cardinality(Late(M, R, S, off)) <= Cardinality(Late(N, Q, S, off))
  <2>1. Late(M, R, S, off) \subseteq Late(N, Q, S, off)
    BY <1>1, <1>2 DEF Late
  <2> QED BY <1>1, <2>1, FewOf, FS_Subset
<1>6. ASSUME NEW T, T \subseteq M
      PROVE  Cardinality(Soon(N, Q, T, off)) <= Cardinality(Soon(M, R, T, off))
  <2>1. Soon(N, Q, T, off) \subseteq Soon(M, R, T, off)
    BY <1>2, <1>6 DEF Soon
  <2> QED BY <1>1, <2>1, FewOf, FS_Subset
<1>7. ASSUME NEW T, T \subseteq S
      PROVE  Cardinality(Soon(M, R, T, off)) <= Cardinality(Soon(N, Q, S, off)) + 1
  <2>1. Soon(M, R, T, off) \subseteq Soon(N, Q, S, off) \cup {e}
    BY <1>1, <1>3, <1>7 DEF Soon
  <2> QED BY <1>1, <2>1, FewOf, OneMore
<1>8. Cardinality(N) = Cardinality(M) + 1
  BY <1>1, <1>2, FS_AddElement
<1> QED BY <1>4, <1>5, <1>6, <1>7, <1>8

\* The matches in their order: the i-th has the place i.
Order(M, R) == [i \in 1 .. Cardinality(M) |-> CHOOSE a \in M : Place(M, R, a) = i]

LEMMA OrderIs ==
  ASSUME NEW M, NEW R, Ordered(M, R)
  PROVE  /\ Order(M, R) \in Seq(M) /\ Len(Order(M, R)) = Cardinality(M)
         /\ DOMAIN Order(M, R) = 1 .. Cardinality(M)
         /\ \A i \in 1 .. Cardinality(M) :
              Order(M, R)[i] \in M /\ Place(M, R, Order(M, R)[i]) = i
         /\ \A a \in M : Place(M, R, a) \in 1 .. Cardinality(M) /\ Order(M, R)[Place(M, R, a)] = a
<1> DEFINE n == Cardinality(M)
           o == Order(M, R)
<1>1. /\ n \in Nat /\ \A a \in M : Place(M, R, a) \in 1 .. n
      /\ \A a, b \in M : Place(M, R, a) = Place(M, R, b) => a = b
      /\ \A k \in 1 .. n : \E a \in M : Place(M, R, a) = k
  BY Placed
<1>2. DOMAIN o = 1 .. n
  BY DEF Order
<1>3. ASSUME NEW i \in 1 .. n PROVE o[i] \in M /\ Place(M, R, o[i]) = i
  <2>1. \E a \in M : Place(M, R, a) = i
    BY <1>1
  <2>2. o[i] = CHOOSE a \in M : Place(M, R, a) = i
    BY DEF Order
  <2> QED BY <2>1, <2>2
<1>4. o = [i \in 1 .. n |-> o[i]]
  BY DEF Order
<1> HIDE DEF o, n
<1>5. o \in [1 .. n -> M]
  BY <1>3, <1>4
<1>6. o \in Seq(M) /\ Len(o) = n
  BY <1>1, <1>5
<1>7. \A a \in M : o[Place(M, R, a)] = a
  BY <1>1, <1>3
<1> QED BY <1>1, <1>2, <1>3, <1>6, <1>7 DEF o, n

\* What a page takes of the order.
Within(M, R, from, to) == {a \in M : Place(M, R, a) > from /\ Place(M, R, a) <= to}

IsSlice(q, M, R, from, to) ==
  /\ q \in Seq(M) /\ In(q) = Within(M, R, from, to)
  /\ IsFiniteSet(In(q)) /\ Cardinality(In(q)) = Len(q)
  /\ DOMAIN q = 1 .. Len(q) /\ Len(q) = (IF to > from THEN to - from ELSE 0)
  /\ \A i \in DOMAIN q : q[i] = Order(M, R)[from + i]

LEMMA SliceIs ==
  ASSUME NEW M, NEW R, Ordered(M, R), NEW from \in Nat, NEW to \in Nat, to <= Cardinality(M)
  PROVE  IsSlice(SubSeq(Order(M, R), from + 1, to), M, R, from, to)
<1> DEFINE o == Order(M, R)
           n == Cardinality(M)
           m == IF to > from THEN to - from ELSE 0
           q == SubSeq(o, from + 1, to)
<1>1. /\ o \in Seq(M) /\ Len(o) = n /\ n \in Nat /\ to <= n
      /\ \A i \in 1 .. n : o[i] \in M /\ Place(M, R, o[i]) = i
      /\ \A a \in M : Place(M, R, a) \in 1 .. n /\ o[Place(M, R, a)] = a
  BY OrderIs, Placed
<1>2. m \in Nat /\ \A i \in 1 .. m : from + i \in 1 .. n /\ from + i <= to /\ from + i > from
  BY <1>1
<1> HIDE DEF n, o
<1>3. q = [i \in 1 .. m |-> o[from + i]]
  <2>1. q = [i \in 1 .. (1 + to - (from + 1)) |-> o[i + (from + 1) - 1]]
    OBVIOUS
  <2>2. 1 .. (1 + to - (from + 1)) = 1 .. m
    OBVIOUS
  <2>3. \A i \in 1 .. m : i + (from + 1) - 1 = from + i
    BY <1>2
  <2> HIDE DEF m, q
  <2> QED BY <2>1, <2>2, <2>3
<1>4. \A j \in 1 .. n : j > from /\ j <= to => j - from \in 1 .. m /\ from + (j - from) = j
  BY <1>1
<1> HIDE DEF m, q
<1>5. q \in [1 .. m -> M]
  BY <1>1, <1>2, <1>3
<1>6. q \in Seq(M) /\ Len(q) = m /\ DOMAIN q = 1 .. m
  BY <1>2, <1>5
<1>7. In(q) = {a \in M : Place(M, R, a) > from /\ Place(M, R, a) <= to}
  <2>1. ASSUME NEW i \in 1 .. m
        PROVE  q[i] \in M /\ Place(M, R, q[i]) > from /\ Place(M, R, q[i]) <= to
    <3>1. q[i] = o[from + i] /\ Place(M, R, o[from + i]) = from + i /\ o[from + i] \in M
      BY <1>1, <1>2, <1>3
    <3> QED BY <1>2, <3>1
  <2>2. ASSUME NEW a \in M, Place(M, R, a) > from, Place(M, R, a) <= to
        PROVE  \E i \in 1 .. m : q[i] = a
    <3> DEFINE j == Place(M, R, a)
    <3>1. j \in 1 .. n /\ o[j] = a
      BY <1>1
    <3>2. j - from \in 1 .. m /\ from + (j - from) = j
      BY <1>4, <2>2, <3>1
    <3>3. q[j - from] = a
      BY <1>3, <3>1, <3>2
    <3> QED BY <3>2, <3>3
  <2> QED BY <1>6, <2>1, <2>2 DEF In
<1>8. Once(q)
  <2> SUFFICES ASSUME NEW i \in 1 .. m, NEW j \in 1 .. m, q[i] = q[j] PROVE i = j
    BY <1>6 DEF Once
  <2>1. Place(M, R, q[i]) = from + i /\ Place(M, R, q[j]) = from + j
    BY <1>1, <1>2, <1>3
  <2> QED BY <1>2, <2>1
<1>9. \A i \in 1 .. m : q[i] = o[from + i]
  BY <1>3
<1>10. IsFiniteSet(In(q)) /\ Cardinality(In(q)) = Len(q)
  BY <1>6, <1>8, OnceCounted
<1> QED BY <1>6, <1>7, <1>9, <1>10 DEF q, m, o, IsSlice, Within

LEMMA SearchWords ==
  /\ \A S : Search!IsFiniteSet(S) <=> IsFiniteSet(S)
  /\ \A S : Search!Cardinality(S) = Cardinality(S)
  /\ \A s : Search!Range(s) = In(s)
<1>1. \A S : Search!IsFiniteSet(S) <=> IsFiniteSet(S)
  BY DEF Search!IsFiniteSet, IsFiniteSet
<1>2. \A S : Search!Cardinality(S) = Cardinality(S)
  BY DEF Search!Cardinality, Cardinality
<1>3. \A s : Search!Range(s) = In(s)
  BY DEF Search!Range, In
<1> QED BY <1>1, <1>2, <1>3

LEMMA SearchConstants ==
  /\ Listings \subseteq Nat /\ IsFiniteSet(Listings)
  /\ \A k \in DOMAIN Relevance : Relevance[k] \in [Listings -> Nat]
  /\ None \notin DOMAIN Relevance /\ None \notin Search!Vocabulary /\ None \notin DOMAIN Clusters
  /\ Active \subseteq Search!Vocabulary
  /\ Resolving \in [Search!Vocabulary -> SUBSET Search!Vocabulary]
  /\ \A t \in Search!Vocabulary : t \in Resolving[t]
  /\ \A c \in DOMAIN Clusters : Clusters[c] \subseteq Search!Vocabulary
  /\ MaxEdits \in Nat
  /\ PageSize \in Nat /\ PageSizeMax \in Nat \ {0} /\ MaxMoves \in Nat
BY ReadConstants, SearchWords DEF Search!SearchAssumption

LEMMA SizeIs == Search!size \in Nat \ {0}
<1> DEFINE m == IF PageSize < PageSizeMax THEN PageSize ELSE PageSizeMax
<1>1. PageSize \in Nat /\ PageSizeMax \in Nat
  BY SearchConstants
<1>2. Search!Min({PageSize, PageSizeMax}) = m
  BY <1>1 DEF Search!Min
<1>3. m \in Nat
  BY <1>1
<1> HIDE DEF m
<1>4. Search!Max({1, m}) = IF m > 1 THEN m ELSE 1
  BY <1>3 DEF Search!Max
<1> QED BY <1>2, <1>3, <1>4 DEF Search!size

LEMMA Grows == \A p, q, z \in Nat : p <= q => p * z <= q * z
OBVIOUS

LEMMA OnePageOn ==
  \A p \in Nat \ {0}, z \in Nat :
    /\ p * z \in Nat /\ (p - 1) * z \in Nat /\ (p - 1) * z + z = p * z /\ (p + 1 - 1) * z = p * z
    /\ p = 1 => (p - 1) * z = 0
OBVIOUS

\* The last page holds the last match, and no page before it does.
LEMMA LastPage ==
  ASSUME NEW t \in Nat
  PROVE  LET last == Search!last_page(t)
         IN /\ last \in Nat \ {0} /\ t <= last * Search!size
            /\ \A p \in Nat \ {0} : p < last => p * Search!size < t
<1> DEFINE z == Search!size
           q == (t + z - 1) \div z
           last == IF q > 1 THEN q ELSE 1
<1>1. z \in Nat \ {0}
  BY SizeIs
<1> HIDE DEF z
<1>2. q \in Nat /\ q * z <= t + z - 1 /\ t + z - 1 < q * z + z
  BY <1>1
<1> HIDE DEF q
<1>3. Search!Max({1, q}) = last
  BY <1>2 DEF Search!Max
<1>4. Search!last_page(t) = last
  BY <1>3 DEF Search!last_page, q, z
<1>5. q * z <= last * z
  BY <1>1, <1>2, Grows
<1>6. t <= last * z
  <2> DEFINE a == q * z
             b == last * z
  <2>1. a \in Nat /\ b \in Nat
    BY <1>1, <1>2
  <2>2. a <= b /\ t + z - 1 < a + z
    BY <1>2, <1>5
  <2> HIDE DEF a, b
  <2>3. t <= b
    BY <1>1, <2>1, <2>2
  <2> QED BY <2>3 DEF b
<1>7. ASSUME NEW p \in Nat \ {0}, p < last PROVE p * z < t
  <2>1. p + 1 <= q /\ p \in Nat
    BY <1>2, <1>7
  <2>2. (p + 1) * z <= q * z
    BY <1>1, <1>2, <2>1, Grows
  <2> DEFINE a == p * z
             b == q * z
             c == (p + 1) * z
  <2>3. a \in Nat /\ b \in Nat /\ c = a + z
    BY <1>1, <1>2
  <2>4. c <= b /\ b <= t + z - 1
    BY <1>2, <2>2
  <2> HIDE DEF a, b, c
  <2>5. a < t
    BY <1>1, <2>3, <2>4
  <2> QED BY <2>5 DEF a
<1>8. last \in Nat \ {0}
  BY <1>2
<1> QED BY <1>4, <1>6, <1>7, <1>8 DEF z

\* The neutral order is a strict order of the matches: acc says when each was accepted.
Beats(acc, k, b, a) ==
  \/ Search!Rank(k, b) > Search!Rank(k, a)
  \/ /\ Search!Rank(k, b) = Search!Rank(k, a)
     /\ \/ acc[b] > acc[a]
        \/ acc[b] = acc[a] /\ b < a

Suits(k, tags, a) ==
  (k # None => Relevance[k][a] > 0) /\ (tags # {} => Carries[a] \cap tags # {})

Matches(acc, k, tags) == {a \in Listings : acc[a] > 0 /\ Suits(k, tags, a)}

Ranked(acc, k, tags) ==
  {e \in Matches(acc, k, tags) \X Matches(acc, k, tags) : Beats(acc, k, e[1], e[2])}

LEMMA StrictOrder ==
  ASSUME NEW k \in Search!Keywords, NEW tags, NEW acc \in [Listings -> Nat]
  PROVE  Ordered(Matches(acc, k, tags), Ranked(acc, k, tags))
           /\ Matches(acc, k, tags) \subseteq Listings
<1> DEFINE M == Matches(acc, k, tags)
           R == Ranked(acc, k, tags)
<1>1. M \subseteq Listings /\ IsFiniteSet(M)
  <2>1. M \subseteq Listings
    BY DEF Matches
  <2> QED BY <2>1, SearchConstants, FS_Subset
<1>2. \A a \in Listings : Search!Rank(k, a) \in Nat /\ acc[a] \in Nat /\ a \in Nat
  BY SearchConstants DEF Search!Rank, Search!Keywords
<1>3. \A a, b \in M : <<a, b>> \in R <=> Beats(acc, k, a, b)
  BY DEF Ranked
<1> HIDE DEF M, R
<1>4. \A a \in M : ~ Beats(acc, k, a, a)
  BY <1>1, <1>2 DEF Beats
<1>5. ASSUME NEW a \in M, NEW b \in M, NEW c \in M, Beats(acc, k, a, b), Beats(acc, k, b, c)
      PROVE  Beats(acc, k, a, c)
  <2> DEFINE x == Search!Rank(k, a)
             y == Search!Rank(k, b)
             w == Search!Rank(k, c)
             l == acc[a]
             m == acc[b]
             n == acc[c]
  <2>1. {a, b, c, x, y, w, l, m, n} \subseteq Nat
    BY <1>1, <1>2
  <2>2. /\ x > y \/ (x = y /\ (l > m \/ (l = m /\ a < b)))
        /\ y > w \/ (y = w /\ (m > n \/ (m = n /\ b < c)))
    BY <1>5 DEF Beats
  <2> HIDE DEF x, y, w, l, m, n
  <2>3. x > w \/ (x = w /\ (l > n \/ (l = n /\ a < c)))
    BY <2>1, <2>2
  <2> QED BY <2>3 DEF Beats, x, w, l, n
<1>6. ASSUME NEW a \in M, NEW b \in M, a # b PROVE Beats(acc, k, a, b) \/ Beats(acc, k, b, a)
  BY <1>1, <1>2, <1>6 DEF Beats
<1>7. Ordered(M, R)
  BY <1>1, <1>3, <1>4, <1>5, <1>6 DEF Ordered
<1> QED BY <1>1, <1>7 DEF M, R

LEMMA NeutralOrder ==
  ASSUME NEW k \in Search!Keywords, NEW tags, accepted \in [Listings -> Nat]
  PROVE  /\ Search!accepted_matching(k, tags) = Matches(accepted, k, tags)
         /\ Search!neutral_order(k, tags) =
              Order(Matches(accepted, k, tags), Ranked(accepted, k, tags))
<1> DEFINE M == Matches(accepted, k, tags)
           R == Ranked(accepted, k, tags)
           Ahead(a) == {b \in M : Beats(accepted, k, b, a)}
<1>1. Search!accepted_matching(k, tags) = M
  BY DEF Search!accepted_matching, Matches, Suits
<1>2. Ordered(M, R)
  BY StrictOrder
<1>3. \A a, b \in M : <<a, b>> \in R <=> Beats(accepted, k, a, b)
  BY DEF Ranked
<1> HIDE DEF M
<1>4. Search!neutral_order(k, tags) =
        [i \in 1 .. Cardinality(M) |-> CHOOSE a \in M : Cardinality(Ahead(a)) = i - 1]
  BY <1>1 DEF Search!neutral_order, Beats, Search!Cardinality, Cardinality
<1> HIDE DEF R
<1>5. \A a \in M : Place(M, R, a) = Cardinality(Ahead(a)) + 1 /\ Place(M, R, a) \in Nat
  <2>1. ASSUME NEW a \in M PROVE Place(M, R, a) = Cardinality(Ahead(a)) + 1
    <3>1. Ahead(a) = {b \in M : <<b, a>> \in R}
      BY <1>3
    <3> HIDE DEF Ahead
    <3> QED BY <3>1 DEF Place
  <2>2. Cardinality(M) \in Nat /\ \A a \in M : Place(M, R, a) \in 1 .. Cardinality(M)
    BY <1>2, Placed
  <2> HIDE DEF Ahead
  <2> QED BY <2>1, <2>2
<1>6. Cardinality(M) \in Nat /\ \A a \in M : Cardinality(Ahead(a)) \in Nat
  <2>1. IsFiniteSet(M) /\ \A a \in M : Ahead(a) \subseteq M
    BY <1>2 DEF Ordered
  <2> HIDE DEF Ahead
  <2> QED BY <2>1, FS_Subset, FS_CardinalityType
<1> HIDE DEF Ahead
<1>7. \A i \in 1 .. Cardinality(M), a \in M : Cardinality(Ahead(a)) = i - 1 <=> Place(M, R, a) = i
  BY <1>5, <1>6
<1>8. \A i \in 1 .. Cardinality(M) :
        (CHOOSE a \in M : Cardinality(Ahead(a)) = i - 1) = CHOOSE a \in M : Place(M, R, a) = i
  BY <1>7
<1>9. Search!neutral_order(k, tags) = Order(M, R)
  BY <1>4, <1>8 DEF Order
<1> QED BY <1>1, <1>9 DEF M, R

\* The places behind the reader.
Offset(v) == IF v.at = "sliced" THEN v.page * Search!size ELSE (v.page - 1) * Search!size

Again(w) == Len(w.listed) - Cardinality(In(w.listed))

\* While the walk goes on: of the matches that stayed, no more of those behind the reader are
\* unseen than have left; those he has seen and still has before him, and those he has seen
\* twice, are no more than have arrived, and one page if he is set back to the last.
UnderWay(v, w, M, R, n) ==
  LET before == Cardinality(Late(M, R, In(w.listed), Offset(v)))
  IN /\ w.stayed \subseteq M
     /\ Cardinality(Soon(M, R, w.stayed \ In(w.listed), Offset(v))) <= w.left
     /\ \/ Again(w) + before <= w.arrived
        \/ /\ v.at = "counted" /\ v.page = v.last /\ w.left > 0
           /\ Again(w) + before <= w.arrived + Search!size
     /\ w.left = 0 => Offset(v) = 0 \/ Offset(v) < Cardinality(M)
     /\ n = 0 => w.listed = SubSeq(Order(M, R), 1, Offset(v))
     /\ v.at = "counted" =>
          /\ Cardinality(M) <= v.last * Search!size + w.unseen
          /\ w.left = 0 /\ v.page < v.last => v.page * Search!size < Cardinality(M)

Over(w, M, R, n) ==
  /\ Cardinality(w.stayed \ In(w.listed)) <= w.left + w.unseen
  /\ Again(w) <= w.arrived + (IF w.left > 0 THEN Search!size ELSE 0)
  /\ n = 0 => w.listed = Order(M, R)

WalkTells(v, w, M, R, n) ==
  w.filter = "kept" =>
    /\ v.at \in {"open", "counted", "sliced"} => UnderWay(v, w, M, R, n)
    /\ v.at = "last" => Over(w, M, R, n)

WalkParts == {"listed", "stayed", "arrived", "left", "unseen", "asked", "filter", "unread"}

WalkShape(v, w, n) ==
  /\ DOMAIN v = {"at", "tags", "page", "last", "link"} /\ v.link \in Search!Links
  /\ v.at \in {"idle", "open", "counted", "sliced", "last"}
  /\ v.page \in Nat \ {0} /\ v.last \in Nat \ {0}
  /\ v.at \in {"counted", "last"} => v.page <= v.last
  /\ v.at = "sliced" => v.page < v.last
  /\ DOMAIN w = WalkParts
  /\ w.listed \in Seq(Listings) /\ w.stayed \subseteq Listings
  /\ w.arrived \in 0 .. n /\ w.left \in 0 .. n /\ w.unseen \in 0 .. n /\ n \in Nat
  /\ v.at = "idle" => w.listed = <<>>

LEMMA InFinite ==
  ASSUME NEW S, NEW seq \in Seq(S)
  PROVE  IsFiniteSet(In(seq)) /\ Cardinality(In(seq)) \in Nat
<1>1. IsFiniteSet(DOMAIN seq)
  BY LenProperties, Counted
<1>2. seq \in [DOMAIN seq -> In(seq)] /\ \A r \in In(seq) : \E i \in DOMAIN seq : seq[i] = r
  <2>1. seq \in [DOMAIN seq -> S]
    BY LenProperties
  <2> QED BY <2>1 DEF In
<1>3. seq \in Surjection(DOMAIN seq, In(seq))
  BY <1>2, Fun_IsSurj
<1> QED BY <1>1, <1>3, FS_Surjection, FS_CardinalityType

LEMMA Offsets ==
  ASSUME NEW v, NEW w, NEW n, WalkShape(v, w, n)
  PROVE  /\ Search!size \in Nat \ {0} /\ Offset(v) \in Nat
         /\ v.page * Search!size \in Nat /\ (v.page - 1) * Search!size \in Nat
         /\ (v.page - 1) * Search!size + Search!size = v.page * Search!size
         /\ v.at # "sliced" /\ v.page = 1 => Offset(v) = 0
<1> DEFINE z == Search!size
           p == v.page
<1>1. z \in Nat \ {0} /\ p \in Nat \ {0}
  BY SizeIs DEF WalkShape
<1> HIDE DEF z, p
<1>2. /\ p * z \in Nat /\ (p - 1) * z \in Nat /\ (p - 1) * z + z = p * z
      /\ p = 1 => (p - 1) * z = 0
  BY <1>1, OnePageOn
<1> QED BY <1>1, <1>2 DEF Offset, z, p

\* What the numbers of a walk are.
LEMMA WalkNumbers ==
  ASSUME NEW v, NEW w, NEW n, WalkShape(v, w, n), NEW M, NEW R, Ordered(M, R), NEW off
  PROVE  /\ Again(w) \in Int /\ IsFiniteSet(In(w.listed))
         /\ Cardinality(Late(M, R, In(w.listed), off)) \in Nat
         /\ Cardinality(Soon(M, R, w.stayed \ In(w.listed), off)) \in Nat
         /\ w.arrived \in Nat /\ w.left \in Nat /\ w.unseen \in Nat /\ n \in Nat
         /\ n = 0 => w.left = 0 /\ w.unseen = 0
         /\ Cardinality(M) \in Nat /\ IsFiniteSet(M)
<1>1. /\ w.listed \in Seq(Listings) /\ w.arrived \in 0 .. n /\ w.left \in 0 .. n
      /\ w.unseen \in 0 .. n /\ n \in Nat
  BY DEF WalkShape
<1>2. Len(w.listed) \in Nat /\ Cardinality(In(w.listed)) \in Nat /\ IsFiniteSet(In(w.listed))
  BY <1>1, InFinite, LenProperties
<1>3. Again(w) \in Int
  BY <1>2 DEF Again
<1> QED BY <1>1, <1>2, <1>3, FewOf, Placed

\* The matches behind a place.
LEMMA TailCount ==
  ASSUME NEW M, NEW R, Ordered(M, R), NEW k \in Nat
  PROVE  LET tail == {a \in M : Place(M, R, a) > k}
         IN /\ IsFiniteSet(tail)
            /\ Cardinality(tail) = IF Cardinality(M) > k THEN Cardinality(M) - k ELSE 0
<1> DEFINE n == Cardinality(M)
           tail == {a \in M : Place(M, R, a) > k}
           q == SubSeq(Order(M, R), k + 1, n)
<1>1. n \in Nat /\ n <= n /\ \A a \in M : Place(M, R, a) <= n
  BY Placed
<1>2. IsSlice(q, M, R, k, n)
  <2> HIDE DEF n
  <2>1. n = Cardinality(M)
    BY DEF n
  <2> QED BY <1>1, <2>1, SliceIs
<1> HIDE DEF q
<1>3. In(q) = tail
  BY <1>1, <1>2 DEF IsSlice, Within
<1> HIDE DEF n, tail
<1> QED BY <1>2, <1>3 DEF n, tail, IsSlice

\* matches.count(): the number of the page is clamped to the last.
LEMMA CountTells ==
  ASSUME NEW v, NEW w, NEW n, WalkShape(v, w, n), NEW M, NEW R, Ordered(M, R),
         v.at = "open", UnderWay(v, w, M, R, n),
         NEW q, q.at = "counted", q.last = Search!last_page(Cardinality(M)),
         q.page = IF v.page < q.last THEN v.page ELSE q.last
  PROVE  q.page \in Nat \ {0} /\ q.last \in Nat \ {0} /\ q.page <= q.last /\ UnderWay(q, w, M, R, n)
<1> DEFINE z == Search!size
           p == v.page
           l == q.last
           t == Cardinality(M)
<1>1. p \in Nat \ {0} /\ z \in Nat \ {0} /\ t \in Nat
  BY SizeIs, Placed DEF WalkShape
<1>2. l \in Nat \ {0} /\ t <= l * z /\ \A k \in Nat \ {0} : k < l => k * z < t
  BY <1>1, LastPage
<1>3. Offset(v) = (p - 1) * z /\ Offset(q) = (q.page - 1) * z
  BY DEF Offset
<1>4. /\ w.unseen \in Nat /\ w.left \in Nat /\ Again(w) \in Int
      /\ n = 0 => w.left = 0
  BY WalkNumbers
<1>5. t <= l * z + w.unseen
  <2> DEFINE a == l * z
             u == w.unseen
  <2>1. a \in Nat /\ u \in Nat /\ t <= a
    BY <1>1, <1>2, <1>4
  <2> HIDE DEF a, u, t
  <2>2. t <= a + u
    BY <1>1, <2>1
  <2> QED BY <2>2 DEF a, u
<1> HIDE DEF z, p, l, t
<1>6. CASE p <= l
  <2>1. q.page = p
    BY <1>1, <1>2, <1>6 DEF p, l
  <2>2. Offset(q) = Offset(v)
    BY <1>3, <2>1
  <2>3. q.page < l => q.page * z < t
    BY <1>1, <1>2, <2>1
  <2>4. q.page \in Nat \ {0} /\ q.page <= l
    BY <1>1, <1>6, <2>1
  <2> QED BY <1>2, <1>5, <2>2, <2>3, <2>4 DEF UnderWay, z, t, l
<1>7. CASE ~ (p <= l)
  <2>1. q.page = l /\ l + 1 <= p
    BY <1>1, <1>2, <1>7 DEF p, l
  <2> DEFINE a == (p - 1) * z
             b == l * z
             c == (l - 1) * z
  <2>2. a \in Nat /\ b \in Nat /\ c \in Nat /\ c + z = b
    BY <1>1, <1>2, OnePageOn
  <2>3. b <= a
    <3>1. l \in Nat /\ p - 1 \in Nat /\ l <= p - 1
      BY <1>1, <1>2, <2>1
    <3> HIDE DEF a, b
    <3> QED BY <1>1, <3>1, Grows DEF a, b
  <2>4. t <= b
    BY <1>2
  <2>5. Offset(v) = a /\ Offset(q) = c
    BY <1>3, <2>1
  <2> HIDE DEF a, b, c
  <2>6. ~ (a = 0 \/ a < t) /\ c <= a
    BY <1>1, <2>2, <2>3, <2>4, <1>2
  <2>7. w.left # 0 /\ w.left > 0 /\ n # 0
    BY <1>4, <2>5, <2>6 DEF UnderWay, t
  <2>8. Soon(M, R, w.stayed \ In(w.listed), c) \subseteq Soon(M, R, w.stayed \ In(w.listed), a)
    <3>1. \A x \in M : Place(M, R, x) \in 1 .. t
      BY Placed DEF t
    <3>2. \A k \in 1 .. t : k <= c => k <= a
      BY <1>1, <2>2, <2>6
    <3> QED BY <3>1, <3>2 DEF Soon
  <2>9. Cardinality(Soon(M, R, w.stayed \ In(w.listed), c)) <= w.left
    <3>1. Cardinality(Soon(M, R, w.stayed \ In(w.listed), c))
            <= Cardinality(Soon(M, R, w.stayed \ In(w.listed), a))
      BY <2>8, FewOf, FS_Subset
    <3>2. Cardinality(Soon(M, R, w.stayed \ In(w.listed), a)) <= w.left
      BY <2>5 DEF UnderWay
    <3> QED BY <1>4, <3>1, <3>2, WalkNumbers
  <2>10. Cardinality(Late(M, R, In(w.listed), c)) <= z
    <3> DEFINE tail == {x \in M : Place(M, R, x) > c}
    <3>1. IsFiniteSet(tail) /\ Cardinality(tail) = IF t > c THEN t - c ELSE 0
      BY <2>2, TailCount DEF t
    <3>2. Late(M, R, In(w.listed), c) \subseteq tail
      BY DEF Late
    <3> HIDE DEF tail
    <3>3. Cardinality(Late(M, R, In(w.listed), c)) <= Cardinality(tail)
      BY <3>1, <3>2, FS_Subset
    <3>4. Cardinality(tail) <= z /\ Cardinality(tail) \in Nat
      BY <1>1, <2>2, <2>4, <3>1
    <3>5. Cardinality(Late(M, R, In(w.listed), c)) \in Nat
      BY FewOf
    <3> QED BY <1>1, <3>3, <3>4, <3>5
  <2>11. Again(w) + Cardinality(Late(M, R, In(w.listed), c)) <= w.arrived + z
    <3> DEFINE d == Cardinality(Late(M, R, In(w.listed), a))
               e == Cardinality(Late(M, R, In(w.listed), c))
               g == Again(w)
               k == w.arrived
    <3>1. d \in Nat /\ e \in Nat /\ g \in Int /\ k \in Nat
      BY FewOf, WalkNumbers
    <3>2. g + d <= k
      BY <2>5 DEF UnderWay
    <3>3. e <= z
      BY <2>10
    <3> HIDE DEF d, e, g, k
    <3>4. g + e <= k + z
      BY <1>1, <3>1, <3>2, <3>3
    <3> QED BY <3>4 DEF e, g, k
  <2>12. w.stayed \subseteq M
    BY DEF UnderWay
  <2>13. q.last = l /\ t = Cardinality(M) /\ z = Search!size
    BY DEF l, t, z
  <2>14. ~ (q.page < q.last) /\ q.page <= q.last
    BY <1>2, <2>1, <2>13
  <2> QED BY <1>2, <1>5, <2>1, <2>5, <2>7, <2>9, <2>11, <2>12, <2>13, <2>14 DEF UnderWay
<1> QED BY <1>6, <1>7

\* A page of the order, and what it leaves of the rest.
LEMMA PageIs ==
  ASSUME NEW M, NEW R, Ordered(M, R), NEW p \in Nat \ {0}
  PROVE  LET z == Search!size
             t == Cardinality(M)
             to == IF p * z < t THEN p * z ELSE t
             q == Search!page_apps(Order(M, R), p)
         IN /\ to \in Nat /\ to <= t /\ q = SubSeq(Order(M, R), (p - 1) * z + 1, to)
            /\ q \in Seq(M) /\ IsFiniteSet(In(q)) /\ Cardinality(In(q)) = Len(q)
            /\ \A a \in M : a \in In(q)
                 <=> Place(M, R, a) > (p - 1) * z /\ ~ (Place(M, R, a) > p * z)
            /\ In(q) \subseteq M
            /\ \A a \in M : Place(M, R, a) > p * z => Place(M, R, a) > (p - 1) * z
            /\ \A a \in M, k \in Nat : Place(M, R, a) <= k <=> ~ (Place(M, R, a) > k)
<1> DEFINE z == Search!size
           t == Cardinality(M)
           u == p * z
           off == (p - 1) * z
           to == IF u < t THEN u ELSE t
           q == SubSeq(Order(M, R), off + 1, to)
<1>1. z \in Nat \ {0} /\ t \in Nat
  BY SizeIs, Placed
<1>2. u \in Nat /\ off \in Nat /\ off + z = u
  BY <1>1, OnePageOn
<1> HIDE DEF u, off, t, z
<1>3. to \in Nat /\ to <= t
  BY <1>1, <1>2
<1>4. Search!Min({u, t}) = to
  BY <1>1, <1>2 DEF Search!Min
<1>5. Len(Order(M, R)) = t
  BY OrderIs DEF t
<1>6. Search!page_apps(Order(M, R), p) = q
  BY <1>4, <1>5 DEF Search!page_apps, u, z, off
<1> HIDE DEF to
<1>7. IsSlice(q, M, R, off, to)
  <2>1. to <= Cardinality(M)
    BY <1>3 DEF t
  <2> QED BY <1>2, <1>3, <2>1, SliceIs
<1>8. \A a \in M : Place(M, R, a) \in 1 .. t
  BY Placed DEF t
<1>9. \A a \in M : Place(M, R, a) <= to <=> ~ (Place(M, R, a) > u)
  <2> SUFFICES ASSUME NEW k \in 1 .. t PROVE k <= to <=> ~ (k > u)
    BY <1>8
  <2> QED BY <1>1, <1>2 DEF to
<1>10. \A a \in M : Place(M, R, a) > u => Place(M, R, a) > off
  <2> SUFFICES ASSUME NEW k \in 1 .. t, k > u PROVE k > off
    BY <1>8
  <2> QED BY <1>1, <1>2
<1>11. \A a \in M, k \in Nat : Place(M, R, a) <= k <=> ~ (Place(M, R, a) > k)
  <2> SUFFICES ASSUME NEW m \in 1 .. t, NEW k \in Nat PROVE m <= k <=> ~ (m > k)
    BY <1>8
  <2> QED BY <1>1
<1> HIDE DEF q
<1>12. /\ q \in Seq(M) /\ IsFiniteSet(In(q)) /\ Cardinality(In(q)) = Len(q) /\ In(q) \subseteq M
       /\ \A a \in M : a \in In(q) <=> Place(M, R, a) > off /\ Place(M, R, a) <= to
  BY <1>7 DEF IsSlice, Within
<1>13. \A a \in M : a \in In(q) <=> Place(M, R, a) > off /\ ~ (Place(M, R, a) > u)
  BY <1>9, <1>12
<1> QED BY <1>3, <1>6, <1>10, <1>11, <1>12, <1>13 DEF to, q, u, off, t, z

\* A list with a page behind it: what it repeats was before the reader.
Paged(v, w, n, M, R, x) ==
  /\ WalkShape(v, w, n) /\ Ordered(M, R) /\ M \subseteq Listings /\ v.at = "counted"
  /\ x.listed = w.listed \o Search!page_apps(Order(M, R), v.page) /\ x.stayed = w.stayed

PageSeen(v, w, M, R, x) ==
  /\ x.listed \in Seq(Listings)
  /\ In(x.listed) = In(w.listed) \cup In(Search!page_apps(Order(M, R), v.page))
  /\ Again(x) + Cardinality(Late(M, R, In(x.listed), v.page * Search!size))
       = Again(w) + Cardinality(Late(M, R, In(w.listed), Offset(v)))
  /\ Cardinality(Soon(M, R, x.stayed \ In(x.listed), v.page * Search!size))
       <= Cardinality(Soon(M, R, w.stayed \ In(w.listed), Offset(v)))

LEMMA PageCounts ==
  ASSUME NEW v, NEW w, NEW n, NEW M, NEW R, NEW x, Paged(v, w, n, M, R, x)
  PROVE  PageSeen(v, w, M, R, x)
<1> DEFINE p == v.page
           u == p * Search!size
           off == Offset(v)
           q == Search!page_apps(Order(M, R), p)
           S == In(w.listed)
           P == In(q)
<1>1. /\ p \in Nat \ {0} /\ w.listed \in Seq(Listings) /\ off = (p - 1) * Search!size
      /\ M \subseteq Listings /\ Ordered(M, R) /\ WalkShape(v, w, n)
      /\ x.listed = w.listed \o q /\ x.stayed = w.stayed
  BY DEF Paged, WalkShape, Offset
<1>2. /\ q \in Seq(M) /\ IsFiniteSet(P) /\ Cardinality(P) = Len(q) /\ P \subseteq M
      /\ \A a \in M : a \in P <=> Place(M, R, a) > off /\ ~ (Place(M, R, a) > u)
      /\ \A a \in M : Place(M, R, a) > u => Place(M, R, a) > off
      /\ \A a \in M, k \in Nat : Place(M, R, a) <= k <=> ~ (Place(M, R, a) > k)
  BY <1>1, PageIs
<1>3. off \in Nat /\ u \in Nat
  BY <1>1, Offsets
<1> HIDE DEF q, u, off, p
<1>4. q \in Seq(Listings)
  BY <1>1, <1>2
<1>5. x.listed = w.listed \o q
  BY <1>1
<1>6. /\ x.listed \in Seq(Listings) /\ Len(x.listed) = Len(w.listed) + Len(q)
      /\ Len(w.listed) \in Nat /\ Len(q) \in Nat
  BY <1>1, <1>4, <1>5, ConcatProperties, LenProperties
<1>7. In(x.listed) = S \cup P
  <2> DEFINE m == Len(w.listed)
             k == Len(q)
             y == x.listed
  <2>1. /\ m \in Nat /\ k \in Nat /\ DOMAIN w.listed = 1 .. m /\ DOMAIN q = 1 .. k
        /\ DOMAIN y = 1 .. m + k
        /\ \A i \in 1 .. m + k : y[i] = IF i <= m THEN w.listed[i] ELSE q[i - m]
    BY <1>1, <1>4, <1>5, <1>6, ConcatProperties, LenProperties
  <2> HIDE DEF m, k, y
  <2>2. \A i \in 1 .. m : i \in 1 .. m + k /\ y[i] = w.listed[i]
    BY <2>1
  <2>3. \A i \in 1 .. k : i + m \in 1 .. m + k /\ y[i + m] = q[i]
    BY <2>1
  <2>4. \A i \in 1 .. m + k : (i \in 1 .. m /\ y[i] = w.listed[i])
          \/ (i - m \in 1 .. k /\ y[i] = q[i - m])
    BY <2>1
  <2>5. In(y) = In(w.listed) \cup In(q)
    <3>1. In(y) \subseteq In(w.listed) \cup In(q)
      BY <2>1, <2>4 DEF In
    <3>2. In(w.listed) \subseteq In(y)
      BY <2>1, <2>2 DEF In
    <3>3. In(q) \subseteq In(y)
      BY <2>1, <2>3 DEF In
    <3> QED BY <3>1, <3>2, <3>3
  <2> QED BY <2>5 DEF y
<1> DEFINE L == Late(M, R, S, off)
           K == Late(M, R, In(x.listed), u)
<1>8. L = K \cup (S \cap P) /\ K \cap (S \cap P) = {}
  BY <1>2, <1>7 DEF Late
<1>9. IsFiniteSet(S)
  BY <1>1, InFinite
<1>10. /\ IsFiniteSet(L) /\ IsFiniteSet(K) /\ Cardinality(L) \in Nat /\ Cardinality(K) \in Nat
       /\ IsFiniteSet(S \cap P)
  BY <1>1, <1>9, FewOf, FS_Intersection
<1> HIDE DEF S, P, L, K
<1>11. Again(x) = Len(x.listed) - Cardinality(S \cup P) /\ Again(w) = Len(w.listed) - Cardinality(S)
  BY <1>7 DEF Again, S
<1>12. Cardinality(L) = Cardinality(K) + Cardinality(S \cap P) - Cardinality({})
  BY <1>8, <1>10, FS_Union
<1>13. Cardinality(S \cup P) = Cardinality(S) + Cardinality(P) - Cardinality(S \cap P)
  BY <1>2, <1>9, FS_Union
<1>14. Again(x) + Cardinality(K) = Again(w) + Cardinality(L)
  <2> DEFINE a == Cardinality(S)
             b == Cardinality(P)
             c == Cardinality(S \cap P)
             d == Cardinality(S \cup P)
             e == Cardinality({})
             l == Cardinality(L)
             k == Cardinality(K)
             m == Len(w.listed)
             o == Len(q)
  <2>1. /\ {a, b, c, d, e, l, k, m, o} \subseteq Nat /\ e = 0 /\ b = o
    <3>1. IsFiniteSet(S \cup P)
      BY <1>2, <1>9, FS_Union
    <3> QED BY <1>2, <1>6, <1>9, <1>10, <3>1, FS_CardinalityType, FS_EmptySet
  <2> DEFINE r == Len(x.listed)
             g == Again(x)
             h == Again(w)
  <2>2. l = k + c - e /\ d = a + b - c /\ g = r - d /\ h = m - a /\ r = m + o
    BY <1>6, <1>11, <1>12, <1>13
  <2> HIDE DEF a, b, c, d, e, l, k, m, o, r, g, h
  <2>3. /\ a \in Nat /\ c \in Nat /\ k \in Nat /\ m \in Nat /\ o \in Nat
        /\ l = k + c - 0 /\ d = a + o - c /\ g = (m + o) - d /\ h = m - a
    BY <2>1, <2>2
  <2>4. g + k = h + l
    BY <2>3
  <2> QED BY <2>4 DEF k, l, g, h
<1>15. Cardinality(Soon(M, R, x.stayed \ In(x.listed), u))
         <= Cardinality(Soon(M, R, w.stayed \ S, off))
  <2>1. Soon(M, R, x.stayed \ In(x.listed), u) \subseteq Soon(M, R, w.stayed \ S, off)
    BY <1>1, <1>2, <1>3, <1>7 DEF Soon
  <2> QED BY <1>1, <2>1, FewOf, FS_Subset
<1> QED BY <1>6, <1>7, <1>14, <1>15 DEF PageSeen, S, P, K, L, q, u, off, p

LEMMA Continued ==
  ASSUME NEW S, NEW seq \in Seq(S), NEW k \in Nat, NEW m \in Nat, k <= m, m <= Len(seq)
  PROVE  SubSeq(seq, 1, k) \o SubSeq(seq, k + 1, m) = SubSeq(seq, 1, m)
OBVIOUS

LEMMA SliceTells ==
  ASSUME NEW v, NEW w, NEW n, WalkShape(v, w, n), NEW M, NEW R, Ordered(M, R), M \subseteq Listings,
         v.at = "counted", UnderWay(v, w, M, R, n),
         NEW x, x.listed = w.listed \o Search!page_apps(Order(M, R), v.page),
         x.stayed = w.stayed, x.arrived = w.arrived, x.left = w.left, x.unseen = w.unseen,
         NEW q, q.page = v.page, q.last = v.last,
         q.at = IF v.page < v.last THEN "sliced" ELSE "last"
  PROVE  /\ q.at = "sliced" => UnderWay(q, x, M, R, n)
         /\ q.at = "last" => Over(x, M, R, n)
<1> DEFINE p == v.page
           z == Search!size
           t == Cardinality(M)
           u == p * z
           off == Offset(v)
           slice == Search!page_apps(Order(M, R), p)
           d == Cardinality(Late(M, R, In(w.listed), off))
           e == Cardinality(Late(M, R, In(x.listed), u))
           g == Again(w)
           h == Again(x)
           s == Cardinality(Soon(M, R, w.stayed \ In(w.listed), off))
           r == Cardinality(Soon(M, R, x.stayed \ In(x.listed), u))
           gone == w.left
           came == w.arrived
           late == w.unseen
<1>1. /\ p \in Nat \ {0} /\ p <= v.last /\ v.last \in Nat \ {0} /\ off = (p - 1) * z
      /\ z \in Nat \ {0} /\ u \in Nat /\ off \in Nat /\ off + z = u /\ t \in Nat
  BY Offsets, Placed DEF WalkShape, Offset
<1>2. h + e = g + d /\ r <= s /\ x.listed \in Seq(Listings)
  <2>1. Paged(v, w, n, M, R, x)
    BY DEF Paged
  <2> HIDE DEF slice, e, d, g, h, s, r
  <2>2. PageSeen(v, w, M, R, x)
    BY <2>1, PageCounts
  <2> QED BY <2>2 DEF PageSeen, e, d, g, h, s, r
<1>3. /\ d \in Nat /\ e \in Nat /\ s \in Nat /\ r \in Nat /\ g \in Int
      /\ gone \in Nat /\ came \in Nat /\ late \in Nat /\ n \in Nat
      /\ n = 0 => gone = 0 /\ late = 0
  BY WalkNumbers, FewOf
<1>4. h \in Int
  <2> DEFINE a == Len(x.listed)
             b == Cardinality(In(x.listed))
  <2>1. a \in Nat /\ b \in Nat
    BY <1>2, InFinite, LenProperties
  <2>2. h = a - b
    BY DEF Again
  <2> HIDE DEF a, b, h
  <2> QED BY <2>1, <2>2
<1>5. /\ x.stayed \subseteq M /\ s <= gone
      /\ \/ g + d <= came
         \/ p = v.last /\ gone > 0 /\ g + d <= came + z
      /\ gone = 0 => off = 0 \/ off < t
      /\ n = 0 => w.listed = SubSeq(Order(M, R), 1, off)
      /\ t <= v.last * z + late
      /\ gone = 0 /\ p < v.last => u < t
  BY DEF UnderWay
<1>6. /\ Order(M, R) \in Seq(M) /\ Len(Order(M, R)) = t
      /\ slice = SubSeq(Order(M, R), off + 1, IF u < t THEN u ELSE t)
  <2>1. Order(M, R) \in Seq(M) /\ Len(Order(M, R)) = t
    BY OrderIs
  <2>2. slice = SubSeq(Order(M, R), (p - 1) * z + 1, IF u < t THEN u ELSE t)
    BY <1>1, PageIs
  <2> HIDE DEF slice, u, t, off, p, z
  <2> QED BY <1>1, <2>1, <2>2
<1>7. x.listed = w.listed \o slice
  OBVIOUS
<1> HIDE DEF p, z, t, u, off, slice, d, e, g, h, s, r, gone, came, late
<1>8. ASSUME n = 0
      PROVE  x.listed = SubSeq(Order(M, R), 1, IF u < t THEN u ELSE t)
  <2> DEFINE m == IF u < t THEN u ELSE t
  <2>1. m \in Nat /\ m <= t /\ off <= m
    BY <1>1, <1>3, <1>5, <1>8
  <2>2. w.listed = SubSeq(Order(M, R), 1, off) /\ slice = SubSeq(Order(M, R), off + 1, m)
    BY <1>5, <1>6, <1>8
  <2> HIDE DEF m
  <2>3. SubSeq(Order(M, R), 1, off) \o SubSeq(Order(M, R), off + 1, m) = SubSeq(Order(M, R), 1, m)
    BY <1>1, <1>6, <2>1, Continued, ZenonT(40)
  <2> QED BY <1>7, <2>2, <2>3 DEF m
<1>9. CASE p < v.last
  <2>1. q.at = "sliced" /\ Offset(q) = u
    BY <1>9 DEF p, Offset, u, z
  <2>2. r <= gone /\ h + e <= came
    <3>1. r <= s /\ s <= gone /\ h + e = g + d
      BY <1>2, <1>5
    <3>2. p # v.last
      <4> DEFINE l == v.last
      <4>1. p < l /\ p \in Nat /\ l \in Nat
        BY <1>1, <1>9
      <4> HIDE DEF l
      <4>2. p # l
        BY <4>1
      <4> QED BY <4>2 DEF l
    <3>3. g + d <= came
      BY <1>5, <3>2
    <3>4. r <= gone
      BY <1>3, <3>1
    <3> QED BY <3>1, <3>3, <3>4
  <2>3. gone = 0 => u < t
    BY <1>5, <1>9
  <2>4. n = 0 => x.listed = SubSeq(Order(M, R), 1, u)
    BY <1>3, <1>8, <2>3
  <2>5. UnderWay(q, x, M, R, n)
    BY <1>5, <2>1, <2>2, <2>3, <2>4 DEF UnderWay, e, r, h, gone, came, t
  <2> QED BY <2>1, <2>5
<1>10. CASE ~ (p < v.last)
  <2>1. p = v.last /\ q.at = "last"
    BY <1>1, <1>10 DEF p
  <2>2. t <= u + late
    BY <1>5, <2>1 DEF u
  <2> DEFINE tail == {a \in M : Place(M, R, a) > u}
             k == Cardinality(tail)
             f == Cardinality(x.stayed \ In(x.listed))
             A == Soon(M, R, x.stayed \ In(x.listed), u)
  <2>3. IsFiniteSet(tail) /\ k = IF t > u THEN t - u ELSE 0
    BY <1>1, TailCount DEF t
  <2>4. k \in Nat /\ k <= late
    BY <1>1, <1>3, <2>2, <2>3
  <2>5. x.stayed \ In(x.listed) \subseteq A \cup tail
    <3>1. \A a \in M : Place(M, R, a) <= u <=> ~ (Place(M, R, a) > u)
      BY <1>1, PageIs
    <3> QED BY <1>5, <3>1 DEF Soon
  <2>6. IsFiniteSet(A)
    BY FewOf
  <2> HIDE DEF tail, A
  <2>7. f <= Cardinality(A) + k
    <3>1. /\ IsFiniteSet(A \cup tail)
          /\ Cardinality(A \cup tail)
               = Cardinality(A) + Cardinality(tail) - Cardinality(A \cap tail)
      BY <2>3, <2>6, FS_Union
    <3>2. f <= Cardinality(A \cup tail) /\ IsFiniteSet(x.stayed \ In(x.listed))
      BY <2>5, <3>1, FS_Subset
    <3>3. Cardinality(A \cap tail) \in Nat /\ Cardinality(A) \in Nat /\ f \in Nat
          /\ Cardinality(A \cup tail) \in Nat
      BY <2>6, <3>1, <3>2, FS_Intersection, FS_CardinalityType
    <3> DEFINE a == Cardinality(A)
               b == Cardinality(A \cup tail)
               c == Cardinality(A \cap tail)
    <3> HIDE DEF a, b, c, k, f
    <3>4. b = a + k - c /\ f <= b /\ a \in Nat /\ b \in Nat /\ c \in Nat /\ k \in Nat /\ f \in Nat
      BY <2>4, <3>1, <3>2, <3>3 DEF a, b, c, k, f
    <3>5. f <= a + k
      BY <3>4
    <3> QED BY <3>5 DEF a
  <2>8. Cardinality(A) = r
    BY DEF A, r, u, z, p
  <2> HIDE DEF k, f
  <2>9. f \in Nat
    <3>1. IsFiniteSet(x.stayed \ In(x.listed))
      <4>1. IsFiniteSet(A \cup tail)
        BY <2>3, <2>6, FS_Union
      <4> QED BY <2>5, <4>1, FS_Subset
    <3> QED BY <3>1, FS_CardinalityType DEF f
  <2>10. f <= gone + late
    BY <1>2, <1>3, <1>5, <2>4, <2>7, <2>8, <2>9
  <2>11. h <= came + (IF gone > 0 THEN z ELSE 0)
    BY <1>1, <1>2, <1>3, <1>4, <1>5
  <2>12. n = 0 => x.listed = Order(M, R)
    <3> SUFFICES ASSUME n = 0 PROVE x.listed = Order(M, R)
      OBVIOUS
    <3>1. (IF u < t THEN u ELSE t) = t
      BY <1>1, <1>3, <2>2
    <3>2. x.listed = SubSeq(Order(M, R), 1, t)
      BY <1>8, <3>1
    <3>3. SubSeq(Order(M, R), 1, t) = Order(M, R)
      BY <1>6
    <3> QED BY <3>2, <3>3
  <2> QED BY <2>1, <2>10, <2>11, <2>12 DEF Over, f, h, gone, came, late, z
<1> QED BY <1>9, <1>10

\* A match that arrives.
LEMMA ArriveTells ==
  ASSUME NEW v, NEW w, NEW n, WalkShape(v, w, n),
         NEW M, NEW R, NEW a, NEW N, NEW Q, Joined(M, R, a, N, Q), UnderWay(v, w, M, R, n),
         NEW x, x.listed = w.listed, x.stayed = w.stayed, x.arrived = w.arrived + 1,
         x.left = w.left, x.unseen = IF v.at = "counted" THEN w.unseen + 1 ELSE w.unseen
  PROVE  UnderWay(v, x, N, Q, n + 1)
<1> DEFINE off == Offset(v)
           z == Search!size
           S == In(w.listed)
           d == Cardinality(Late(M, R, S, off))
           e == Cardinality(Late(N, Q, S, off))
           s == Cardinality(Soon(M, R, w.stayed \ S, off))
           r == Cardinality(Soon(N, Q, w.stayed \ S, off))
           g == Again(w)
           t == Cardinality(M)
           u == Cardinality(N)
           gone == w.left
           came == w.arrived
           late == w.unseen
           b == v.last * z
           c == v.page * z
<1>1. Ordered(M, R) /\ Ordered(N, Q) /\ M \subseteq N
  BY DEF Joined
<1>2. off \in Nat /\ z \in Nat \ {0} /\ c \in Nat /\ b \in Nat
  <2>1. off \in Nat /\ z \in Nat \ {0} /\ c \in Nat
    BY Offsets, Zenon
  <2>2. v.last \in Nat
    BY DEF WalkShape
  <2> DEFINE l == v.last
  <2> HIDE DEF z, l
  <2>3. l * z \in Nat
    BY <2>1, <2>2 DEF l
  <2> QED BY <2>1, <2>3 DEF l, z
<1>3. /\ d \in Nat /\ e \in Nat /\ s \in Nat /\ r \in Nat /\ g \in Int
      /\ gone \in Nat /\ came \in Nat /\ late \in Nat /\ n \in Nat
      /\ t \in Nat /\ u \in Nat
  BY <1>1, WalkNumbers
<1>4. /\ w.stayed \subseteq M /\ s <= gone
      /\ \/ g + d <= came
         \/ v.at = "counted" /\ v.page = v.last /\ gone > 0 /\ g + d <= came + z
      /\ gone = 0 => off = 0 \/ off < t
      /\ v.at = "counted" => t <= b + late /\ (gone = 0 /\ v.page < v.last => c < t)
  BY DEF UnderWay
<1>5. e <= d + 1 /\ r <= s /\ u = t + 1
  <2>1. w.stayed \ S \subseteq M
    BY <1>4
  <2> QED BY <1>2, <2>1, JoinedCounts
<1>6. Again(x) = g
  BY DEF Again
<1> HIDE DEF off, z, S, d, e, s, r, g, t, u, gone, came, late, b, c
<1>7. r <= gone
  BY <1>3, <1>4, <1>5
<1>8. \/ g + e <= came + 1
      \/ v.at = "counted" /\ v.page = v.last /\ gone > 0 /\ g + e <= (came + 1) + z
  BY <1>2, <1>3, <1>4, <1>5
<1>9. gone = 0 => off = 0 \/ off < u
  BY <1>2, <1>3, <1>4, <1>5
<1>10. v.at = "counted" => u <= b + (late + 1) /\ (gone = 0 /\ v.page < v.last => c < u)
  BY <1>2, <1>3, <1>4, <1>5
<1>11. n + 1 # 0
  BY <1>3
<1>12. w.stayed \subseteq N
  BY <1>1, <1>4
<1> QED BY <1>6, <1>7, <1>8, <1>9, <1>10, <1>11, <1>12
    DEF UnderWay, off, z, S, e, r, g, u, gone, came, late, b, c

\* A match that leaves.
LEMMA LeaveTells ==
  ASSUME NEW v, NEW w, NEW n, WalkShape(v, w, n),
         NEW M, NEW R, NEW a, NEW N, NEW Q, Joined(N, Q, a, M, R), UnderWay(v, w, M, R, n),
         NEW x, x.listed = w.listed, x.stayed = w.stayed \ {a}, x.arrived = w.arrived,
         x.left = w.left + 1, x.unseen = w.unseen
  PROVE  UnderWay(v, x, N, Q, n + 1)
<1> DEFINE off == Offset(v)
           z == Search!size
           S == In(w.listed)
           T == w.stayed \ S
           d == Cardinality(Late(M, R, S, off))
           e == Cardinality(Late(N, Q, S, off))
           s == Cardinality(Soon(M, R, T, off))
           r == Cardinality(Soon(N, Q, x.stayed \ S, off))
           g == Again(w)
           t == Cardinality(M)
           u == Cardinality(N)
           gone == w.left
           came == w.arrived
           late == w.unseen
           b == v.last * z
<1>1. Ordered(M, R) /\ Ordered(N, Q) /\ M = N \cup {a}
  BY DEF Joined
<1>2. off \in Nat /\ z \in Nat \ {0} /\ b \in Nat
  <2>1. off \in Nat /\ z \in Nat \ {0}
    BY Offsets, Zenon
  <2>2. v.last \in Nat
    BY DEF WalkShape
  <2> DEFINE l == v.last
  <2> HIDE DEF z, l
  <2>3. l * z \in Nat
    BY <2>1, <2>2 DEF l
  <2> QED BY <2>1, <2>3 DEF l, z
<1>3. /\ d \in Nat /\ e \in Nat /\ s \in Nat /\ r \in Nat /\ g \in Int
      /\ gone \in Nat /\ came \in Nat /\ late \in Nat /\ n \in Nat
      /\ t \in Nat /\ u \in Nat
  <2>1. r \in Nat
    BY <1>1, FewOf
  <2> QED BY <1>1, <2>1, WalkNumbers
<1>4. /\ w.stayed \subseteq M /\ s <= gone
      /\ \/ g + d <= came
         \/ v.at = "counted" /\ v.page = v.last /\ gone > 0 /\ g + d <= came + z
      /\ v.at = "counted" => t <= b + late
  BY DEF UnderWay
<1>5. e <= d /\ t = u + 1
  BY <1>2, JoinedCounts
<1>6. r <= s + 1
  <2>1. x.stayed \ S \subseteq T
    OBVIOUS
  <2> HIDE DEF T
  <2> QED BY <1>2, <2>1, JoinedCounts
<1>7. Again(x) = g
  BY DEF Again
<1> HIDE DEF off, z, S, d, e, s, r, g, t, u, gone, came, late, b, T
<1>8. r <= gone + 1 /\ gone + 1 # 0
  BY <1>3, <1>4, <1>6
<1>9. \/ g + e <= came
      \/ v.at = "counted" /\ v.page = v.last /\ gone + 1 > 0 /\ g + e <= came + z
  BY <1>2, <1>3, <1>4, <1>5
<1>10. v.at = "counted" => u <= b + late
  BY <1>2, <1>3, <1>4, <1>5
<1>11. n + 1 # 0
  BY <1>3
<1>12. x.stayed \subseteq N
  BY <1>1, <1>4
<1> QED BY <1>7, <1>8, <1>9, <1>10, <1>11, <1>12
    DEF UnderWay, off, z, S, e, r, g, u, gone, came, late, b

\* Another application comes or goes.
LEMMA StayTells ==
  ASSUME NEW v, NEW w, NEW n, n \in Nat, NEW M, NEW R, UnderWay(v, w, M, R, n),
         NEW x, x.listed = w.listed, x.stayed = w.stayed, x.arrived = w.arrived,
         x.left = w.left, x.unseen = w.unseen
  PROVE  UnderWay(v, x, M, R, n + 1)
<1>1. n + 1 # 0
  OBVIOUS
<1>2. Again(x) = Again(w)
  BY DEF Again
<1> QED BY <1>1, <1>2 DEF UnderWay

LEMMA OverStays ==
  ASSUME NEW v, NEW w, NEW n, WalkShape(v, w, n), NEW M, NEW R, Over(w, M, R, n),
         NEW x, x.listed = w.listed, x.stayed \subseteq w.stayed, x.arrived = w.arrived,
         x.left = w.left, x.unseen = w.unseen, NEW N, NEW Q
  PROVE  Over(x, N, Q, n + 1)
<1>1. n + 1 # 0
  BY DEF WalkShape
<1>2. Again(x) = Again(w)
  BY DEF Again
<1> DEFINE A == w.stayed \ In(w.listed)
           B == x.stayed \ In(w.listed)
<1>3. IsFiniteSet(A) /\ B \subseteq A
  <2>1. A \subseteq Listings /\ IsFiniteSet(Listings)
    BY SearchConstants DEF WalkShape
  <2> QED BY <2>1, FS_Subset
<1> HIDE DEF A, B
<1>4. Cardinality(B) <= Cardinality(A) /\ Cardinality(B) \in Nat /\ Cardinality(A) \in Nat
  BY <1>3, FS_Subset, FS_CardinalityType
<1>5. Cardinality(A) <= w.left + w.unseen /\ w.left + w.unseen \in Nat
  BY DEF Over, A, WalkShape
<1>6. Cardinality(B) <= w.left + w.unseen
  BY <1>4, <1>5
<1> QED BY <1>1, <1>2, <1>6 DEF Over, B

\* The first page begins before every match.
LEMMA BeginTells ==
  ASSUME NEW v, NEW w, NEW n, WalkShape(v, w, n), NEW M, NEW R, Ordered(M, R),
         v.at = "open", v.page = 1, w.listed = <<>>, w.stayed = M
  PROVE  UnderWay(v, w, M, R, n)
<1>1. Offset(v) = 0
  BY Offsets
<1>2. In(w.listed) = {}
  BY DEF In
<1>3. Again(w) = 0
  BY <1>2, FS_EmptySet DEF Again
<1>4. \A a \in M : ~ (Place(M, R, a) <= 0)
  <2>1. \A a \in M : Place(M, R, a) \in 1 .. Cardinality(M)
    BY Placed
  <2> QED BY <2>1, Placed
<1>5. Soon(M, R, w.stayed \ In(w.listed), 0) = {} /\ Late(M, R, In(w.listed), 0) = {}
  BY <1>2, <1>4 DEF Soon, Late
<1>6. w.left \in Nat /\ w.arrived \in Nat /\ n \in Nat
  BY DEF WalkShape
<1>7. w.listed = SubSeq(Order(M, R), 1, 0)
  OBVIOUS
<1>8. /\ Cardinality(Soon(M, R, w.stayed \ In(w.listed), Offset(v))) <= w.left
      /\ Again(w) + Cardinality(Late(M, R, In(w.listed), Offset(v))) <= w.arrived
  <2>1. /\ Cardinality(Soon(M, R, w.stayed \ In(w.listed), Offset(v))) = 0
        /\ Cardinality(Late(M, R, In(w.listed), Offset(v))) = 0
    BY <1>1, <1>5, FS_EmptySet
  <2> QED BY <1>3, <1>6, <2>1
<1> QED BY <1>1, <1>7, <1>8 DEF UnderWay

\* The next page begins where the last one ended.
LEMMA FollowTells ==
  ASSUME NEW v, NEW w, NEW n, WalkShape(v, w, n), NEW M, NEW R, v.at = "sliced",
         UnderWay(v, w, M, R, n), NEW q, q.at = "open", q.page = v.page + 1,
         NEW x, x.listed = w.listed, x.stayed = w.stayed, x.arrived = w.arrived,
         x.left = w.left, x.unseen = w.unseen
  PROVE  UnderWay(q, x, M, R, n)
<1>1. Offset(q) = Offset(v)
  <2>1. v.page \in Nat \ {0} /\ Search!size \in Nat
    BY SizeIs DEF WalkShape
  <2>2. q.page - 1 = v.page
    BY <2>1
  <2>3. Offset(q) = (q.page - 1) * Search!size /\ Offset(v) = v.page * Search!size
    BY DEF Offset
  <2> QED BY <2>2, <2>3
<1>2. Again(x) = Again(w)
  BY DEF Again
<1> QED BY <1>1, <1>2 DEF UnderWay

Found(acc, v) == Matches(acc, v.link.keyword, v.tags)
Ranks(acc, v) == Ranked(acc, v.link.keyword, v.tags)

\* The filter is what the link of the page carries on, as long as nothing is edited.
Settled(v) ==
  \/ v.link.tag \in Active /\ v.tags = Resolving[v.link.tag] /\ v.link.cluster = None
  \/ /\ v.link.tag = None /\ v.link.cluster \in DOMAIN Clusters
     /\ Clusters[v.link.cluster] \cap Active # {}
     /\ v.tags = UNION {Resolving[t] : t \in Clusters[v.link.cluster] \cap Active}
  \/ v.tags = {} /\ v.link.tag = None /\ v.link.cluster = None

\* A page is for a tag, or for a cluster, or for neither, and then for no tags.
OneFilter(v) ==
  /\ v.link.tag # None => v.link.cluster = None
  /\ v.tags = {} <=> v.link.tag = None /\ v.link.cluster = None

FilterTells(v, w) ==
  /\ w.filter \in {"kept", "lost", "exchanged"} /\ OneFilter(v) /\ (curations = 0 => Settled(v))
  /\ v.at = "idle" => w.filter = "kept"
  /\ w.filter # "lost" => v.link = w.asked
  /\ w.filter = "lost" =>
       /\ v.tags = {} /\ v.link = [w.asked EXCEPT !.tag = None, !.cluster = None]
       /\ IF w.asked.tag # None THEN w.asked.tag \notin valid ELSE w.unread \/ curations > 0
  /\ w.filter = "exchanged" => curations > 0

VocabularyTells ==
  /\ valid \subseteq Search!Vocabulary
  /\ meaning \in [Search!Vocabulary -> SUBSET Search!Vocabulary]
  /\ \A t \in Search!Vocabulary : t \in meaning[t]
  /\ DOMAIN shelf \subseteq DOMAIN Clusters
  /\ \A c \in DOMAIN shelf : shelf[c] \subseteq Search!Vocabulary
  /\ curations \in 0 .. MaxEdits
  /\ curations = 0 => valid = Active /\ meaning = Resolving /\ shelf = Clusters

SearchShape(acc, n, v, w) ==
  /\ acc \in [Listings -> 0 .. MaxMoves + 2] /\ n \in 0 .. MaxMoves
  /\ WalkShape(v, w, n) /\ FilterTells(v, w)

SearchTells(acc, n, v, w) ==
  SearchShape(acc, n, v, w) /\ WalkTells(v, w, Found(acc, v), Ranks(acc, v), n)

SearchInv == SearchTells(accepted, arrivals, visit, walk) /\ VocabularyTells

VocabularyStays == valid' = valid /\ meaning' = meaning /\ shelf' = shelf /\ curations' = curations

LEMMA SearchTypes ==
  ASSUME SearchInv
  PROVE  /\ accepted \in [Listings -> Nat] /\ SearchShape(accepted, arrivals, visit, walk)
         /\ WalkShape(visit, walk, arrivals) /\ FilterTells(visit, walk)
         /\ WalkTells(visit, walk, Found(accepted, visit), Ranks(accepted, visit), arrivals)
         /\ VocabularyTells /\ visit.link.keyword \in Search!Keywords
         /\ Ordered(Found(accepted, visit), Ranks(accepted, visit))
         /\ Found(accepted, visit) \subseteq Listings
         /\ Search!neutral_order(visit.link.keyword, visit.tags)
              = Order(Found(accepted, visit), Ranks(accepted, visit))
         /\ Search!Under(visit) = Found(accepted, visit)
<1>1. SearchShape(accepted, arrivals, visit, walk)
  BY DEF SearchInv, SearchTells
<1>2. accepted \in [Listings -> Nat]
  BY <1>1, SearchConstants DEF SearchShape
<1>3. visit.link.keyword \in Search!Keywords
  BY <1>1 DEF SearchShape, WalkShape, Search!Links
<1>4. /\ Ordered(Found(accepted, visit), Ranks(accepted, visit))
      /\ Found(accepted, visit) \subseteq Listings
  BY <1>2, <1>3, StrictOrder DEF Found, Ranks
<1>5. /\ Search!neutral_order(visit.link.keyword, visit.tags)
            = Order(Found(accepted, visit), Ranks(accepted, visit))
      /\ Search!Under(visit) = Found(accepted, visit)
  BY <1>2, <1>3, NeutralOrder DEF Found, Ranks, Search!Under
<1> QED BY <1>1, <1>2, <1>3, <1>4, <1>5 DEF SearchInv, SearchTells, SearchShape

\* The next state by its parts.
LEMMA SearchStays ==
  ASSUME NEW acc, NEW n, NEW v, NEW w, SearchTells(acc, n, v, w),
         accepted' = acc, arrivals' = n, visit' = v, walk' = w,
         FilterTells(visit, walk)', VocabularyTells'
  PROVE  SearchInv'
<1> DEFINE M == Found(acc, v)
           R == Ranks(acc, v)
<1>1. Found(accepted, visit)' = M /\ Ranks(accepted, visit)' = R
  BY DEF Found, Ranks, Matches, Ranked, Beats, Suits
<1>2. SearchShape(accepted, arrivals, visit, walk)'
  BY DEF SearchTells, SearchShape, WalkShape
<1> HIDE DEF M, R
<1>3. Offset(visit)' = Offset(v) /\ Again(walk)' = Again(w) /\ In(walk.listed)' = In(w.listed)
  BY DEF Offset, Again, In
<1>4. Late(Found(accepted, visit), Ranks(accepted, visit), In(walk.listed), Offset(visit))'
        = Late(M, R, In(w.listed), Offset(v))
  BY <1>1, <1>3 DEF Late, Place
<1>5. Soon(Found(accepted, visit), Ranks(accepted, visit),
           walk.stayed \ In(walk.listed), Offset(visit))'
        = Soon(M, R, w.stayed \ In(w.listed), Offset(v))
  BY <1>1, <1>3 DEF Soon, Place
<1>6. Order(Found(accepted, visit), Ranks(accepted, visit))' = Order(M, R)
  BY <1>1 DEF Order, Place
<1>7. WalkTells(v, w, M, R, n)
  BY DEF SearchTells, M, R
<1>8. UnderWay(v, w, M, R, n)
        => UnderWay(visit, walk, Found(accepted, visit), Ranks(accepted, visit), arrivals)'
  BY <1>1, <1>3, <1>4, <1>5, <1>6 DEF UnderWay
<1>9. Over(w, M, R, n) => Over(walk, Found(accepted, visit), Ranks(accepted, visit), arrivals)'
  BY <1>1, <1>3, <1>6 DEF Over
<1>10. WalkTells(visit, walk, Found(accepted, visit), Ranks(accepted, visit), arrivals)'
  BY <1>7, <1>8, <1>9 DEF WalkTells
<1> QED BY <1>2, <1>10 DEF SearchInv, SearchTells

LEMMA SearchStands ==
  ASSUME NEW acc, NEW n, NEW v, NEW w, SearchTells(acc, n, v, w), VocabularyTells,
         accepted' = acc, arrivals' = n, visit' = v, walk' = w, VocabularyStays
  PROVE  SearchInv'
<1>1. FilterTells(v, w)
  BY DEF SearchTells, SearchShape
<1>2. FilterTells(visit, walk)'
  BY <1>1 DEF FilterTells, Settled, OneFilter, VocabularyStays
<1>3. VocabularyTells'
  BY DEF VocabularyTells, VocabularyStays
<1> QED BY <1>2, <1>3, SearchStays

LEMMA SearchStart == Search!SearchInit => SearchInv
<1> SUFFICES ASSUME Search!SearchInit PROVE SearchInv
  OBVIOUS
<1>1. /\ accepted \in [Listings -> 0 .. 1] /\ arrivals = 0
      /\ valid = Active /\ meaning = Resolving /\ shelf = Clusters /\ curations = 0
      /\ visit = [at |-> "idle", tags |-> {}, page |-> 1, last |-> 1,
                  link |-> [keyword |-> None, tag |-> None, cluster |-> None]]
      /\ walk = [listed |-> <<>>, stayed |-> {}, arrived |-> 0, left |-> 0, unseen |-> 0,
                 asked |-> [keyword |-> None, tag |-> None, cluster |-> None],
                 filter |-> "kept", unread |-> FALSE]
  BY DEF Search!SearchInit, Search!NoLink
<1>2. accepted \in [Listings -> 0 .. MaxMoves + 2] /\ arrivals \in 0 .. MaxMoves
  BY <1>1, SearchConstants
<1>3. WalkShape(visit, walk, arrivals)
  BY <1>1 DEF WalkShape, WalkParts, Search!Links, Search!Keywords
<1>4. /\ FilterTells(visit, walk)
      /\ WalkTells(visit, walk, Found(accepted, visit), Ranks(accepted, visit), arrivals)
  BY <1>1 DEF FilterTells, WalkTells, Settled, OneFilter
<1>5. VocabularyTells
  <2>1. curations \in 0 .. MaxEdits
    BY <1>1, SearchConstants
  <2> QED BY <1>1, <2>1, SearchConstants DEF VocabularyTells
<1> QED BY <1>2, <1>3, <1>4, <1>5 DEF SearchInv, SearchTells, SearchShape

\* resolve_filter: a tag, or a cluster that can be looked up, or nothing.
Bare(link) == [link EXCEPT !.tag = None, !.cluster = None]

LEMMA Resolved ==
  ASSUME NEW link \in Search!Links, NEW facets \in BOOLEAN, VocabularyTells, NEW q,
         q.link = Search!resolve_filter(link, facets).link,
         q.tags = Search!resolve_filter(link, facets).tags
  PROVE  /\ q.link \in Search!Links /\ q.link.keyword = link.keyword /\ OneFilter(q)
         /\ curations = 0 => Settled(q)
         /\ \/ /\ link.tag \in valid /\ q.link.tag = link.tag /\ q.tags # {}
               /\ link.cluster = None => q.link = link
            \/ /\ link.tag \notin valid /\ facets /\ q.link.tag = None /\ q.tags # {}
               /\ link.tag = None => q.link = link
            \/ /\ link.tag \notin valid /\ q.tags = {} /\ q.link = Bare(link)
               /\ facets => Search!cluster_tags(link, TRUE) = {}
<1> DEFINE tagged == [link EXCEPT !.cluster = None]
           shelved == [link EXCEPT !.tag = None]
           bare == Bare(link)
           mine == Search!cluster_tags(link, facets)
<1>1. /\ link.keyword \in Search!Keywords /\ link.tag \in Search!Vocabulary \cup {None}
      /\ link.cluster \in DOMAIN Clusters \cup {None}
  BY DEF Search!Links
<1>2. /\ tagged \in Search!Links /\ tagged.keyword = link.keyword /\ tagged.tag = link.tag
      /\ tagged.cluster = None /\ (link.cluster = None => tagged = link)
      /\ shelved \in Search!Links /\ shelved.keyword = link.keyword /\ shelved.tag = None
      /\ shelved.cluster = link.cluster /\ (link.tag = None => shelved = link)
      /\ bare \in Search!Links /\ bare.keyword = link.keyword /\ bare.tag = None
      /\ bare.cluster = None
  BY DEF Search!Links, Bare
<1>3. /\ None \notin Search!Vocabulary /\ None \notin DOMAIN Clusters
      /\ valid \subseteq Search!Vocabulary /\ DOMAIN shelf \subseteq DOMAIN Clusters
      /\ \A t \in Search!Vocabulary : t \in meaning[t]
      /\ curations = 0 => valid = Active /\ meaning = Resolving /\ shelf = Clusters
  BY SearchConstants DEF VocabularyTells
<1>4. mine = IF facets /\ link.cluster \in DOMAIN shelf THEN shelf[link.cluster] \cap valid ELSE {}
  BY DEF Search!cluster_tags
<1>5. Search!cluster_tag_ids(link, facets) = UNION {meaning[t] : t \in mine}
  BY DEF Search!cluster_tag_ids
<1>6. facets => mine = Search!cluster_tags(link, TRUE)
  OBVIOUS
<1> HIDE DEF tagged, shelved, bare, mine
<1>7. CASE link.tag \in valid
  <2>1. q.link = tagged /\ q.tags = meaning[link.tag]
    BY <1>7 DEF Search!resolve_filter, tagged
  <2>2. q.tags # {} /\ link.tag # None
    BY <1>3, <1>7, <2>1
  <2>3. OneFilter(q) /\ (curations = 0 => Settled(q))
    BY <1>2, <1>3, <1>7, <2>1, <2>2 DEF OneFilter, Settled
  <2> QED BY <1>2, <1>7, <2>1, <2>2, <2>3
<1>8. CASE link.tag \notin valid /\ mine # {}
  <2>1. q.link = shelved /\ q.tags = UNION {meaning[t] : t \in mine}
    BY <1>5, <1>8 DEF Search!resolve_filter, shelved, mine
  <2>2. /\ facets /\ link.cluster \in DOMAIN shelf /\ mine = shelf[link.cluster] \cap valid
        /\ link.cluster \in DOMAIN Clusters /\ link.cluster # None
    BY <1>3, <1>4, <1>8
  <2>3. q.tags # {}
    <3>1. PICK t \in mine : t \in Search!Vocabulary
      BY <1>3, <1>8, <2>2
    <3>2. t \in meaning[t]
      BY <1>3, <3>1
    <3> QED BY <2>1, <3>1, <3>2
  <2>4. OneFilter(q)
    BY <1>2, <2>1, <2>2, <2>3 DEF OneFilter
  <2>5. curations = 0 => Settled(q)
    BY <1>2, <1>3, <1>8, <2>1, <2>2 DEF Settled
  <2> QED BY <1>2, <1>8, <2>1, <2>2, <2>3, <2>4, <2>5
<1>9. CASE link.tag \notin valid /\ mine = {}
  <2>1. q.link = bare /\ q.tags = {}
    BY <1>9 DEF Search!resolve_filter, bare, mine, Bare
  <2>2. OneFilter(q) /\ Settled(q)
    BY <1>2, <2>1 DEF OneFilter, Settled
  <2> QED BY <1>2, <1>6, <1>9, <2>1, <2>2 DEF bare
<1> QED BY <1>7, <1>8, <1>9

\* As long as nothing is edited a page differs from the last one in its filter only where
\* the facets were not read.
LEMMA SameFilter ==
  ASSUME NEW v, v.link \in Search!Links, Settled(v), VocabularyTells, curations = 0,
         NEW facets \in BOOLEAN, NEW q,
         q.link = Search!resolve_filter(v.link, facets).link,
         q.tags = Search!resolve_filter(v.link, facets).tags
  PROVE  q.tags = v.tags \/ (~ facets /\ q.tags = {})
<1>1. /\ None \notin Search!Vocabulary /\ None \notin DOMAIN Clusters
      /\ valid = Active /\ meaning = Resolving /\ shelf = Clusters /\ None \notin valid
  BY SearchConstants DEF VocabularyTells
<1>2. Search!cluster_tags(v.link, facets) =
        IF facets /\ v.link.cluster \in DOMAIN Clusters
        THEN Clusters[v.link.cluster] \cap Active ELSE {}
  BY <1>1 DEF Search!cluster_tags
<1>3. Search!cluster_tag_ids(v.link, facets) =
        UNION {Resolving[t] : t \in Search!cluster_tags(v.link, facets)}
  BY <1>1 DEF Search!cluster_tag_ids
<1>4. CASE v.link.tag \in Active
  <2>1. q.tags = Resolving[v.link.tag]
    BY <1>1, <1>4 DEF Search!resolve_filter
  <2> QED BY <1>1, <1>4, <2>1 DEF Settled
<1>5. CASE /\ v.link.tag = None /\ v.link.cluster \in DOMAIN Clusters
           /\ Clusters[v.link.cluster] \cap Active # {}
           /\ v.tags = UNION {Resolving[t] : t \in Clusters[v.link.cluster] \cap Active}
  <2>1. CASE facets
    <3>1. Search!cluster_tags(v.link, facets) = Clusters[v.link.cluster] \cap Active
      BY <1>2, <1>5, <2>1
    <3>2. q.tags = Search!cluster_tag_ids(v.link, facets)
      BY <1>1, <1>5, <3>1 DEF Search!resolve_filter
    <3> QED BY <1>3, <1>5, <3>1, <3>2
  <2>2. CASE ~ facets
    <3>1. Search!cluster_tags(v.link, facets) = {}
      BY <1>2, <2>2
    <3>2. q.tags = {}
      BY <1>1, <1>5, <3>1 DEF Search!resolve_filter
    <3> QED BY <2>2, <3>2
  <2> QED BY <2>1, <2>2
<1>6. CASE v.tags = {} /\ v.link.tag = None /\ v.link.cluster = None
  <2>1. Search!cluster_tags(v.link, facets) = {}
    BY <1>1, <1>2, <1>6
  <2>2. q.tags = {}
    BY <1>1, <1>6, <2>1 DEF Search!resolve_filter
  <2> QED BY <1>6, <2>2
<1> QED BY <1>4, <1>5, <1>6 DEF Settled

LEMMA BeginWalkStep ==
  ASSUME SearchInv, Search!BeginWalk
  PROVE  SearchInv'
<1>1. PICK link \in Search!Links, facets \in BOOLEAN :
        /\ Search!OpenPage(link, 1, facets)
        /\ walk' = [walk EXCEPT !.asked = visit'.link, !.stayed =
             Search!accepted_matching(link.keyword, Search!resolve_filter(link, facets).tags)]
  BY DEF Search!BeginWalk
<1> DEFINE f == Search!resolve_filter(link, facets)
           q == [at |-> "open", link |-> f.link, tags |-> f.tags, page |-> 1, last |-> visit.last]
           M == Found(accepted, q)
           R == Ranks(accepted, q)
           x == [walk EXCEPT !.asked = q.link, !.stayed = M]
<1>2. visit.at = "idle" /\ accepted' = accepted /\ arrivals' = arrivals /\ visit' = q
      /\ VocabularyStays
  BY <1>1 DEF Search!BeginWalk, Search!OpenPage, Search!vocabulary, VocabularyStays
<1>3. /\ accepted \in [Listings -> Nat] /\ SearchShape(accepted, arrivals, visit, walk)
      /\ VocabularyTells
      /\ WalkShape(visit, walk, arrivals) /\ FilterTells(visit, walk)
  BY SearchTypes
<1>4. /\ q.at = "open" /\ q.page = 1 /\ q.last = visit.last /\ q.link = f.link /\ q.tags = f.tags
      /\ DOMAIN q = {"at", "tags", "page", "last", "link"}
  OBVIOUS
<1> HIDE DEF q
<1>5. /\ q.link \in Search!Links /\ q.link.keyword = link.keyword /\ OneFilter(q)
      /\ curations = 0 => Settled(q)
  <2>1. /\ q.link = Search!resolve_filter(link, facets).link
        /\ q.tags = Search!resolve_filter(link, facets).tags
    BY <1>4
  <2>2. VocabularyTells /\ link \in Search!Links /\ facets \in BOOLEAN
    BY <1>3
  <2> HIDE DEF f, M, R, x
  <2>3. /\ q.link \in Search!Links /\ q.link.keyword = link.keyword /\ OneFilter(q)
        /\ curations = 0 => Settled(q)
        /\ \/ /\ link.tag \in valid /\ q.link.tag = link.tag /\ q.tags # {}
              /\ link.cluster = None => q.link = link
           \/ /\ link.tag \notin valid /\ facets /\ q.link.tag = None /\ q.tags # {}
              /\ link.tag = None => q.link = link
           \/ /\ link.tag \notin valid /\ q.tags = {} /\ q.link = Bare(link)
              /\ facets => Search!cluster_tags(link, TRUE) = {}
    BY ONLY <2>1, <2>2, Resolved, Zenon
  <2> QED BY <2>3
<1>6. q.link.keyword \in Search!Keywords
  BY <1>5 DEF Search!Links
<1>7. Ordered(M, R) /\ M \subseteq Listings /\ Search!accepted_matching(link.keyword, f.tags) = M
  BY <1>3, <1>4, <1>5, <1>6, StrictOrder, NeutralOrder DEF Found, Ranks
<1> HIDE DEF M, R, f
<1>8. walk' = x
  BY <1>1, <1>2, <1>7 DEF f
<1>9. /\ DOMAIN x = WalkParts /\ x.asked = q.link /\ x.unread = walk.unread
      /\ x.stayed = M /\ x.listed = walk.listed /\ x.arrived = walk.arrived /\ x.left = walk.left
      /\ x.unseen = walk.unseen /\ x.filter = walk.filter
  BY <1>3 DEF WalkShape, WalkParts
<1> HIDE DEF x
<1>10. WalkShape(q, x, arrivals) /\ x.listed = <<>>
  BY <1>2, <1>3, <1>4, <1>5, <1>7, <1>9 DEF WalkShape
<1>11. FilterTells(q, x)
  BY <1>2, <1>3, <1>4, <1>5, <1>9 DEF FilterTells, WalkShape
<1>12. UnderWay(q, x, M, R, arrivals)
  BY <1>4, <1>7, <1>9, <1>10, BeginTells
<1>13. WalkTells(q, x, M, R, arrivals)
  BY <1>4, <1>12 DEF WalkTells
<1>14. SearchTells(accepted, arrivals, q, x)
  BY <1>3, <1>10, <1>11, <1>13 DEF SearchTells, SearchShape, M, R
<1> QED BY <1>2, <1>3, <1>8, <1>14, SearchStands

LEMMA FollowNextStep ==
  ASSUME SearchInv, Search!FollowNext
  PROVE  SearchInv'
<1>1. PICK facets \in BOOLEAN :
        /\ Search!OpenPage(visit.link, visit.page + 1, facets)
        /\ walk' = [walk EXCEPT !.unread = @ \/ ~facets, !.filter =
             IF visit'.tags = visit.tags THEN @
             ELSE IF visit'.tags = {} THEN "lost" ELSE "exchanged"]
  BY DEF Search!FollowNext
<1> DEFINE f == Search!resolve_filter(visit.link, facets)
           q == [at |-> "open", link |-> f.link, tags |-> f.tags, page |-> visit.page + 1,
                 last |-> visit.last]
           y == IF q.tags = visit.tags THEN walk.filter
                ELSE IF q.tags = {} THEN "lost" ELSE "exchanged"
           r == walk.unread \/ ~facets
           x == [walk EXCEPT !.unread = r, !.filter = y]
           M == Found(accepted, visit)
           R == Ranks(accepted, visit)
<1>2. /\ visit.at = "sliced" /\ accepted' = accepted /\ arrivals' = arrivals /\ visit' = q
      /\ VocabularyStays
  BY <1>1 DEF Search!FollowNext, Search!OpenPage, Search!vocabulary, VocabularyStays
<1>3. /\ accepted \in [Listings -> Nat] /\ SearchShape(accepted, arrivals, visit, walk)
      /\ WalkShape(visit, walk, arrivals) /\ FilterTells(visit, walk) /\ VocabularyTells
      /\ WalkTells(visit, walk, M, R, arrivals)
  BY SearchTypes
<1>4. /\ q.at = "open" /\ q.page = visit.page + 1 /\ q.last = visit.last /\ q.link = f.link
      /\ q.tags = f.tags /\ DOMAIN q = {"at", "tags", "page", "last", "link"}
  OBVIOUS
<1> HIDE DEF q
<1>5. walk' = x
  BY <1>1, <1>2
<1>6. visit.link \in Search!Links /\ OneFilter(visit) /\ (curations = 0 => Settled(visit))
  BY <1>3 DEF WalkShape, FilterTells
<1>7. /\ q.link \in Search!Links /\ q.link.keyword = visit.link.keyword /\ OneFilter(q)
      /\ curations = 0 => Settled(q)
      /\ \/ q.link = visit.link /\ q.tags # {}
         \/ /\ visit.link.tag \notin valid /\ q.tags = {} /\ q.link = Bare(visit.link)
  <2>1. None \notin valid
    BY <1>3, SearchConstants DEF VocabularyTells
  <2> HIDE DEF f
  <2>2. /\ q.link \in Search!Links /\ q.link.keyword = visit.link.keyword /\ OneFilter(q)
        /\ curations = 0 => Settled(q)
        /\ \/ /\ visit.link.tag \in valid /\ q.link.tag = visit.link.tag /\ q.tags # {}
              /\ visit.link.cluster = None => q.link = visit.link
           \/ /\ visit.link.tag \notin valid /\ facets /\ q.link.tag = None /\ q.tags # {}
              /\ visit.link.tag = None => q.link = visit.link
           \/ /\ visit.link.tag \notin valid /\ q.tags = {} /\ q.link = Bare(visit.link)
              /\ facets => Search!cluster_tags(visit.link, TRUE) = {}
    <3>1. /\ q.link = Search!resolve_filter(visit.link, facets).link
          /\ q.tags = Search!resolve_filter(visit.link, facets).tags
      BY <1>4 DEF f
    <3>2. visit.link \in Search!Links /\ VocabularyTells /\ facets \in BOOLEAN
      BY <1>3, <1>6
    <3> HIDE DEF f
    <3> QED BY ONLY <3>1, <3>2, Resolved
  <2>3. visit.link.tag # None => visit.link.cluster = None
    BY <1>6 DEF OneFilter
  <2>4. ASSUME visit.link.tag \notin valid, facets, q.link.tag = None, q.tags # {},
               visit.link.tag # None
        PROVE  FALSE
    <3>1. Search!cluster_tags(visit.link, facets) = {}
      <4>1. visit.link.cluster \notin DOMAIN shelf
        BY <1>3, <2>3, <2>4, SearchConstants DEF VocabularyTells
      <4> QED BY <4>1 DEF Search!cluster_tags
    <3>2. f.tags = {}
      BY <2>4, <3>1 DEF f, Search!resolve_filter
    <3> QED BY <1>4, <2>4, <3>2
  <2> QED BY <2>1, <2>2, <2>3, <2>4
<1>8. curations = 0 => q.tags = visit.tags \/ (~ facets /\ q.tags = {})
  BY <1>3, <1>4, <1>6, SameFilter DEF f
<1> HIDE DEF f, M, R, y, r
<1>9. /\ DOMAIN x = WalkParts /\ x.asked = walk.asked /\ x.unread = r
      /\ x.stayed = walk.stayed /\ x.listed = walk.listed /\ x.arrived = walk.arrived
      /\ x.left = walk.left /\ x.unseen = walk.unseen /\ x.filter = y
  BY <1>3 DEF WalkShape, WalkParts
<1> HIDE DEF x
<1>10. WalkShape(q, x, arrivals)
  BY <1>3, <1>4, <1>7, <1>9 DEF WalkShape
<1>11. FilterTells(q, x)
  <2> DEFINE asked == walk.asked
             blank == [asked EXCEPT !.tag = None, !.cluster = None]
  <2>1. /\ walk.filter \in {"kept", "lost", "exchanged"}
        /\ walk.filter # "lost" => visit.link = asked
        /\ walk.filter = "lost" =>
             /\ visit.tags = {} /\ visit.link = blank
             /\ IF asked.tag # None THEN asked.tag \notin valid ELSE walk.unread \/ curations > 0
        /\ walk.filter = "exchanged" => curations > 0
        /\ curations \in Nat
    BY <1>3, SearchConstants DEF FilterTells, VocabularyTells
  <2>2. /\ visit.tags = {} <=> visit.link.tag = None /\ visit.link.cluster = None
        /\ q.tags = {} <=> q.link.tag = None /\ q.link.cluster = None
    BY <1>6, <1>7 DEF OneFilter
  <2>3. visit.tags = {} => q.tags = {} /\ q.link = visit.link
    BY <1>6, <1>7, <2>2 DEF Bare, Search!Links
  <2>4. q.tags = visit.tags => q.link = visit.link
    BY <1>7, <2>3
  <2>5. CASE q.tags = visit.tags
    <3>1. x.filter = walk.filter /\ (walk.unread => x.unread)
      BY <1>9, <2>5 DEF y, r
    <3> QED BY <1>4, <1>7, <1>9, <2>1, <2>4, <2>5, <3>1 DEF FilterTells
  <2>6. CASE q.tags # visit.tags /\ q.tags = {}
    <3>1. x.filter = "lost" /\ walk.filter # "lost" /\ visit.link = asked
      BY <1>9, <2>1, <2>6 DEF y
    <3>2. q.link = blank /\ asked.tag \notin valid
      BY <1>7, <2>6, <3>1 DEF Bare
    <3>3. x.unread \/ curations > 0
      <4>1. CASE curations = 0
        <5>1. ~ facets
          BY <1>8, <2>6, <4>1
        <5>2. r
          BY <5>1 DEF r
        <5> QED BY <1>9, <5>2
      <4>2. CASE curations # 0
        BY <2>1, <4>2
      <4> QED BY <4>1, <4>2
    <3> HIDE DEF blank
    <3> QED BY <1>4, <1>7, <1>9, <2>6, <3>1, <3>2, <3>3 DEF FilterTells, blank
  <2>7. CASE q.tags # visit.tags /\ q.tags # {}
    <3>1. x.filter = "exchanged" /\ walk.filter # "lost" /\ visit.link = asked
      BY <1>9, <2>1, <2>3, <2>7 DEF y
    <3>2. q.link = asked /\ curations > 0
      BY <1>7, <1>8, <2>1, <2>7, <3>1
    <3> QED BY <1>4, <1>7, <1>9, <3>1, <3>2 DEF FilterTells
  <2> QED BY <2>5, <2>6, <2>7
<1>12. WalkTells(q, x, Found(accepted, q), Ranks(accepted, q), arrivals)
  <2> SUFFICES ASSUME x.filter = "kept"
               PROVE  UnderWay(q, x, Found(accepted, q), Ranks(accepted, q), arrivals)
    BY <1>4 DEF WalkTells
  <2>1. q.tags = visit.tags /\ walk.filter = "kept"
    BY <1>9 DEF y
  <2>2. Found(accepted, q) = M /\ Ranks(accepted, q) = R
    BY <1>7, <2>1 DEF Found, Ranks, M, R
  <2>3. UnderWay(visit, walk, M, R, arrivals)
    BY <1>2, <1>3, <2>1 DEF WalkTells
  <2>4. UnderWay(q, x, M, R, arrivals)
    BY <1>2, <1>3, <1>4, <1>9, <2>3, FollowTells
  <2> QED BY <2>2, <2>4
<1>13. SearchTells(accepted, arrivals, q, x)
  BY <1>3, <1>10, <1>11, <1>12 DEF SearchTells, SearchShape
<1> QED BY <1>2, <1>3, <1>5, <1>13, SearchStands

LEMMA CountMatchesStep ==
  ASSUME SearchInv, Search!CountMatches
  PROVE  SearchInv'
<1> DEFINE M == Found(accepted, visit)
           R == Ranks(accepted, visit)
           l == Search!last_page(Cardinality(M))
           p == IF visit.page < l THEN visit.page ELSE l
           q == [visit EXCEPT !.at = "counted", !.last = l, !.page = p]
<1>1. /\ SearchShape(accepted, arrivals, visit, walk)
      /\ WalkShape(visit, walk, arrivals) /\ FilterTells(visit, walk)
      /\ WalkTells(visit, walk, M, R, arrivals) /\ Ordered(M, R) /\ Search!Under(visit) = M
      /\ VocabularyTells
  BY SearchTypes
<1>2. l \in Nat \ {0} /\ visit.page \in Nat \ {0}
  BY <1>1, Placed, LastPage DEF WalkShape
<1> HIDE DEF M, R
<1>3. Search!last_page(Search!Cardinality(Search!Under(visit))) = l
  BY <1>1, SearchWords
<1>4. visit.at = "open" /\ accepted' = accepted /\ arrivals' = arrivals /\ walk' = walk
      /\ visit' = [visit EXCEPT !.at = "counted", !.last = l, !.page = Search!Min({visit.page, l})]
      /\ VocabularyStays
  BY <1>3 DEF Search!CountMatches, Search!vocabulary, VocabularyStays
<1> HIDE DEF l
<1>5. Search!Min({visit.page, l}) = p
  BY <1>2 DEF Search!Min
<1>6. visit' = q
  BY <1>4, <1>5
<1>7. /\ q.at = "counted" /\ q.last = l /\ q.page = p /\ q.link = visit.link /\ q.tags = visit.tags
      /\ DOMAIN q = {"at", "tags", "page", "last", "link"}
  BY <1>1 DEF WalkShape
<1> HIDE DEF q, p
<1>8. Found(accepted, q) = M /\ Ranks(accepted, q) = R
  BY <1>7 DEF Found, Ranks, M, R
<1>9. p \in Nat \ {0} /\ p <= l
  BY <1>2 DEF p
<1>10. WalkShape(q, walk, arrivals)
  BY <1>1, <1>2, <1>7, <1>9 DEF WalkShape
<1>11. FilterTells(q, walk)
  BY <1>1, <1>4, <1>7 DEF FilterTells, Settled, OneFilter
<1>12. WalkTells(q, walk, M, R, arrivals)
  <2> SUFFICES ASSUME walk.filter = "kept" PROVE UnderWay(q, walk, M, R, arrivals)
    BY <1>7 DEF WalkTells
  <2>1. UnderWay(visit, walk, M, R, arrivals)
    BY <1>1, <1>4 DEF WalkTells
  <2>2. /\ q.at = "counted" /\ q.last = Search!last_page(Cardinality(M))
        /\ q.page = IF visit.page < q.last THEN visit.page ELSE q.last
    BY <1>7 DEF l, p
  <2> QED BY <1>1, <1>4, <2>1, <2>2, CountTells
<1>13. SearchTells(accepted, arrivals, q, walk)
  BY <1>1, <1>8, <1>10, <1>11, <1>12 DEF SearchTells, SearchShape
<1> QED BY <1>1, <1>4, <1>6, <1>13, SearchStands

LEMMA ReadSliceStep ==
  ASSUME SearchInv, Search!ReadSlice
  PROVE  SearchInv'
<1> DEFINE M == Found(accepted, visit)
           R == Ranks(accepted, visit)
           rest == Search!page_apps(Order(M, R), visit.page)
           x == [walk EXCEPT !.listed = walk.listed \o rest]
           q == [visit EXCEPT !.at = IF visit.page < visit.last THEN "sliced" ELSE "last"]
<1>1. /\ SearchShape(accepted, arrivals, visit, walk)
      /\ WalkShape(visit, walk, arrivals) /\ FilterTells(visit, walk)
      /\ WalkTells(visit, walk, M, R, arrivals) /\ Ordered(M, R) /\ M \subseteq Listings
      /\ VocabularyTells
      /\ Search!neutral_order(visit.link.keyword, visit.tags) = Order(M, R)
  BY SearchTypes
<1>2. visit.at = "counted" /\ accepted' = accepted /\ arrivals' = arrivals /\ walk' = x
        /\ visit' = q /\ VocabularyStays
  BY <1>1 DEF Search!ReadSlice, Search!vocabulary, VocabularyStays
<1>3. rest \in Seq(Listings)
  <2>1. visit.page \in Nat \ {0}
    BY <1>1 DEF WalkShape
  <2>2. rest \in Seq(M)
    BY <1>1, <2>1, PageIs
  <2> HIDE DEF rest, M
  <2> QED BY <1>1, <2>2
<1> HIDE DEF M, R
<1>4. x.listed = walk.listed \o Search!page_apps(Order(M, R), visit.page)
  BY <1>1 DEF WalkShape, WalkParts
<1> HIDE DEF rest
<1>5. /\ DOMAIN x = WalkParts /\ x.asked = walk.asked /\ x.unread = walk.unread
      /\ x.listed = walk.listed \o rest
      /\ x.stayed = walk.stayed /\ x.arrived = walk.arrived
      /\ x.left = walk.left /\ x.unseen = walk.unseen /\ x.filter = walk.filter
  BY <1>1 DEF WalkShape, WalkParts
<1>6. /\ q.at = (IF visit.page < visit.last THEN "sliced" ELSE "last")
      /\ q.page = visit.page /\ q.last = visit.last /\ q.link = visit.link /\ q.tags = visit.tags
      /\ DOMAIN q = {"at", "tags", "page", "last", "link"}
  BY <1>1 DEF WalkShape
<1> HIDE DEF q, x
<1>7. Found(accepted, q) = M /\ Ranks(accepted, q) = R
  BY <1>6 DEF Found, Ranks, M, R
<1>8. x.listed \in Seq(Listings)
  BY <1>1, <1>3, <1>5, ConcatProperties DEF WalkShape
<1>9. WalkShape(q, x, arrivals)
  BY <1>1, <1>2, <1>5, <1>6, <1>8 DEF WalkShape
<1>10. FilterTells(q, x)
  BY <1>1, <1>2, <1>5, <1>6 DEF FilterTells, Settled, OneFilter
<1>11. WalkTells(q, x, M, R, arrivals)
  <2> SUFFICES ASSUME walk.filter = "kept"
               PROVE  /\ q.at = "sliced" => UnderWay(q, x, M, R, arrivals)
                      /\ q.at = "last" => Over(x, M, R, arrivals)
    BY <1>5, <1>6 DEF WalkTells
  <2>1. UnderWay(visit, walk, M, R, arrivals)
    BY <1>1, <1>2 DEF WalkTells
  <2>2. /\ WalkShape(visit, walk, arrivals) /\ Ordered(M, R) /\ M \subseteq Listings
        /\ visit.at = "counted"
        /\ x.listed = walk.listed \o Search!page_apps(Order(M, R), visit.page)
        /\ x.stayed = walk.stayed /\ x.arrived = walk.arrived /\ x.left = walk.left
        /\ x.unseen = walk.unseen
    BY <1>1, <1>2, <1>4, <1>5
  <2>3. /\ q.page = visit.page /\ q.last = visit.last
        /\ q.at = IF visit.page < visit.last THEN "sliced" ELSE "last"
    BY <1>6
  <2> QED BY <2>1, <2>2, <2>3, SliceTells
<1>12. SearchTells(accepted, arrivals, q, x)
  BY <1>1, <1>7, <1>9, <1>10, <1>11 DEF SearchTells, SearchShape
<1> QED BY <1>1, <1>2, <1>12, SearchStands

\* An application that is accepted, or leaves, joins the matches or changes none of them.
LEMMA OneJoins ==
  ASSUME NEW k \in Search!Keywords, NEW tags, NEW a \in Listings,
         NEW acc \in [Listings -> Nat], NEW new \in [Listings -> Nat],
         acc[a] = 0, new[a] > 0, \A b \in Listings \ {a} : new[b] = acc[b]
  PROVE  LET M == Matches(acc, k, tags)
             N == Matches(new, k, tags)
             R == Ranked(acc, k, tags)
             Q == Ranked(new, k, tags)
         IN /\ a \notin M /\ (a \in N <=> Suits(k, tags, a))
            /\ a \in N => Joined(M, R, a, N, Q)
            /\ a \notin N => N = M /\ Q = R
<1> DEFINE M == Matches(acc, k, tags)
           N == Matches(new, k, tags)
           R == Ranked(acc, k, tags)
           Q == Ranked(new, k, tags)
<1>1. a \notin M /\ (a \in N <=> Suits(k, tags, a)) /\ \A b \in Listings \ {a} : b \in N <=> b \in M
  BY DEF Matches
<1>2. M \subseteq Listings /\ N \subseteq Listings /\ Ordered(M, R) /\ Ordered(N, Q)
  BY StrictOrder
<1>3. \A b, c \in M : <<b, c>> \in R <=> Beats(acc, k, b, c)
  BY DEF Ranked
<1>4. \A b, c \in N : <<b, c>> \in Q <=> Beats(new, k, b, c)
  BY DEF Ranked
<1>5. R = {e \in M \X M : Beats(acc, k, e[1], e[2])}
        /\ Q = {e \in N \X N : Beats(new, k, e[1], e[2])}
  BY DEF Ranked
<1>6. \A b, c \in Listings \ {a} : Beats(new, k, b, c) <=> Beats(acc, k, b, c)
  BY DEF Beats
<1> HIDE DEF M, N, R, Q
<1>7. ASSUME a \in N PROVE Joined(M, R, a, N, Q)
  <2>1. N = M \cup {a}
    BY <1>1, <1>2, <1>7
  <2>2. \A b, c \in M : <<b, c>> \in R <=> <<b, c>> \in Q
    BY <1>1, <1>2, <1>3, <1>4, <1>6, <2>1
  <2> QED BY <1>1, <1>2, <2>1, <2>2 DEF Joined
<1>8. ASSUME a \notin N PROVE N = M /\ Q = R
  <2>1. N = M
    BY <1>1, <1>2, <1>8
  <2>2. \A e \in M \X M : Beats(new, k, e[1], e[2]) <=> Beats(acc, k, e[1], e[2])
    BY <1>1, <1>2, <1>6
  <2> QED BY <1>5, <2>1, <2>2
<1> QED BY <1>1, <1>7, <1>8 DEF M, N, R, Q

LEMMA AcceptedStep ==
  ASSUME SearchInv, NEW a \in Listings, Search!Accept(a)
  PROVE  SearchInv'
<1>1. PICK moment \in {arrivals + 1, arrivals + 2} : accepted' = [accepted EXCEPT ![a] = moment]
  BY DEF Search!Accept
<1> DEFINE acc == [accepted EXCEPT ![a] = moment]
           k == visit.link.keyword
           M == Found(accepted, visit)
           R == Ranks(accepted, visit)
           N == Found(acc, visit)
           Q == Ranks(acc, visit)
           one == IF visit.at \in {"open", "counted", "sliced"} /\ a \in N THEN 1 ELSE 0
           x == [walk EXCEPT !.arrived = walk.arrived + one,
                             !.unseen = IF visit.at = "counted" THEN walk.unseen + one
                               ELSE walk.unseen]
           n == arrivals + 1
<1>2. /\ accepted \in [Listings -> Nat] /\ SearchShape(accepted, arrivals, visit, walk)
      /\ WalkShape(visit, walk, arrivals) /\ FilterTells(visit, walk)
      /\ WalkTells(visit, walk, M, R, arrivals) /\ k \in Search!Keywords
  BY SearchTypes
<1>3. /\ accepted[a] = 0 /\ arrivals < MaxMoves /\ arrivals' = n /\ visit' = visit
           /\ accepted' = acc /\ VocabularyStays /\ VocabularyTells
  BY <1>1, SearchTypes DEF Search!Accept, Search!Moving, Search!vocabulary, VocabularyStays
<1>4. arrivals \in Nat /\ MaxMoves \in Nat /\ n \in 0 .. MaxMoves
      /\ moment \in 0 .. MaxMoves + 2 /\ moment > 0
  BY <1>2, <1>3, SearchConstants DEF SearchShape
<1>5. acc \in [Listings -> 0 .. MaxMoves + 2] /\ acc \in [Listings -> Nat]
      /\ acc[a] > 0 /\ \A b \in Listings \ {a} : acc[b] = accepted[b]
  BY <1>2, <1>4 DEF SearchShape
<1>6. Search!Under(visit)' = N
  BY <1>3 DEF Search!Under, Search!accepted_matching, Found, Matches, Suits
<1> HIDE DEF acc
<1>7. /\ a \in N => Joined(M, R, a, N, Q)
      /\ a \notin N => N = M /\ Q = R
  BY <1>2, <1>3, <1>5, OneJoins DEF Found, Ranks
<1> HIDE DEF M, R, N, Q
<1>8. walk' = x
  <2>1. walk' = [walk EXCEPT !.arrived = @ + one,
                             !.unseen = IF visit.at = "counted" THEN @ + one ELSE @]
    BY <1>6 DEF Search!Accept, Search!Walking
  <2> HIDE DEF one
  <2> QED BY <1>2, <2>1 DEF WalkShape
<1>9. one \in {0, 1}
  OBVIOUS
<1>10. /\ DOMAIN x = WalkParts /\ x.asked = walk.asked /\ x.unread = walk.unread
      /\ x.listed = walk.listed /\ x.stayed = walk.stayed /\ x.arrived = walk.arrived + one
      /\ x.left = walk.left /\ x.filter = walk.filter
      /\ x.unseen = IF visit.at = "counted" THEN walk.unseen + one ELSE walk.unseen
  BY <1>2 DEF WalkShape, WalkParts
<1> HIDE DEF x
<1>11. WalkShape(visit, x, n)
  <2>1. /\ walk.arrived \in 0 .. arrivals /\ walk.left \in 0 .. arrivals
        /\ walk.unseen \in 0 .. arrivals
    BY <1>2 DEF WalkShape
  <2> HIDE DEF one
  <2>2. x.arrived \in 0 .. n /\ x.left \in 0 .. n /\ x.unseen \in 0 .. n /\ n \in Nat
    BY <1>4, <1>9, <1>10, <2>1
  <2> HIDE DEF n
  <2> QED BY <1>2, <1>10, <2>2 DEF WalkShape
<1>12. FilterTells(visit, x)
  BY <1>2, <1>10 DEF FilterTells
<1>13. WalkTells(visit, x, N, Q, n)
  <2> SUFFICES ASSUME walk.filter = "kept"
               PROVE  /\ visit.at \in {"open", "counted", "sliced"} => UnderWay(visit, x, N, Q, n)
                      /\ visit.at = "last" => Over(x, N, Q, n)
    BY <1>10 DEF WalkTells
  <2>1. CASE visit.at \in {"open", "counted", "sliced"}
    <3>1. UnderWay(visit, walk, M, R, arrivals)
      BY <1>2, <2>1 DEF WalkTells
    <3>2. CASE a \in N
      <4>1. /\ x.arrived = walk.arrived + 1
            /\ x.unseen = IF visit.at = "counted" THEN walk.unseen + 1 ELSE walk.unseen
        BY <1>10, <2>1, <3>2
      <4>2. Joined(M, R, a, N, Q)
        BY <1>7, <3>2
      <4> QED BY <1>2, <1>10, <2>1, <3>1, <4>1, <4>2, ArriveTells
    <3>3. CASE a \notin N
      <4>1. one = 0 /\ walk.arrived \in Nat /\ walk.unseen \in Nat
        BY <1>2, <3>3 DEF WalkShape
      <4>2. x.arrived = walk.arrived /\ x.unseen = walk.unseen
        BY <1>10, <4>1
      <4>3. N = M /\ Q = R
        BY <1>7, <3>3
      <4>4. UnderWay(visit, x, M, R, n)
        BY <1>4, <1>10, <3>1, <4>2, StayTells
      <4> QED BY <2>1, <4>3, <4>4
    <3> QED BY <3>2, <3>3
  <2>2. CASE visit.at = "last"
    <3>1. Over(walk, M, R, arrivals)
      BY <1>2, <2>2 DEF WalkTells
    <3>2. one = 0 /\ walk.arrived \in Nat
      BY <1>2, <2>2 DEF WalkShape
    <3>3. x.arrived = walk.arrived /\ x.unseen = walk.unseen /\ x.stayed \subseteq walk.stayed
      BY <1>10, <2>2, <3>2
    <3> QED BY <1>2, <1>10, <2>2, <3>1, <3>3, OverStays
  <2> QED BY <2>1, <2>2
<1>14. SearchTells(acc, n, visit, x)
  BY <1>4, <1>5, <1>11, <1>12, <1>13 DEF SearchTells, SearchShape, N, Q
<1> QED BY <1>3, <1>8, <1>14, SearchStands

LEMMA LeftStep ==
  ASSUME SearchInv, NEW a \in Listings, Search!Leave(a)
  PROVE  SearchInv'
<1> DEFINE acc == [accepted EXCEPT ![a] = 0]
           k == visit.link.keyword
           M == Found(accepted, visit)
           R == Ranks(accepted, visit)
           N == Found(acc, visit)
           Q == Ranks(acc, visit)
           gone == IF visit.at \in {"open", "counted", "sliced"} /\ a \in M
                   THEN walk.left + 1 ELSE walk.left
           x == [walk EXCEPT !.stayed = walk.stayed \ {a}, !.left = gone]
           n == arrivals + 1
<1>2. /\ accepted \in [Listings -> Nat] /\ SearchShape(accepted, arrivals, visit, walk)
      /\ WalkShape(visit, walk, arrivals) /\ FilterTells(visit, walk)
      /\ WalkTells(visit, walk, M, R, arrivals) /\ k \in Search!Keywords
      /\ Search!Under(visit) = M
  BY SearchTypes
<1>3. /\ accepted[a] > 0 /\ arrivals < MaxMoves /\ arrivals' = n /\ visit' = visit
           /\ accepted' = acc /\ VocabularyStays /\ VocabularyTells
  BY SearchTypes DEF Search!Leave, Search!Moving, Search!vocabulary, VocabularyStays
<1>4. arrivals \in Nat /\ MaxMoves \in Nat /\ n \in 0 .. MaxMoves
  BY <1>2, <1>3, SearchConstants DEF SearchShape
<1>5. acc \in [Listings -> 0 .. MaxMoves + 2] /\ acc \in [Listings -> Nat]
      /\ acc[a] = 0 /\ \A b \in Listings \ {a} : accepted[b] = acc[b]
  BY <1>2, <1>4 DEF SearchShape
<1> HIDE DEF acc
<1>7. /\ a \in M => Joined(N, Q, a, M, R)
      /\ a \notin M => M = N /\ R = Q
  BY <1>2, <1>3, <1>5, OneJoins DEF Found, Ranks
<1> HIDE DEF M, R, N, Q
<1>8. walk' = x
  <2>1. walk' = [walk EXCEPT !.stayed = @ \ {a},
                             !.left = IF visit.at \in {"open", "counted", "sliced"} /\ a \in M
                                      THEN @ + 1 ELSE @]
    BY <1>2 DEF Search!Leave, Search!Walking
  <2> QED BY <1>2, <2>1 DEF WalkShape
<1> HIDE DEF gone
<1>10. /\ DOMAIN x = WalkParts /\ x.asked = walk.asked /\ x.unread = walk.unread
      /\ x.listed = walk.listed /\ x.stayed = walk.stayed \ {a} /\ x.arrived = walk.arrived
      /\ x.left = gone /\ x.filter = walk.filter /\ x.unseen = walk.unseen
  BY <1>2 DEF WalkShape, WalkParts
<1> HIDE DEF x
<1>11. WalkShape(visit, x, n)
  <2>1. /\ walk.arrived \in 0 .. arrivals /\ walk.left \in 0 .. arrivals
        /\ walk.unseen \in 0 .. arrivals
    BY <1>2 DEF WalkShape
  <2>2. x.arrived \in 0 .. n /\ x.left \in 0 .. n /\ x.unseen \in 0 .. n /\ n \in Nat
    BY <1>4, <1>10, <2>1 DEF gone
  <2> HIDE DEF n
  <2> QED BY <1>2, <1>10, <2>2 DEF WalkShape
<1>12. FilterTells(visit, x)
  BY <1>2, <1>10 DEF FilterTells
<1>13. WalkTells(visit, x, N, Q, n)
  <2> SUFFICES ASSUME walk.filter = "kept"
               PROVE  /\ visit.at \in {"open", "counted", "sliced"} => UnderWay(visit, x, N, Q, n)
                      /\ visit.at = "last" => Over(x, N, Q, n)
    BY <1>10 DEF WalkTells
  <2>1. CASE visit.at \in {"open", "counted", "sliced"}
    <3>1. UnderWay(visit, walk, M, R, arrivals)
      BY <1>2, <2>1 DEF WalkTells
    <3>2. CASE a \in M
      <4>1. x.left = walk.left + 1
        BY <1>10, <2>1, <3>2 DEF gone
      <4>2. Joined(N, Q, a, M, R)
        BY <1>7, <3>2
      <4>3. UnderWay(visit, x, N, Q, n)
        BY <1>2, <1>10, <3>1, <4>1, <4>2, LeaveTells
      <4> QED BY <2>1, <4>3
    <3>3. CASE a \notin M
      <4>1. x.left = walk.left
        BY <1>10, <3>3 DEF gone
      <4>2. x.stayed = walk.stayed
        <5>1. walk.stayed \subseteq M
          BY <3>1 DEF UnderWay
        <5> QED BY <1>10, <3>3, <5>1
      <4>3. N = M /\ Q = R
        BY <1>7, <3>3
      <4>4. UnderWay(visit, x, M, R, n)
        BY <1>4, <1>10, <3>1, <4>1, <4>2, StayTells
      <4> QED BY <2>1, <4>3, <4>4
    <3> QED BY <3>2, <3>3
  <2>2. CASE visit.at = "last"
    <3>1. Over(walk, M, R, arrivals)
      BY <1>2, <2>2 DEF WalkTells
    <3>2. x.left = walk.left /\ x.stayed \subseteq walk.stayed
      BY <1>10, <2>2 DEF gone
    <3>3. Over(x, N, Q, n)
      BY <1>2, <1>10, <3>1, <3>2, OverStays
    <3> QED BY <2>2, <3>3
  <2> QED BY <2>1, <2>2
<1>14. SearchTells(acc, n, visit, x)
  BY <1>4, <1>5, <1>11, <1>12, <1>13 DEF SearchTells, SearchShape, N, Q
<1> QED BY <1>3, <1>8, <1>14, SearchStands

LEMMA RetireStep ==
  ASSUME SearchInv, NEW t \in Search!Vocabulary, NEW s \in (valid \ meaning[t]) \cup {None},
         Search!retire_tag(t, s)
  PROVE  VocabularyTells'
<1>1. VocabularyTells
  BY SearchTypes
<1>2. /\ valid' = valid \ {t} /\ shelf' = shelf
      /\ curations < MaxEdits /\ curations' = curations + 1
      /\ meaning' = [u \in Search!Vocabulary |->
           IF u \in meaning[t] THEN meaning[u]
           ELSE IF u = s THEN meaning[u] \cup meaning[t] ELSE meaning[u] \ meaning[t]]
  BY DEF Search!retire_tag, Search!Editing
<1>3. curations' \in 0 .. MaxEdits /\ curations' # 0
  BY <1>1, <1>2, SearchConstants DEF VocabularyTells
<1>4. meaning' \in [Search!Vocabulary -> SUBSET Search!Vocabulary]
      /\ \A u \in Search!Vocabulary : u \in meaning'[u]
  <2>1. /\ \A u \in Search!Vocabulary : u \in meaning[u] /\ meaning[u] \subseteq Search!Vocabulary
    BY <1>1 DEF VocabularyTells
  <2> QED BY <1>2, <2>1
<1>5. valid' \subseteq Search!Vocabulary
  BY <1>1, <1>2 DEF VocabularyTells
<1> QED BY <1>1, <1>2, <1>3, <1>4, <1>5 DEF VocabularyTells

LEMMA ReshelveStep ==
  ASSUME SearchInv,
         \/ \E t \in Search!Vocabulary, clusters \in SUBSET DOMAIN shelf :
               Search!update_tag(t, clusters)
         \/ \E c \in DOMAIN shelf : Search!DeleteCluster(c)
  PROVE  VocabularyTells' /\ valid' = valid
<1>1. VocabularyTells
  BY SearchTypes
<1>2. valid' = valid /\ meaning' = meaning /\ curations < MaxEdits /\ curations' = curations + 1
  BY DEF Search!update_tag, Search!DeleteCluster, Search!Editing
<1>3. curations' \in 0 .. MaxEdits /\ curations' # 0
  BY <1>1, <1>2, SearchConstants DEF VocabularyTells
<1>4. DOMAIN shelf' \subseteq DOMAIN Clusters
      /\ \A c \in DOMAIN shelf' : shelf'[c] \subseteq Search!Vocabulary
  <2>1. /\ DOMAIN shelf \subseteq DOMAIN Clusters
        /\ \A c \in DOMAIN shelf : shelf[c] \subseteq Search!Vocabulary
    BY <1>1 DEF VocabularyTells
  <2>2. CASE \E t \in Search!Vocabulary, clusters \in SUBSET DOMAIN shelf :
               Search!update_tag(t, clusters)
    <3>1. PICK t \in Search!Vocabulary, clusters \in SUBSET DOMAIN shelf :
            shelf' = [c \in DOMAIN shelf |->
              IF c \in clusters THEN shelf[c] \cup {t} ELSE shelf[c] \ {t}]
      BY <2>2 DEF Search!update_tag
    <3> QED BY <2>1, <3>1
  <2>3. CASE \E c \in DOMAIN shelf : Search!DeleteCluster(c)
    <3>1. PICK c \in DOMAIN shelf : shelf' = [d \in DOMAIN shelf \ {c} |-> shelf[d]]
      BY <2>3 DEF Search!DeleteCluster
    <3> QED BY <2>1, <3>1
  <2> QED BY <2>2, <2>3
<1> QED BY <1>1, <1>2, <1>3, <1>4 DEF VocabularyTells

LEMMA EditStep ==
  ASSUME SearchInv, Search!EditVocabulary
  PROVE  SearchInv'
<1>1. VocabularyTells' /\ valid' \subseteq valid
  <2>1. CASE \E t \in Search!Vocabulary : \E s \in (valid \ meaning[t]) \cup {None} :
               Search!retire_tag(t, s)
    <3>1. PICK t \in Search!Vocabulary :
            \E s \in (valid \ meaning[t]) \cup {None} : Search!retire_tag(t, s)
      BY <2>1
    <3>2. PICK s \in (valid \ meaning[t]) \cup {None} : Search!retire_tag(t, s)
      BY <3>1
    <3> QED BY <3>2, RetireStep DEF Search!retire_tag
  <2>2. CASE \/ \E t \in Search!Vocabulary, clusters \in SUBSET DOMAIN shelf :
                  Search!update_tag(t, clusters)
             \/ \E c \in DOMAIN shelf : Search!DeleteCluster(c)
    BY <2>2, ReshelveStep
  <2> QED BY <2>1, <2>2 DEF Search!EditVocabulary
<1>2. /\ accepted' = accepted /\ arrivals' = arrivals /\ visit' = visit /\ walk' = walk
      /\ curations' = curations + 1
  BY DEF Search!EditVocabulary, Search!retire_tag, Search!update_tag, Search!DeleteCluster,
     Search!Editing
<1>3. curations \in Nat /\ curations' > 0 /\ curations' # 0
  BY <1>2, SearchTypes, SearchConstants DEF VocabularyTells
<1>4. FilterTells(visit, walk)'
  <2>1. FilterTells(visit, walk)
    BY SearchTypes
  <2> QED BY <1>1, <1>2, <1>3, <2>1 DEF FilterTells, OneFilter
<1>5. SearchTells(accepted, arrivals, visit, walk)
  BY DEF SearchInv
<1>6. \A acc, n, v, w :
        acc = accepted /\ n = arrivals /\ v = visit /\ w = walk
          => /\ SearchTells(acc, n, v, w)
             /\ accepted' = acc /\ arrivals' = n /\ visit' = v /\ walk' = w
  BY <1>2, <1>5
<1> QED BY <1>1, <1>4, <1>6, SearchStays

LEMMA SearchStep == SearchInv /\ Search!SearchNext => SearchInv'
<1> SUFFICES ASSUME SearchInv, Search!SearchNext PROVE SearchInv'
  OBVIOUS
<1>1. CASE Search!BeginWalk \/ Search!FollowNext \/ Search!CountMatches \/ Search!ReadSlice
  BY <1>1, BeginWalkStep, FollowNextStep, CountMatchesStep, ReadSliceStep
<1>2. ASSUME NEW a \in Listings, Search!Accept(a) \/ Search!Leave(a) PROVE SearchInv'
  BY <1>2, AcceptedStep, LeftStep
<1>3. CASE Search!EditVocabulary
  BY <1>3, EditStep
<1> QED BY <1>1, <1>2, <1>3 DEF Search!SearchNext

LEMMA SearchHolds == Spec => [](part = "search" => SearchInv)
<1> DEFINE Inv == part = "search" => SearchInv
<1>1. Init => Inv
  BY SearchStart DEF Init
<1>2. Inv /\ [Next]_vars => Inv'
  <2> SUFFICES ASSUME Inv, [Next]_vars, part' = "search" PROVE SearchInv'
    OBVIOUS
  <2>1. part = "search" /\ (Search!SearchNext \/ UNCHANGED searchState)
    BY DEF Next, NextEdit, NextRead, vars
  <2>2. CASE UNCHANGED searchState
    <3>1. /\ accepted' = accepted /\ arrivals' = arrivals /\ visit' = visit /\ walk' = walk
          /\ VocabularyStays
      BY <2>2 DEF searchState, VocabularyStays
    <3>2. SearchTells(accepted, arrivals, visit, walk) /\ VocabularyTells
      BY <2>1 DEF SearchInv
    <3>3. \A acc, n, v, w :
            acc = accepted /\ n = arrivals /\ v = visit /\ w = walk
              => /\ SearchTells(acc, n, v, w)
                 /\ accepted' = acc /\ arrivals' = n /\ visit' = v /\ walk' = w
      BY <3>1, <3>2
    <3> QED BY <3>1, <3>2, <3>3, SearchStands
  <2> QED BY <2>1, <2>2, SearchStep
<1> QED BY <1>1, <1>2, PTL DEF Spec

LEMMA WalkTold ==
  ASSUME SearchInv
  PROVE  Search!SearchTypeOK /\ Search!WalkAccounted
<1> DEFINE M == Found(accepted, visit)
           R == Ranks(accepted, visit)
<1>1. /\ SearchShape(accepted, arrivals, visit, walk)
      /\ WalkShape(visit, walk, arrivals) /\ FilterTells(visit, walk) /\ VocabularyTells
      /\ WalkTells(visit, walk, M, R, arrivals)
      /\ Search!neutral_order(visit.link.keyword, visit.tags) = Order(M, R)
  BY SearchTypes
<1> HIDE DEF M, R
<1>2. Search!SearchTypeOK
  <2>1. /\ accepted \in [Listings -> 0 .. MaxMoves + 2] /\ arrivals \in 0 .. MaxMoves
        /\ visit.link \in Search!Links
        /\ visit.at \in {"idle", "open", "counted", "sliced", "last"}
        /\ visit.page \in Nat \ {0} /\ visit.last \in Nat \ {0}
        /\ walk.listed \in Seq(Listings) /\ walk.stayed \subseteq Listings
    BY <1>1 DEF SearchShape, WalkShape
  <2>2. visit.at \in {"counted", "sliced", "last"} => visit.page <= visit.last
    BY <1>1 DEF WalkShape
  <2>3. /\ valid \subseteq Search!Vocabulary
        /\ meaning \in [Search!Vocabulary -> SUBSET Search!Vocabulary]
        /\ DOMAIN shelf \subseteq DOMAIN Clusters
        /\ \A c \in DOMAIN shelf : shelf[c] \subseteq Search!Vocabulary
        /\ curations \in 0 .. MaxEdits
    BY <1>1 DEF VocabularyTells
  <2> QED BY <2>1, <2>2, <2>3 DEF Search!SearchTypeOK
<1>3. ASSUME Search!Walked
      PROVE  /\ Search!Cardinality(Search!Missed) <= walk.left + walk.unseen
             /\ Search!Repeats <= walk.arrived + (IF walk.left > 0 THEN Search!size ELSE 0)
             /\ arrivals = 0
                  => walk.listed = Search!neutral_order(visit.link.keyword, visit.tags)
  <2>1. Over(walk, M, R, arrivals)
    BY <1>1, <1>3 DEF Search!Walked, WalkTells
  <2>2. Search!Range(walk.listed) = In(walk.listed)
    BY SearchWords
  <2>3. Search!Cardinality(Search!Missed) = Cardinality(walk.stayed \ In(walk.listed))
    BY <2>2, SearchWords DEF Search!Missed
  <2>4. Search!Repeats = Again(walk)
    BY <2>2, SearchWords DEF Search!Repeats, Again
  <2> QED BY <1>1, <2>1, <2>3, <2>4 DEF Over
<1>4. Search!FilterStands
  BY <1>1 DEF FilterTells, Search!FilterStands
<1> QED BY <1>2, <1>3, <1>4 DEF Search!WalkAccounted

\* Following Next from the first page to the last, a visitor misses and repeats no more than
\* left and arrived meanwhile, and one page if the page asked for is gone, and if nothing did
\* he has seen every match once, in order, as long as his filter stands for the same tags;
\* it does unless the facets cannot be read or the vocabulary is edited, and then it stays
\* his or is given up for good, a tag only once retired: for any number of applications,
\* pages, tags and changes of both (search_catalogue, _resolve_filter).
THEOREM WalkStands == Spec => [](part = "search" => Search!WalkAccounted)
<1>1. SearchInv => Search!WalkAccounted
  BY WalkTold
<1> QED BY <1>1, SearchHolds, PTL

\* All that the readers are promised at once: the walk through the catalogue, the pages and
\* the notices, the hints of the queue, the reviews.
THEOREM ReadsStand == Spec => []ReadsAccounted
<1>1. (part = "search" => Search!WalkAccounted) /\ (part = "pages" => Pages!PagesTellTheirTime)
        /\ (part = "queue" => Queue!HintsTold) /\ (part = "reviews" => Reviews!SlotTold)
        => ReadsAccounted
  BY DEF ReadsAccounted
<1> QED BY <1>1, WalkStands, PagesStand, HintsStand, ReviewsStand, PTL

-------------------------------------------------------------------------------
\* Every part keeps its types: an application has a tag, and alt text if and only if it has
\* a clip; a count, a page and a place are in their range; no list names anything twice; no
\* member has two ratings (edit_app, search_catalogue, list_review_queue, rate).
THEOREM TypesStand == Spec => []TypesOK
<1>1. (part = "media" => MediaInv) => (part = "media" => MediaTypeOK)
  BY DEF MediaInv
<1>2. (part = "tags" => LinkInv) => (part = "tags" => Tagging!LinksTypeOK)
  BY DEF LinkInv
<1>3. (part = "clip" => ClipInv) => (part = "clip" => Clip!ClipTypeOK)
  BY DEF ClipInv
<1>4. (part = "search" => SearchInv) => (part = "search" => Search!SearchTypeOK)
  BY WalkTold
<1>5. (part = "pages" => PagesInv) => (part = "pages" => Pages!PagesTypeOK)
  BY PagesTold
<1>6. (part = "queue" => QueueInv) => (part = "queue" => Queue!SignalTypeOK)
  BY DEF QueueInv
<1>7. (part = "reviews" => SlotInv) => (part = "reviews" => Reviews!SlotTypeOK)
  BY SlotTold
<1>8. /\ part = "media" => MediaTypeOK
      /\ part = "tags" => Tagging!LinksTypeOK
      /\ part = "facet" => Facet!LinksTypeOK
      /\ part = "clip" => Clip!ClipTypeOK
      /\ part = "desk" => Desk!DeskTypeOK
      /\ part = "search" => Search!SearchTypeOK
      /\ part = "pages" => Pages!PagesTypeOK
      /\ part = "queue" => Queue!SignalTypeOK
      /\ part = "reviews" => Reviews!SlotTypeOK
      => TypesOK
  BY DEF TypesOK
<1> QED
  BY <1>1, <1>2, <1>3, <1>4, <1>5, <1>6, <1>7, <1>8, MediaHolds, LinksHold, FacetHolds, ClipHolds,
     DeskTypesHold, SearchHolds, PagesHold, QueueHolds, SlotHolds, PTL
===============================================================================
