------------------------------ MODULE ReviewsSlot ------------------------------
(***************************************************************************)
(* The reviews in the page of an application (ratings/selectors.py, the    *)
(* tag app_reviews and the form in its template): the counts by score, the *)
(* newest ratings and the viewer's own are read one after another while    *)
(* others rate, change their minds and leave, and while the operator       *)
(* changes the scale; the form comes back some time later with what it     *)
(* had been filled with.                                                   *)
(***************************************************************************)
EXTENDS Naturals, Sequences, FiniteSets, FiniteSetsExt, Functions, Sifting

CONSTANTS
  Members, TopScore,
  Scales,       \* the values of RATING_SCALE_MAX, up to TopScore
  DisplayLimit, \* REVIEWS_DISPLAY_LIMIT
  MaxMoves,     \* bound: the requests between the steps of one page
  None

VARIABLES
  ratings,      \* the ratings of the application, the newest first: [user, score]
  scale,        \* the scale in force
  left,         \* the members whose accounts are gone
  slot          \* the page: its step, its viewer, what it has read

slotVars == <<ratings, scale, left, slot>>

SlotAssumption ==
  /\ IsFiniteSet(Members) /\ None \notin Members
  /\ Scales \subseteq 1 .. TopScore /\ {TopScore, DisplayLimit} \subseteq Nat \ {0}
  /\ MaxMoves \in Nat

Scores == 1 .. TopScore
Rows == [user : Members \cup {None}, score : Scores]
OfMember(m, rows) == Picked(rows, {i \in DOMAIN rows : rows[i].user = m})

Unopened == [at |-> "none", viewer |-> None, scale |-> TopScore, left |-> {},
             distribution |-> [s \in Scores |-> 0], list |-> <<>>, own |-> <<>>,
             late |-> 0, before |-> <<>>]

SlotTypeOK ==
  /\ ratings \in Seq(Rows) /\ scale \in Scales /\ left \subseteq Members
  /\ \A m \in Members : Len(OfMember(m, ratings)) <= (IF m \in left THEN 0 ELSE 1)
  /\ slot.at \in {"none", "opened", "counted", "listed", "shown", "degraded", "saved"}
  /\ Len(slot.list) <= DisplayLimit /\ Len(slot.own) <= 1 /\ slot.late \in 0 .. MaxMoves
-------------------------------------------------------------------------------
\* Raised and lowered by the operator, whatever is stored.
SlotInit ==
  /\ ratings \in {rows \in UNION {[1 .. n -> Rows] : n \in 0 .. Cardinality(Members) + 1} :
                    \A m \in Members : Len(OfMember(m, rows)) <= 1}
  /\ scale \in Scales /\ left = {} /\ slot = Unopened

Rated(rows, m, score) ==
  IF OfMember(m, rows) = <<>> THEN <<[user |-> m, score |-> score]>> \o rows
  ELSE [i \in DOMAIN rows |-> IF rows[i].user = m THEN [user |-> m, score |-> score] ELSE rows[i]]

\* Bound: what comes before the page is opened is in the initial states.
Move ==
  /\ slot.at \in {"opened", "counted", "listed", "shown"} /\ slot.late < MaxMoves
  /\ slot' = [slot EXCEPT !.late = @ + 1]

\* A rating keeps its place in the order when it is changed.
submit_rating(m, score) ==
  /\ Move /\ m \notin left /\ score <= scale
  /\ ratings' = Rated(ratings, m, score)
  /\ UNCHANGED <<scale, left>>

remove_rating(m) ==
  /\ Move /\ OfMember(m, ratings) # <<>>
  /\ ratings' = Picked(ratings, {i \in DOMAIN ratings : ratings[i].user # m})
  /\ UNCHANGED <<scale, left>>

\* SET NULL: the rating stays, of nobody.
MemberLeaves(m) ==
  /\ Move /\ m \notin left
  /\ left' = left \cup {m}
  /\ ratings' = [i \in DOMAIN ratings |->
                   IF ratings[i].user = m THEN [ratings[i] EXCEPT !.user = None] ELSE ratings[i]]
  /\ UNCHANGED scale

Rescale(s) ==
  /\ Move /\ s # scale /\ scale' = s
  /\ UNCHANGED <<ratings, left>>

Read(from, to, read) ==
  /\ slot.at = from /\ slot' = [read EXCEPT !.at = to]
  /\ UNCHANGED <<ratings, scale, left>>

\* app_reviews: the scale is read once, and first.
OpenSlot ==
  \E v \in (Members \ left) \cup {None} :
    Read("none", "opened", [slot EXCEPT !.viewer = v, !.scale = scale, !.left = left])

\* Mutant: without the ratings of those who left.
CountsOfMembers ==
  [s \in Scores |-> Cardinality({m \in Members : \E r \in Range(OfMember(m, ratings)) : r.score = s})]

score_distribution == [s \in Scores |-> Cardinality({i \in DOMAIN ratings : ratings[i].score = s})]

ReadDistribution ==
  Read("opened", "counted", [slot EXCEPT !.distribution = score_distribution])

recent_ratings == SubSeq(ratings, 1, Min({Len(ratings), DisplayLimit}))

ReadList == Read("counted", "listed", [slot EXCEPT !.list = recent_ratings])

\* Nobody's, for a viewer who is not signed in.
user_rating == IF slot.viewer = None THEN <<>> ELSE OfMember(slot.viewer, ratings)

ReadOwn == Read("listed", "shown", [slot EXCEPT !.own = user_rating])

\* Any read that fails leaves a slot with no form.
SlotDegrades ==
  \E step \in {"opened", "counted", "listed"} : Read(step, "degraded", [slot EXCEPT !.list = <<>>])

\* Mutant: nothing is selected.
SelectedNone == 1

\* The form has the scores of its scale; a browser takes the first if none is selected.
Selected ==
  IF slot.own # <<>> /\ slot.own[1].score <= slot.scale THEN slot.own[1].score ELSE 1

\* The form is sent as it is; a score beyond the scale of today is refused.
SaveForm ==
  /\ slot.at = "shown" /\ slot.viewer \in Members \ left
  /\ slot' = [slot EXCEPT !.at = "saved", !.before = OfMember(slot.viewer, ratings)]
  /\ ratings' = IF Selected <= scale THEN Rated(ratings, slot.viewer, Selected) ELSE ratings
  /\ UNCHANGED <<scale, left>>

SlotNext ==
  \/ OpenSlot \/ ReadDistribution \/ ReadList \/ ReadOwn \/ SlotDegrades \/ SaveForm
  \/ \E m \in Members : \/ remove_rating(m) \/ MemberLeaves(m)
                        \/ \E s \in Scores : submit_rating(m, s)
  \/ \E s \in Scales : Rescale(s)
-------------------------------------------------------------------------------
TotalOf(scores) == SumFunctionOnSet(slot.distribution, scores)

\* The count over all scores, the rows that are shown and the list tell one set of ratings,
\* up to the requests between their reads: every rating is in a row, unless the scale was
\* lowered below it; the list is cut at its limit only; who had left is not named.
CountsAndListAgree ==
  LET total == TotalOf(Scores)
      hidden == total - TotalOf(1 .. slot.scale)
  IN /\ Len(ratings) <= total + slot.late /\ total <= Len(ratings) + slot.late
     /\ Len(slot.list) <= total + slot.late
     /\ total <= Len(slot.list) + slot.late \/ Len(slot.list) = DisplayLimit
     /\ hidden <= slot.late +
          Cardinality({i \in DOMAIN ratings : ratings[i].score > slot.scale})
     /\ \A i \in DOMAIN slot.list : slot.list[i].user \notin slot.left
     /\ \A i \in DOMAIN slot.list :
          slot.list[i].user = slot.viewer /\ slot.viewer # None =>
            slot.own = <<slot.list[i]>> \/ slot.late > 0

\* A viewer who sends the form as he got it keeps his rating, but for another tab's changes
\* since; a rating above the scale it was rendered for becomes the lowest.
FormKeepsRating ==
  LET after == OfMember(slot.viewer, ratings)
  IN \/ after = slot.before
     \/ slot.late > 0
     \/ slot.own = <<>> /\ after = <<[user |-> slot.viewer, score |-> 1]>>
     \/ slot.own # <<>> /\ slot.own[1].score > slot.scale /\ after[1].score = 1

SlotTold ==
  /\ slot.at = "shown" => CountsAndListAgree
  /\ slot.at = "saved" => FormKeepsRating
===============================================================================
