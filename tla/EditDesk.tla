------------------------------- MODULE EditDesk -------------------------------
(***************************************************************************)
(* How the text of one application is edited and looked at: the            *)
(* developer's pages, which send the whole form as it was rendered back,   *)
(* the API's PATCH, which sends single fields, and the page on which a     *)
(* reviewer decides (apps/catalog/views.py, forms.py).  Each request is    *)
(* one step; how their transactions overlap is told by CatalogLifecycle,   *)
(* CatalogLinks and DemoClip.  Here the time between a page and its        *)
(* answer matters.                                                         *)
(***************************************************************************)
EXTENDS Naturals, FiniteSets

CONSTANTS
  Tabs,        \* the pages the developer has open
  Tags,        \* the tags of the vocabulary
  Pairs,       \* the (facet, value) pairs of the registry
  Singles,     \* the pairs of each facet of SINGLE cardinality
  Configured,  \* APP_PAGE_GATED_FIELDS: the names the deployment gates
  Clips, Alts, None,
  MaxChanges   \* bound: saves, edits, retirements and decisions

DeskAssumption ==
  /\ Singles \subseteq SUBSET Pairs
  /\ None \notin Clips \cup Alts
  /\ Tags # {} /\ Pairs # {} /\ Clips # {} /\ Alts # {}
  /\ MaxChanges \in Nat

VARIABLES
  row,       \* the application
  active,    \* the tags that are active
  registry,  \* the pairs that facets.FACETS still has
  tab,       \* tab[t]: the page in tab t, or None
  look,      \* the page in front of the reviewer, or None
  listed,    \* history: what the reviewer who accepted last had in front of him
  changes

deskVars == <<row, active, registry, tab, look, listed, changes>>

\* Texts, told apart by their line breaks: none, as a program writes them, as a browser
\* sends them.
Texts == {"plain", "lf", "crlf"}
Blank == "blank"

Fields == {"description", "deep_dive", "tags", "facets", "clip", "alt"}
Of(f) == CASE f = "description" -> Texts
           [] f = "deep_dive" -> Texts \cup {Blank}
           [] f = "tags" -> SUBSET Tags
           [] f = "facets" -> SUBSET Pairs
           [] f = "clip" -> Clips
           [] f = "alt" -> Alts \cup {None}
Content == [description : Of("description"), deep_dive : Of("deep_dive"), tags : Of("tags"),
            facets : Of("facets"), clip : Clips \cup {None}, alt : Of("alt")]

\* A form keeps what it was rendered from and which fields the developer has changed.
Forms == [content : Content, from : Content, touched : SUBSET Fields]
Shown == {"description", "tags"}

DeskTypeOK ==
  /\ row \in [content : Content, status : {"pending", "accepted"}]
  /\ row.content.tags # {} /\ (row.content.clip = None <=> row.content.alt = None)
  /\ active \subseteq Tags /\ registry \subseteq Pairs
  /\ \A t \in Tabs : tab[t] = None \/ tab[t] \in Forms
  /\ \A l \in {look, listed} : l = None \/ (DOMAIN l.shown = Shown /\ l.unseen \subseteq Fields)
  /\ changes \in 0 .. MaxChanges

-------------------------------------------------------------------------------
Toggleable == {"deep_dive", "facets", "demo_clip"}

\* app_page_gated_fields: a name it does not know gates nothing.
app_page_gated_fields == Toggleable \cap Configured

\* Mutant: what is configured takes the place of the floor.
ConfiguredOnly == app_page_gated_fields

gate_relevant_fields == {"description", "tags"} \cup app_page_gated_fields

GateName(f) == IF f \in {"clip", "alt"} THEN "demo_clip" ELSE f
GateRelevant(f) == GateName(f) \in gate_relevant_fields

\* What edit_app is asked to change: some fields, the others stay away (_UNSET).
Supplied(edits, f) == f \in DOMAIN edits
Asked(content, edits, f) == IF Supplied(edits, f) THEN edits[f] ELSE content[f]

\* _require_text, _require_valid_tags, _require_valid_facets, _validate_clip.
Acceptable(content, edits) ==
  /\ Supplied(edits, "tags") => edits.tags # {} /\ edits.tags \subseteq active
  /\ Supplied(edits, "facets") =>
       edits.facets \subseteq registry /\ \A s \in Singles : Cardinality(edits.facets \cap s) <= 1
  /\ Supplied(edits, "clip") => Asked(content, edits, "alt") # None

\* _apply_clip_edit: a new clip with its alt text, or a new alt text that is not blank
\* for a clip that is there.
AltWritten(content, edits) ==
  Supplied(edits, "alt") /\ (Supplied(edits, "clip") \/ (content.clip # None /\ edits.alt # None))

Edited(content, edits) ==
  [f \in Fields |-> IF f = "alt" /\ ~AltWritten(content, edits) THEN content.alt
                    ELSE Asked(content, edits, f)]

ChangedBy(content, edits) == {f \in Fields : Edited(content, edits)[f] # content[f]}

\* edit_app, of an edit it accepts.
EditApp(r, edits) ==
  [content |-> Edited(r.content, edits),
   status |-> IF \E f \in ChangedBy(r.content, edits) : GateRelevant(f) THEN "pending"
              ELSE r.status]

\* A change of the application, which the page in front of the reviewer does not show.
Write(edits) ==
  /\ row' = EditApp(row, edits)
  /\ look' = IF look = None THEN None
             ELSE [look EXCEPT !.unseen = @ \cup ChangedBy(row.content, edits)]

\* Bound: as many changes as may happen.
Change == changes < MaxChanges /\ changes' = changes + 1

-------------------------------------------------------------------------------
\* A browser sends the line breaks of a text area its own way.
Sent(text) == IF text = "lf" THEN "crlf" ELSE text

\* Mutant: a field of the form without its initial value.
FormInitialForgets(content) == [content EXCEPT !.deep_dive = Blank]

form_initial(content) == content

\* The page has a box for each tag that is active and each pair of the registry, and
\* ticks those of the form; the rest of the form is not on it.
Offered(content) ==
  [content EXCEPT !.tags = @ \cap active, !.facets = @ \cap registry]

\* app_detail_page: the developer opens the page.
RenderEditPage(t) ==
  /\ tab[t] = None
  /\ tab' = [tab EXCEPT ![t] = [content |-> Offered(form_initial(row.content)),
                                from |-> row.content, touched |-> {}]]
  /\ UNCHANGED <<row, active, registry, look, listed, changes>>

\* The fields of the form as the browser sends them: all of them, the clip only when a
\* file was chosen.
Posted(form, edits) ==
  LET content == [f \in Fields |-> Asked(form, edits, f)] IN
  [f \in (Fields \ {"clip"}) \cup (DOMAIN edits \cap {"clip"}) |->
     IF f \in {"description", "deep_dive"} THEN Sent(content[f]) ELSE content[f]]

\* SubmissionForm.is_valid: the choices are those of now.
IsValid(posted) ==
  posted.tags # {} /\ posted.tags \subseteq active /\ posted.facets \subseteq registry

\* _edit_action: the form is saved and the page left, or shown again as it was sent.
SaveEditPage(t, edits) ==
  LET form == tab[t]
      posted == Posted(form.content, edits) IN
  /\ form # None /\ Change
  /\ IF IsValid(posted) /\ Acceptable(row.content, posted)
     THEN Write(posted) /\ tab' = [tab EXCEPT ![t] = None]
     ELSE /\ tab' = [tab EXCEPT ![t] =
                [form EXCEPT !.content = Offered([f \in Fields |->
                               IF f # "clip" THEN posted[f] ELSE form.content.clip]),
                             !.touched = @ \cup (DOMAIN edits \ {"clip"})]]
          /\ UNCHANGED <<row, look>>
  /\ UNCHANGED <<active, registry, listed>>

\* AppDetailView.patch: the fields that are in the request.  A refusal changes nothing.
PatchApi(edits) ==
  /\ Change
  /\ Acceptable(row.content, edits)
  /\ Write(edits)
  /\ UNCHANGED <<active, registry, tab, listed>>

\* review_detail_page opens whatever the application's status: name, URL, description,
\* tags and screenshots are on it.
OpenReview ==
  /\ look' = [shown |-> [f \in Shown |-> row.content[f]], unseen |-> {}]
  /\ UNCHANGED <<row, active, registry, tab, listed, changes>>

\* _handle_review_decision: the decision names the application, not what it looked like.
AcceptReviewed ==
  /\ look # None /\ row.status = "pending"
  /\ Change
  /\ row' = [row EXCEPT !.status = "accepted"]
  /\ listed' = look /\ look' = None
  /\ UNCHANGED <<active, registry, tab>>

\* The vocabulary retires or merges a tag; a release drops a value of a facet.
Retire ==
  /\ Change
  /\ \/ \E t \in active : active' = active \ {t} /\ UNCHANGED registry
     \/ \E p \in registry : registry' = registry \ {p} /\ UNCHANGED active
  /\ UNCHANGED <<row, tab, look, listed>>

-------------------------------------------------------------------------------
\* What is changed at once: nothing, a field, or the clip with its alt text.
Edits ==
  {[f \in {} |-> Blank]} \cup (UNION {[{f} -> Of(f)] : f \in Fields}) \cup [clip : Clips, alt : Alts]

DeskInit ==
  /\ row \in {[content |-> [description |-> "plain", deep_dive |-> "plain", tags |-> Tags,
                            facets |-> {CHOOSE p \in Pairs : TRUE}, clip |-> c,
                            alt |-> IF c = None THEN None ELSE CHOOSE a \in Alts : TRUE],
               status |-> "pending"] : c \in {None, CHOOSE c \in Clips : TRUE}}
  /\ active = Tags /\ registry = Pairs
  /\ tab = [t \in Tabs |-> None]
  /\ look = None /\ listed = None
  /\ changes = 0

DeskNext ==
  \/ \E t \in Tabs : RenderEditPage(t) \/ \E edits \in Edits : SaveEditPage(t, edits)
  \/ \E edits \in Edits : PatchApi(edits)
  \/ OpenReview \/ AcceptReviewed \/ Retire

-------------------------------------------------------------------------------
\* A saved page changes a field the developer left alone only if the field was changed
\* since the page was rendered, holds a tag or a facet's value that is not offered any
\* more, or a text whose line breaks no browser sends (_edit_action).
Excused(t, f) ==
  \/ row.content[f] # tab[t].from[f]
  \/ f = "tags" /\ ~ row.content.tags \subseteq active
  \/ f = "facets" /\ ~ row.content.facets \subseteq registry
  \/ f \in {"description", "deep_dive"} /\ Sent(row.content[f]) # row.content[f]

SaveAccounted ==
  \A t \in {t \in Tabs : tab[t] # None /\ tab'[t] = None} :
    \A edits \in Edits : SaveEditPage(t, edits) =>
      \A f \in Fields \ (tab[t].touched \cup DOMAIN edits) :
        row'.content[f] = row.content[f] \/ Excused(t, f)

\* The catalogue shows what the reviewer who accepted had in front of him, but for what
\* was edited between his look and his decision (ReviewDecisionView, edit_app).
ListedAsSeen ==
  row.status = "accepted" =>
    \A f \in Shown : row.content[f] = listed.shown[f] \/ f \in listed.unseen

Claims(f) == CASE f = "deep_dive" -> row.content.deep_dive # Blank
               [] f = "facets" -> row.content.facets # {}
               [] f \in {"clip", "alt"} -> row.content[f] # None
               [] OTHER -> TRUE

\* What the gate's policy is for: no public claim that it gates is accepted without
\* having been in front of the reviewer (DECISIONS.md, D-14).
ClaimsWereShown ==
  row.status = "accepted" =>
    \A f \in Fields : GateRelevant(f) /\ Claims(f) => f \in DOMAIN listed.shown
===============================================================================
