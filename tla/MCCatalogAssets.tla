---------------------------- MODULE MCCatalogAssets ----------------------------
(***************************************************************************)
(* The screenshots, the link rows and the demo clip of an application      *)
(* share no row, no file and no lock.  A behaviour of this module is a     *)
(* behaviour of one of them, named by `part`: one run explores them all    *)
(* without multiplying their states.  The link rows are explored as tags   *)
(* and as a facet of SINGLE cardinality.  In the part "desk" all of them   *)
(* are edited as whole requests, from pages that were rendered some time   *)
(* before.  In the parts "search", "pages", "queue" and "reviews"          *)
(* applications, their notices and ratings, are read while they come and   *)
(* go.                                                                     *)
(***************************************************************************)
EXTENDS CatalogMedia, TLC

CONSTANTS
  Labels, Clips, Alts, None,
  Tabs, Tags, Pairs, Configured, MaxChanges,                        \* EditDesk
  Listings, Relevance, Carries, Active, Resolving, Clusters,        \* CatalogSearch
  PageSize, PageSizeMax, MaxEdits,
  Developers, Owner, FeedSize, FeedNotices, WidgetNotices,          \* PublicPages
  OtherApps, MaxAge, PageMoves,
  Apps, Urls,                                                       \* DuplicateSignal
  Members, TopScore, Scales, DisplayLimit,                          \* ReviewsSlot
  MaxMoves

VARIABLES part, rows, edit, clip, alt, files, used, task, calm,
          row, active, registry, tab, look, listed, changes,        \* EditDesk
          accepted, arrivals, valid, meaning, shelf, curations, visit, walk,  \* CatalogSearch
          catalogue, follows, news, owners, moves, changed, page, copy,  \* PublicPages
          url, waiting, offered, hints,                             \* DuplicateSignal
          ratings, scale, left, slot                                \* ReviewsSlot

linkState == <<rows, edit>>
clipState == <<clip, alt, files, used, task, calm>>
deskState == <<row, active, registry, tab, look, listed, changes>>
searchState == <<accepted, arrivals, valid, meaning, shelf, curations, visit, walk>>
pagesState == <<catalogue, follows, news, owners, moves, changed, page, copy>>
queueState == <<url, waiting, offered, hints>>
slotState == <<ratings, scale, left, slot>>
editState == <<mediaVars, linkState, clipState, deskState>>
vars == <<part, editState, searchState, pagesState, queueState, slotState>>

Parts == {"media", "tags", "facet", "clip", "desk", "search", "pages",
          "queue", "reviews"}

TagAsks == (SUBSET Labels) \ {{}}
FacetAsks == {{}} \cup {{l} : l \in Labels}

Tagging == INSTANCE CatalogLinks WITH Tags <- Labels, Asks <- TagAsks
Facet == INSTANCE CatalogLinks WITH Tags <- Labels, Asks <- FacetAsks
Clip == INSTANCE DemoClip
Desk == INSTANCE EditDesk WITH
  Singles <- {Pairs}, Clips <- Clips \ {CHOOSE c \in Clips : TRUE}
Search == INSTANCE CatalogSearch WITH moves <- arrivals, edits <- curations, Nothing <- None
Pages == INSTANCE PublicPages WITH MaxMoves <- PageMoves
Queue == INSTANCE DuplicateSignal WITH listed <- offered
Reviews == INSTANCE ReviewsSlot

ASSUME LinkConstants == Tagging!LinksAssumption /\ Facet!LinksAssumption
ASSUME ClipConstants == Clip!ClipAssumption
ASSUME DeskConstants == Desk!DeskAssumption
ASSUME ReadConstants ==
  /\ Search!SearchAssumption /\ Pages!PagesAssumption /\ Queue!SignalAssumption
  /\ Reviews!SlotAssumption

NoMedia == media = {} /\ stored = {} /\ txn = <<>> /\ crowd = 0
NoLinks == rows = {} /\ edit = <<>>
NoClip == /\ clip = None /\ alt = None /\ files = {} /\ used = {}
          /\ task = <<>> /\ calm = TRUE
NoDesk == /\ row = None /\ active = {} /\ registry = {} /\ tab = <<>>
          /\ look = None /\ listed = None /\ changes = 0
NoSearch == /\ accepted = <<>> /\ arrivals = 0 /\ visit = <<>> /\ walk = <<>>
            /\ valid = {} /\ meaning = <<>> /\ shelf = <<>> /\ curations = 0
NoPages == /\ catalogue = <<>> /\ follows = <<>> /\ news = <<>> /\ owners = {}
           /\ moves = 0 /\ changed = <<>> /\ page = <<>> /\ copy = None
NoSlot == ratings = <<>> /\ scale = 0 /\ left = {} /\ slot = <<>>
NoQueue == url = <<>> /\ waiting = <<>> /\ offered = {} /\ hints = <<>>

Init ==
  /\ part \in Parts
  /\ IF part = "media" THEN MediaInit ELSE NoMedia
  /\ CASE part = "tags" -> Tagging!LinksInit
       [] part = "facet" -> Facet!LinksInit
       [] OTHER -> NoLinks
  /\ IF part = "clip" THEN Clip!ClipInit ELSE NoClip
  /\ IF part = "desk" THEN Desk!DeskInit ELSE NoDesk
  /\ IF part = "search" THEN Search!SearchInit ELSE NoSearch
  /\ IF part = "pages" THEN Pages!PagesInit ELSE NoPages
  /\ IF part = "queue" THEN Queue!SignalInit ELSE NoQueue
  /\ IF part = "reviews" THEN Reviews!SlotInit ELSE NoSlot

NextEdit ==
  /\ UNCHANGED <<part, searchState, pagesState, queueState, slotState>>
  /\ \/ part = "media" /\ MediaNext /\ UNCHANGED <<linkState, clipState, deskState>>
     \/ part = "tags" /\ Tagging!LinksNext /\ UNCHANGED <<mediaVars, clipState, deskState>>
     \/ part = "facet" /\ Facet!LinksNext /\ UNCHANGED <<mediaVars, clipState, deskState>>
     \/ part = "clip" /\ Clip!ClipNext /\ UNCHANGED <<mediaVars, linkState, deskState>>
     \/ part = "desk" /\ Desk!DeskNext /\ UNCHANGED <<mediaVars, linkState, clipState>>

NextRead ==
  /\ UNCHANGED <<part, editState>>
  /\ \/ part = "search" /\ Search!SearchNext /\ UNCHANGED <<pagesState, queueState, slotState>>
     \/ part = "pages" /\ Pages!PagesNext /\ UNCHANGED <<searchState, queueState, slotState>>
     \/ part = "queue" /\ Queue!SignalNext /\ UNCHANGED <<searchState, pagesState, slotState>>
     \/ part = "reviews" /\ Reviews!SlotNext /\ UNCHANGED <<searchState, pagesState, queueState>>

Next == NextEdit \/ NextRead

Spec == Init /\ [][Next]_vars
-------------------------------------------------------------------------------
\* The values of the constants in the runs.  Two applications match the keyword equally
\* well, and one not at all.
SearchedListings == 1 .. 4
SearchedRelevance == [ink |-> <<1, 2, 0, 2>>]
SearchedCarries == <<{"art"}, {"art"}, {"art", "pen"}, {"quill"}>>
SearchedTags == [art |-> {"art"}, pen |-> {"pen", "quill"}, quill |-> {"quill"}]
SearchedClusters == [drawing |-> {"art", "pen"}, inks |-> {"pen"}]

OwnerOfApps == [ink |-> "eve", oak |-> "eve", elm |-> "sam"]

\* One address in four spellings, and another port of it.
Plain == [site |-> "ink", host |-> "lower", path |-> "lower", port |-> "none", slashes |-> 0]
SentUrls ==
  {Plain, [Plain EXCEPT !.path = "Upper"], [Plain EXCEPT !.port = "other"],
   [Plain EXCEPT !.host = "Upper", !.port = "default", !.slashes = 1]}
-------------------------------------------------------------------------------
\* Each part keeps its types.
TypesOK ==
  /\ part = "media" => MediaTypeOK
  /\ part = "tags" => Tagging!LinksTypeOK
  /\ part = "facet" => Facet!LinksTypeOK
  /\ part = "clip" => Clip!ClipTypeOK
  /\ part = "desk" => Desk!DeskTypeOK
  /\ part = "search" => Search!SearchTypeOK
  /\ part = "pages" => Pages!PagesTypeOK
  /\ part = "queue" => Queue!SignalTypeOK
  /\ part = "reviews" => Reviews!SlotTypeOK

\* The number of screenshots stays within its caps up to the requests that overlap, and
\* exactly when none does (add_media, remove_media); those that are shown have files and
\* places of their own (_store_media).
GalleryHolds == part = "media" => MediaCountBounded /\ ScreenshotsShown

\* No reader ever finds a submitted application without a tag, and an edit of the tags
\* that no other overlaps replaces the set (_set_tags).
TagsHold ==
  [][part = "tags" => Tagging!EditReplaces /\ Tagging!NeverUntagged']_linkState

\* The storage holds the file of the clip, and no other, as long as edits come one
\* at a time and none fails half-way; a clip always has its alt text (_apply_clip_edit).
ClipStoredWhenCalm == part = "clip" => Clip!ClipStoredWhenCalm

\* A saved page changes what the developer left alone only where an excuse is named:
\* changed since, no more offered, sent in a browser's own way (_edit_action).
PageSaveAccounted == [][part = "desk" => Desk!SaveAccounted]_deskState

\* The catalogue shows what the accepting reviewer had in front of him, but for what was
\* edited between look and decision (ReviewDecisionView, edit_app).
ListedAsSeen == part = "desk" => Desk!ListedAsSeen

\* A walk misses, and repeats, no more than what came and went meanwhile accounts for,
\* and lists every match once, in order, if nothing did (search_catalogue).  A page shows
\* nothing that was gone when it was asked for, and leaves out nothing that stayed but for
\* something newer (followed_apps, published_notices_for_apps, build_widget_view).  The
\* duplicate hints tell who shares a URL, up to its case (list_review_queue); the counts,
\* the list and the form of the reviews tell the same ratings (reviews_for_app).
ReadsAccounted ==
  /\ part = "search" => Search!WalkAccounted
  /\ part = "pages" => Pages!PagesTellTheirTime
  /\ part = "queue" => Queue!HintsTold
  /\ part = "reviews" => Reviews!SlotTold

\* What is gated as a public claim was in front of the reviewer who accepted it, says
\* DECISIONS.md, and the page he decides on does not have it (review_detail_page).
ClaimsWereShown == part = "desk" => Desk!ClaimsWereShown
===============================================================================
