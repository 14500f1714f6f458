---------------------------- MODULE CatalogSearch ----------------------------
(***************************************************************************)
(* The open catalogue page by page (discovery/views.py, search_catalogue   *)
(* in catalog/selectors.py): a visitor searches or browses, optionally     *)
(* filtered by a tag or by a cluster of tags, and follows the Next links.  *)
(* A page is two statements, the count that clamps its number and the      *)
(* slice at an offset; applications enter and leave the catalogue, and the *)
(* staff edit the vocabulary behind the filter, at any moment between them *)
(* and between the pages.                                                  *)
(***************************************************************************)
EXTENDS Naturals, Sequences, FiniteSets, FiniteSetsExt, Functions

CONSTANTS
  Listings,     \* the ids of the applications: numbers, as they break ties
  Relevance,    \* Relevance[k][a]: how well a matches keyword k; 0: not at all
  Carries,      \* Carries[a]: the tags of a
  Active,       \* the tags that are active at first
  Resolving,    \* Resolving[t]: t and the retired tags that lead to t at first
  Clusters,     \* Clusters[c]: the tags of cluster c at first
  PageSize, PageSizeMax,   \* the page size configured, and its cap
  Nothing,      \* no keyword, tag or cluster
  MaxMoves,     \* bound: the times an application enters or leaves
  MaxEdits      \* bound: the edits of the vocabulary during a walk

VARIABLES
  accepted,     \* accepted[a]: when a was accepted; 0: not catalogued
  moves,        \* how often the catalogue has changed
  valid,        \* the active tags
  meaning,      \* meaning[t]: t and the retired tags that lead to t
  shelf,        \* shelf[c]: the tags of cluster c
  edits,        \* how often the vocabulary has changed
  visit,        \* the request being served: its step, its link, its filter
  walk          \* history of the visitor's walk through the pages

vocabulary == <<valid, meaning, shelf, edits>>
searchVars == <<accepted, moves, vocabulary, visit, walk>>

Vocabulary == DOMAIN Resolving

SearchAssumption ==
  /\ Listings \subseteq Nat /\ IsFiniteSet(Listings)
  /\ \A k \in DOMAIN Relevance : Relevance[k] \in [Listings -> Nat]
  /\ DOMAIN Carries = Listings
  /\ Active \subseteq Vocabulary /\ Resolving \in [Vocabulary -> SUBSET Vocabulary]
  /\ \A t \in Vocabulary : t \in Resolving[t]
  /\ \A c \in DOMAIN Clusters : Clusters[c] \subseteq Vocabulary
  /\ Nothing \notin DOMAIN Relevance \cup Vocabulary \cup DOMAIN Clusters
  /\ PageSize \in Nat /\ PageSizeMax \in Nat \ {0} /\ MaxMoves \in Nat /\ MaxEdits \in Nat

Keywords == DOMAIN Relevance \cup {Nothing}

Links == [keyword : Keywords, tag : Vocabulary \cup {Nothing},
          cluster : DOMAIN Clusters \cup {Nothing}]

SearchTypeOK ==
  /\ accepted \in [Listings -> 0 .. MaxMoves + 2] /\ moves \in 0 .. MaxMoves
  /\ valid \subseteq Vocabulary /\ meaning \in [Vocabulary -> SUBSET Vocabulary]
  /\ DOMAIN shelf \subseteq DOMAIN Clusters /\ \A c \in DOMAIN shelf : shelf[c] \subseteq Vocabulary
  /\ edits \in 0 .. MaxEdits
  /\ visit.at \in {"idle", "open", "counted", "sliced", "last"}
  /\ visit.link \in Links /\ visit.page \in Nat \ {0} /\ visit.last \in Nat \ {0}
  /\ visit.at \in {"counted", "sliced", "last"} => visit.page <= visit.last
  /\ walk.listed \in Seq(Listings) /\ walk.stayed \subseteq Listings
-------------------------------------------------------------------------------
size == Max({1, Min({PageSize, PageSizeMax})})

accepted_matching(keyword, tags) ==
  {a \in Listings :
     /\ accepted[a] > 0
     /\ keyword # Nothing => Relevance[keyword][a] > 0
     /\ tags # {} => Carries[a] \cap tags # {}}

Rank(keyword, a) == IF keyword = Nothing THEN 0 ELSE Relevance[keyword][a]

\* Best match first, then the newest accepted, then the smallest id.
neutral_order(keyword, tags) ==
  LET Matching == accepted_matching(keyword, tags)
      Before(a, b) ==
        \/ Rank(keyword, a) > Rank(keyword, b)
        \/ /\ Rank(keyword, a) = Rank(keyword, b)
           /\ \/ accepted[a] > accepted[b]
              \/ accepted[a] = accepted[b] /\ a < b
      Ahead(a) == {b \in Matching : Before(b, a)}
  IN [i \in 1 .. Cardinality(Matching) |->
        CHOOSE a \in Matching : Cardinality(Ahead(a)) = i - 1]

\* Mutant: the last, partly filled page is rounded away.
FullPages(total) == Max({1, total \div size})

last_page(total) == Max({1, (total + size - 1) \div size})

\* [offset : offset + size]
page_apps(seq, page) == SubSeq(seq, (page - 1) * size + 1, Min({page * size, Len(seq)}))

\* The active tags of a cluster, looked up in the sidebar's facets, if they were read.
cluster_tags(link, facets) ==
  IF facets /\ link.cluster \in DOMAIN shelf THEN shelf[link.cluster] \cap valid ELSE {}

cluster_tag_ids(link, facets) == UNION {meaning[t] : t \in cluster_tags(link, facets)}

\* Mutant: the page links on with the cluster it could not look up.
FilterOfLink(link, facets) ==
  [tags |-> IF link.tag \in valid THEN meaning[link.tag] ELSE cluster_tag_ids(link, facets),
   link |-> link]

\* A tag wins over a cluster; what is unknown, retired or cannot be expanded is no
\* filter at all, and is not carried on.
resolve_filter(link, facets) ==
  IF link.tag \in valid
  THEN [tags |-> meaning[link.tag], link |-> [link EXCEPT !.cluster = Nothing]]
  ELSE IF cluster_tags(link, facets) # {}
  THEN [tags |-> cluster_tag_ids(link, facets), link |-> [link EXCEPT !.tag = Nothing]]
  ELSE [tags |-> {}, link |-> [link EXCEPT !.tag = Nothing, !.cluster = Nothing]]
-------------------------------------------------------------------------------
Under(v) == accepted_matching(v.link.keyword, v.tags)

NoLink == [keyword |-> Nothing, tag |-> Nothing, cluster |-> Nothing]

SearchInit ==
  /\ accepted \in [Listings -> 0 .. 1] /\ moves = 0
  /\ valid = Active /\ meaning = Resolving /\ shelf = Clusters /\ edits = 0
  /\ visit = [at |-> "idle", tags |-> {}, page |-> 1, last |-> 1, link |-> NoLink]
  /\ walk = [listed |-> <<>>, stayed |-> {}, arrived |-> 0, left |-> 0, unseen |-> 0,
             asked |-> NoLink, filter |-> "kept", unread |-> FALSE]

\* The view resolves the filter of the link.  The Next link of the page will carry what
\* it has selected.
OpenPage(link, page, facets) ==
  visit' = [at |-> "open", link |-> resolve_filter(link, facets).link,
            tags |-> resolve_filter(link, facets).tags, page |-> page, last |-> visit.last]

BeginWalk ==
  /\ visit.at = "idle"
  /\ \E link \in Links, facets \in BOOLEAN :
       /\ OpenPage(link, 1, facets)
       /\ walk' = [walk EXCEPT !.asked = visit'.link, !.stayed =
            accepted_matching(link.keyword, resolve_filter(link, facets).tags)]
  /\ UNCHANGED <<accepted, moves, vocabulary>>

FollowNext ==
  /\ visit.at = "sliced"
  /\ \E facets \in BOOLEAN :
       /\ OpenPage(visit.link, visit.page + 1, facets)
       /\ walk' = [walk EXCEPT !.unread = @ \/ ~facets, !.filter =
            IF visit'.tags = visit.tags THEN @
            ELSE IF visit'.tags = {} THEN "lost" ELSE "exchanged"]
  /\ UNCHANGED <<accepted, moves, vocabulary>>

\* matches.count(): the page asked for is clamped into what there is now.
CountMatches ==
  /\ visit.at = "open"
  /\ LET last == last_page(Cardinality(Under(visit)))
     IN visit' = [visit EXCEPT !.at = "counted", !.last = last, !.page = Min({@, last})]
  /\ UNCHANGED <<accepted, moves, vocabulary, walk>>

ReadSlice ==
  /\ visit.at = "counted"
  /\ walk' = [walk EXCEPT !.listed =
       @ \o page_apps(neutral_order(visit.link.keyword, visit.tags), visit.page)]
  /\ visit' = [visit EXCEPT !.at = IF visit.page < visit.last THEN "sliced" ELSE "last"]
  /\ UNCHANGED <<accepted, moves, vocabulary>>

Walking == visit.at \in {"open", "counted", "sliced"}
Moving == moves < MaxMoves /\ moves' = moves + 1 /\ UNCHANGED <<vocabulary, visit>>

\* accept_app stamps the moment before its transaction commits: another acceptance may
\* bear the same moment, or a later one and be visible first.
Accept(a) ==
  /\ accepted[a] = 0
  /\ Moving
  /\ \E moment \in {moves + 1, moves + 2} : accepted' = [accepted EXCEPT ![a] = moment]
  /\ LET news == IF Walking /\ a \in Under(visit)' THEN 1 ELSE 0
     IN walk' = [walk EXCEPT !.arrived = @ + news,
                             !.unseen = IF visit.at = "counted" THEN @ + news ELSE @]

\* A withdrawal, a re-review or the deletion of the owner.
Leave(a) ==
  /\ accepted[a] > 0
  /\ Moving
  /\ accepted' = [accepted EXCEPT ![a] = 0]
  /\ walk' = [walk EXCEPT !.stayed = @ \ {a},
                          !.left = IF Walking /\ a \in Under(visit) THEN @ + 1 ELSE @]

\* What is edited before the walk is in the constants, what is edited after it is nothing
\* to it.
Editing ==
  /\ Walking /\ edits < MaxEdits /\ edits' = edits + 1
  /\ UNCHANGED <<accepted, moves, visit, walk>>

\* A tag is retired, with or without an active successor that does not lead to it, or a
\* retired one gets another: what leads to it goes along.
retire_tag(t, replaced_by) ==
  /\ Editing
  /\ valid' = valid \ {t}
  /\ meaning' = [u \in Vocabulary |->
       IF u \in meaning[t] THEN meaning[u]
       ELSE IF u = replaced_by THEN meaning[u] \cup meaning[t] ELSE meaning[u] \ meaning[t]]
  /\ UNCHANGED shelf

\* An active tag stays in a cluster.
update_tag(t, clusters) ==
  /\ t \in valid => clusters # {}
  /\ Editing
  /\ shelf' = [c \in DOMAIN shelf |->
       IF c \in clusters THEN shelf[c] \cup {t} ELSE shelf[c] \ {t}]
  /\ UNCHANGED <<valid, meaning>>

\* In the admin site.
DeleteCluster(c) ==
  /\ Editing
  /\ shelf' = [d \in DOMAIN shelf \ {c} |-> shelf[d]]
  /\ UNCHANGED <<valid, meaning>>

EditVocabulary ==
  \/ \E t \in Vocabulary : \E s \in (valid \ meaning[t]) \cup {Nothing} : retire_tag(t, s)
  \/ \E t \in Vocabulary, clusters \in SUBSET DOMAIN shelf : update_tag(t, clusters)
  \/ \E c \in DOMAIN shelf : DeleteCluster(c)

SearchNext ==
  \/ BeginWalk \/ FollowNext \/ CountMatches \/ ReadSlice
  \/ \E a \in Listings : Accept(a) \/ Leave(a)
  \/ EditVocabulary
-------------------------------------------------------------------------------
Walked == visit.at = "last" /\ walk.filter = "kept"
Missed == walk.stayed \ Range(walk.listed)
Repeats == Len(walk.listed) - Cardinality(Range(walk.listed))

\* The pages of a walk are for the keyword, the tag and the cluster that the first was for,
\* until the filter is given up, for the whole catalogue and the rest of the walk: a tag
\* only if it was retired, a cluster only if the facets could not be read or the staff
\* edited the vocabulary meanwhile; and what the tag or the cluster stands for changes
\* only if they did (_resolve_filter).
FilterStands ==
  /\ walk.filter # "lost" => visit.link = walk.asked
  /\ walk.filter = "lost" =>
       /\ visit.tags = {} /\ visit.link = [walk.asked EXCEPT !.tag = Nothing, !.cluster = Nothing]
       /\ IF walk.asked.tag # Nothing THEN walk.asked.tag \notin valid
          ELSE walk.unread \/ edits > 0
  /\ walk.filter = "exchanged" => edits > 0

\* Following Next from the first page to the last, with a filter that stands for the same
\* tags on every page, a visitor misses no more of the matches that stayed than
\* applications left, or arrived between a count and its slice; he finds no more repeated
\* than arrived, plus one page when a page asked for is gone and the last is served again;
\* and if nothing came or went he has seen every match once, in the neutral order
\* (search_catalogue).
WalkAccounted ==
  /\ Walked =>
       /\ Cardinality(Missed) <= walk.left + walk.unseen
       /\ Repeats <= walk.arrived + (IF walk.left > 0 THEN size ELSE 0)
       /\ moves = 0 => walk.listed = neutral_order(visit.link.keyword, visit.tags)
  /\ FilterStands
===============================================================================
