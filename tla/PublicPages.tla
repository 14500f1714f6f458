----------------------------- MODULE PublicPages -----------------------------
(***************************************************************************)
(* The pages that show applications and their notices: the follower's feed *)
(* (subscriptions), the widget in somebody else's page (widget), the page  *)
(* of an application with its slots (pages), and the developer's channel   *)
(* (updates).  Each is put together by several reads in no transaction,    *)
(* most of which may fail and leave a gap, while applications come and go  *)
(* and notices are posted and withdrawn; the widget is then kept by the    *)
(* browser for as long as its header allows.                               *)
(***************************************************************************)
EXTENDS Naturals, Sequences, FiniteSets, Functions, Sifting

CONSTANTS
  Developers,
  Owner,                 \* Owner[a]: the developer of a; its domain: the applications
  FeedSize, FeedNotices, WidgetNotices, OtherApps,   \* limits of what a page shows
  MaxAge,                \* how long a browser keeps the widget
  MaxMoves,              \* bound: the changes other requests make
  None

VARIABLES
  catalogue,    \* the accepted applications, the newest accepted first
  follows,      \* those a member follows, the newest follow first
  news,         \* the notices, the newest first: [id, app]
  owners,       \* the developers with an account
  moves,        \* how often something has changed
  changed,      \* history: when each application, follow and notice last came or went
  page,         \* the page being put together, or shown
  copy          \* the widget in a browser: what it shows, since when, how old it is

pagesVars == <<catalogue, follows, news, owners, moves, changed, page, copy>>

\* The applications, each held by a developer.
Held == DOMAIN Owner
Ids == 1 .. MaxMoves

PagesAssumption ==
  /\ IsFiniteSet(Held) /\ \A a \in Held : Owner[a] \in Developers
  /\ {FeedSize, FeedNotices, WidgetNotices, OtherApps} \subseteq Nat \ {0}
  /\ MaxAge \in Nat /\ MaxMoves \in Nat /\ None \notin BOOLEAN

Notices == [id : Ids, app : Held]

Blank == [at |-> "shown", kind |-> "none", app |-> None, began |-> 0, apps |-> <<>>,
          others |-> <<>>, news |-> <<>>, follows |-> None, gap |-> {}]

PagesTypeOK ==
  /\ catalogue \in Seq(Held) /\ IsInjective(catalogue)
  /\ follows \in Seq(Held) /\ IsInjective(follows)
  /\ news \in Seq(Notices) /\ IsInjective(news)
  /\ owners \subseteq Developers /\ moves \in 0 .. MaxMoves
  /\ page.at \in {"apps", "others", "news", "slots", "shown"}
  /\ page.kind = "feed" => Len(page.apps) <= FeedSize /\ Len(page.news) <= FeedNotices
  /\ page.kind = "widget" => Len(page.news) <= WidgetNotices
  /\ Len(page.others) <= OtherApps
  /\ copy # None => copy.age <= MaxAge /\ copy.kind = "widget"
-------------------------------------------------------------------------------
Prefix(seq, limit) == SubSeq(seq, 1, IF Len(seq) < limit THEN Len(seq) ELSE limit)

Listed(a) == a \in Range(catalogue)

\* Mutant: whatever their status.
GetApps(ids) == ids

\* In the order of ids, as followed_apps puts them.
get_catalogued_apps(ids) == Picked(ids, {i \in DOMAIN ids : Listed(ids[i])})

published_notices_for_apps(apps, limit) ==
  Prefix(Picked(news, {i \in DOMAIN news : news[i].app \in apps}), limit)

accepted_apps_by_owner(a, limit) ==
  LET OfOwner == {b \in Held : Owner[b] = Owner[a] /\ b # a}
  IN Prefix(Picked(catalogue, {i \in DOMAIN catalogue : catalogue[i] \in OfOwner}), limit)
-------------------------------------------------------------------------------
PagesInit ==
  /\ catalogue = LineUp(Held)
  /\ follows = [i \in DOMAIN catalogue |-> catalogue[Len(catalogue) + 1 - i]]
  /\ news = <<>> /\ owners = Developers /\ moves = 0
  /\ changed = [app |-> [a \in Held |-> 0], follow |-> [a \in Held |-> 0],
                notice |-> [i \in Ids |-> 0]]
  /\ page = Blank /\ copy = None

Move(touched) ==
  /\ moves < MaxMoves /\ moves' = moves + 1
  /\ changed' = [k \in DOMAIN changed |->
                   [x \in DOMAIN changed[k] |->
                      IF <<k, x>> \in touched THEN moves + 1 ELSE changed[k][x]]]
  /\ UNCHANGED <<page, copy>>

Accept(a) ==
  /\ Owner[a] \in owners /\ ~Listed(a)
  /\ Move({<<"app", a>>})
  /\ catalogue' = <<a>> \o catalogue
  /\ UNCHANGED <<follows, news, owners>>

\* Withdrawn, or back in review: its follows and notices stay.
Leave(a) ==
  /\ Listed(a)
  /\ Move({<<"app", a>>})
  /\ catalogue' = Without(catalogue, a)
  /\ UNCHANGED <<follows, news, owners>>

follow_app(a) ==
  /\ Listed(a) /\ a \notin Range(follows)
  /\ Move({<<"follow", a>>})
  /\ follows' = <<a>> \o follows
  /\ UNCHANGED <<catalogue, news, owners>>

unfollow_app(a) ==
  /\ a \in Range(follows)
  /\ Move({<<"follow", a>>})
  /\ follows' = Without(follows, a)
  /\ UNCHANGED <<catalogue, news, owners>>

\* The owner posts, whether the application is accepted or not.
post_notice(a) ==
  /\ Owner[a] \in owners
  /\ Move({<<"notice", moves + 1>>})
  /\ news' = <<[id |-> moves + 1, app |-> a]>> \o news
  /\ UNCHANGED <<catalogue, follows, owners>>

withdraw_notice(n) ==
  /\ n \in Range(news)
  /\ Move({<<"notice", n.id>>})
  /\ news' = Without(news, n)
  /\ UNCHANGED <<catalogue, follows, owners>>

\* The account goes, with its applications and its notices; follows refer to nothing.
DeveloperLeaves(d) ==
  /\ d \in owners
  /\ Move({<<"app", a>> : a \in {b \in Range(catalogue) : Owner[b] = d}}
            \cup {<<"notice", n.id>> : n \in {m \in Range(news) : Owner[m.app] = d}})
  /\ catalogue' = Picked(catalogue, {i \in DOMAIN catalogue : Owner[catalogue[i]] # d})
  /\ news' = Picked(news, {i \in DOMAIN news : Owner[news[i].app] # d})
  /\ owners' = owners \ {d}
  /\ UNCHANGED follows
-------------------------------------------------------------------------------
Put(to, read) ==
  /\ page' = [read EXCEPT !.at = to]
  /\ UNCHANGED <<catalogue, follows, news, owners, moves, changed, copy>>

Open(kind, a) == [Blank EXCEPT !.kind = kind, !.app = a, !.began = moves]

\* Bound: one page is put together, as pages share nothing.
Idle == page.kind = "none"
Building(step, kind) == page.at = step /\ page.kind = kind

\* feed: the follows and the applications are two statements, each after what is
\* committed then; if one fails there are no applications.
OpenFeed ==
  /\ Idle
  /\ \/ Put("apps", [Open("feed", None) EXCEPT !.apps = Prefix(follows, FeedSize)])
     \/ Put("news", [Open("feed", None) EXCEPT !.gap = {"apps"}])

ReadFollowed ==
  /\ Building("apps", "feed")
  /\ \/ Put("news", [page EXCEPT !.apps = get_catalogued_apps(@)])
     \/ Put("news", [page EXCEPT !.apps = <<>>, !.gap = {"apps"}])

\* Nothing is asked for when there are no applications.
ReadFeedNotices ==
  /\ Building("news", "feed")
  /\ \/ Put("shown", [page EXCEPT !.news =
                        published_notices_for_apps(Range(page.apps), FeedNotices)])
     \/ page.apps # <<>> /\ Put("shown", [page EXCEPT !.gap = @ \cup {"news"}])

\* An application that is not accepted, or cannot be read, gives a neutral page: nothing
\* is shown.
OpenWidget(a) ==
  /\ Idle
  /\ \/ Listed(a) /\ Put("news", [Open("widget", a) EXCEPT !.apps = <<a>>])
     \/ ~Listed(a) /\ Put("shown", Open("unavailable", a))
     \/ Put("shown", [Open("unavailable", a) EXCEPT !.gap = {"apps"}])

\* Only a page with the application is rendered for keeping.
LoadNotices ==
  /\ Building("news", "widget")
  /\ \/ page' = [page EXCEPT !.at = "shown", !.news =
                   published_notices_for_apps({page.app}, WidgetNotices)]
     \/ page' = [page EXCEPT !.at = "shown", !.gap = {"news"}]
  /\ copy' = [kind |-> "widget", app |-> page.app, news |-> page'.news,
              began |-> page.began, age |-> 0]
  /\ UNCHANGED <<catalogue, follows, news, owners, moves, changed>>

\* The browser drops what has reached its age.
TimePasses ==
  /\ copy # None
  /\ copy' = IF copy.age = MaxAge THEN None ELSE [copy EXCEPT !.age = @ + 1]
  /\ UNCHANGED <<catalogue, follows, news, owners, moves, changed, page>>

\* app_page: a read that fails fails the page; one not accepted is not available.
OpenAppPage(a) ==
  /\ Idle
  /\ \/ Listed(a) /\ Put("others", [Open("app_page", a) EXCEPT !.apps = <<a>>])
     \/ ~Listed(a) /\ Put("shown", Open("unavailable", a))
     \/ Put("shown", [Open("unavailable", a) EXCEPT !.gap = {"apps"}])

ReadOthers ==
  /\ Building("others", "app_page")
  /\ \/ Put("slots", [page EXCEPT !.others = accepted_apps_by_owner(page.app, OtherApps)])
     \/ Put("shown", [page EXCEPT !.kind = "unavailable", !.apps = <<>>, !.gap = {"apps"}])

\* The slot of the follow control is degraded by itself.
AppFollow ==
  /\ Building("slots", "app_page")
  /\ \/ Put("shown", [page EXCEPT !.follows = page.app \in Range(follows)])
     \/ Put("shown", [page EXCEPT !.gap = {"slot"}])

\* channel: the owner's, in any status; its slots fail one by one.
OpenChannel(a) ==
  /\ Idle /\ Owner[a] \in owners
  /\ \/ Put("slots", [Open("channel", a) EXCEPT !.follows = a \in Range(follows)])
     \/ Put("slots", [Open("channel", a) EXCEPT !.gap = {"slot"}])

ChannelNotices ==
  /\ Building("slots", "channel")
  /\ \/ Put("shown", [page EXCEPT !.news =
                        Picked(news, {i \in DOMAIN news : news[i].app = page.app})])
     \/ Put("shown", [page EXCEPT !.gap = @ \cup {"news"}])

PagesNext ==
  \/ OpenFeed \/ ReadFollowed \/ ReadFeedNotices
  \/ LoadNotices \/ TimePasses \/ ReadOthers \/ AppFollow \/ ChannelNotices
  \/ \E a \in Held : \/ OpenWidget(a) \/ OpenAppPage(a) \/ OpenChannel(a)
                     \/ Accept(a) \/ Leave(a)
                     \/ follow_app(a) \/ unfollow_app(a) \/ post_notice(a)
  \/ \E n \in Range(news) : withdraw_notice(n)
  \/ \E d \in Developers : DeveloperLeaves(d)
-------------------------------------------------------------------------------
\* There now and all the time since a page was begun; there at some moment of it.
Throughout(kind, x, there, began) == there /\ changed[kind][x] <= began
Sometime(kind, x, there, began) == there \/ changed[kind][x] > began

ReallyThere(shown) ==
  \A n \in Range(shown.news) : Sometime("notice", n.id, n \in Range(news), shown.began)

\* What is shown was public while the page was put together.
NothingOfThePast ==
  LET AppSometime(a) == Sometime("app", a, Listed(a), page.began)
  IN /\ ReallyThere(page)
     /\ \A a \in Range(page.apps) \cup Range(page.others) : AppSometime(a)
     /\ page.kind = "feed" =>
          \A a \in Range(page.apps) :
            Sometime("follow", a, a \in Range(follows), page.began)
     /\ page.follows \in BOOLEAN =>
          Sometime("follow", page.app, page.follows <=> page.app \in Range(follows), page.began)

\* What was public all the while is shown, unless a slot failed or newer ones fill it.
NothingLeftOut ==
  LET AppThroughout(a) == Throughout("app", a, Listed(a), page.began)
      Newer(a) == {b \in Held : \/ changed.follow[b] > page.began
                                \/ \E i, j \in DOMAIN follows :
                                     i < j /\ follows[i] = b /\ follows[j] = a}
      Limit == [feed |-> FeedNotices, widget |-> WidgetNotices]
      ShownApps == IF page.kind = "channel" THEN {page.app} ELSE Range(page.apps)
  IN /\ page.kind = "feed" /\ "apps" \notin page.gap =>
          \A a \in Range(follows) :
            AppThroughout(a) /\ Throughout("follow", a, TRUE, page.began) =>
              a \in Range(page.apps) \/ Cardinality(Newer(a)) >= FeedSize
     /\ page.kind \in {"feed", "widget", "channel"} /\ "news" \notin page.gap =>
          \A n \in {m \in Range(news) \ Range(page.news) : m.app \in ShownApps} :
            Throughout("notice", n.id, TRUE, page.began) =>
              /\ page.kind \in DOMAIN Limit /\ Len(page.news) = Limit[page.kind]
              /\ \A m \in Range(page.news) : m.id > n.id
     /\ page.kind = "unavailable" /\ page.gap = {} => ~AppThroughout(page.app)
     /\ page.kind = "app_page" =>
          \A a \in Range(catalogue) \ (Range(page.others) \cup {page.app}) :
            Owner[a] = Owner[page.app] /\ AppThroughout(a) => Len(page.others) = OtherApps

\* A page tells the time at which it was put together, and a widget that a browser keeps
\* the time of its own: withdrawn notices and applications are gone from the next page,
\* and no notice is dropped for an older one (followed_apps, published_notices_for_apps,
\* get_app_page_content, build_widget_view).
PagesTellTheirTime ==
  /\ page.at = "shown" =>
       /\ NothingOfThePast /\ NothingLeftOut
       /\ page.kind # "channel" => \A n \in Range(page.news) : n.app \in Range(page.apps)
  /\ copy # None =>
       /\ ReallyThere(copy)
       /\ Sometime("app", copy.app, Listed(copy.app), copy.began)
===============================================================================
