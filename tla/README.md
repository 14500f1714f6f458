# A TLA+ model of App Discovery

App Discovery is a Django application: developers submit applications to a
catalogue, reviewers decide on them at an intake gate, members declare
interests, sign in by e-mailed links, follow and rate applications, and
embed a widget that counts what comes of it.  This
directory models the parts whose correctness depends on the *order* of things:
requests that overlap, transactions that commit between a read and a write,
steps that fail half-way, counters that expire, decisions that depend on
earlier ones, pages that are put together by several reads or answered some time
after they were rendered.

- [1. The system](#1-the-system)
- [2. The modules](#2-the-modules)
- [3. The runs](#3-the-runs)
- [4. The proofs](#4-the-proofs)
- [5. What the model assumes](#5-what-the-model-assumes)
- [6. What the checks found](#6-what-the-checks-found)
- [7. What is not modelled](#7-what-is-not-modelled)
- [8. Plan](#8-plan)

Check a model with `tlc -config MCAccounts.cfg MCAccounts`, a proof with
`tlapm AccountsProofs.tla`.  `PROJECT.json` lists the runs, the source lines
each definition stands for (`map`), the hazards and the properties about them.

## 1. The system

### How it runs

Several web workers serve requests at the same time over one PostgreSQL
database at its default isolation, Read Committed.  `ATOMIC_REQUESTS` is not
set: a statement outside `transaction.atomic()` commits by itself, and whatever
a view loads before it calls a service is loaded outside the service's
transaction.  The media storage, the mail transport and the shared cache (Redis,
or one per process in development) are outside the database, so no rollback
reaches them.  There is no task queue: periodic work is done by management
commands that run next to the web workers.

Two references cross component borders softly, by UUID and without a foreign
key: the tags of an application and those of an interest profile name rows of
`taxonomy`, whose rows are therefore never deleted.  Everything that belongs to
an account goes with it (CASCADE), except audit rows and the signal corpus,
which stay with their user blanked (SET NULL).

### Components

| Component (under `src/apps/`) | State | Operations | What is hard | What makes it correct |
|---|---|---|---|---|
| catalog: intake and edits | `App` rows (status, fields, `last_submitted_at`, `accepted_at`), `ReviewDecision` rows | submit, edit, add/remove a screenshot, withdraw, resubmit, accept, reject, notify the owner | lifecycle services lock the row, edits do not: they act on what the view loaded | a submission is decided at most once; what only a reviewer can give is backed by a decision; nothing jumps the queue; what the catalogue shows was reviewed |
| catalog: rows and files of an application | `AppMedia`, `AppTag`, `AppFacet` rows, clip columns, image and clip files | add, remove, replace sets, replace the clip | count-then-write without a lock, delete-then-insert, files outside the transaction | bounds on counts, an edit replaces a set, a row shown has its file, clip and alt text go together |
| catalog: the developer's and the reviewer's pages | the open forms in a browser | render and save the edit page, PATCH through the API, look and decide | a form sends back everything it was rendered with, however old; it offers only what is offered today | a save changes only what the developer changed, or an excuse is named; a reviewer was shown what he accepts |
| catalog: the review queue's duplicate hints | none | list the queue, open one application | the database compares case-insensitively, the program does not; two statements | the hints tell who shares an address |
| catalog: search and browse | none | ranked search, filters, paging | the catalogue changes between the count and the slice, and between pages, the vocabulary between pages; ties; page clamps | a walk through the pages misses and repeats no more than came and went explains; its filter is given up or exchanged only for a reason |
| accounts: sign-in | `Account`, `LoginToken`, sessions | register, request a link, click, purge, delete the account | a click is four statements that commit one by one | one session per link, within its life; an address is confirmed by its mail only |
| accounts: roles | group memberships, `RoleGrant` rows | grant, revoke, bootstrap, delete the account, edits in the admin site | two transactions on one membership, ordered one way in the table and another in the trail | the trail tells who holds a role; admins come from admins |
| core: rate limits | counters with an expiry in the shared cache | count, judge | add and incr are two calls; the counter expires in between; the cache is down | bounded number of passes per window; a refusal ends |
| taxonomy: tags and their successors | `Tag` rows with `replaced_by` | add, retire, merge (seed command) | two writers; validated against rows loaded earlier | following successors ends; the filter is the inverse of the labels, as far as the bound on the hops lets them be followed |
| taxonomy: clusters and labels | `Cluster` rows, memberships, canonical labels | edits in the admin site, the seed file | reads of the membership and its write are two statements; the picker shows a tag only inside a cluster | an active tag is in a cluster; a seed settles |
| interests | `Interest` rows of an account | open the picker, save, wipe | delta worked out before the transaction; what the page did not show is worked out at the save; tags retire and merge meanwhile | what overlapping saves agree on stands; a save takes back nothing its page could not show |
| subscriptions | `Subscription` rows, events | follow, unfollow | a follow and its event are one unit | no follow without its event |
| signals | `Impression`, `Event`, `PlatformVisit` rows | record | the accepted check is outside the transaction | an event's impression is the same user's and application's |
| ratings | `Rating` rows | submit, remove, render the reviews slot | the gate is read outside the transaction; counts, list and form are three reads; the scale is configured | a weight needs a curated impression; counts, list and form tell the same ratings |
| updates | `Notice` rows | post, withdraw | count-then-create | the posting limit, up to the requests that overlap |
| widget | daily counters, a signed cookie | count, attribute | increments race the first insert | no count is lost; a visit is credited once |
| pages: the application's page, the feed, the channel, the widget | the copy of a widget in a browser | several reads, each of which may fail and leave a gap | the reads are in no transaction; the widget is kept for its max-age | a page shows nothing that was gone when it was asked for, and leaves out nothing but for something newer |
| dashboard | none | one application's reception, the list of all | the reads of one page follow one another; slots degrade | the numbers of one page tell the same impressions |
| configuration, workers, health | settings, environment, `.env` file; the processes | start, crash, probe, restart, count in Redis or in memory | workers start at different times with what is configured then | who starts finds what stops it; limits add up to those of the workers |

### How they interact

A view authenticates, asks the rate limiter (sign-in forms and public reads),
loads rows by a selector and calls *one* service; the service is one
transaction, or a few statements.  `catalog` asks `taxonomy` which tags are
valid and what they resolve to, and `interests` does the same; neither is told
when a tag is retired, both resolve at read time.  `subscriptions` and
`ratings` call into `signals`.  The page of an application, the feed and the
widget are composed of slots that other components fill, each of which catches
its own failure.  Decisions notify by e-mail after the commit.
Deleting an account removes its applications, links, memberships and interests.

## 2. The modules

A request is modelled by the steps that other requests can see: a step for what
the view loads, then one for each statement that commits (or, inside a
transaction, for each statement that can wait for or fail on a row of
another).  What row locks already serialise is one step.  The value a request
carries from one step to the next is a record in `request[w]`, `txn[w]`,
`click[w]`, ...: that is where stale copies live.

Definitions whose comment begins with **"Mutant:"** are deliberately broken
variants of the definition after them (a dropped guard, a missing lock, a
swapped order).  No specification uses them.  Put in the place of the
definition, they make the property violated that is about it: they show that
the property can fail.

| Module | Models | State | Actions, by the code they stand for |
|---|---|---|---|
| `CatalogLifecycle` | `catalog/services.py`, `catalog/views.py`, the decision mail | `app`, `decisions`, `request`, `clock`; history `reviewed`, the field `submission` of rows and decisions | `DeveloperOpens`/`OwnerOpens`/`ReviewerOpens` (the view and its selector), then one service, whose stamp is of any moment since (`Readings`): `submit_app`, `edit_app`, `change_media` (add/remove a screenshot), `withdraw_app`, `resubmit_app`, `accept_app`, `reject_app`, then `notify_decision`; `delete_owner`; `Abandon` (refusal, error, dead worker) |
| `IntakeGate` | the transitions `services.py` declares, with no request or snapshot | `status`, `verdicts` | abstract specification of the above |
| `CatalogLifecycleProofs` | | | theorems about `CatalogLifecycle`, and that it implements `IntakeGate` |
| `CatalogMedia` | `add_media`, `remove_media` | `media`, `stored`, `txn`; history `crowd` (the most requests that overlapped) | `OpenAdd`, `CheckAndPlace`, `StoreAndInsert`, `OpenRemove`, `Delete`, `CommitMedia`, `RollBackMedia` |
| `CatalogLinks` | the tags of an application, and the values of a facet, in `edit_app` | `rows`, `edit` | `Ask`, `Compare`, `SnapshotVictims`/`DeleteRows` (one DELETE), `InsertRows`, `CommitLinks`, `RollBackLinks` |
| `DemoClip` | `_apply_clip_edit` | `clip`, `alt`, `files`, `task` | `OpenClipEdit`, `ReplaceClip`, `RemoveClip`, `EditClipAltOnly`, `WriteClip`, `DropEdit` |
| `EditDesk` | the edit page and the review page of `catalog/views.py` and `forms.py`, PATCH in the API; each request is one step, the time between a page and its answer is what matters | `row`, `active`, `registry`, `tab`, `look`, `changes`; history `listed` | `RenderEditPage`, `SaveEditPage`, `PatchApi`, `OpenReview`, `AcceptReviewed`, `Retire` (a tag, or a value of a facet) |
| `DuplicateSignal` | `catalog/urlnorm.py` and the reads of the review queue | `url`, `waiting`, `listed`, `hints` | `ReadPending`, `ReadCounts` (the queue's two statements), `RefreshApp`, `ReadSharing` (the page of one application); beside them `submit_app`, `edit_app`, `accept_app`, `Close`, `resubmit_app`, `OwnerLeaves`; the operators `normalize_url`, `url_share_counts`, `duplicate_hint` |
| `MagicLink` | `accounts/auth_backend.py`, `accounts/views.py`, `purge_expired_tokens`, `delete_account` | `account`, `token`, `mailed`, `click`, `sessions`, `now` | `register`, `issue_login_link`, `Click`, `Consume`, `ReadAccount`, `ConfirmEmail`, `EstablishSession`, `ClickFails`, `purge_expired_tokens`, `delete_account`, `TimePasses` |
| `RoleAudit` | `accounts/services.py`, the role views, `create_admin`, the admin site (which staff use for the accounts in `HandEdited`) | `live`, `deleted`, `groups`, `trail`, `change`, `bootstrapped` | `create_account_with_base_role`, `AdoptDeveloper`, `AdminChanges`, `BootstrapAdmin`, `BootstrapNew`, `groups_add`, `groups_remove`, `AuditAndCommit`, `GiveUp`, `delete_target`, `SiteEdit` |
| `AccountsProofs` | | | theorems about `MagicLink` and `RoleAudit` |
| `RateLimit` | `core/ratelimit.py` | `cache`, `request`; history `passed`, `answered` | `Arrive`, `Seed` (add), `Increment` (incr), `StartAfresh` (set), `Outage`, `TimePasses` |
| `Deployment` | `config/settings.py`, `core/config.py`, the health probes, the store that a worker's counters are in | `settings`, `environment`, `file`, `worker`, `database`, `mail`, `counted`, `faults`; history `passed`, `shared`, `private` | `Configure`, `Start` (reads the tunables, may stop at one), `Crash`, `Outage`, `DatabaseReturns`, `ProbeFails`, `Request` |
| `Vocabulary` | `taxonomy/services.py`, `taxonomy/selectors.py`, `seed_taxonomy`, `taxonomy/admin.py` | `tags`, `seed` | `add_tag`, `retire_selected_tags`, `SeedOpens`, `SeedRetires`, `SeedAborts`, `SeedCommits` |
| `VocabularyProofs` | | | theorems about `MCVocabulary`: `Vocabulary`, `InterestProfile` and `Clusters` |
| `Clusters` | clusters, labels and membership in `taxonomy/services.py` and `admin.py`, `check_integrity` | `rows`, `shelves`, `edits`; history `disturbed` | `AdminAddsTag`, `AdminReadsTag`/`AdminWritesTag` (a form of the admin site: what it reads, then what it writes), `RetireTag`, `AdminAddsCluster`, `AdminDeletesCluster`, `ApplySeed` |
| `InterestProfile` | `interests/services.py`, the picker of `interests/views.py` in several tabs | `stored`, `save`; history `wanted`, `owed` (what a tab's page could not show) | `OpenPicker`, `Validate`, `Reconcile`, `ApplyDelta`, `clear_interests` |
| `SignalCorpus` | `signals/capture.py`, the visit middleware, `signals/selectors.py` (the funnel), the calls in `pages` | `accepted`, `live`, `today`, `impressions`, `events`, `visits`, `requests` | `OpenShow`/`CommitShow`, `OpenConversion`/`CommitConversion`, `OpenVisit`/`CommitVisit`: a recorder's checks, then its transaction; `RequestFails`; `Catalogue`, `NextDay`; the operator `app_funnel` |
| `Subscriptions` | `subscriptions/services.py` | `follows`; history `unfollowed` | `OpenFollow`, `GetOrCreate`, `RecordSubscribe` (with the commit), `unfollow_app` |
| `Ratings` | `ratings/services.py`, `ratings/gate.py` | `ratings` | `OpenRating`, `determine_eligibility`, `StoreRating`, `remove_rating` |
| `ReviewsSlot` | the reviews of a page: `ratings/selectors.py`, the tag `app_reviews`, the form of its template | `ratings`, `scale`, `left`, `slot` | `OpenSlot`, `ReadDistribution`, `ReadList`, `ReadOwn`, `SlotDegrades` (the reads in order), `SaveForm`; beside them `submit_rating`, `remove_rating`, `MemberLeaves`, `Rescale` |
| `Engagement` | the three together, over one catalogue and the same accounts | all of the above | the steps of the three, and `delete_account` over all their rows |
| `EngagementProofs` | | | theorems about `Engagement` |
| `NoticeLimit` | `updates/services.py` | `notices`, `posting`, `now`, `owned` | `PassesLimit` (count), `CreateNotice` (insert), `PostFails`, `withdraw_notice`, `AuthorLeaves`, `HourPasses` |
| `WidgetRollup` | `widget/rollup.py` | `count`, `counting`; history `counted` | `Begin`, `UpdateRow`, `InsertRow`, `UpdateAgain`, `CommitCount`, `CountFails` |
| `WidgetSource` | `widget/source.py` and a browser | `cookie`, `flight`, `day`; history `clicks`, `credits`, `overlapped` | `Send`, `set_marker`, `Credit`, `CreditNothing`, `Degrade`, `Receive`, `DayPasses` |
| `RateLimitProofs`, `WidgetSourceProofs` | | | theorems about the modules they are named for, used by `LimitsProofs` for each instance |
| `LimitsProofs` | | | theorems about `MCLimitsAndReads`: the limiters, the deployment, the notices, the widget's counter and cookie, the reception page, and the types of all of them |
| `CatalogAssetsProofs` | | | theorems about `MCCatalogAssets`: screenshots, tags, clip and desk, and the reads: search, public pages, hints, reviews |
| `Sifting` | | | helpers of the reads: what a query leaves of a list, as the entries at a set of places, and a set in some order |
| `CatalogSearch` | `search_catalogue` in `catalog/selectors.py`, `discovery/views.py` and the Next link of its page | `accepted`, `moves`, `visit`; the vocabulary behind the filter: `valid`, `meaning`, `shelf`, `edits`; history `walk` | `BeginWalk`, `FollowNext` (the view resolves its filter afresh for each page; the facets may be unreadable), `CountMatches`, `ReadSlice` (one statement each), `Accept`, `Leave`; `retire_tag`, `update_tag`, `DeleteCluster` between the steps of a walk; the operators `neutral_order`, `last_page`, `resolve_filter` |
| `PublicPages` | the feed (`subscriptions`), the widget (`widget/views.py`, `build_widget_view`), the page of an application (`pages`), the channel (`updates`) | `catalogue`, `follows`, `news`, `owners`, `moves`, `page`, `copy`; history `changed` | `OpenFeed`, `ReadFollowed`, `ReadFeedNotices`; `OpenWidget`, `LoadNotices`, `TimePasses` (in the browser that keeps it); `OpenAppPage`, `ReadOthers`, `AppFollow`; `OpenChannel`, `ChannelNotices`; each read may fail.  Beside them applications, follows, notices and developers come and go |
| `Reception` | `dashboard/windows.py`, `dashboard/reception.py`, the reads of reach in `signals/selectors.py`, the widget's sum over a window | `now`, `shows`, `pending`, `page` | `OpenReception`, `BuildReach`, `BuildTrend`, `BuildFunnel`, `BuildSlots` (one application), `ListFunnels`, `ListBreakdowns`, `ListColumn` (the list of all), `ReadFails` (the reads of one page, in order), `Stamp`/`Commit`; the operators `densify`, `bucket_axis`, `truncate` over a calendar |
| `MC*` | small instances | | `MCCatalogAssets`, `MCAccounts` and `MCLimitsAndReads` put modules that share no row side by side: a behaviour is a behaviour of one part.  What the parts that are proved about work on (workers, images, labels, clips, tags, values, tunables, limits, faults, seed files, the catalogue that is searched and its ranking, the owners and limits of the public pages, URLs, members and scales) are constants of these modules, so that the theorems about them are about every instance.  `MCCatalogAssets` holds the rows and files of an application, its pages, and the public reads (search, pages, queue, reviews); `MCLimitsAndReads` the limits, the workers that count, the widget's counters and the dashboard.  `MCVocabulary` follows the vocabulary, or one account's pages and saves while the vocabulary goes on changing, or two of the staff at the shelves; `MCEngagement` follows one of four workloads over the corpus |

History variables record what a property needs to remember (the content last
accepted, the sessions opened, the requests let through, the profiles asked
for); no guard of a code action reads them.

## 3. The runs

| Run | Instance | What it shows |
|---|---|---|
| `catalog_concurrent` | one application, two workers (symmetric), a column that gates (`name`), a link set the configuration does not gate (`facets`) and the screenshots, two values, four time stamps, read before the commit | decisions, statuses and e-mails stay consistent whatever two requests interleave (`OneDecisionPerSubmission`, `StatusBackedByDecision`, `NotifiesOnlyDecisions`); the hole that stale edits leave is exactly bounded: content drifts from what was reviewed, and an application returns to review without cause, only by a write on a stale status (`OnlyStaleWritesDamage`) |
| `catalog_serial` | two applications, one worker | served one at a time, the code implements `IntakeGate` (`ImplementsGate`), the catalogue shows what was reviewed (`CataloguedContentWasReviewed`), whatever enters the queue enters it at the back (`QueuedAtTheBack`) |
| `catalog_unreviewed_content` | as the first | **violated**: section 6 |
| `catalog_assets` | screenshots: two workers, cap 2, 4 images; tags and a SINGLE facet: two workers, 3 values; clip: two workers, 3 file names; pages of the desk: one tab, two tags, a SINGLE facet of two values, gated `deep_dive`, `demo_clip` and a name that is no field, two clips, three changes; search: four applications of which any are in the catalogue at first, two moves, pages of two, browsing, a keyword, two tags, clusters, one edit of the vocabulary during a walk; public pages: two developers, three applications, limits 1 and 2, max-age 1, three moves; queue: three applications, four spellings of an address, two moves; reviews: two members, scales of one and two, two moves | screenshots stay within the cap plus one for each further request that was ever at work at once, so within it when none overlaps; one that is shown has its file and place (`GalleryHolds`); an edit of the tags that nothing overlaps replaces them, and an application never loses its last tag (`TagsHold`); clip and alt text are written together (`ClipStoredWhenCalm`); a saved page changes what the developer left alone only where an excuse is named (`PageSaveAccounted`); the catalogue shows what the accepting reviewer had in front of him but for later edits (`ListedAsSeen`); what the public pages and the queue tell was true while they were put together (`ReadsAccounted`: the walk through a search and its filter, the feed, widget and page of an application, the duplicate hints, the reviews) |
| `catalog_unshown_claims` | as above | **violated**: section 6 |
| `accounts` | two accounts, two clicks at a time, two links of life 1, time 0..2; roles: two accounts, one of which staff edit in the admin site, two changes at a time, a trail of 3 rows | one session per link; confirmation by mail; trail and memberships agree; no path from the self-serve role to admin |
| `accounts_trail_drift` | as above | **violated**: section 6 |
| `limits_and_reads` | limiters: two workers, window 2, the sign-in forms (limits 2 for the address, 1 for the e-mail, an outage fails) and the public reads (limit 2, an outage lets through); deployment: two workers, the limit and another tunable, numbers 1 and 2, two faults, four requests let through; notices: two workers, limit 2, window 1, four rows, three hours; the daily counter: two workers, five counts; the source cookie: one request at a time with two clicks over four days, and two at a time with one click over three, window 2; the dashboard: two impressions of two surfaces and the widget, now or at the first moment of three windows, on 3 March 2026 and 1 January 2027, all eight windows and an unknown one | a counter lets through at most its limit for each worker, since one written afresh after an expiry can overwrite one that another request seeded, and workers with memories of their own add up (`LimitsHold`); who keeps asking is not refused for ever (`RefusalEnds`); if what is configured in the end lets a worker start, every worker serves in the end, whatever becomes of the mail server (`WorkersSettle`); a window holds at most the notices the limit allows and one more for each further request (`PostsBounded`); no count is lost or made twice, a click is credited once with each kind unless requests overlap, and never after its window, whatever overlaps (`WidgetCountsHold`); reach, trend and funnel of one page, and the columns of the list of all, tell the same impressions up to those committed between the reads (`PageTellsOneReach`) |
| `vocabulary` | four tags, chains followed for two hops, three seed files (a merge, three merges in a chain, a merge there and back); two tabs (symmetric), up to two ids, two overlapping saves, staff retiring two tags and a seed file merging them meanwhile; shelves: two tags, two clusters, two labels, three seed files (one lists a tag twice), two of the staff (symmetric) | no cycles (`NoCycles`); the filter is the inverse of the labels, but for tags that more merges than the bound lead away from, which do occur (`FilterMatchesLabels`); what overlapping saves agree on stands (`AgreedIdsStand`); an active tag is in no cluster only where an edit went behind the guards' back (`ActiveTagsClustered`); a seed that is applied leaves no orphan and shows what it lists, the last entry of each tag; if it lists none twice, a second run changes nothing (`SeedSettles`); a save takes back no interest that its page could not show and that no merge has given an active meaning since (`PickerKeepsWhatItHides`) |
| `vocabulary_seed_rerun`, `vocabulary_admin_edit` | as above | **violated**: section 6 |
| `engagement` | two accounts, each with an application; two workers (symmetric); four workloads: one viewer's impression, conversion and visits over four days; links that two members click and share; follows of both applications, three events; ratings of one application with two impressions of either surface over two days | an event's impression is its user's and its application's (`EventsAttributed`); follows and their events agree (`FollowsMatchEvents`); weight needs evidence (`WeightBacked`); no row of the corpus is taken back or changed but for a blanked user (`CorpusAppendOnly`); the funnel of a closed window stands (`ClosedFunnelStands`) |

### Bounds, and why they are enough

- *Workers: two.*  Every race in this code is between one request's read and
  another's write.  Where a bound grows with the number of requests that
  overlap, it is stated in terms of `Cardinality(Workers)`, or of the most
  requests that were at work at once (`crowd`), which covers one and two.
- *Applications.*  No service touches two applications; the second one, in the
  serial run, is for the order of the queue.
- *Fields.*  Each field is one of three kinds: a column (compared with the
  loaded copy), a link set (compared with the rows as they are) or the
  screenshots (always written); and it gates or does not.  An instance of each
  kind is in the runs.
- *Time stamps: four* are a submission, a decision, a return to review and a
  second decision, which is as far as a stale edit can matter.
- *Links: two of life 1*, so that one expires while the other lives, and both
  can belong to one account.
- *A trail of three rows* is the base role, a change and its opposite.
- *Window 2, limits 1 and 2*: a counter expires between any two of a request's
  calls, and the last permitted request and the first refused one both happen.
- *Four workloads* over the corpus, because what they stress is separate: the
  funnel needs days, the links two members and two applications, follows more
  events than a pair has (follow, drop, follow again), ratings two impressions.
  The modules do not know the workloads; the theorems hold without them.
- *Windows of 1 and 2 days* for returns, on days 0 to 3: a return within the
  short window, within the long one only, after both, and a window that closes.
- *Window 2, limit 2, one hour and one day at a time* for notices and cookies:
  the last permitted post and the first refused one, a credit on the last day
  and after it.
- *Five counts* of a day: the first insert, the race for it, its failure, and
  increments after it.
- *Four applications, two to a page, two moves*: two full pages or one and a half,
  a page that disappears, and a change both between two pages and between a count
  and its slice; three moves were checked once, with the same result.
- *One edit of the vocabulary during a walk*: a tag or a tag of a cluster is retired,
  with or without a successor, a cluster gains or loses a tag or is deleted, between any
  two steps of a walk.  A walk is three pages at most, and the proof has no such bound.
- *Two dates and three ages*: a trend from inside a week or a month, over a leap
  year's February, and over the turn of a year; impressions at the very first
  moment of a window and at its last.
- *One tab, three changes* at the desk: a page is rendered, something it shows is
  edited or retired and decided on, and the page is sent.  A second tab is an API
  edit to the first.
- *Three applications and three moves* for the public pages: a page that is full
  and one that is not, another application of the same developer and one of
  somebody else, and a change before, between and after two reads.
- *Four spellings of an address* for the hints: two that normalisation makes
  equal, one that only the database's text type makes equal, one that differs.
  *Two requests* while a page of hints or of reviews is read: one that adds and
  one that takes away between the same two statements.  Whatever came before the
  page is among the initial states.
- *Two workers, two faults* of a deployment: one runs with the old value while
  the other starts with the new one, and a crash or an outage on top of a change.
- *Two tags, two clusters, two labels*: a move from one cluster to the other, a
  cluster that becomes empty, a label that is taken.
- *Four tags, two hops*: a chain of three merges is longer than `resolve_tag` follows,
  one of two is exactly as long.  In the code the bound is `TAXONOMY_RESOLVE_MAX_STEPS`,
  16 unless configured, beside 67 tags in the seed file; nothing relates the two.
- *Two tabs, two tags* of a profile: each tab's page is rendered, answered and saved at
  its own time; one tag is retired without a successor, and merged later, or at once.

The counters, the clock, the names that are used up and the page that a behaviour
of `Reception`, `DuplicateSignal` or `ReviewsSlot` is about end a bounded model, so
deadlock is not checked in the runs where they stop it (`CHECK_DEADLOCK FALSE`);
the bounds are in the guards and named in the constants.

### Fairness

`RateLimit` and `Deployment` have a liveness property each.  `RefusalEnds` assumes that time passes (weak
fairness of `TimePasses`: cache entries do expire) and that a worker finishes
what it serves (weak fairness of `Serve(w)`: the three calls are consecutive
statements of one request, and none of them waits for another request).  It
does not assume that clients come back: it is about who keeps asking.
`WorkersSettle` assumes that a worker process that is down is started again (weak
fairness of `Start(w)`: the process manager and the platform's probes do that, and
a start that finds a bad value ends at once) and that the database returns
(weak fairness of `DatabaseReturns`).  The mail server may stay away.  Nothing is assumed of operators.
The other modules state safety only: users may stop at any point, and nothing in
the code promises that a reviewer ever decides.

## 4. The proofs

TLC checks the instances above.  These theorems hold for every number of
applications, workers, accounts, links, tags and files, and for every bound.

**The lifecycle of an application** (`CatalogLifecycleProofs`)

| Theorem | Statement | Argument |
|---|---|---|
| `TypeCorrect`, `DecidedOnce`, `StatusBacked` | `TypeOK`, `OneDecisionPerSubmission` and `StatusBackedByDecision` are invariants | the two invariants are not inductive alone: a new submission must be a later one than every decided one.  `RecordOrdered` says so: no decision is about a submission later than the current one, and no stamp of a row is ahead of the clock |
| `NoFastLane` | `NoneOvertaken` holds of every step: whatever becomes pending is behind everything stamped by the time its request was opened, for any requests that overlap | the lemma `EntryStep`: a row becomes pending by one request only, whose reading of the clock is later than `since`, when it was opened; nobody else's stamp is touched |
| `SerialQueue` | `QueuedAtTheBack` holds of every step when there is one worker (`Serial`) | the lemma `SinceStep`: no stamp was written since the only request was opened, so everything that waits was stamped by then |
| `TellsTheRecord` | `NotifiesOnlyDecisions` is an invariant | the lemma `RequestStep`: a request that has a decision to tell was given it by the very step that recorded it (`TellsNext`), and the record is only appended to |
| `DamageIsStale` | `OnlyStaleWritesDamage` holds of every step | the lemma `RowMoves` lists what a step can make of a row; of these only the write of an edit that judged by another row than the one it writes can break the property |
| `ReviewedWhileFresh`, `GateWhileFresh` | `CataloguedContentWasReviewed`, and the refinement of `IntakeGate` (`ImplementsGate`, step by step), under `WritesFresh`: no edit commits over a row that has changed since it was loaded | each of the moves of `RowMoves` is a step of `IntakeGate` or a stutter (`GateStep`) |
| `SerialShowsReviewed`, `SerialImplementsGate` | the same without that hypothesis, when there is one worker | `SerialIsFresh`: what the only request has loaded is what is stored |

`WritesFresh` is not idle: without it the code breaks the first of the two properties
(section 6), and it holds whenever requests do not overlap, which is the lemma
`SerialIsFresh`.  Nor is `Serial` idle in `SerialQueue`: of two overlapping submissions
the later commit may bear the earlier stamp, since the clock is read before the commit
(section 6), and then it enters the queue ahead.  `NoneOvertaken` says how far ahead that
can be; TLC agrees on two applications and two workers, an instance that is too large to be
among the runs.

**The rows, files and pages of an application** (`CatalogAssetsProofs`)

| Theorem | Statement | Argument |
|---|---|---|
| `GalleryStands` | `GalleryHolds` is an invariant | `MediaInv` bounds the committed screenshots together with those about to be inserted, and together with those about to be deleted, by the cap and the most requests that overlapped (`crowd`).  What is counted is what the view had loaded, so both need what a request has seen |
| `TagsReplaced` | `TagsHold` holds of every step | `LinkInv`: an edit during which no other has committed holds as victims exactly the rows that are there |
| `ClipStored` | `ClipStoredWhenCalm` is an invariant | `ClipInv` says of the only request in flight what the storage holds before its write and after |
| `ListedWasSeen` | `ListedAsSeen` is an invariant | `DeskInv`: what the reviewer looks at differs from the row in the fields edited since, and in no other |
| `PagesSaved` | `PageSaveAccounted` holds of every step | `PageInv` (`FormTold`): in a field left alone a form has what it was rendered from, as far as it is still offered and as a browser sends it.  A form may be refused and shown again any number of times, so the excuse must be closed under being sent again (`SentTwice`) |
| `WalkStands` | `WalkAccounted` is an invariant of the search | `SearchInv`: the matches in their order have places, and an application that comes or goes shifts those behind it by one place.  Before the next slice, the matches that stayed, were not listed and lie before it are no more than applications left (`Soon`); those listed already that lie behind it, with the repeats so far, are no more than arrived (`Late`).  Without a change the list is a beginning of the order.  All this is about walks whose filter stands for the same tags on every page; that it does not only for a reason is `FilterTells`: what a page filters by is what its link resolves to by then (`Resolved`), and with the vocabulary as it was, what it resolved to before (`Settled`) |
| `PagesStand` | `PagesTellTheirTime` is an invariant of the public pages | `PagesInv`: what has not changed since a page was begun is as it was then, and every change is marked with its time; so a statement about a page that uses these only (`Throughout`, `Sometime`) outlives what other requests do.  That nothing is left out of a page that was cut needs that sifted lists come in the order of what was sifted |
| `HintsStand` | `HintsTold` is an invariant of the queue | `QueueInv`: what a page has read of an application is the application's, unless a request came between (`HintRead`); URLs that are equal but for the case lead to the same address |
| `ReviewsStand` | `SlotTold` is an invariant of the reviews | `SlotInv`: the counts by score add up to the ratings there were when they were read (`IsSum`), and each request between two reads changes one rating at most, so that counts and list differ by no more than came between |
| `ReadsStand` | `ReadsAccounted` is an invariant of the run: the four above | |
| `TypesStand` | `TypesOK` is an invariant of the run: every part keeps its types | from the invariants of the parts; that an application in an edit always has a tag and alt text with its clip only (`Sound`), and that no member has two ratings, are part of them |

**Accounts** (`AccountsProofs`)

| Theorem | Statement | Argument |
|---|---|---|
| `OneSessionPerLink`, `MailConfirms`, `LinkTyped` | `LinkOpensOneSession`, `ConfirmedByMail` and the types are invariants of `LinkSpec` | the inductive invariant speaks of the clicks that are past the conditional UPDATE: each holds a spent, mailed token that was not expired when it was clicked, no two of them the same, none one that has opened a session.  The lemma `NothingUndone` says that no step makes a spent token usable again or moves it to another account |
| `TrailTells`, `RolesTyped` | `TrailTellsMembership` and the types are invariants of `RoleSpec` | `RoleInv`: a transaction that changed a membership finds it, until it commits, as it found it (`HeldAsFound`), and is the only one that holds it (`OneHolder`), both from the unique row.  That is why the order of the trail is the order of the changes that had an effect |
| `AdminsDescend` | `AdminsComeFromAdmins` is an invariant | until the operator has run `create_admin` no request on its way is about the admin role (`NoneOnTheWay`) |
| `AccountsTyped` | both together keep their types | |

**The vocabulary and the interests** (`VocabularyProofs`)

| Theorem | Statement | Argument |
|---|---|---|
| `VocabularyTyped`, `ChainsEnd` | the types and `NoCycles` are invariants | the committed rows are acyclic because a successor is active when it is validated, so it leads nowhere, and a tag that is retired into it cannot be reached from it.  A seed run validates against rows it loaded earlier; the invariant says that its draft has every committed link (`DraftCovers`), so what it commits is acyclic too |
| `FilterAgrees` | `FilterMatchesLabels` is an invariant, whatever `MaxSteps` | where one walks to along successors (`HopsSteps`) and from where one comes against them (`FoundAreAt`) are inverse, for the walks that the bound does not cut (`CutOff`); acyclic walks pass no tag twice (`NoTagTwice`), so one that is cut has passed more merged tags than the bound (`WalkNeedsTags`) |
| `MeaningsAreFinal` | what a reference is resolved to is not replaced itself, unless more tags are merged than the bound | from the same lemmas |
| `AgreementStands`, `InterestsTyped` | `AgreedIdsStand` and the types of the profiles are invariants | `DeltasStand` says of every delta that was worked out and not applied, however the rows changed since: it removes nothing all want, adds what all want and is missing, removes what none wants; and if one of its rows is there already, so that it must fail, another save has done its work |
| `TagsStayClustered` | `ActiveTagsClustered` is an invariant | `ShelfInv`: an edit on its way that asks for no cluster is of a tag that is retired (`EditsKnown`), and nothing takes a tag back from there; so only an edit that another overlapped, or a deleted cluster, empties an active tag |
| `SeedsSettle` | `SeedSettles` holds of every step | `EntriesShown`: after each entry, of every tag listed so far the last entry is shown, under a label no other tag has.  So on the second run no entry is refused and each finds what it writes (`SecondRun`), if no tag is listed twice |
| `PickerKeeps` | `PickerKeepsWhatItHides` holds of every step | `OwedInv`: what a tab's page owes to its profile still means no active tag, and a delta that was worked out removes none of it.  It stays so because a tag that is retired never returns, and an id that comes to mean an active tag, by a merge, is owed no longer |
| `WholeTyped` | `VocabularyTypesOK` is an invariant of the run as a whole | from the three inductive invariants |

**The corpus, the follows and the ratings** (`EngagementProofs`)

| Theorem | Statement | Argument |
|---|---|---|
| `EngagementTyped`, `AppendOnly` | `TypeOK` and `CorpusAppendOnly` | the lemma `RowsKept` says exactly what a step leaves of a row: all of it, or all but the user whom this step deletes |
| `Attributed` | `EventsAttributed` is an invariant | the check is made before the event's transaction, so the invariant needs what it leaves behind: a conversion in flight is about an impression of its own user as long as that user is there (`LinksInFlight`); an account that goes blanks both sides at once |
| `WeightNeedsEvidence` | `WeightBacked` is an invariant | likewise: a determination in flight is backed (`DeterminationsBacked`); evidence is never taken back, only blanked together with the rating (`EvidenceKept`) |
| `FollowsHaveEvents` | `FollowsMatchEvents` is an invariant | a follow that is being inserted is new and nobody else inserts it (`InsertsAreNew`, from the unique index); the events of a pair are counted with the lemmas about finite sets |
| `FunnelFinal` | `ClosedFunnelStands` holds of every step | every row a step adds carries the day of its request or the present, both after the window and its returns (`ShowsLate`, `EventsLate`, `VisitsLate`); the rows that are there keep all but their user (`RowsKept`); so the sets that are counted stay, and those of the returns only shrink, with an account (`WindowStands`) |

**Limits, counters and the dashboard** (`RateLimitProofs`, `WidgetSourceProofs`, `LimitsProofs`)

| Theorem | Statement | Argument |
|---|---|---|
| `LimiterBounds` | `PassesBounded` is an invariant of `RateSpec`: one counter lets through at most its limit for each request that can be at work at once | a counter may be set back under those that passed by it, but only by a request that found it expired, and so was on its way when the counter that is there now was created: each of them is paid for in advance (`Paid`) |
| `LimitsKept` | `LimitsHold` is an invariant: both limiters of the code, and the workers of a deployment together | `Tallied`: what workers with counters of their own have yet to count (`Spare`) and what was served never exceed what Redis holds and the limits that started processes brought with them; `Processing`: who runs found a valid configuration |
| `NoticesBounded` | `PostsBounded` is an invariant | the window is bounded together with the posts that have counted and not inserted yet (`WindowAndPosts`) |
| `CreditsOnce`, `CreditsTimely` | `CreditedOnce` is an invariant of the cookie and `CreditsInWindow` holds of every step | `Told`: a copy of the cookie may live longer than its click's window, since it is signed anew, but only once there is nothing left to credit.  `InTurn`: with one request at a time the copy that will be credited next knows all that has been |
| `WidgetCounts` | `WidgetCountsHold` holds of every step: counts and credits together | `RollupInv`: a row that was inserted stays, so the loser of the race for it finds it; and the two theorems above |
| `ReachTold` | `PageTellsOneReach` is an invariant of the reception page and of the list of all | `ReachInv`: of two numbers of a page the one read earlier is no larger than the later one, and no larger than what the window holds now, and falls short by no more than was committed since (`Knows`, `Near`); a commit adds at most one show to the window (`CommitAdds`).  That the trend misses none rests on the calendar: each day has one bucket of a grain (`BucketIs`), the axis is the buckets one after the other (`AxisIs`), and it covers the window (`Laid`, `TrendIs`).  The widget's whole days hold the window and at most the rest of its first day and its last (`WholeDays`) |
| `PartsTyped` | `PartTypesOK` is an invariant: every part keeps its types | from the invariants above; besides, the increments on their way leave room for what they will count (`RollupRoom`), no store counted more than was let through (`Struck`), and cookies keep their shape (`SourceShape`).  How long a trend may be is part of the page's type (`Short`) |

The runs put several components side by side and name them by `part`; the
theorems about such a run's property (`ListedWasSeen`, `LimitsKept`, ...) follow a
component's invariant through its part.  A component that a run instantiates
under a prefix is proved about once, as a module, and its lemmas are carried over
to each instance operator by operator (`FormsSame`, `ReadsSame`, `VisitsSame`, `TabsSame`).

*Assumptions*, all evaluated by TLC in the runs: of the lifecycle
`FieldsAssumption` and `BoundsAssumption`; of the screenshots `MediaAssumption`,
of links, clip and desk `LinkConstants`, `ClipConstants` and `DeskConstants`, of the reads `ReadConstants`; of the
accounts `LinkAssumption` and `RoleAssumption`; of the vocabulary `VocabularyAssumption`,
`ShelfConstants` and `MergeAssumption` (what the run merges is in its vocabulary);
`CorpusConstants`; `NoticeConstants`; `PartConstants` for the limiter, the deployment,
the cookie and the reception page (`ReceptionAssumption`: a finite number of shows, and
moments that lie after the longest window and before the end of the axis, month `LastMonth`).  They say that bounds are numbers, that the sets of requests, files
and keys that are counted are finite, and what the code's configuration check makes sure of:
that limits, windows and the sizes of pages are positive.  The desk has tags, values of a facet,
clips and alt texts to ask for, and what stands for "none" is none of them.  Beyond these, only the theorems of the
lifecycle that say so in the table have a hypothesis.

*Recursion.*  `resolve_tag` and its inverse, over chains of any length, are
functions on an interval of numbers.  The prover cannot instantiate the library's
induction theorems, whose hypotheses have operators for parameters; `VocabularyProofs`
uses the least number that does not have a property instead (`LeastNumber`),
for the numbers of the interval are finitely many.  What a seed file makes of its
entries (`TagsApplied`) is a function on the numbers of its entries, and is proved
about in the same way (`DraftExists`, `Drafted`).

*Lists.*  What a query leaves of a list is given by the places it keeps (`Picked`),
and the order of a ranked search by how many matches come before each: the
definitions of the libraries are recursive, or leave the choice among several
orders open, and could not be reasoned about.  That a list so picked holds what is kept, once and in its
order, is proved in the section on sifted lists.

*Sums.*  The total of counts by surface, or by bucket, is the number of what they
count together (`Total`), and the axis of a trend is a recursive function on the numbers of
its buckets.  The proof numbers the buckets of a grain (`Bucket`) and shows by the least
number that fails (`FirstNumber`, `OneAfterAnother`) that the axis has them all in turn; a
sum over it is then the number of shows in the window (`Counts`, `Added`).

*Only model-checked*: liveness (`RefusalEnds`, `WorkersSettle`), which needs ENABLED.
Every invariant and every action property of a passing run is stated by a theorem.

## 5. What the model assumes

- *Time* is one clock.  A request reads it at any moment between its first step and
  its commit, so stamps need not have the order of the commits, and two requests may bear
  the same one; a service that holds the row's lock when it reads the clock reads a later
  time than that row bears.  The clocks of distinct hosts can disagree by more, and then
  the queue's order is only as good as the clocks.
- *The vocabulary behind a search* is what resolution gives: for each tag the set of those
  that lead to it, for each cluster its tags.  A retirement moves such a set as a whole.
  One page resolves its filter in one step, although it reads facets and tags by several
  statements; a tag that is added during a walk is in no link of it, and is left out.
- *An account's address and its links* are changed by the program only.  The admin site
  lets staff edit `email_confirmed_at` and the rows of the tokens (`accounts/admin.py:13-23`);
  what somebody writes there by hand is outside `MagicLink` and its theorems.
- *Locks.*  Statements run at Read Committed: an UPDATE or DELETE waits for a
  transaction that holds one of its rows and then sees what it left; an INSERT
  waits for a transaction that holds its unique entry.  PostgreSQL breaks a
  deadlock by failing a transaction, which is one of the rollbacks of the model.
- *What is loaded.*  `get_owned_app` prefetches the screenshots, so
  `app.media.count()` counts the loaded ones; `_tags_changed` asks for a
  `values_list`, a new query; facets are not prefetched.  The model follows each.
- *A seed run at a time*, as an operator runs it.  The command loads the tags it
  lists one by one, the model in one step: retirements of different tags by
  staff meanwhile commute with the loads.
- *A day, an hour* is the unit of the corpus and of the counters.  A request
  takes no part of a day for the source cookie; a capture may take any number of
  days between its check and its transaction.
- *The browser* honours `Max-Age` and keeps the last cookie it receives.
- *Deleting an account* is one transaction over all its rows; a request that
  inserts a row of the account at the same time fails on the foreign key, or
  makes the deletion fail.  The keys of accounts never return.
- *A request of the desk* is one step: how its statements overlap others is in
  `CatalogLifecycle`, `CatalogLinks` and `DemoClip`.  A browser sends a text area
  with its line breaks as CRLF, and of a multiple choice only what is offered.
- *A seed file* that clusters are followed under is applied in one step: its
  statements, and who comes between them, are in `Vocabulary`.
- *A grouped count over case-insensitive text* tells a group under the spelling of
  any of its rows.
- *Files.*  Names in the storage are generated and never reused.

## 6. What the checks found

Five places where the code does not keep what its own words say.  Each has a
run that ends in a counterexample.

1. **Content is catalogued that nobody reviewed** (`catalog_unreviewed_content`).
   `catalog/services.py:13-14` says that an edit of a gate-relevant field of an
   accepted application returns it to review.  `edit_app` tests the status the
   view loaded: loaded while pending, and accepted before it is written, the
   edit changes what is now in the catalogue.
2. **A reviewer accepts claims he was not shown** (`catalog_unshown_claims`).
   `DECISIONS.md:39` sends an accepted application back to review when a public
   claim changes (tagline, deep dive, facets, demo clip), and `DECISIONS.md:41`
   rejects the alternative because it would leave such claims unchecked.  The page
   he decides on (`review_detail.html`) shows none of the four.
3. **The role trail drifts from the memberships** (`accounts_trail_drift`),
   against "can never drift": a revocation that finds nothing to delete yet is
   recorded after the grant that it overlaps.  `TrailTellsMembership` says what
   does hold: the changes that had an effect are recorded in their order.
4. **A seed file may be refused on its second run** (`vocabulary_seed_rerun`),
   against "re-running the seed is a no-op": a successor which the same file
   merges on is no longer active.
5. **A label edited in the admin site is not saved** (`vocabulary_admin_edit`).
   `taxonomy/admin.py:3-6` routes every write through the services;
   `update_tag` compares the form's instance with itself, sees no change of label
   or definition, and writes the membership only.  `update_cluster` does the same.

Observations on the way, which have no run of their own.  Of overlapping requests:

- *A link can be lost to the purge.*  `verify_token` consumes a token and reads
  its row in the next statement; a purge in between makes the read fail, and the
  owner of a good link asks for another one.
- *Overlapping requests can credit a click twice* with the same kind: what has
  been credited is known to the cookie only.  `CreditedOnce` therefore speaks of
  requests that do not overlap.
- *Returns can fall.*  A deleted account takes its visits with it while its
  impressions stay, so a closed funnel keeps its other counts and its returns may
  shrink (`ClosedFunnelStands` says exactly this).
- *A rating's determination can be older than what the corpus shows later*: an
  impression is stamped before its transaction, and one that commits after the
  gate was asked can bear an earlier moment than the determination that missed
  it.  `WeightBacked` holds in the direction that matters: no weight without
  evidence.
- *Overlapping saves of interests mix*, against "are serialized by the
  transaction" in `_apply_delta`: the deltas were worked out before it opened.
  `AgreedIdsStand` says what does hold.
- *Two overlapping removals leave no screenshot*, against `remove_media`'s
  "refusing to drop an app below its 1-image minimum": each counted two.
  `GalleryHolds` bounds what overlapping requests can do.
- *The review queue is in the order of the stamps, not of the commits.*  `submit_app`
  and `_return_to_review_if_accepted` read the clock before they commit: of two
  applications that are submitted at once, the one that appears later may be ahead.
- *The picker can drop what its page did not show.*  `_preserved_unshowable_ids` says
  of a retired tag that "the user never saw it in the picker, so they did not deselect
  it", but asks what the id means at the save.  A tag without a successor is not ticked;
  merged into an active one before the save, it is dropped like an unticked box.  The same
  becomes of what another tab has declared since the page was rendered, and of an active
  tag that is in no cluster.  `PickerKeepsWhatItHides` says what does hold.
- *Overlapping edits of a tag's clusters can leave it in none*; it is then not in
  the picker, and the next save of who declared it drops it.  The delete action of
  the admin site's cluster list asks no service and does the same; a later seed
  that does not list the tag aborts (`disturbed` in `Clusters`).
- *Two tabs of the edit page overwrite each other*; and a stale form re-creates a
  rating that was removed in another tab.

Of pages:

- *A walk through the catalogue may miss what was there all along*, and not only
  because an application left: one that is accepted between the count and the
  slice of the last page pushes another off a page that has no Next link
  (`WalkAccounted`, the term `unseen`).  A page that no longer exists is answered
  with the last one, which the visitor has seen.
- *The edit page drops what is no longer offered.*  A tag or a facet's value that
  was retired since is not among the choices; any save then removes it, and an
  accepted application may return to review for it.  Likewise a text area turns the
  line breaks that a program wrote into a browser's: that counts as a change of
  the text, and as one that gates.  A cleared alt text is ignored, and one without
  a clip is never stored (`PageSaveAccounted` names these excuses).
- *The review page* calls the note "required on rejection", the code lets it be
  empty; the queue over JSON has name and URL only.
- *The queue can miss a duplicate that the page shows.*  The stored addresses are
  case-insensitive text: the grouped count puts `/App` and `/app` together, and
  `list_review_queue` looks the count up by exact spelling.  The page of the same
  application compares in the database and counts both, although `urlnorm` holds
  the case of a path to be significant.  Its `_canonical_path` also drops every
  slash at the end where its docstring speaks of one.
- *The feed cuts before it filters*: follows are cut to a page before those that
  left the catalogue are left out.  A read that fails, or follows that all left, are
  told as "not following any apps yet" and "no news yet", where widget and
  channel tell a failure.
- *A withdrawn notice stays* in the widgets that browsers keep until their max-age.
- *After the scale of ratings is lowered*, ratings above it are in the total and in
  no row; the form of who gave one selects nothing, and sent as it is it makes the
  rating 1 (`FormKeepsRating`).
- *The dashboard's list shows 0 for the widget* when the column could not be read.
  The widget's numbers cover whole days, up to a day more than the window.
- *The axis of a trend is a bucket longer than `dashboard/windows.py:8-12` says.*
  Half a year of weeks is given as at most 26 points and a year of months as 12;
  a window that starts inside a bucket has 27 and 13 (`ReceptionTypeOK` states
  the bounds that hold).
- *A walk through a cluster can lose its cluster.*  The comment over the links of
  `catalogue.html` says that they preserve the filter, and the release notes of
  the feature that the listing is unaffected when the facets cannot be read.  In
  that case the view finds no cluster, lists the whole catalogue, and its Next
  link carries no filter any more (`resolve_filter`, the field `filter` of a walk).
- *Each page of a walk resolves its filter afresh.*  A tag that is retired between two
  pages, or a cluster whose last active tag is, gives the filter up, and the rest of the
  walk lists the whole catalogue; an edited cluster, or a merge into the tag, exchanges what
  it stands for at an offset that was counted under the old one.  `WalkAccounted` bounds what is
  missed and repeated in walks whose filter stayed, and says of the others why it did not.

Of configuration and vocabulary:

- *A chain of merges can be longer than `resolve_tag` follows* (16 hops unless configured,
  beside 67 tags): its first tags are then labelled with one that is itself merged on,
  and the filter, which walks without a bound, counts them under the last.
  `FilterMatchesLabels` says that this is the only disagreement, and that it takes more
  merged tags than the bound.  A chain of exactly that length is resolved rightly, and
  reported as an error all the same.
- *An empty value stops a start* for a number, falls back to the memory of the
  process for `REDIS_URL`, and counts as set for the secret key.  A worker without
  Redis counts for itself, and afresh after each restart (`LimitsHold`).
- *Numbers are checked one at a time*: the size of a page may exceed its maximum,
  the short window of returns the long one.
- *A seed file that swaps two labels* always aborts; one that lists a slug twice
  does not: the last entry counts.  Its second run passes through the labels of the
  first entry again, and may find one taken.  Tags that were merged may show the same label.
- *Without a caller*: `rename_tag`, `rename_cluster`, `assign_to_cluster`,
  `remove_from_cluster`, `time_to_decision` and `decision_latencies` are called by
  tests only.

## 7. What is not modelled

- *Presentation*: templates but for what a page shows and sends back, the drawing of
  the trend, static files; serializers and the parsing of forms (checks of one
  input, in one request); migrations as such.
- *Logging and metrics*: counters and formats, which change nothing.
- *The mail transport and the media storage*: external, a call succeeds or
  fails.
- *Sums that read another table in the way of a modelled one*: the widget's
  conversions beside its impressions.
- *The owner's own list of applications, the times to decision*: one read each, of
  what is modelled.
- *Recorders nothing calls yet* (off-platform proxies, re-engagements).
- *Whether a rating's stars or a notice's text are well-formed.*
- *The onboarding nudge* of the interest profile.

## 8. Plan

Done, most important first: (1) the intake gate and its proofs, (2) the rows and
files of an application, (3) sign-in, with its proofs, roles and rate limits,
(4) the vocabulary, with its proofs, and the interest profile, (5) the signal
corpus with follows and ratings, and their proofs, (6) the posting limit, the
widget's counter and the source cookie, (7) the pages of the catalogue and of the
dashboard, with its list and the widget's reach, (8) clusters, labels and the
picker, (9) the desk: pages that are answered later, (10) feed, widget, page of
an application and channel, the review queue's hints, the reviews, (11) the
deployment under the limits.

Next: the owner's list and the metrics of decisions beside `DuplicateSignal`, once
a page of the program shows them.

Every safety property that a run checks is proved; what is added will bring its own
theorem.
