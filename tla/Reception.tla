------------------------------ MODULE Reception ------------------------------
(***************************************************************************)
(* The reception page of an application in the developer's dashboard, and  *)
(* its row in the list of all (dashboard/reception.py, windows.py): reach  *)
(* by surface, reach over time and the funnel are reads of the corpus, one *)
(* after another and in no transaction, while impressions keep being       *)
(* committed.  The trend comes from the database as the buckets that hold  *)
(* something and is laid on an axis the program computes; the widget's     *)
(* numbers come from a table that knows whole days only.                   *)
(***************************************************************************)
EXTENDS Naturals, Sequences, FiniteSets, FiniteSetsExt

CONSTANTS
  Shows,        \* the impressions of the application
  Surfaces, Curated,   \* where an impression is shown; the surfaces that are curated
  Widget,       \* where the widget's are: counted by the day, not in the corpus
  Todays,       \* the moments at which a behaviour starts
  Ages,         \* how long before that an impression may have been committed
  None          \* an impression that is not there

VARIABLES
  now,          \* the moment; TicksPerDay to a day
  shows,        \* the committed impressions: [at, surface]
  pending,      \* the impressions stamped and not committed yet
  page          \* the request: its step, its window, what it has read

receptionVars == <<now, shows, pending, page>>

TicksPerDay == 2    \* bound: the precision of a moment
LastMonth == 60     \* bound: the months a behaviour may lie in, and the buckets of an axis
-------------------------------------------------------------------------------
\* The calendar, in days since 1 January 2023, a Sunday.
Weekday(day) == (day + 6) % 7

\* The first day of month m, counted from January 2023: 2024 is a leap year, 2028 the next,
\* and so on until 2099.
FirstOfMonth ==
  [m \in Nat |->
     LET year == m \div 12
         month == (m % 12) + 1
         before == <<0, 31, 59, 90, 120, 151, 181, 212, 243, 273, 304, 334>>
     IN 365 * year + ((year + 2) \div 4) + before[month]
          + (IF year % 4 = 1 /\ month > 2 THEN 1 ELSE 0)]

\* A behaviour takes place after the longest window of the calendar, and within its bound.
ReceptionAssumption ==
  /\ IsFiniteSet(Shows) /\ Curated \subseteq Surfaces /\ Widget \notin Surfaces
  /\ None \notin [at : Nat, surface : Surfaces \cup {Widget}]
  /\ Todays \cup Ages \subseteq Nat
  /\ \A t \in Todays : /\ 1095 * TicksPerDay <= t /\ t + 1 < FirstOfMonth[LastMonth] * TicksPerDay
                       /\ \A a \in Ages : a <= t

MonthOf(day) ==
  CHOOSE m \in (day \div 31) .. (day \div 28) :
    FirstOfMonth[m] <= day /\ day < FirstOfMonth[m + 1]

\* PostgreSQL: date_trunc, the last start of a bucket that is not later.
Trunc(moment, grain) ==
  LET day == moment \div TicksPerDay
  IN TicksPerDay * CASE grain = "day" -> day
                     [] grain = "week" -> Max({d \in (IF day < 6 THEN 0 ELSE day - 6) .. day :
                                                 Weekday(d) = 0})
                     [] grain = "month" -> FirstOfMonth[MonthOf(day)]

\* REPORTING_WINDOWS: days, none for all time, and the grain of the trend.
Windows ==
  [w1 |-> [days |-> 7, grain |-> "day"], w2 |-> [days |-> 14, grain |-> "day"],
   m1 |-> [days |-> 30, grain |-> "day"], m3 |-> [days |-> 90, grain |-> "week"],
   m6 |-> [days |-> 180, grain |-> "week"], y1 |-> [days |-> 365, grain |-> "month"],
   y3 |-> [days |-> 1095, grain |-> "month"], all |-> [days |-> 0, grain |-> "month"]]

\* An unknown key is the default window, and all time starts before everything.
resolve_window(key) ==
  LET window == Windows[IF key \in DOMAIN Windows THEN key ELSE "m1"]
  IN [grain |-> window.grain, allTime |-> window.days = 0, end |-> now,
      start |-> IF window.days = 0 THEN 0 ELSE now - window.days * TicksPerDay]
-------------------------------------------------------------------------------
Places == Surfaces \cup {Widget}

Between(first, last, places) ==
  {i \in Shows : shows[i] # None /\ shows[i].surface \in places /\ shows[i].at \in first .. last}

InWindow(w) == Between(w.start, w.end, Surfaces)

StartOfDay(moment) == moment - (moment % TicksPerDay)
EndOfDay(moment) == StartOfDay(moment) + TicksPerDay - 1

\* Mutant: the day of the present is left out.
WidgetBefore(w) ==
  Cardinality(Between(StartOfDay(w.start), StartOfDay(w.end) - 1, {Widget}))

\* count_date__range: from the day of the start to the day of the end.
widget_reach(w) == Cardinality(Between(StartOfDay(w.start), EndOfDay(w.end), {Widget}))

\* One grouped query; every surface is there, with zero if need be.
impression_breakdown(w) ==
  [s \in Surfaces |-> Cardinality({i \in InWindow(w) : shows[i].surface = s})]

\* The sum of counts, as the number of what they count together.
Total(counts, S) == Cardinality(UNION {{s} \X (1 .. counts[s]) : s \in S})

curated_total(bySurface) == Total(bySurface, Curated)

\* The buckets that hold something, each with its counts by surface.
impression_trend(w) ==
  LET Bucket(i) == Trunc(shows[i].at, w.grain)
  IN [b \in {Bucket(i) : i \in InWindow(w)} |->
        [s \in Surfaces |->
           Cardinality({i \in InWindow(w) : Bucket(i) = b /\ shows[i].surface = s})]]

truncate(moment, grain) ==
  LET day == moment \div TicksPerDay
  IN TicksPerDay * CASE grain = "day" -> day
                     [] grain = "week" -> day - Weekday(day)
                     [] grain = "month" -> FirstOfMonth[MonthOf(day)]

next_bucket(start, grain) ==
  CASE grain = "day" -> start + TicksPerDay
    [] grain = "week" -> start + 7 * TicksPerDay
    [] grain = "month" -> FirstOfMonth[MonthOf(start \div TicksPerDay) + 1] * TicksPerDay

\* Buckets follow each other from lower on while they are not past the last one.
Axis(lower, last, grain) ==
  LET next == [bucket \in Nat |-> next_bucket(bucket, grain)]
      start[k \in 1 .. LastMonth] == IF k = 1 THEN lower ELSE next[start[k - 1]]
      Ends(n) == /\ n # 0 => start[n] <= last
                 /\ n # LastMonth => last < start[n + 1]
  IN [k \in 1 .. (CHOOSE n \in 0 .. LastMonth : Ends(n)) |-> start[k]]

\* Mutant: the axis stops before the bucket of the present.
AxisBefore(lower, upper, grain) == Axis(lower, upper - 1, grain)

bucket_axis(lower, upper, grain) == Axis(lower, upper, grain)

\* All time starts at the first bucket that holds something.
densify(sparse, w) ==
  IF DOMAIN sparse = {} THEN <<>>
  ELSE LET lower == IF w.allTime THEN Min(DOMAIN sparse) ELSE truncate(w.start, w.grain)
           axis == bucket_axis(lower, truncate(w.end, w.grain), w.grain)
       IN [k \in DOMAIN axis |->
             IF axis[k] \in DOMAIN sparse
             THEN [total |-> Total(sparse[axis[k]], Surfaces),
                   curated |-> curated_total(sparse[axis[k]])]
             ELSE [total |-> 0, curated |-> 0]]
-------------------------------------------------------------------------------
Closed == [at |-> "closed", window |-> None, reach |-> None, trend |-> <<>>, funnel |-> 0,
           reviews |-> FALSE, widget |-> None, precise |-> 0, late |-> 0]

Steps == {"closed", "opened", "reach", "trend", "funnel", "shown", "funnels", "totals", "listed"}

Stored == {None} \cup [at : UNION {0 .. t + 1 : t \in Todays}, surface : Places]

\* The axis stays short: a month of days, half a year of weeks, as many months as the
\* window, or the data, is old; a window that starts inside a bucket takes one more.
ReceptionTypeOK ==
  /\ now \in UNION {{t, t + 1} : t \in Todays}
  /\ shows \in [Shows -> Stored] /\ pending \in [Shows -> Stored]
  /\ page.at \in Steps
  /\ page.trend # <<>> =>
       CASE page.window.grain = "day" -> Len(page.trend) <= 31
         [] page.window.grain = "week" -> Len(page.trend) <= 27
         [] page.window.grain = "month" -> Len(page.trend) <= LastMonth

ReceptionInit ==
  /\ now \in Todays
  /\ shows \in [Shows -> {None} \cup [at : {now - age : age \in Ages}, surface : Places]]
  /\ pending = [i \in Shows |-> None]
  /\ page = Closed

\* Bound: a behaviour ends with its page, as nothing changes it any more.
Unfinished == page.at \notin {"shown", "listed"}

\* A show is stamped, and committed some time later.
Stamp(i) ==
  /\ Unfinished /\ shows[i] = None /\ pending[i] = None
  /\ \E s \in Places : pending' = [pending EXCEPT ![i] = [at |-> now, surface |-> s]]
  /\ UNCHANGED <<now, shows, page>>

Commit(i) ==
  /\ Unfinished /\ pending[i] # None
  /\ shows' = [shows EXCEPT ![i] = pending[i]]
  /\ pending' = [pending EXCEPT ![i] = None]
  /\ page' = IF page.at \in {"reach", "trend", "funnels"} THEN [page EXCEPT !.late = @ + 1] ELSE page
  /\ UNCHANGED now

TimePasses ==
  /\ Unfinished /\ now \in Todays
  /\ now' = now + 1
  /\ UNCHANGED <<shows, pending, page>>

ReadPage(from, to, read) ==
  /\ page.at = from
  /\ page' = [read EXCEPT !.at = to]
  /\ UNCHANGED <<now, shows, pending>>

\* The view takes the moment once: all reads are over the same window.
OpenReception ==
  \E key \in DOMAIN Windows \cup {"unknown"} :
    ReadPage("closed", "opened", [Closed EXCEPT !.window = resolve_window(key)])

BuildReach ==
  ReadPage("opened", "reach", [page EXCEPT !.reach = impression_breakdown(page.window)])

BuildTrend ==
  ReadPage("reach", "trend",
           [page EXCEPT !.trend = densify(impression_trend(page.window), page.window)])

BuildFunnel ==
  ReadPage("trend", "funnel", [page EXCEPT !.funnel = Cardinality(InWindow(page.window))])

\* History: what the widget showed within the window to the moment.
Precise == Cardinality(Between(page.window.start, page.window.end, {Widget}))

\* The slots of the reviews and of the widget are there or not, each by itself.
BuildSlots ==
  /\ page.at = "funnel"
  /\ \E reviews \in BOOLEAN, widget \in {None, widget_reach(page.window)} :
       ReadPage("funnel", "shown",
                [page EXCEPT !.reviews = reviews, !.widget = widget, !.precise = Precise])

\* The list of all applications reads the funnels first, and no trend.
ListFunnels ==
  ReadPage("opened", "funnels", [page EXCEPT !.funnel = Cardinality(InWindow(page.window))])

ListBreakdowns ==
  ReadPage("funnels", "totals", [page EXCEPT !.reach = impression_breakdown(page.window)])

\* A column that cannot be read is a column of zeros.
ListColumn ==
  \/ ReadPage("totals", "listed",
              [page EXCEPT !.widget = widget_reach(page.window), !.precise = Precise])
  \/ ReadPage("totals", "listed", [page EXCEPT !.widget = 0])

\* A read of the corpus fails: no page at all.
ReadFails ==
  \E from \in {"opened", "reach", "trend", "funnels"} : ReadPage(from, "closed", Closed)

ReceptionNext ==
  \/ OpenReception \/ BuildReach \/ BuildTrend \/ BuildFunnel \/ BuildSlots \/ ReadFails
  \/ ListFunnels \/ ListBreakdowns \/ ListColumn
  \/ TimePasses
  \/ \E i \in Shows : Stamp(i) \/ Commit(i)
-------------------------------------------------------------------------------
TrendTotal == Total([k \in DOMAIN page.trend |-> page.trend[k].total], DOMAIN page.trend)
TrendCurated == Total([k \in DOMAIN page.trend |-> page.trend[k].curated], DOMAIN page.trend)
ReachTotal == Total(page.reach, Surfaces)

\* The reach, the trend and the funnel of one page, or of a row of the list, tell the same
\* impressions, whatever the window and the day (_densify, _bucket_axis): a later read
\* knows what an earlier one did, and no more besides than was committed between them.
\* The widget counts whole days: its number is never short of the window, and exceeds it
\* only by the hours of the window's first day before it and of its last day after it
\* (widget_reach).
PageTellsOneReach ==
  /\ page.at \in {"funnel", "shown"} =>
       /\ ReachTotal <= TrendTotal /\ TrendTotal <= page.funnel
       /\ page.funnel <= ReachTotal + page.late
       /\ curated_total(page.reach) <= TrendCurated
       /\ TrendCurated <= curated_total(page.reach) + page.late
  /\ page.at \in {"totals", "listed"} =>
       page.funnel <= ReachTotal /\ ReachTotal <= page.funnel + page.late
  /\ page.at \in {"shown", "listed"} /\ page.widget # None =>
       /\ page.widget >= page.precise
       /\ page.widget <= page.precise +
            Cardinality(Between(StartOfDay(page.window.start), page.window.start, {Widget}))
            + Cardinality(Between(page.window.end + 1, EndOfDay(page.window.end), {Widget}))
===============================================================================
