----------------------------- MODULE WidgetRollup -----------------------------
(***************************************************************************)
(* The daily counter of the embeddable widget (apps/widget/rollup.py): one *)
(* row for an application, a kind and a day, which every render, click and *)
(* conversion increments in a transaction of its own.  There is no row     *)
(* before the day's first count: who finds none inserts it, in a savepoint,*)
(* and who loses that race increments after all.                           *)
(***************************************************************************)
EXTENDS Naturals, FiniteSets

CONSTANTS
  Workers,      \* the requests served at the same time
  MaxCount      \* bound: the increments that succeed

VARIABLES
  count,        \* the committed row's count; 0 when there is no row
  counting,     \* counting[w]: where in _increment_daily worker w is
  counted       \* history: the calls that returned normally

rollupVars == <<count, counting, counted>>

Steps == {"idle", "update", "insert", "update_again", "updated", "inserted"}

RollupTypeOK ==
  /\ count \in Nat /\ counted \in 0 .. MaxCount
  /\ counting \in [Workers -> Steps]

Counting(w, step) == counting[w] = step
Goto(w, step) == counting' = [counting EXCEPT ![w] = step]

\* Another transaction has updated, or inserted, the row and not committed yet.
Held(w, step) == \E v \in Workers \ {w} : Counting(v, step)

Begin(w) ==
  /\ Counting(w, "idle")
  /\ counted + Cardinality({v \in Workers : ~ Counting(v, "idle")}) < MaxCount
  /\ Goto(w, "update")
  /\ UNCHANGED <<count, counted>>

\* _increment_existing_row: count + 1 in the database, once no other transaction
\* holds the row.  An uncommitted insert is not seen.
IncrementExisting(w) ==
  /\ count > 0
  /\ ~ Held(w, "updated")
  /\ Goto(w, "updated")
  /\ UNCHANGED <<count, counted>>

UpdateRow(w) ==
  /\ Counting(w, "update")
  /\ \/ IncrementExisting(w)
     \/ count = 0 /\ Goto(w, "insert") /\ UNCHANGED <<count, counted>>

\* Mutant: who loses the race takes the row for counted.
InsertOnce(w) ==
  /\ Counting(w, "insert")
  /\ \/ count = 0 /\ ~ Held(w, "inserted") /\ Goto(w, "inserted") /\ UNCHANGED counted
     \/ count > 0 /\ Goto(w, "idle") /\ counted' = counted + 1
  /\ UNCHANGED count

\* The insert waits for another one of the same row; if that has committed, the unique
\* index refuses, and the savepoint lets the transaction go on.
InsertRow(w) ==
  /\ Counting(w, "insert")
  /\ \/ count = 0 /\ ~ Held(w, "inserted") /\ Goto(w, "inserted")
     \/ count > 0 /\ Goto(w, "update_again")
  /\ UNCHANGED <<count, counted>>

\* The row of the winner, incremented; whether it was found is not asked again.
UpdateAgain(w) == Counting(w, "update_again") /\ IncrementExisting(w)

CommitCount(w) ==
  /\ counting[w] \in {"updated", "inserted"}
  /\ count' = count + 1
  /\ counted' = counted + 1
  /\ Goto(w, "idle")

\* Any statement fails: the count is lost, and the caller counts the loss.
CountFails(w) ==
  /\ ~ Counting(w, "idle")
  /\ Goto(w, "idle")
  /\ UNCHANGED <<count, counted>>

RollupInit ==
  /\ count = 0
  /\ counting = [w \in Workers |-> "idle"]
  /\ counted = 0

RollupNext ==
  \E w \in Workers :
    \/ Begin(w) \/ UpdateRow(w) \/ InsertRow(w) \/ UpdateAgain(w)
    \/ CommitCount(w) \/ CountFails(w)

RollupSpec == RollupInit /\ [][RollupNext]_rollupVars

-------------------------------------------------------------------------------
\* No count that was reported as made is lost or made twice (_increment_daily),
\* whoever wins the race for the first row of the day; and who lost it finds a row.
CountsExact ==
  /\ count = counted
  /\ \A w \in Workers : Counting(w, "update_again") => count > 0
===============================================================================
