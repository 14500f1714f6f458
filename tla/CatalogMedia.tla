----------------------------- MODULE CatalogMedia -----------------------------
(***************************************************************************)
(* The screenshots of one application under concurrent add_media and       *)
(* remove_media (apps/catalog/services.py).  Neither takes a lock.  Both   *)
(* count the screenshots in the copy the view loaded: get_owned_app        *)
(* prefetches "media", so app.media.count() is the number of rows at that  *)
(* moment.  The position of a new screenshot is read later, by a query of  *)
(* its own, and the unique constraint on (app, position) makes two         *)
(* transactions that insert the same position wait for each other.         *)
(***************************************************************************)
EXTENDS Integers, FiniteSets, FiniteSetsExt

CONSTANTS
  Workers,      \* the requests served at the same time
  Images,       \* bound: the screenshots ever uploaded for the application
  MaxCount      \* config.catalog_media_max_count

\* What the constants must be.
ASSUME MediaAssumption ==
  /\ IsFiniteSet(Workers) /\ IsFiniteSet(Images)
  /\ MaxCount \in Nat \ {0}

VARIABLES
  media,        \* the committed AppMedia rows
  stored,       \* the image files in the media storage
  txn,          \* txn[w]: what worker w's request has done
  crowd         \* history: the most requests that were ever at work at once, or one

mediaVars == <<media, stored, txn, crowd>>

Positions == 0 .. Cardinality(Images)
MediaRows == [image : Images, position : Positions]
Free == [step |-> "idle"]
MediaTxns ==
  {Free}
    \cup [step : {"add"}, seen : Nat]                      \* loaded by the view
    \cup [step : {"remove"}, seen : Nat, row : MediaRows]
    \cup [step : {"place"}, position : Positions]          \* counted, position read
    \cup [step : {"inserted", "deleted"}, row : MediaRows] \* written, not committed

MediaTypeOK ==
  /\ media \subseteq MediaRows
  /\ stored \subseteq Images
  /\ txn \in [Workers -> MediaTxns]
  /\ crowd \in 1 .. Max({1, Cardinality(Workers)})

AtWork == {w \in Workers : txn[w] # Free}

Become(w, t) ==
  /\ txn' = [txn EXCEPT ![w] = t]
  /\ crowd' = Max({crowd, Cardinality(AtWork')})

\* Another transaction holds position p: it inserted it, or deleted the row there.
HeldByOther(w, p) ==
  \E v \in Workers \ {w} :
    txn[v].step \in {"inserted", "deleted"} /\ txn[v].row.position = p

-------------------------------------------------------------------------------
\* The view of add_media loads the application and its screenshots.
OpenAdd(w) ==
  /\ txn[w] = Free
  /\ Become(w, [step |-> "add", seen |-> Cardinality(media)])
  /\ UNCHANGED <<media, stored>>

\* _check_media_count, for one more screenshot.
HasRoom(count) == count + 1 <= MaxCount

\* _next_position: one past the last committed one, 0 when there is none.
NextPosition ==
  IF media = {} THEN 0 ELSE Max({r.position : r \in media}) + 1

\* The count and the image are checked, then the position is read.
CheckAndPlace(w) ==
  /\ txn[w].step = "add"
  /\ HasRoom(txn[w].seen)
  /\ NextPosition \in Positions
  /\ Become(w, [step |-> "place", position |-> NextPosition])
  /\ UNCHANGED <<media, stored>>

\* Mutant: the row is written before its file is stored.
InsertBeforeFile(w, image) ==
  /\ txn[w].step = "place"
  /\ ~HeldByOther(w, txn[w].position)
  /\ image \notin stored
  /\ \A r \in media : r.position # txn[w].position
  /\ Become(w, [step |-> "inserted",
                row |-> [image |-> image, position |-> txn[w].position]])
  /\ UNCHANGED <<media, stored>>

(***************************************************************************)
(* _store_media: the file is stored under a fresh name, then the row is    *)
(* inserted.  A committed row at that position is an IntegrityError: the   *)
(* transaction rolls back and the file stays.                              *)
(***************************************************************************)
StoreAndInsert(w, image) ==
  /\ txn[w].step = "place"
  /\ ~HeldByOther(w, txn[w].position)
  /\ image \notin stored
  /\ stored' = stored \cup {image}
  /\ \/ /\ \E r \in media : r.position = txn[w].position
        /\ Become(w, Free)
     \/ /\ \A r \in media : r.position # txn[w].position
        /\ Become(w, [step |-> "inserted",
                      row |-> [image |-> image, position |-> txn[w].position]])
  /\ UNCHANGED media

\* The view of remove_media loads the screenshots and the one to remove.
OpenRemove(w, row) ==
  /\ txn[w] = Free
  /\ Become(w, [step |-> "remove", seen |-> Cardinality(media), row |-> row])
  /\ UNCHANGED <<media, stored>>

\* Mutant: the minimum is one screenshot too low.
SpareAny(count) == count >= 1

\* remove_media refuses to go below one screenshot.
CanSpare(count) == count > 1

\* media.delete(): waits for a transaction that deletes the same row.
Delete(w) ==
  /\ txn[w].step = "remove"
  /\ CanSpare(txn[w].seen)
  /\ \A v \in Workers \ {w} : txn[v] # [step |-> "deleted", row |-> txn[w].row]
  /\ Become(w, [step |-> "deleted", row |-> txn[w].row])
  /\ UNCHANGED <<media, stored>>

\* The transaction commits.  Deleting a row that is already gone changes nothing.
CommitMedia(w) ==
  /\ \/ txn[w].step = "inserted" /\ media' = media \cup {txn[w].row}
     \/ txn[w].step = "deleted" /\ media' = media \ {txn[w].row}
  /\ Become(w, Free)
  /\ UNCHANGED stored

\* A refused or failed request, or a dead worker: the transaction rolls back.
RollBackMedia(w) ==
  /\ txn[w] # Free
  /\ Become(w, Free)
  /\ UNCHANGED <<media, stored>>
-------------------------------------------------------------------------------
\* submit_app stored one screenshot at least, in the order they were sent.
MediaInit ==
  /\ \E n \in 1 .. MaxCount, sent \in [0 .. MaxCount - 1 -> Images] :
       /\ \A i, j \in 0 .. n - 1 : sent[i] = sent[j] => i = j
       /\ media = {[image |-> sent[i], position |-> i] : i \in 0 .. n - 1}
  /\ stored = {r.image : r \in media}
  /\ txn = [w \in Workers |-> Free]
  /\ crowd = 1

MediaNext ==
  \E w \in Workers :
    \/ OpenAdd(w)
    \/ CheckAndPlace(w)
    \/ \E image \in Images : StoreAndInsert(w, image)
    \/ \E row \in media : OpenRemove(w, row)
    \/ Delete(w)
    \/ CommitMedia(w)
    \/ RollBackMedia(w)

MediaSpec == MediaInit /\ [][MediaNext]_mediaVars

-------------------------------------------------------------------------------
\* The count caps hold up to the requests that overlap: served one at a time, an
\* application keeps between one and MaxCount screenshots; each further request that was
\* ever at work at the same time can take the count one past a bound, because it counted
\* before the others wrote.
MediaCountBounded ==
  /\ Cardinality(media) >= 2 - crowd
  /\ Cardinality(media) <= MaxCount - 1 + crowd

\* Every screenshot on the page has its file, and no two share a place, whatever
\* interleaves, waits for a position or rolls back.
ScreenshotsShown ==
  \A r \in media :
    /\ r.image \in stored
    /\ \A s \in media : (r.position = s.position \/ r.image = s.image) => r = s
===============================================================================
