------------------------------- MODULE DemoClip -------------------------------
(***************************************************************************)
(* The demo clip of one application: two columns of its row, demo_clip     *)
(* and demo_clip_alt, and a file in the media storage, under edit_app      *)
(* (apps/catalog/services.py, _apply_clip_edit).  The storage is no part   *)
(* of the transaction: a clip is removed or replaced by deleting the file  *)
(* that the loaded copy names and storing the new one at once, and the     *)
(* columns are written, both together, when the transaction comes to       *)
(* app.save.                                                               *)
(***************************************************************************)
EXTENDS Naturals

CONSTANTS
  Workers,   \* the requests served at the same time
  Clips,     \* bound: the clips ever uploaded, by their generated file names
  Alts,      \* the alt texts
  None       \* no clip; the empty alt text

\* What the constants must be.
ClipAssumption == None \notin Clips \cup Alts

VARIABLES
  clip,      \* App.demo_clip
  alt,       \* App.demo_clip_alt
  files,     \* the clip files in the storage
  used,      \* history: the generated names given out
  task,      \* task[w]: what worker w's edit has done
  calm       \* history: no edit has overlapped another or failed half-way

clipVars == <<clip, alt, files, used, task, calm>>

Rest == [step |-> "idle"]
Columns == [clip : Clips \cup {None}, alt : Alts \cup {None}]
Tasks ==
  {Rest}
    \cup [step : {"replace", "alt"}, seen : Columns, ask : Alts]
    \cup [step : {"remove"}, seen : Columns]
    \cup [step : {"write"}, write : Columns]

ClipTypeOK ==
  /\ clip \in Clips \cup {None} /\ alt \in Alts \cup {None}
  /\ files \subseteq used /\ used \subseteq Clips
  /\ task \in [Workers -> Tasks]
  /\ calm \in BOOLEAN

Serving == {w \in Workers : task[w] # Rest}
Loaded == [clip |-> clip, alt |-> alt]

-------------------------------------------------------------------------------
\* The view loads the row and passes a validated clip edit on.
OpenEdit(w, t) ==
  /\ task[w] = Rest
  /\ task' = [task EXCEPT ![w] = t]
  /\ calm' = (calm /\ Serving = {})
  /\ UNCHANGED <<clip, alt, files, used>>

OpenClipEdit(w) ==
  \/ \E kind \in {"replace", "alt"}, ask \in Alts :
       OpenEdit(w, [step |-> kind, seen |-> Loaded, ask |-> ask])
  \/ OpenEdit(w, [step |-> "remove", seen |-> Loaded])

WillWrite(w, columns) == task' = [task EXCEPT ![w] = [step |-> "write", write |-> columns]]

\* Mutant: a replacement leaves the old file behind.
ReplaceKeepsOld(w, new) ==
  /\ task[w].step = "replace"
  /\ new \notin used
  /\ files' = files \cup {new}
  /\ used' = used \cup {new}
  /\ WillWrite(w, [clip |-> new, alt |-> task[w].ask])
  /\ UNCHANGED <<clip, alt, calm>>

\* _replace_clip, _store_clip: the file the loaded copy names is deleted, the new
\* one stored under a fresh name.
ReplaceClip(w, new) ==
  /\ task[w].step = "replace"
  /\ new \notin used
  /\ files' = (files \ {task[w].seen.clip}) \cup {new}
  /\ used' = used \cup {new}
  /\ WillWrite(w, [clip |-> new, alt |-> task[w].ask])
  /\ UNCHANGED <<clip, alt, calm>>

\* _remove_clip: nothing to do without a clip.  (The service offers it; no view
\* passes it on.)
RemoveClip(w) ==
  /\ task[w].step = "remove"
  /\ task[w].seen.clip # None
  /\ files' = files \ {task[w].seen.clip}
  /\ WillWrite(w, [clip |-> None, alt |-> None])
  /\ UNCHANGED <<clip, alt, used, calm>>

\* _edit_clip_alt_only: a new alt text for the clip the loaded copy names.
EditClipAltOnly(w) ==
  /\ task[w].step = "alt"
  /\ task[w].seen.clip # None
  /\ task[w].ask # task[w].seen.alt
  /\ WillWrite(w, [clip |-> task[w].seen.clip, alt |-> task[w].ask])
  /\ UNCHANGED <<clip, alt, files, used, calm>>

\* app.save(update_fields=_CLIP_PERSIST_FIELDS) and the commit.
WriteClip(w) ==
  /\ task[w].step = "write"
  /\ clip' = task[w].write.clip
  /\ alt' = task[w].write.alt
  /\ task' = [task EXCEPT ![w] = Rest]
  /\ UNCHANGED <<files, used, calm>>

\* The edit ends and its transaction writes nothing: nothing to change, a refusal,
\* or a failure after the storage was touched, which the rollback does not undo.
DropEdit(w) ==
  /\ task[w] # Rest
  /\ task' = [task EXCEPT ![w] = Rest]
  /\ calm' = (calm /\ task[w].step # "write")
  /\ UNCHANGED <<clip, alt, files, used>>
-------------------------------------------------------------------------------
ClipInit ==
  /\ \/ clip = None /\ alt = None
     \/ clip \in Clips /\ alt \in Alts
  /\ files = {clip} \ {None}
  /\ used = files
  /\ task = [w \in Workers |-> Rest]
  /\ calm = TRUE

ClipNext ==
  \E w \in Workers :
    \/ OpenClipEdit(w)
    \/ \E new \in Clips : ReplaceClip(w, new)
    \/ RemoveClip(w)
    \/ EditClipAltOnly(w)
    \/ WriteClip(w)
    \/ DropEdit(w)

ClipSpec == ClipInit /\ [][ClipNext]_clipVars

-------------------------------------------------------------------------------
\* As long as edits come one at a time and none fails half-way, the storage holds the
\* file of the clip and no other; and whatever edits overlap and fail, a clip has an alt
\* text and an alt text a clip, because the two columns are always written together.
ClipStoredWhenCalm ==
  /\ calm /\ Serving = {} => files = {clip} \ {None}
  /\ clip = None <=> alt = None
===============================================================================
