------------------------------ MODULE NoticeLimit ------------------------------
(***************************************************************************)
(* The notices a developer posts about one application (apps/updates), and *)
(* their limit: a post counts the rows of the last window and then inserts *)
(* its own, in two statements and without a lock.  Withdrawing a notice    *)
(* deletes its row, and with it what it counts against the limit.          *)
(***************************************************************************)
EXTENDS Integers, FiniteSets

CONSTANTS
  Workers,      \* the requests served at the same time
  NoticeIds,    \* the keys of the rows
  MaxPosts,     \* updates_max_posts_per_window
  Window,       \* updates_post_window_hours
  LastHour      \* bound: the last hour

\* What the constants must be.
NoticeAssumption ==
  /\ IsFiniteSet(Workers) /\ Workers # {}
  /\ MaxPosts \in Nat \ {0} /\ Window \in Nat \ {0} /\ LastHour \in Nat

ASSUME NoticeConstants == NoticeAssumption

VARIABLES
  notices,      \* the rows: key and time of publication
  posting,      \* posting[w]: where in post_notice worker w is
  now,          \* the hour
  owned         \* whether the author still has the application

noticeVars == <<notices, posting, now, owned>>

Notices == [id : NoticeIds, at : 0 .. LastHour]

NoticeTypeOK ==
  /\ notices \subseteq Notices
  /\ IsFiniteSet(notices)
  /\ posting \in [Workers -> {"idle", "counted"}]
  /\ now \in 0 .. LastHour
  /\ owned \in BOOLEAN

\* The author's rows of the window that ends now.
Recent == {n \in notices : n.at >= now - Window}

\* Mutant: one more than the limit.
PassesOneMore(w) ==
  /\ posting[w] = "idle"
  /\ owned
  /\ Cardinality(Recent) <= MaxPosts
  /\ posting' = [posting EXCEPT ![w] = "counted"]
  /\ UNCHANGED <<notices, now, owned>>

\* post_notice up to the insert: the author owns the application, and
\* _enforce_rate_limit lets the post through.
PassesLimit(w) ==
  /\ posting[w] = "idle"
  /\ owned
  /\ Cardinality(Recent) < MaxPosts
  /\ posting' = [posting EXCEPT ![w] = "counted"]
  /\ UNCHANGED <<notices, now, owned>>

\* The insert.  The foreign key refuses an author who is gone.
CreateNotice(w) ==
  /\ posting[w] = "counted"
  /\ owned
  /\ \E id \in NoticeIds :
       /\ \A n \in notices : n.id # id
       /\ notices' = notices \cup {[id |-> id, at |-> now]}
  /\ posting' = [posting EXCEPT ![w] = "idle"]
  /\ UNCHANGED <<now, owned>>

\* The insert fails, and the view says so.
PostFails(w) ==
  /\ posting[w] = "counted"
  /\ posting' = [posting EXCEPT ![w] = "idle"]
  /\ UNCHANGED <<notices, now, owned>>

withdraw_notice(n) ==
  /\ notices' = notices \ {n}
  /\ UNCHANGED <<posting, now, owned>>

\* The author's account is deleted, and its notices with it.
AuthorLeaves ==
  /\ owned
  /\ owned' = FALSE
  /\ notices' = {}
  /\ UNCHANGED <<posting, now>>

HourPasses ==
  /\ now < LastHour
  /\ now' = now + 1
  /\ UNCHANGED <<notices, posting, owned>>

NoticeInit ==
  /\ notices = {}
  /\ posting = [w \in Workers |-> "idle"]
  /\ now = 0
  /\ owned = TRUE

NoticeNext ==
  \/ \E w \in Workers : PassesLimit(w) \/ CreateNotice(w) \/ PostFails(w)
  \/ \E n \in notices : withdraw_notice(n)
  \/ AuthorLeaves
  \/ HourPasses

NoticeSpec == NoticeInit /\ [][NoticeNext]_noticeVars

-------------------------------------------------------------------------------
\* What a window can hold, the race included that post_notice accepts: the limit,
\* and one post more for each further request that had counted already.
PostsBounded ==
  Cardinality(Recent) <= MaxPosts + Cardinality(Workers) - 1
===============================================================================
