------------------------------- MODULE MagicLink -------------------------------
(***************************************************************************)
(* Passwordless sign-in: links are issued and mailed (register,            *)
(* login_request, issue_login_link), clicked any number of times (verify,  *)
(* verify_token), purged (purge_expired_tokens) and lost with the account  *)
(* (delete_account).  A click is four statements that each commit by       *)
(* themselves: the conditional UPDATE that consumes the token, the read of *)
(* its row, the write of email_confirmed_at, the session.                  *)
(***************************************************************************)
EXTENDS Naturals, FiniteSets

CONSTANTS
  Accounts,    \* the identities accounts can be given
  Tokens,      \* bound: the links ever issued
  Workers,     \* the clicks served at the same time
  Ttl,         \* config.login_token_ttl()
  MaxTime      \* bound: how far time goes

\* What the constants must be.
ASSUME LinkAssumption == Accounts # {} /\ Ttl \in Nat \ {0} /\ MaxTime \in Nat

VARIABLES
  account,     \* account[a]: "absent", "live" or "gone", and confirmed or not
  token,       \* token[t]: the LoginToken row, or none
  mailed,      \* the links that reached the mailbox of their account
  click,       \* click[w]: the click worker w is serving
  sessions,    \* history: the sessions ever opened, as the clicks that opened them
  now          \* the time

linkVars == <<account, token, mailed, click, sessions, now>>

Times == 0 .. MaxTime
AccountRows == [state : {"absent", "live", "gone"}, confirmed : BOOLEAN]
TokenRows == [state : {"unissued", "unused", "consumed", "deleted"},
              account : Accounts, expires_at : 0 .. MaxTime + Ttl]
NoClick == [step |-> "idle"]
Clicks ==
  {NoClick}
    \cup [step : {"clicked", "consumed"}, token : Tokens, at : Times]
    \cup [step : {"confirm", "login"}, token : Tokens, at : Times, account : Accounts]

LinkTypeOK ==
  /\ account \in [Accounts -> AccountRows]
  /\ token \in [Tokens -> TokenRows]
  /\ mailed \subseteq Tokens
  /\ click \in [Workers -> Clicks]
  /\ \A s \in sessions : s \in [token : Tokens, at : Times, account : Accounts, by : Workers]
  /\ now \in Times

Live(a) == account[a].state = "live"
InTable(t) == token[t].state \in {"unused", "consumed"}

-------------------------------------------------------------------------------
\* register: the account exists, unconfirmed, before any link is issued.
register(a) ==
  /\ account[a].state = "absent"
  /\ account' = [account EXCEPT ![a].state = "live"]
  /\ UNCHANGED <<token, mailed, click, sessions, now>>

(***************************************************************************)
(* issue_login_link, for register and login_request: the row is there      *)
(* whether or not the e-mail goes out.  (EmailSendError: 503 to who        *)
(* registers, the generic answer to who signs in.)                         *)
(***************************************************************************)
issue_login_link(a, t) ==
  /\ Live(a)
  /\ token[t].state = "unissued"
  /\ token' = [token EXCEPT ![t] =
                 [state |-> "unused", account |-> a, expires_at |-> now + Ttl]]
  /\ mailed' \in {mailed, mailed \cup {t}}
  /\ UNCHANGED <<account, click, sessions, now>>

\* verify is called with a link: by its reader, twice by an impatient one, or by a
\* scanner that opens what it finds in a mailbox.
Click(w, t) ==
  /\ click[w] = NoClick
  /\ t \in mailed
  /\ click' = [click EXCEPT ![w] = [step |-> "clicked", token |-> t, at |-> now]]
  /\ UNCHANGED <<account, token, mailed, sessions, now>>

\* What the conditional UPDATE matches.
Usable(t, at) == token[t].state = "unused" /\ token[t].expires_at > at

\* Mutant: the token is read, found usable, and consumed with the session.
ReadThenConsume(w) ==
  /\ click[w].step = "clicked"
  /\ Usable(click[w].token, click[w].at)
  /\ click' = [click EXCEPT ![w].step = "consumed"]
  /\ UNCHANGED <<account, token, mailed, sessions, now>>

\* verify_token: UPDATE ... WHERE unconsumed AND unexpired, the time being read first.
Consume(w) ==
  /\ click[w].step = "clicked"
  /\ Usable(click[w].token, click[w].at)
  /\ token' = [token EXCEPT ![click[w].token].state = "consumed"]
  /\ click' = [click EXCEPT ![w].step = "consumed"]
  /\ UNCHANGED <<account, mailed, sessions, now>>

Proceed(w, step, a) ==
  click' = [click EXCEPT ![w] = [step |-> step, token |-> click[w].token,
                                 at |-> click[w].at, account |-> a]]

\* Mutant: the session does not wait for the confirmation.
ReadAndSignIn(w) ==
  /\ click[w].step = "consumed"
  /\ InTable(click[w].token)
  /\ Proceed(w, "login", token[click[w].token].account)
  /\ UNCHANGED <<account, token, mailed, sessions, now>>

\* Mutant: a row that is not there is answered with nobody, and verify goes on.
ReadNobody(w) ==
  /\ click[w].step = "consumed"
  /\ Proceed(w, "login", IF InTable(click[w].token) THEN token[click[w].token].account
                                                     ELSE "nobody")
  /\ UNCHANGED <<account, token, mailed, sessions, now>>

\* verify_token reads the row again; without it the request fails (500).
ReadAccount(w) ==
  /\ click[w].step = "consumed"
  /\ InTable(click[w].token)
  /\ LET a == token[click[w].token].account IN
       Proceed(w, IF account[a].confirmed THEN "login" ELSE "confirm", a)
  /\ UNCHANGED <<account, token, mailed, sessions, now>>

\* verify: email_confirmed_at, by an UPDATE that must find the account.
ConfirmEmail(w) ==
  /\ click[w].step = "confirm"
  /\ Live(click[w].account)
  /\ account' = [account EXCEPT ![click[w].account].confirmed = TRUE]
  /\ Proceed(w, "login", click[w].account)
  /\ UNCHANGED <<token, mailed, sessions, now>>

\* _establish_session: auth_login also writes last_login, to an account that must be there.
EstablishSession(w) ==
  /\ click[w].step = "login"
  /\ Live(click[w].account)
  /\ sessions' = sessions \cup {[token |-> click[w].token, at |-> click[w].at,
                                 account |-> click[w].account, by |-> w]}
  /\ click' = [click EXCEPT ![w] = NoClick]
  /\ UNCHANGED <<account, token, mailed, now>>

\* The click ends without a session: an unusable token (410), a row that is not there
\* any more (500), a dead worker.  What has been written stays.
ClickFails(w) ==
  /\ click[w] # NoClick
  /\ click' = [click EXCEPT ![w] = NoClick]
  /\ UNCHANGED <<account, token, mailed, sessions, now>>

\* purge_expired_tokens deletes what can never authenticate again.
purge_expired_tokens ==
  LET purgeable == {t \in Tokens : InTable(t) /\ (token[t].expires_at < now
                                                  \/ token[t].state = "consumed")}
  IN /\ purgeable # {}
     /\ token' = [t \in Tokens |-> IF t \in purgeable
                                   THEN [token[t] EXCEPT !.state = "deleted"] ELSE token[t]]
     /\ UNCHANGED <<account, mailed, click, sessions, now>>

\* delete_account: the tokens cascade; the sessions of the account answer to nobody.
delete_account(a) ==
  /\ Live(a)
  /\ account' = [account EXCEPT ![a].state = "gone"]
  /\ token' = [t \in Tokens |-> IF InTable(t) /\ token[t].account = a
                                THEN [token[t] EXCEPT !.state = "deleted"] ELSE token[t]]
  /\ UNCHANGED <<mailed, click, sessions, now>>

TimePasses ==
  /\ now < MaxTime
  /\ now' = now + 1
  /\ UNCHANGED <<account, token, mailed, click, sessions>>
-------------------------------------------------------------------------------
LinkInit ==
  /\ account = [a \in Accounts |-> [state |-> "absent", confirmed |-> FALSE]]
  /\ token = [t \in Tokens |-> [state |-> "unissued", account |-> CHOOSE a \in Accounts : TRUE,
                                expires_at |-> 0]]
  /\ mailed = {}
  /\ click = [w \in Workers |-> NoClick]
  /\ sessions = {}
  /\ now = 0

LinkNext ==
  \/ \E a \in Accounts :
       \/ register(a)
       \/ delete_account(a)
       \/ \E t \in Tokens : issue_login_link(a, t)
  \/ \E w \in Workers :
       \/ \E t \in Tokens : Click(w, t)
       \/ Consume(w)
       \/ ReadAccount(w)
       \/ ConfirmEmail(w)
       \/ EstablishSession(w)
       \/ ClickFails(w)
  \/ purge_expired_tokens
  \/ TimePasses

LinkSpec == LinkInit /\ [][LinkNext]_linkVars

-------------------------------------------------------------------------------
\* A link opens one session, however often and however concurrently it is clicked,
\* and only within its life.  ("two concurrent clicks can never both succeed")
LinkOpensOneSession ==
  \A s \in sessions :
    /\ \A r \in sessions : r.token = s.token => r = s
    /\ token[s.token].expires_at > s.at

\* Whoever is signed in has confirmed the address, and an address is confirmed only
\* by a click on a link that was mailed to it and is spent.
ConfirmedByMail ==
  /\ \A s \in sessions : account[s.account].confirmed
  /\ \A a \in Accounts : account[a].confirmed =>
       \E t \in mailed : token[t].account = a /\ token[t].state \in {"consumed", "deleted"}
===============================================================================
