----------------------------- MODULE AccountsProofs -----------------------------
(***************************************************************************)
(* Sign-in links and roles, for any number of accounts, links, concurrent  *)
(* clicks and overlapping role changes, and any length of the trail.       *)
(***************************************************************************)
EXTENDS MCAccounts, TLAPS

-------------------------------------------------------------------------------
(***************************************************************************)
(* What a sign-in link is good for: one session, within its life, for an   *)
(* address that was confirmed by a mail.  Neither property is inductive.   *)
(* What carries them is the conditional UPDATE: the clicks between it and  *)
(* the session hold tokens that are spent, are not shared with another     *)
(* such click, and have opened no session yet.                             *)
(***************************************************************************)
Spent(t) == token[t].state \in {"consumed", "deleted"}
Through(w) == click[w].step \in {"consumed", "confirm", "login"}

\* A click that got through holds a spent token, and no other click or session does.
OneClickGetsThrough ==
  \A w \in Workers : Through(w) =>
    /\ Spent(click[w].token) /\ token[click[w].token].expires_at > click[w].at
    /\ \A v \in Workers \ {w} : Through(v) => click[v].token # click[w].token
    /\ \A s \in sessions : s.token # click[w].token

SessionsSpent == \A s \in sessions : Spent(s.token)

\* A click is on a mailed link; past the read of the row, on behalf of its account.
ClicksOnMail ==
  \A w \in Workers :
    /\ click[w] # NoClick => click[w].token \in mailed
    /\ click[w].step \in {"confirm", "login"} =>
         token[click[w].token].account = click[w].account
    /\ click[w].step = "login" => account[click[w].account].confirmed

IssuedBeforeMailed == \A t \in mailed : token[t].state # "unissued"

OneSession == OneClickGetsThrough /\ SessionsSpent /\ LinkOpensOneSession
MailFirst == ClicksOnMail /\ IssuedBeforeMailed /\ ConfirmedByMail

LinkInv == LinkTypeOK /\ OneSession /\ MailFirst

-------------------------------------------------------------------------------
LEMMA LinkInvInit == LinkInit => LinkInv
<1> SUFFICES ASSUME LinkInit PROVE LinkInv
  OBVIOUS
<1>1. (CHOOSE a \in Accounts : TRUE) \in Accounts
  BY LinkAssumption
<1>2. LinkTypeOK
  BY <1>1, LinkAssumption
  DEF LinkInit, LinkTypeOK, AccountRows, TokenRows, Clicks, NoClick, Times
<1>3. OneSession
  BY DEF LinkInit, OneSession, OneClickGetsThrough, SessionsSpent, LinkOpensOneSession,
         Through, NoClick
<1>4. MailFirst
  BY DEF LinkInit, MailFirst, ClicksOnMail, IssuedBeforeMailed, ConfirmedByMail, NoClick
<1> QED BY <1>2, <1>3, <1>4 DEF LinkInv

\* The step of a click tells the fields it has.
LEMMA ClickFields ==
  ASSUME LinkTypeOK, NEW w \in Workers
  PROVE  /\ click[w] # NoClick => click[w].token \in Tokens /\ click[w].at \in Times
         /\ click[w].step \in {"confirm", "login"} =>
              /\ click[w] # NoClick /\ click[w].account \in Accounts
         /\ click[w].step \in {"clicked", "consumed"} => click[w] # NoClick
         /\ Through(w) => click[w] # NoClick
<1>1. click[w] \in Clicks
  BY DEF LinkTypeOK
<1>2. NoClick.step = "idle"
  BY DEF NoClick
<1>3. CASE click[w] = NoClick
  BY <1>2, <1>3 DEF Through
<1>4. CASE click[w] \in [step : {"clicked", "consumed"}, token : Tokens, at : Times]
  BY <1>2, <1>4 DEF Through
<1>5. CASE click[w] \in [step : {"confirm", "login"}, token : Tokens, at : Times,
                        account : Accounts]
  BY <1>2, <1>5 DEF Through
<1> QED BY <1>1, <1>3, <1>4, <1>5 DEF Clicks

\* A click that goes on keeps its link and its time.
LEMMA ProceedFields ==
  ASSUME LinkTypeOK, NEW w \in Workers, NEW step, NEW a, Proceed(w, step, a)
  PROVE  /\ click'[w].step = step /\ click'[w].token = click[w].token
         /\ click'[w].at = click[w].at /\ click'[w].account = a
BY DEF Proceed, LinkTypeOK

-------------------------------------------------------------------------------
\* Types.

LEMMA TypeStep == LinkTypeOK /\ [LinkNext]_linkVars => LinkTypeOK'
<1> SUFFICES ASSUME LinkTypeOK, [LinkNext]_linkVars PROVE LinkTypeOK'
  OBVIOUS
<1> USE DEF LinkTypeOK
<1>1. ASSUME NEW a \in Accounts, register(a) PROVE LinkTypeOK'
  BY <1>1 DEF register, AccountRows
<1>2. ASSUME NEW a \in Accounts, delete_account(a) PROVE LinkTypeOK'
  BY <1>2 DEF delete_account, AccountRows, TokenRows
<1>3. ASSUME NEW a \in Accounts, NEW t \in Tokens, issue_login_link(a, t) PROVE LinkTypeOK'
  <2>1. now + Ttl \in 0 .. MaxTime + Ttl
    BY LinkAssumption DEF Times
  <2> QED BY <1>3, <2>1 DEF issue_login_link, TokenRows
<1>4. ASSUME NEW w \in Workers, NEW t \in Tokens, Click(w, t) PROVE LinkTypeOK'
  BY <1>4 DEF Click, Clicks
<1>5. ASSUME NEW w \in Workers, Consume(w) PROVE LinkTypeOK'
  <2>1. click[w] \in [step : {"clicked", "consumed"}, token : Tokens, at : Times]
    <3>1. click[w] \in Clicks /\ click[w].step = "clicked" /\ NoClick.step = "idle"
      BY <1>5 DEF Consume, NoClick
    <3> QED BY <3>1 DEF Clicks
  <2>2. [click[w] EXCEPT !.step = "consumed"] \in Clicks
    BY <2>1 DEF Clicks
  <2>3. [token[click[w].token] EXCEPT !.state = "consumed"] \in TokenRows
    BY <2>1 DEF TokenRows
  <2>4. click' \in [Workers -> Clicks]
    BY <1>5, <2>2 DEF Consume
  <2>5. token' \in [Tokens -> TokenRows]
    BY <1>5, <2>1, <2>3 DEF Consume
  <2> QED BY <1>5, <2>4, <2>5 DEF Consume
<1>6. ASSUME NEW w \in Workers, ReadAccount(w) PROVE LinkTypeOK'
  <2>1. click[w].token \in Tokens /\ click[w].at \in Times
    BY <1>6, ClickFields DEF ReadAccount
  <2>2. token[click[w].token].account \in Accounts
    BY <2>1 DEF TokenRows
  <2> QED BY <1>6, <2>1, <2>2 DEF ReadAccount, Proceed, Clicks
<1>7. ASSUME NEW w \in Workers, ConfirmEmail(w) PROVE LinkTypeOK'
  <2>1. click[w].token \in Tokens /\ click[w].at \in Times /\ click[w].account \in Accounts
    BY <1>7, ClickFields DEF ConfirmEmail
  <2> QED BY <1>7, <2>1 DEF ConfirmEmail, Proceed, Clicks, AccountRows
<1>8. ASSUME NEW w \in Workers, EstablishSession(w) PROVE LinkTypeOK'
  <2>1. click[w].token \in Tokens /\ click[w].at \in Times /\ click[w].account \in Accounts
    BY <1>8, ClickFields DEF EstablishSession
  <2>2. click' \in [Workers -> Clicks]
    BY <1>8 DEF EstablishSession, Clicks
  <2>3. \A s \in sessions' : s \in [token : Tokens, at : Times, account : Accounts, by : Workers]
    <3>1. [token |-> click[w].token, at |-> click[w].at, account |-> click[w].account, by |-> w]
            \in [token : Tokens, at : Times, account : Accounts, by : Workers]
      BY <2>1
    <3> QED BY <1>8, <3>1 DEF EstablishSession
  <2> QED BY <1>8, <2>2, <2>3 DEF EstablishSession
<1>9. ASSUME NEW w \in Workers, ClickFails(w) PROVE LinkTypeOK'
  BY <1>9 DEF ClickFails, Clicks
<1>10. CASE purge_expired_tokens
  BY <1>10 DEF purge_expired_tokens, TokenRows
<1>11. CASE TimePasses
  BY <1>11, LinkAssumption DEF TimePasses, Times
<1>12. CASE UNCHANGED linkVars
  BY <1>12 DEF linkVars
<1> QED BY <1>1, <1>2, <1>3, <1>4, <1>5, <1>6, <1>7, <1>8, <1>9, <1>10, <1>11, <1>12
        DEF LinkNext

-------------------------------------------------------------------------------
\* What no step undoes: an issued link stays its account's, with its expiry, and a
\* spent one stays spent; a confirmed address stays confirmed.
LEMMA NothingUndone ==
  LinkTypeOK /\ [LinkNext]_linkVars =>
    /\ \A t \in Tokens : token[t].state # "unissued" =>
         /\ token[t].state' # "unissued"
         /\ token[t].account' = token[t].account
         /\ token[t].expires_at' = token[t].expires_at
         /\ Spent(t) => Spent(t)'
    /\ \A a \in Accounts : account[a].confirmed => account[a].confirmed'
    /\ mailed \subseteq mailed'
<1> SUFFICES ASSUME LinkTypeOK, [LinkNext]_linkVars
             PROVE  /\ \A t \in Tokens : token[t].state # "unissued" =>
                         /\ token[t].state' # "unissued"
                         /\ token[t].account' = token[t].account
                         /\ token[t].expires_at' = token[t].expires_at
                         /\ Spent(t) => Spent(t)'
                    /\ \A a \in Accounts : account[a].confirmed => account[a].confirmed'
                    /\ mailed \subseteq mailed'
  OBVIOUS
<1> USE DEF LinkTypeOK, Spent
<1>1. CASE UNCHANGED <<account, token, mailed>>
  BY <1>1
<1>2. CASE \E a \in Accounts : register(a)
  BY <1>2 DEF register, AccountRows
<1>3. CASE \E w \in Workers : ConfirmEmail(w)
  BY <1>3 DEF ConfirmEmail, AccountRows
<1>4. ASSUME NEW a \in Accounts, delete_account(a)
      PROVE  /\ \A t \in Tokens : token[t].state # "unissued" =>
                  /\ token[t].state' # "unissued"
                  /\ token[t].account' = token[t].account
                  /\ token[t].expires_at' = token[t].expires_at
                  /\ Spent(t) => Spent(t)'
             /\ \A b \in Accounts : account[b].confirmed => account[b].confirmed'
             /\ mailed \subseteq mailed'
  BY <1>4 DEF delete_account, AccountRows, TokenRows
<1>5. CASE \E a \in Accounts, t \in Tokens : issue_login_link(a, t)
  BY <1>5 DEF issue_login_link
<1>6. CASE \E w \in Workers : Consume(w)
  BY <1>6 DEF Consume, Usable, TokenRows
<1>7. CASE purge_expired_tokens
  BY <1>7 DEF purge_expired_tokens, TokenRows
<1>8. ASSUME NEW w \in Workers,
             \/ \E t \in Tokens : Click(w, t)
             \/ ReadAccount(w) \/ EstablishSession(w) \/ ClickFails(w)
      PROVE  UNCHANGED <<account, token, mailed>>
  BY <1>8 DEF Click, ReadAccount, EstablishSession, ClickFails
<1>9. CASE TimePasses
  BY <1>9 DEF TimePasses
<1>10. CASE UNCHANGED linkVars
  BY <1>10 DEF linkVars
<1> QED BY <1>1, <1>4, <1>5, <1>6, <1>7, <1>2, <1>3, <1>8, <1>9, <1>10 DEF LinkNext

-------------------------------------------------------------------------------
(***************************************************************************)
(* A link opens one session.  When no session is opened and no click gets  *)
(* further than it was, the rows that NothingUndone keeps suffice; three   *)
(* steps are left: a click gets through, goes on, or opens the session.    *)
(***************************************************************************)
LEMMA OneSessionStep == LinkInv /\ [LinkNext]_linkVars => OneSession'
<1> SUFFICES ASSUME LinkInv, [LinkNext]_linkVars PROVE OneSession'
  OBVIOUS
<1> USE DEF LinkInv, OneSession
<1>1. \A s \in sessions : s.token \in Tokens
  BY DEF LinkTypeOK
<1>2. \A w \in Workers : Through(w) => click[w].token \in Tokens
  BY ClickFields
<1>3. \A t \in Tokens : Spent(t) => Spent(t)' /\ token[t].expires_at' = token[t].expires_at
  BY NothingUndone DEF Spent
<1>4. CASE /\ sessions' = sessions
           /\ \A w \in Workers : Through(w)' =>
                /\ Through(w)
                /\ click[w].token' = click[w].token
                /\ click[w].at' = click[w].at
  BY <1>1, <1>2, <1>3, <1>4 DEF OneClickGetsThrough, SessionsSpent, LinkOpensOneSession
<1>5. ASSUME NEW w \in Workers, Consume(w) PROVE OneSession'
  <2> DEFINE u == click[w].token
  <2>1. click[w].step = "clicked" /\ u \in Tokens /\ ~ Spent(u)
        /\ token[u].expires_at > click[w].at
    BY <1>5, ClickFields DEF Consume, Usable, Spent
  <2>2. /\ click' = [click EXCEPT ![w].step = "consumed"]
        /\ sessions' = sessions
        /\ Spent(u)' /\ token[u].expires_at' = token[u].expires_at
    BY <1>5, <2>1 DEF Consume, LinkTypeOK, TokenRows, Spent
  <2>3. click[w].token' = u /\ click[w].at' = click[w].at /\ click[w].step' = "consumed"
    <3>1. click[w] \in [step : {"clicked", "consumed"}, token : Tokens, at : Times]
      <4>1. click[w] \in Clicks /\ NoClick.step = "idle"
        BY DEF LinkTypeOK, NoClick
      <4> QED BY <2>1, <4>1 DEF Clicks
    <3>2. click'[w] = [click[w] EXCEPT !.step = "consumed"]
      BY <2>2 DEF LinkTypeOK
    <3> QED BY <3>1, <3>2
  <2>4. \A v \in Workers \ {w} : click'[v] = click[v]
    BY <2>2 DEF LinkTypeOK
  <2>5. \A v \in Workers \ {w} : Through(v) => click[v].token # u
    BY <2>1 DEF OneClickGetsThrough
  <2>6. \A s \in sessions : s.token # u
    BY <2>1 DEF SessionsSpent
  <2>7. OneClickGetsThrough'
    <3>1. \A v \in Workers \ {w} :
            Through(v)' => Through(v) /\ click[v].token' = click[v].token
                           /\ click[v].at' = click[v].at /\ click[v].token # u
      BY <2>4, <2>5 DEF Through
    <3>2. (Spent(click[w].token) /\ token[click[w].token].expires_at > click[w].at)'
      <4>1. Spent(u)' /\ token[u].expires_at' > click[w].at
        BY <2>1, <2>2
      <4> QED BY <2>3, <4>1 DEF Spent
    <3>3. \A v \in Workers \ {w} : Through(v)' =>
            (/\ Spent(click[v].token) /\ token[click[v].token].expires_at > click[v].at
             /\ \A s \in sessions : s.token # click[v].token)'
      BY <1>2, <1>3, <2>2, <2>4, <3>1 DEF OneClickGetsThrough, Spent
    <3>4. \A x, v \in Workers : Through(x)' /\ Through(v)' /\ x # v =>
            click[x].token' # click[v].token'
      BY <2>3, <3>1 DEF OneClickGetsThrough
    <3>5. \A s \in sessions' : s.token # click[w].token'
      BY <2>2, <2>3, <2>6
    <3> QED BY <3>2, <3>3, <3>4, <3>5 DEF OneClickGetsThrough
  <2>8. SessionsSpent' /\ LinkOpensOneSession'
    BY <1>1, <1>3, <2>2 DEF SessionsSpent, LinkOpensOneSession
  <2> QED BY <2>7, <2>8
<1>6. ASSUME NEW w \in Workers, ReadAccount(w) \/ ConfirmEmail(w) PROVE OneSession'
  <2>1. Through(w) /\ sessions' = sessions
    BY <1>6 DEF ReadAccount, ConfirmEmail, Through
  <2>2. click[w].token' = click[w].token /\ click[w].at' = click[w].at
    BY <1>6, ProceedFields DEF ReadAccount, ConfirmEmail
  <2>3. \A v \in Workers \ {w} : click'[v] = click[v]
    BY <1>6 DEF ReadAccount, ConfirmEmail, Proceed, LinkTypeOK
  <2> QED BY <1>4, <2>1, <2>2, <2>3 DEF Through
<1>7. ASSUME NEW w \in Workers, EstablishSession(w) PROVE OneSession'
  <2> DEFINE new == [token |-> click[w].token, at |-> click[w].at,
                     account |-> click[w].account, by |-> w]
  <2>1. Through(w) /\ sessions' = sessions \cup {new}
    BY <1>7 DEF EstablishSession, Through
  <2>2. click'[w] = NoClick /\ \A v \in Workers \ {w} : click'[v] = click[v]
    BY <1>7 DEF EstablishSession, LinkTypeOK
  <2>3. ~ Through(w)'
    BY <2>2 DEF Through, NoClick
  <2>4. \A s \in sessions : s.token # new.token
    BY <2>1 DEF OneClickGetsThrough
  <2>5. \A v \in Workers \ {w} : Through(v) => click[v].token # new.token
    BY <2>1 DEF OneClickGetsThrough
  <2>6. Spent(new.token) /\ token[new.token].expires_at > new.at /\ new.token \in Tokens
    BY <1>2, <2>1 DEF OneClickGetsThrough
  <2>7. OneClickGetsThrough'
    <3>1. \A v \in Workers : Through(v)' =>
            /\ v # w /\ Through(v) /\ click[v].token # new.token
            /\ click[v].token' = click[v].token /\ click[v].at' = click[v].at
      BY <2>2, <2>3, <2>5 DEF Through
    <3>2. \A v \in Workers : Through(v)' =>
            (Spent(click[v].token) /\ token[click[v].token].expires_at > click[v].at)'
      BY <1>2, <1>3, <3>1 DEF OneClickGetsThrough, Spent
    <3>3. \A v \in Workers : Through(v)' => \A s \in sessions' : s.token # click[v].token'
      BY <2>1, <3>1 DEF OneClickGetsThrough
    <3>4. \A x, v \in Workers : Through(x)' /\ Through(v)' /\ x # v =>
            click[x].token' # click[v].token'
      BY <3>1 DEF OneClickGetsThrough
    <3> QED BY <3>2, <3>3, <3>4 DEF OneClickGetsThrough
  <2>8. SessionsSpent'
    BY <1>1, <1>3, <2>1, <2>6 DEF SessionsSpent
  <2>9. LinkOpensOneSession'
    BY <1>1, <1>3, <2>1, <2>4, <2>6 DEF SessionsSpent, LinkOpensOneSession
  <2> QED BY <2>7, <2>8, <2>9
<1>8. ASSUME NEW w \in Workers, ClickFails(w) \/ \E t \in Tokens : Click(w, t)
      PROVE  OneSession'
  <2>1. sessions' = sessions /\ \A v \in Workers \ {w} : click'[v] = click[v]
    BY <1>8 DEF ClickFails, Click, LinkTypeOK
  <2>2. ~ Through(w)'
    <3>1. CASE ClickFails(w)
      <4>1. click'[w] = NoClick
        BY <3>1 DEF ClickFails, LinkTypeOK
      <4> QED BY <4>1 DEF Through, NoClick
    <3>2. ASSUME NEW t \in Tokens, Click(w, t) PROVE ~ Through(w)'
      <4>1. click'[w] = [step |-> "clicked", token |-> t, at |-> now]
        BY <3>2 DEF Click, LinkTypeOK
      <4> QED BY <4>1 DEF Through
    <3> QED BY <1>8, <3>1, <3>2
  <2> QED BY <1>4, <2>1, <2>2 DEF Through
<1>9. CASE UNCHANGED <<click, sessions>>
  BY <1>4, <1>9 DEF Through
<1> QED BY <1>5, <1>6, <1>7, <1>8, <1>9
        DEF LinkNext, linkVars, register, delete_account, issue_login_link,
            purge_expired_tokens, TimePasses

-------------------------------------------------------------------------------
(***************************************************************************)
(* The address is confirmed first.  The click that confirms it holds a     *)
(* spent link of that account, and NothingUndone keeps it so.              *)
(***************************************************************************)
LEMMA MailFirstStep == LinkInv /\ [LinkNext]_linkVars => MailFirst'
<1> SUFFICES ASSUME LinkInv, [LinkNext]_linkVars PROVE MailFirst'
  OBVIOUS
<1> USE DEF LinkInv, MailFirst
<1>1. \A t \in mailed : t \in Tokens /\ token[t].state # "unissued"
  BY DEF IssuedBeforeMailed, LinkTypeOK
<1>2. \A s \in sessions : s.account \in Accounts
  BY DEF LinkTypeOK
<1>3. \A w \in Workers : click[w] # NoClick => click[w].token \in mailed
  BY DEF ClicksOnMail
<1>4. IssuedBeforeMailed'
  <2>1. CASE mailed' = mailed
    BY <1>1, <2>1, NothingUndone DEF IssuedBeforeMailed
  <2>2. ASSUME NEW a \in Accounts, NEW t \in Tokens, issue_login_link(a, t)
        PROVE  IssuedBeforeMailed'
    <3>1. token'[t].state = "unused" /\ mailed' \subseteq mailed \cup {t}
      BY <2>2 DEF issue_login_link, LinkTypeOK
    <3> QED BY <1>1, <3>1, NothingUndone DEF IssuedBeforeMailed
  <2> QED BY <2>1, <2>2
          DEF LinkNext, linkVars, register, delete_account, Click, Consume, ReadAccount,
              ConfirmEmail, EstablishSession, ClickFails, purge_expired_tokens, TimePasses
\* Each click keeps what it knows, or has just learned it.
<1>5. ClicksOnMail'
  <2> DEFINE Known(w) == /\ click[w] # NoClick => click[w].token \in mailed
                         /\ click[w].step \in {"confirm", "login"} =>
                              token[click[w].token].account = click[w].account
                         /\ click[w].step = "login" =>
                              account[click[w].account].confirmed
  <2>1. ASSUME NEW w \in Workers, click'[w] = click[w] PROVE Known(w)'
    <3>1. click[w].step \in {"confirm", "login"} =>
            click[w] # NoClick /\ click[w].account \in Accounts
      BY ClickFields
    <3> QED BY <1>1, <1>3, <2>1, <3>1, NothingUndone DEF ClicksOnMail
  <2>2. ASSUME NEW w \in Workers, click'[w] = NoClick PROVE Known(w)'
    BY <2>2 DEF NoClick
  <2>3. ASSUME NEW w \in Workers, NEW t \in Tokens, Click(w, t) PROVE Known(w)'
    <3>1. click'[w] = [step |-> "clicked", token |-> t, at |-> now] /\ t \in mailed'
      BY <2>3 DEF Click, LinkTypeOK
    <3> QED BY <3>1
  <2>4. ASSUME NEW w \in Workers, Consume(w) PROVE Known(w)'
    <3>1. /\ click'[w] = [click[w] EXCEPT !.step = "consumed"]
          /\ click[w].step = "clicked" /\ mailed' = mailed
      BY <2>4 DEF Consume, LinkTypeOK
    <3>2. click[w] \in [step : {"clicked", "consumed"}, token : Tokens, at : Times]
      <4>1. click[w] \in Clicks /\ NoClick.step = "idle"
        BY DEF LinkTypeOK, NoClick
      <4> QED BY <3>1, <4>1 DEF Clicks
    <3>3. click'[w].step = "consumed" /\ click'[w].token = click[w].token
      BY <3>1, <3>2
    <3>4. click[w] # NoClick
      BY <3>1 DEF NoClick
    <3> QED BY <1>3, <3>1, <3>3, <3>4
  <2>5. ASSUME NEW w \in Workers, ReadAccount(w) PROVE Known(w)'
    <3> DEFINE a == token[click[w].token].account
    <3>1. click[w].step = "consumed" /\ UNCHANGED <<account, token, mailed>>
      BY <2>5 DEF ReadAccount
    <3>2. /\ click'[w].token = click[w].token /\ click'[w].account = a
          /\ click'[w].step = "login" => account[a].confirmed
      BY <2>5, ProceedFields DEF ReadAccount
    <3>3. click[w].token \in mailed
      BY <1>3, <3>1 DEF NoClick
    <3> QED BY <3>1, <3>2, <3>3
  <2>6. ASSUME NEW w \in Workers, ConfirmEmail(w) PROVE Known(w)'
    <3> DEFINE a == click[w].account
    <3>1. click[w].step = "confirm" /\ UNCHANGED <<token, mailed>>
      BY <2>6 DEF ConfirmEmail
    <3>2. click'[w].token = click[w].token /\ click'[w].account = a
      BY <2>6, ProceedFields DEF ConfirmEmail
    <3>3. click[w].token \in mailed /\ token[click[w].token].account = a /\ a \in Accounts
      BY <1>3, <3>1, ClickFields DEF ClicksOnMail
    <3>4. account'[a].confirmed
      BY <2>6, <3>3 DEF ConfirmEmail, LinkTypeOK, AccountRows
    <3> QED BY <3>1, <3>2, <3>3, <3>4
  <2>7. ASSUME NEW w \in Workers, EstablishSession(w) \/ ClickFails(w) PROVE Known(w)'
    BY <2>2, <2>7 DEF EstablishSession, ClickFails, LinkTypeOK
  <2>8. ASSUME NEW w \in Workers, NEW v \in Workers \ {w},
               \/ \E t \in Tokens : Click(w, t)
               \/ Consume(w) \/ ReadAccount(w) \/ ConfirmEmail(w)
               \/ EstablishSession(w) \/ ClickFails(w)
        PROVE  click'[v] = click[v]
    BY <2>8 DEF Click, Consume, ReadAccount, ConfirmEmail, EstablishSession, ClickFails,
                Proceed, LinkTypeOK
  <2>9. CASE click' = click
    BY <2>1, <2>9 DEF ClicksOnMail
  <2> HIDE DEF Known
  <2>10. \A w \in Workers : Known(w)'
    BY <2>1, <2>3, <2>4, <2>5, <2>6, <2>7, <2>8
       DEF LinkNext, linkVars, register, delete_account, issue_login_link,
           purge_expired_tokens, TimePasses
  <2> QED BY <2>10 DEF ClicksOnMail, Known
<1>6. ConfirmedByMail'
  <2>1. \A a \in Accounts : account[a].confirmed =>
          \E t \in mailed' : token[t].account' = a /\ Spent(t)'
    BY <1>1, NothingUndone DEF ConfirmedByMail, Spent
  <2>2. ASSUME NEW w \in Workers, ConfirmEmail(w)
        PROVE  /\ \E t \in mailed' : token[t].account' = click[w].account /\ Spent(t)'
               /\ \A a \in Accounts : a # click[w].account => account'[a] = account[a]
    <3>1. /\ Through(w) /\ click[w].step = "confirm" /\ UNCHANGED <<token, mailed>>
          /\ \A a \in Accounts : a # click[w].account => account'[a] = account[a]
      BY <2>2 DEF ConfirmEmail, Through, LinkTypeOK
    <3>2. click[w].token \in mailed /\ token[click[w].token].account = click[w].account
      BY <1>3, <3>1, ClickFields DEF ClicksOnMail
    <3>3. Spent(click[w].token)
      BY <3>1 DEF OneSession, OneClickGetsThrough
    <3> QED BY <3>1, <3>2, <3>3 DEF Spent
  <2>3. ASSUME NEW a \in Accounts, account'[a].confirmed
        PROVE  \E t \in mailed' : token[t].account' = a /\ Spent(t)'
    <3>1. CASE account[a].confirmed
      BY <2>1, <3>1
    <3>2. CASE \E w \in Workers : ConfirmEmail(w)
      BY <2>1, <2>2, <2>3, <3>2
    <3>3. CASE \E b \in Accounts : register(b) \/ delete_account(b)
      BY <2>1, <2>3, <3>3 DEF register, delete_account, LinkTypeOK, AccountRows
    <3>4. CASE UNCHANGED account
      BY <2>1, <2>3, <3>4
    <3> QED BY <3>2, <3>3, <3>4
            DEF LinkNext, linkVars, issue_login_link, Click, Consume, ReadAccount,
                EstablishSession, ClickFails, purge_expired_tokens, TimePasses
  <2>4. \A s \in sessions : account'[s.account].confirmed
    BY <1>2, NothingUndone DEF ConfirmedByMail
  <2>5. ASSUME NEW w \in Workers, EstablishSession(w)
        PROVE  \A s \in sessions' : account'[s.account].confirmed
    <3>1. account[click[w].account].confirmed /\ UNCHANGED account
      BY <2>5 DEF EstablishSession, ClicksOnMail
    <3>2. sessions' = sessions \cup {[token |-> click[w].token, at |-> click[w].at,
                                      account |-> click[w].account, by |-> w]}
      BY <2>5 DEF EstablishSession
    <3> QED BY <2>4, <3>1, <3>2
  <2>6. \A s \in sessions' : account'[s.account].confirmed
    <3>1. CASE sessions' = sessions
      BY <2>4, <3>1
    <3> QED BY <2>5, <3>1
            DEF LinkNext, linkVars, register, delete_account, issue_login_link, Click,
                Consume, ReadAccount, ConfirmEmail, ClickFails, purge_expired_tokens,
                TimePasses
  <2> QED BY <2>3, <2>6 DEF ConfirmedByMail, Spent
<1> QED BY <1>4, <1>5, <1>6

-------------------------------------------------------------------------------
\* The strengthening is invariant.
THEOREM LinkInvHolds == LinkSpec => []LinkInv
<1>1. LinkInv /\ [LinkNext]_linkVars => LinkInv'
  BY TypeStep, OneSessionStep, MailFirstStep DEF LinkInv
<1> QED BY LinkInvInit, <1>1, PTL DEF LinkSpec

\* Rows, clicks and sessions are what the tables hold.
THEOREM LinkTyped == LinkSpec => []LinkTypeOK
<1>1. LinkInv => LinkTypeOK
  BY DEF LinkInv
<1> QED BY LinkInvHolds, <1>1, PTL

\* A link opens one session, within its life, however it is clicked (verify_token).
THEOREM OneSessionPerLink == LinkSpec => []LinkOpensOneSession
<1>1. LinkInv => LinkOpensOneSession
  BY DEF LinkInv, OneSession
<1> QED BY LinkInvHolds, <1>1, PTL

\* Nobody is signed in whose address was not confirmed by a mailed link (verify).
THEOREM MailConfirms == LinkSpec => []ConfirmedByMail
<1>1. LinkInv => ConfirmedByMail
  BY DEF LinkInv, MailFirst
<1> QED BY LinkInvHolds, <1>1, PTL

-------------------------------------------------------------------------------
(***************************************************************************)
(* Roles and their audit trail.  What makes the trail tell the membership  *)
(* although nothing locks the account: a transaction that changed a        *)
(* membership holds its row until it has appended to the trail, so the     *)
(* effective rows about a membership are in the order of its changes.      *)
(***************************************************************************)
LEMMA ChangeType ==
  ASSUME RoleTypeOK, NEW w \in Changers, change[w] # NoChange
  PROVE  /\ change[w].step \in {"allowed", "written"}
         /\ change[w].row \in GrantRows
         /\ change[w] = [step |-> change[w].step, row |-> change[w].row]
BY DEF RoleTypeOK, Changes, NoChange

\* A request that is being served is no idle one.
LEMMA StepType ==
  ASSUME RoleTypeOK, NEW w \in Changers, change[w].step \in {"allowed", "written"}
  PROVE  change[w] # NoChange /\ change[w].row \in GrantRows
<1>1. change[w] # NoChange
  BY DEF NoChange
<1> QED BY <1>1, ChangeType

LEMMA AppendType ==
  ASSUME RoleTypeOK, Room, NEW row \in GrantRows, trail' = Append(trail, row)
  PROVE  trail' \in Seq(GrantRows) /\ Len(trail') <= MaxRows
BY RoleAssumption DEF RoleTypeOK, Room

\* What the membership statement leaves of the request.
LEMMA WrittenType ==
  ASSUME RoleTypeOK, NEW w \in Changers, NEW effect \in BOOLEAN,
         change[w].step = "allowed", Written(w, effect)
  PROVE  /\ change' \in [Changers -> Changes]
         /\ change'[w].step = "written"
         /\ change'[w].row.effect = effect
         /\ change'[w].row.target = change[w].row.target
         /\ change'[w].row.role = change[w].row.role
         /\ change'[w].row.action = change[w].row.action
         /\ \A v \in Changers \ {w} : change'[v] = change[v]
<1>1. /\ change[w].row \in GrantRows
      /\ change[w] = [step |-> "allowed", row |-> change[w].row]
  BY ChangeType DEF NoChange
<1> DEFINE row == [change[w].row EXCEPT !.effect = effect]
<1>2. row \in GrantRows
  BY <1>1 DEF GrantRows
<1>3. change' = [change EXCEPT ![w] = [step |-> "written", row |-> row]]
  <2>1. [change[w] EXCEPT !.step = "written", !.row.effect = effect]
          = [step |-> "written", row |-> row]
    <3> DEFINE old == change[w].row
    <3>1. change[w] = [step |-> "allowed", row |-> old]
      BY <1>1
    <3> HIDE DEF old
    <3>2. ASSUME NEW x, NEW y
          PROVE  /\ [[step |-> "allowed", row |-> x] EXCEPT !.step = "written"]
                      = [step |-> "written", row |-> x]
                 /\ [[step |-> "written", row |-> x] EXCEPT !.row = y]
                      = [step |-> "written", row |-> y]
      OBVIOUS
    <3>3. [change[w] EXCEPT !.step = "written"].row = old
      BY <3>1
    <3> QED BY <3>1, <3>2, <3>3 DEF old
  <2>2. change' = [change EXCEPT ![w] = [change[w] EXCEPT !.step = "written",
                                                          !.row.effect = effect]]
    BY DEF Written, RoleTypeOK
  <2> QED BY <2>1, <2>2
<1>4. /\ row.effect = effect /\ row.target = change[w].row.target
      /\ row.role = change[w].row.role /\ row.action = change[w].row.action
  BY <1>1 DEF GrantRows
<1> HIDE DEF row
<1>5. [step |-> "written", row |-> row] \in Changes
  BY <1>2 DEF Changes
<1> QED BY <1>3, <1>4, <1>5 DEF RoleTypeOK

\* What a membership statement finds to do is a matter of fact.
LEMMA SomeEffect ==
  ASSUME NEW w \in Changers, groups_add(w) \/ groups_remove(w)
  PROVE  \E effect \in BOOLEAN : Written(w, effect)
<1>1. ASSUME NEW fact \in BOOLEAN, Written(w, fact)
      PROVE  \E effect \in BOOLEAN : Written(w, effect)
  BY <1>1
<1> DEFINE a == change[w].row.target
           role == change[w].row.role
<1>2. CASE groups_add(w)
  BY <1>2, <1>1 DEF groups_add
<1>3. CASE groups_remove(w)
  <2>1. Written(w, role \in groups[a])
    BY <1>3 DEF groups_remove
  <2>2. CASE role \in groups[a]
    <3>1. Written(w, TRUE)
      BY <2>1, <2>2, Zenon DEF Written
    <3> QED BY <3>1
  <2>3. CASE role \notin groups[a]
    <3> HIDE DEF a, role
    <3>0. (role \in groups[a]) = FALSE
      BY <2>3
    <3>1. Written(w, FALSE)
      BY <2>1, <3>0, Zenon
    <3> QED BY <3>1
  <2> QED BY <2>2, <2>3
<1> QED BY <1>2, <1>3

-------------------------------------------------------------------------------
(***************************************************************************)
(* What an action does, as far as the invariants look: a new account, a    *)
(* request let through, a statement, a commit, or something that only      *)
(* takes away.                                                             *)
(***************************************************************************)
Effective(w) == change[w].step = "written" /\ change[w].row.effect

OnlyLiveHold == \A a \in Targets \ live : groups[a] = {}
TrailOfKnown == \A i \in DOMAIN trail : trail[i].target \in live \cup deleted

\* A transaction that changed a membership finds it, until it commits, as it found it.
HeldAsFound ==
  \A w \in Changers : Effective(w) =>
    /\ change[w].row.target \in live
    /\ change[w].row.action = "grant"
         <=> change[w].row.role \notin groups[change[w].row.target]

OneHolder ==
  \A v, w \in Changers :
    /\ Effective(v) /\ Effective(w)
    /\ change[v].row.target = change[w].row.target
    /\ change[v].row.role = change[w].row.role
    => v = w

TrailSays(a, role) ==
  \E i \in DOMAIN trail :
    /\ About(i, a, role) /\ trail[i].effect /\ trail[i].action = "grant"
    /\ \A j \in i + 1 .. Len(trail) : About(j, a, role) => ~trail[j].effect

RoleInv ==
  /\ RoleTypeOK
  /\ OnlyLiveHold
  /\ TrailOfKnown
  /\ HeldAsFound
  /\ OneHolder
  /\ \A a \in live \ HandEdited, role \in Roles : role \in groups[a] <=> TrailSays(a, role)

LEMMA TrailAppend ==
  ASSUME RoleTypeOK, NEW row \in GrantRows, trail' = Append(trail, row), NEW a, NEW role
  PROVE  TrailSays(a, role)' <=>
           IF row.target = a /\ row.role = role /\ row.effect
           THEN row.action = "grant"
           ELSE TrailSays(a, role)
<1>1. /\ trail \in Seq(GrantRows) /\ Len(trail) \in Nat
      /\ DOMAIN trail = 1 .. Len(trail)
      /\ Len(trail') = Len(trail) + 1
      /\ DOMAIN trail' = 1 .. Len(trail) + 1
      /\ \A i \in 1 .. Len(trail) : trail'[i] = trail[i]
      /\ trail'[Len(trail) + 1] = row
  BY DEF RoleTypeOK
<1>2. row.effect \in BOOLEAN
  BY DEF GrantRows
<1> DEFINE n == Len(trail)
           Hit == row.target = a /\ row.role = role
           Tells(i) == trail[i].target = a /\ trail[i].role = role
                         /\ trail[i].effect /\ trail[i].action = "grant"
           Told(i) == trail'[i].target = a /\ trail'[i].role = role
                         /\ trail'[i].effect /\ trail'[i].action = "grant"
           Quiets(i) == trail[i].target = a /\ trail[i].role = role => ~ trail[i].effect
           Quieted(i) == trail'[i].target = a /\ trail'[i].role = role => ~ trail'[i].effect
<1>3. TrailSays(a, role) <=> \E i \in 1 .. n : Tells(i) /\ \A j \in i + 1 .. n : Quiets(j)
  BY <1>1 DEF TrailSays, About
<1>4. TrailSays(a, role)' <=>
        \E i \in 1 .. n + 1 : Told(i) /\ \A j \in i + 1 .. n + 1 : Quieted(j)
  BY <1>1 DEF TrailSays, About
<1>5. /\ \A i \in 1 .. n : Told(i) <=> Tells(i)
      /\ \A i \in 1 .. n : Quieted(i) <=> Quiets(i)
      /\ Told(n + 1) <=> Hit /\ row.effect /\ row.action = "grant"
      /\ Quieted(n + 1) <=> ~ (Hit /\ row.effect)
  BY <1>1, <1>2
<1> HIDE DEF Tells, Told, Quiets, Quieted
<1>6. CASE Hit /\ row.effect
  <2>1. \A i \in 1 .. n : n + 1 \in i + 1 .. n + 1
    BY <1>1
  <2>2. \A j \in (n + 1) + 1 .. n + 1 : Quieted(j)
    BY <1>1
  <2>3. n + 1 \in 1 .. n + 1 /\ \A i \in 1 .. n + 1 : i = n + 1 \/ i \in 1 .. n
    BY <1>1
  <2> HIDE DEF n, Hit
  <2>4. TrailSays(a, role)' <=> Told(n + 1)
    BY <1>4, <1>5, <1>6, <2>1, <2>2, <2>3
  <2> QED BY <1>5, <1>6, <2>4 DEF Hit
<1>7. CASE ~ (Hit /\ row.effect)
  <2>1. \A i \in 1 .. n : i \in 1 .. n + 1 /\ i + 1 .. n + 1 = (i + 1 .. n) \cup {n + 1}
    BY <1>1
  <2>2. \A i \in 1 .. n + 1 : i = n + 1 \/ i \in 1 .. n
    BY <1>1
  <2>3. ~ Told(n + 1) /\ Quieted(n + 1)
    BY <1>5, <1>7
  <2>4. \A i \in 1 .. n : \A j \in i + 1 .. n : j \in 1 .. n
    BY <1>1
  <2> HIDE DEF n, Hit
  <2>5. TrailSays(a, role)' <=> TrailSays(a, role)
    BY <1>3, <1>4, <1>5, <2>1, <2>2, <2>3, <2>4
  <2> QED BY <1>7, <2>5 DEF Hit
<1> QED BY <1>6, <1>7

\* An account that nobody has heard of is in no row of the trail.
LEMMA UnknownSays ==
  ASSUME RoleInv, NEW a, a \notin live \cup deleted, NEW role
  PROVE  ~ TrailSays(a, role)
BY DEF RoleInv, TrailOfKnown, TrailSays, About

LEMMA CreateStep ==
  ASSUME RoleInv, NEW a \in Targets, NEW role \in Roles,
         a \notin live \cup deleted, Room,
         live' = live \cup {a},
         groups' = [groups EXCEPT ![a] = {role}],
         trail' = Append(trail, [target |-> a, role |-> role, action |-> "grant",
                                 effect |-> TRUE]),
         UNCHANGED <<deleted, change>>,
         bootstrapped' \in BOOLEAN
  PROVE  RoleInv'
<1> DEFINE row == [target |-> a, role |-> role, action |-> "grant", effect |-> TRUE]
<1>1. row \in GrantRows /\ trail' = Append(trail, row)
  BY DEF GrantRows
<1>2. RoleTypeOK'
  BY <1>1, AppendType DEF RoleInv, RoleTypeOK
<1>3. OnlyLiveHold' /\ HeldAsFound' /\ OneHolder'
  <2>1. \A b \in Targets \ {a} : groups'[b] = groups[b]
    BY DEF RoleInv, RoleTypeOK
  <2>2. \A w \in Changers : Effective(w)' => Effective(w) /\ change[w].row.target # a
    BY DEF RoleInv, HeldAsFound, Effective
  <2>3. \A w \in Changers : Effective(w) => change[w].row.target \in Targets
    BY DEF RoleInv, RoleTypeOK, HeldAsFound
  <2> QED BY <2>1, <2>2, <2>3 DEF RoleInv, OnlyLiveHold, HeldAsFound, OneHolder, Effective
<1>4. TrailOfKnown'
  <2>1. \A i \in DOMAIN trail' : trail'[i] = row \/ (i \in DOMAIN trail /\ trail'[i] = trail[i])
    BY <1>1 DEF RoleInv, RoleTypeOK
  <2> QED BY <2>1 DEF RoleInv, TrailOfKnown
<1>5. ASSUME NEW b \in live' \ HandEdited, NEW r \in Roles
      PROVE  r \in groups'[b] <=> TrailSays(b, r)'
  <2>1. TrailSays(b, r)' <=> IF b = a /\ role = r THEN TRUE ELSE TrailSays(b, r)
    BY <1>1, TrailAppend DEF RoleInv
  <2>2. CASE b = a
    BY <2>1, <2>2, UnknownSays DEF RoleInv, RoleTypeOK
  <2>3. CASE b # a
    <3>1. groups'[b] = groups[b] /\ b \in live
      BY <2>3 DEF RoleInv, RoleTypeOK
    <3> QED BY <2>1, <2>3, <3>1 DEF RoleInv
  <2> QED BY <2>2, <2>3
<1> QED BY <1>2, <1>3, <1>4, <1>5 DEF RoleInv

LEMMA AllowStep ==
  ASSUME RoleInv, NEW w \in Changers, NEW a \in Targets, NEW role \in Roles,
         NEW action \in {"grant", "revoke"}, Allow(w, a, role, action),
         bootstrapped' \in BOOLEAN
  PROVE  RoleInv'
<1> DEFINE r == [step |-> "allowed",
                 row |-> [target |-> a, role |-> role, action |-> action, effect |-> FALSE]]
<1>1. change' = [change EXCEPT ![w] = r] /\ UNCHANGED <<live, deleted, groups, trail>>
  BY DEF Allow
<1>2. r \in Changes
  BY DEF Changes, GrantRows
<1>3. RoleTypeOK'
  BY <1>1, <1>2 DEF RoleInv, RoleTypeOK
<1>4. \A v \in Changers : Effective(v)' => Effective(v) /\ change'[v] = change[v]
  BY <1>1 DEF RoleInv, RoleTypeOK, Effective
<1>5. HeldAsFound' /\ OneHolder'
  BY <1>1, <1>4 DEF RoleInv, HeldAsFound, OneHolder
<1>6. OnlyLiveHold' /\ TrailOfKnown'
  BY <1>1 DEF RoleInv, OnlyLiveHold, TrailOfKnown
<1>7. \A b \in Targets, x \in Roles : TrailSays(b, x)' <=> TrailSays(b, x)
  BY <1>1 DEF TrailSays, About
<1> QED BY <1>1, <1>3, <1>5, <1>6, <1>7 DEF RoleInv, RoleTypeOK

LEMMA StatementStep ==
  ASSUME RoleInv, NEW w \in Changers, groups_add(w) \/ groups_remove(w)
  PROVE  RoleInv'
<1> DEFINE a == change[w].row.target
           role == change[w].row.role
<1>1. UNCHANGED <<live, deleted, groups, trail, bootstrapped>>
      /\ change[w].step = "allowed"
  BY DEF groups_add, groups_remove
<1>2. PICK effect \in BOOLEAN :
        /\ Written(w, effect)
        /\ effect => /\ a \in live
                     /\ ~ Held(w, a, role)
                     /\ change[w].row.action = "grant" <=> role \notin groups[a]
  <2>1. change[w].row \in GrantRows
    BY <1>1, StepType DEF RoleInv
  <2>2. role \in groups[a] => a \in live
    BY <2>1 DEF RoleInv, OnlyLiveHold, GrantRows
  <2>3. CASE groups_add(w)
    BY <2>3 DEF groups_add
  <2>4. CASE groups_remove(w)
    <3>1. /\ ~ (Held(w, a, role) /\ role \in groups[a])
          /\ change[w].row.action = "revoke" /\ Written(w, role \in groups[a])
      BY <2>4 DEF groups_remove, HeldForRemoval
    <3> HIDE DEF a, role
    <3>2. CASE role \in groups[a]
      <4>1. Written(w, TRUE)
        BY <3>1, <3>2, Zenon DEF Written
      <4> QED BY <2>2, <3>1, <3>2, <4>1
    <3>3. CASE role \notin groups[a]
      <4>0. (role \in groups[a]) = FALSE
        BY <3>3
      <4>1. Written(w, FALSE)
        BY <3>1, <4>0, Zenon
      <4> QED BY <4>1
    <3> QED BY <3>2, <3>3
  <2> QED BY <2>3, <2>4
<1>3. /\ change' \in [Changers -> Changes]
      /\ change'[w].row.effect = effect
      /\ change'[w].row.target = a /\ change'[w].row.role = role
      /\ change'[w].row.action = change[w].row.action
      /\ \A v \in Changers \ {w} : change'[v] = change[v]
  BY <1>1, <1>2, WrittenType DEF RoleInv
<1> HIDE DEF a, role
<1>4. RoleTypeOK'
  BY <1>1, <1>3 DEF RoleInv, RoleTypeOK
<1>5. ASSUME NEW v \in Changers, Effective(v)'
      PROVE  \/ v # w /\ Effective(v) /\ change'[v] = change[v]
             \/ v = w /\ effect
  BY <1>3, <1>5 DEF Effective
<1>6. HeldAsFound'
  BY <1>1, <1>2, <1>3, <1>5 DEF RoleInv, HeldAsFound
<1>7. OneHolder'
  <2>1. ASSUME NEW v \in Changers \ {w}, Effective(v), effect
        PROVE  change[v].row.target # a \/ change[v].row.role # role
    BY <1>2, <2>1 DEF Held, Effective
  <2> QED BY <1>3, <1>5, <2>1 DEF RoleInv, OneHolder
<1>8. OnlyLiveHold' /\ TrailOfKnown'
  BY <1>1 DEF RoleInv, OnlyLiveHold, TrailOfKnown
<1>9. \A b \in Targets, x \in Roles : TrailSays(b, x)' <=> TrailSays(b, x)
  BY <1>1 DEF TrailSays, About
<1> QED BY <1>1, <1>4, <1>6, <1>7, <1>8, <1>9 DEF RoleInv, RoleTypeOK

LEMMA CommitStep ==
  ASSUME RoleInv, NEW w \in Changers, AuditAndCommit(w)
  PROVE  RoleInv'
<1> DEFINE row == change[w].row
           a == change[w].row.target
<1>1. /\ row \in GrantRows /\ a \in live /\ a \in Targets /\ row.role \in Roles
      /\ row.effect \in BOOLEAN /\ row.action \in {"grant", "revoke"}
  <2>1. row \in GrantRows
    BY StepType DEF RoleInv, AuditAndCommit
  <2> QED BY <2>1 DEF GrantRows, AuditAndCommit
<1>2. /\ trail' = Append(trail, row) /\ Room
      /\ change' = [change EXCEPT ![w] = NoChange]
      /\ UNCHANGED <<live, deleted, bootstrapped>>
      /\ groups' = IF row.effect THEN [groups EXCEPT ![a] = Changed(row)] ELSE groups
  BY DEF AuditAndCommit
<1>3. row.effect =>
        /\ groups'[a] = IF row.action = "grant" THEN groups[a] \cup {row.role}
                                                ELSE groups[a] \ {row.role}
        /\ \A b \in Targets \ {a} : groups'[b] = groups[b]
  BY <1>1, <1>2 DEF Changed, RoleInv, RoleTypeOK
<1>4. \A b \in Targets, r \in Roles :
        r \in groups'[b] <=> IF b = a /\ r = row.role /\ row.effect
                             THEN row.action = "grant" ELSE r \in groups[b]
  BY <1>1, <1>2, <1>3
<1>5. RoleTypeOK'
  <2>1. groups' \in [Targets -> SUBSET Roles]
    BY <1>1, <1>2 DEF Changed, RoleInv, RoleTypeOK
  <2>2. trail' \in Seq(GrantRows) /\ Len(trail') <= MaxRows
    BY <1>1, <1>2, AppendType DEF RoleInv
  <2> QED BY <1>2, <2>1, <2>2 DEF RoleInv, RoleTypeOK, Changes
<1> HIDE DEF row, a
<1>6. \A v \in Changers : Effective(v)' => v # w /\ Effective(v) /\ change'[v] = change[v]
  BY <1>2 DEF RoleInv, RoleTypeOK, Effective, NoChange
<1>7. OneHolder'
  BY <1>6 DEF RoleInv, OneHolder
<1>8. HeldAsFound'
  <2> SUFFICES ASSUME NEW v \in Changers, Effective(v)'
               PROVE  /\ change'[v].row.target \in live'
                      /\ change'[v].row.action = "grant"
                           <=> change'[v].row.role \notin groups'[change'[v].row.target]
    BY DEF HeldAsFound
  <2>1. v # w /\ Effective(v) /\ change'[v] = change[v]
    BY <1>6
  <2>2. /\ change[v].row.target \in live
        /\ change[v].row.action = "grant"
             <=> change[v].row.role \notin groups[change[v].row.target]
    BY <2>1 DEF RoleInv, HeldAsFound
  <2>3. change[v].row.target \in Targets /\ change[v].row.role \in Roles
    <3>1. change[v].row \in GrantRows
      BY <2>1, StepType DEF RoleInv, Effective
    <3> QED BY <3>1 DEF GrantRows
  <2>4. ~ (change[v].row.target = a /\ change[v].row.role = row.role /\ row.effect)
    <3>1. row.effect => Effective(w)
      BY DEF row, Effective, AuditAndCommit
    <3> QED BY <2>1, <3>1 DEF RoleInv, OneHolder, row, a
  <2> QED BY <1>2, <1>4, <2>1, <2>2, <2>3, <2>4
<1>9. OnlyLiveHold'
  <2>1. \A b \in Targets \ live : groups'[b] = groups[b]
    BY <1>1, <1>2, <1>3
  <2> QED BY <1>2, <2>1 DEF RoleInv, OnlyLiveHold
<1>10. TrailOfKnown'
  <2>1. \A i \in DOMAIN trail' : trail'[i] = row \/ (i \in DOMAIN trail /\ trail'[i] = trail[i])
    BY <1>1, <1>2 DEF RoleInv, RoleTypeOK
  <2>2. row.target \in live
    BY <1>1 DEF row, a
  <2> QED BY <1>2, <2>1, <2>2 DEF RoleInv, TrailOfKnown
<1>11. ASSUME NEW b \in live' \ HandEdited, NEW r \in Roles
       PROVE  r \in groups'[b] <=> TrailSays(b, r)'
  <2>1. b \in live /\ b \in Targets /\ (r \in groups[b] <=> TrailSays(b, r))
    BY <1>2 DEF RoleInv, RoleTypeOK
  <2>2. TrailSays(b, r)' <=>
          IF row.target = b /\ row.role = r /\ row.effect
          THEN row.action = "grant" ELSE TrailSays(b, r)
    BY <1>1, <1>2, TrailAppend DEF RoleInv
  <2>3. row.target = a
    BY DEF row, a
  <2> QED BY <1>4, <2>1, <2>2, <2>3
<1> QED BY <1>5, <1>7, <1>8, <1>9, <1>10, <1>11 DEF RoleInv

LEMMA GiveUpStep ==
  ASSUME RoleInv, NEW w \in Changers, GiveUp(w)
  PROVE  RoleInv'
<1>1. change' = [change EXCEPT ![w] = NoChange]
      /\ UNCHANGED <<live, deleted, groups, trail, bootstrapped>>
  BY DEF GiveUp
<1>2. RoleTypeOK'
  BY <1>1 DEF RoleInv, RoleTypeOK, Changes
<1>3. \A v \in Changers : Effective(v)' => Effective(v) /\ change'[v] = change[v]
  BY <1>1 DEF RoleInv, RoleTypeOK, Effective, NoChange
<1>4. HeldAsFound' /\ OneHolder'
  BY <1>1, <1>3 DEF RoleInv, HeldAsFound, OneHolder
<1>5. OnlyLiveHold' /\ TrailOfKnown'
  BY <1>1 DEF RoleInv, OnlyLiveHold, TrailOfKnown
<1>6. \A b \in Targets, x \in Roles : TrailSays(b, x)' <=> TrailSays(b, x)
  BY <1>1 DEF TrailSays, About
<1> QED BY <1>1, <1>2, <1>4, <1>5, <1>6 DEF RoleInv, RoleTypeOK

LEMMA DeleteStep ==
  ASSUME RoleInv, NEW a \in Targets, delete_target(a)
  PROVE  RoleInv'
<1>1. /\ live' = live \ {a} /\ deleted' = deleted \cup {a}
      /\ groups' = [groups EXCEPT ![a] = {}]
      /\ UNCHANGED <<trail, change, bootstrapped>>
      /\ ~ Pinned(a) /\ a \in live
  BY DEF delete_target
<1>2. RoleTypeOK'
  BY <1>1 DEF RoleInv, RoleTypeOK
<1>3. /\ groups'[a] = {}
      /\ \A b \in Targets \ {a} : groups'[b] = groups[b]
  BY <1>1 DEF RoleInv, RoleTypeOK
<1>4. \A w \in Changers : Effective(w)' => Effective(w) /\ change[w].row.target # a
  BY <1>1 DEF Pinned, Effective
<1>5. HeldAsFound'
  <2>1. live \subseteq Targets
    BY DEF RoleInv, RoleTypeOK
  <2> QED BY <1>1, <1>3, <1>4, <2>1 DEF RoleInv, HeldAsFound
<1>6. OneHolder'
  BY <1>1, <1>4 DEF RoleInv, OneHolder
<1>7. OnlyLiveHold' /\ TrailOfKnown'
  BY <1>1, <1>3 DEF RoleInv, OnlyLiveHold, TrailOfKnown
<1>8. \A b \in Targets, x \in Roles : TrailSays(b, x)' <=> TrailSays(b, x)
  BY <1>1 DEF TrailSays, About
<1> QED BY <1>1, <1>2, <1>3, <1>5, <1>6, <1>7, <1>8 DEF RoleInv, RoleTypeOK

LEMMA SiteEditStep ==
  ASSUME RoleInv, NEW a \in Targets, NEW role \in Roles, SiteEdit(a, role)
  PROVE  RoleInv'
<1>1. /\ UNCHANGED <<live, deleted, trail, change, bootstrapped>>
      /\ ~ Pinned(a) /\ a \in live /\ a \in HandEdited
      /\ groups' \in [Targets -> SUBSET Roles]
      /\ \A b \in Targets \ {a} : groups'[b] = groups[b]
  BY DEF SiteEdit, RoleInv, RoleTypeOK
<1>2. RoleTypeOK'
  BY <1>1 DEF RoleInv, RoleTypeOK
<1>3. \A w \in Changers : Effective(w)' => Effective(w) /\ change[w].row.target # a
  BY <1>1 DEF Pinned, Effective
<1>4. HeldAsFound'
  <2>1. live \subseteq Targets
    BY DEF RoleInv, RoleTypeOK
  <2> QED BY <1>1, <1>3, <2>1 DEF RoleInv, HeldAsFound
<1>5. OneHolder'
  BY <1>1, <1>3 DEF RoleInv, OneHolder
<1>6. OnlyLiveHold' /\ TrailOfKnown'
  BY <1>1 DEF RoleInv, OnlyLiveHold, TrailOfKnown
<1>7. \A b \in Targets, x \in Roles : TrailSays(b, x)' <=> TrailSays(b, x)
  BY <1>1 DEF TrailSays, About
<1> QED BY <1>1, <1>2, <1>4, <1>5, <1>6, <1>7 DEF RoleInv, RoleTypeOK

LEMMA RoleTypeInit == RoleInit => RoleTypeOK
<1> SUFFICES ASSUME RoleInit PROVE RoleTypeOK
  OBVIOUS
<1>1. trail \in Seq(GrantRows) /\ Len(trail) <= MaxRows
  BY RoleAssumption DEF RoleInit
<1>2. change \in [Changers -> Changes]
  BY DEF RoleInit, Changes
<1> QED BY <1>1, <1>2 DEF RoleInit, RoleTypeOK

LEMMA RoleInvInit == RoleInit => RoleInv
<1> SUFFICES ASSUME RoleInit PROVE RoleInv
  OBVIOUS
<1>1. RoleTypeOK
  BY RoleTypeInit
<1> QED BY <1>1 DEF RoleInit, RoleInv, OnlyLiveHold, TrailOfKnown, HeldAsFound, OneHolder,
                    Effective, NoChange

LEMMA RoleInvStep == RoleInv /\ [RoleNext]_roleVars => RoleInv'
<1> SUFFICES ASSUME RoleInv, [RoleNext]_roleVars PROVE RoleInv'
  OBVIOUS
<1>1. bootstrapped \in BOOLEAN
  BY DEF RoleInv, RoleTypeOK
<1>2. ASSUME NEW a \in Targets, create_account_with_base_role(a)
      PROVE  RoleInv'
  BY <1>1, <1>2, CreateStep DEF create_account_with_base_role, BaseRole, Roles
<1>3. ASSUME NEW a \in Targets, BootstrapNew(a)
      PROVE  RoleInv'
  BY <1>1, <1>3, CreateStep DEF BootstrapNew, Roles
<1>4. ASSUME NEW w \in Changers, NEW a \in Targets, AdoptDeveloper(w, a)
      PROVE  RoleInv'
  BY <1>1, <1>4, AllowStep DEF AdoptDeveloper, Roles
<1>5. ASSUME NEW w \in Changers, NEW a \in Targets, BootstrapAdmin(w, a)
      PROVE  RoleInv'
  BY <1>5, AllowStep DEF BootstrapAdmin, Roles
<1>6. ASSUME NEW w \in Changers, NEW a \in Targets, NEW role \in Roles,
             NEW action \in {"grant", "revoke"}, AdminChanges(w, a, role, action)
      PROVE  RoleInv'
  BY <1>1, <1>6, AllowStep DEF AdminChanges
<1>7. CASE UNCHANGED roleVars
  BY <1>7 DEF roleVars, RoleInv, RoleTypeOK, OnlyLiveHold, TrailOfKnown, HeldAsFound,
              OneHolder, Effective, TrailSays, About
<1> QED BY <1>2, <1>3, <1>4, <1>5, <1>6, <1>7, StatementStep, CommitStep, GiveUpStep,
           DeleteStep, SiteEditStep DEF RoleNext

-------------------------------------------------------------------------------
\* Accounts, memberships, trail and requests have their types.
THEOREM RolesTyped == RoleSpec => []RoleTypeOK
<1>1. RoleInv => RoleTypeOK
  BY DEF RoleInv
<1> QED BY <1>1, RoleInvInit, RoleInvStep, PTL DEF RoleSpec

\* Whatever grants and revocations overlap, the last row that changed a membership says
\* what it is (grant_role, revoke_role).
THEOREM TrailTells == RoleSpec => []TrailTellsMembership
<1>1. RoleInv => TrailTellsMembership
  BY DEF RoleInv, TrailTellsMembership, TrailSays
<1> QED BY <1>1, RoleInvInit, RoleInvStep, PTL DEF RoleSpec

(***************************************************************************)
(* The first admin.  Until the operator has made one, no request that      *)
(* would make one is let through either.                                   *)
(***************************************************************************)
NoneOnTheWay ==
  ~bootstrapped => \A w \in Changers :
    change[w] # NoChange => change[w].row.role # "admin"

AdminInv == RoleTypeOK /\ NoneOnTheWay /\ AdminsComeFromAdmins

LEMMA NoAdminBefore ==
  ASSUME AdminInv, ~bootstrapped, NEW a
  PROVE  ~ HasRole(a, "admin")
<1>1. \A held \in Roles : "admin" \notin RoleImplies[held]
  BY DEF Roles, RoleImplies
<1>2. \A b \in live : b \in Targets /\ groups[b] \subseteq Roles
  BY DEF AdminInv, RoleTypeOK
<1> QED BY <1>1, <1>2 DEF AdminInv, AdminsComeFromAdmins, HasRole

LEMMA AdminStep == AdminInv /\ RoleTypeOK' /\ [RoleNext]_roleVars => AdminInv'
<1> SUFFICES ASSUME AdminInv, RoleTypeOK', [RoleNext]_roleVars,
                    ~bootstrapped'
             PROVE  NoneOnTheWay' /\ AdminsComeFromAdmins'
  BY DEF AdminInv, NoneOnTheWay, AdminsComeFromAdmins
<1>1. CASE UNCHANGED roleVars
  BY <1>1 DEF roleVars, AdminInv, NoneOnTheWay, AdminsComeFromAdmins
<1>2. CASE RoleNext
  <2>1. ~bootstrapped
    BY <1>2 DEF RoleNext, create_account_with_base_role, BootstrapNew, delete_target,
                SiteEdit, AdoptDeveloper, BootstrapAdmin, AdminChanges, groups_add,
                groups_remove, AuditAndCommit, GiveUp, AdminInv, RoleTypeOK
  <2>2. /\ \A b \in Targets : "admin" \notin groups[b]
        /\ \A w \in Changers : change[w] # NoChange => change[w].row.role # "admin"
    BY <2>1 DEF AdminInv, NoneOnTheWay, AdminsComeFromAdmins
  <2>3. ASSUME NEW a \in Targets,
               create_account_with_base_role(a) \/ delete_target(a)
        PROVE  NoneOnTheWay' /\ AdminsComeFromAdmins'
    <3>1. change' = change /\ \A b \in Targets : groups'[b] \in {groups[b], {BaseRole}, {}}
      <4>1. CASE create_account_with_base_role(a)
        BY <4>1 DEF create_account_with_base_role, AdminInv, RoleTypeOK
      <4>2. CASE delete_target(a)
        BY <4>2 DEF delete_target, AdminInv, RoleTypeOK
      <4> QED BY <2>3, <4>1, <4>2
    <3> QED BY <2>2, <3>1 DEF BaseRole, NoneOnTheWay, AdminsComeFromAdmins
  <2>4. ASSUME NEW w \in Changers, NEW a \in Targets, AdoptDeveloper(w, a)
        PROVE  NoneOnTheWay' /\ AdminsComeFromAdmins'
    BY <2>2, <2>4 DEF AdoptDeveloper, Allow, NoneOnTheWay, AdminsComeFromAdmins,
                      AdminInv, RoleTypeOK
  <2>5. ASSUME NEW w \in Changers, NEW a \in Targets, NEW role \in Roles,
               NEW action \in {"grant", "revoke"}, AdminChanges(w, a, role, action)
        PROVE  FALSE
    BY <2>1, <2>5, NoAdminBefore DEF AdminChanges
  <2>6. ASSUME NEW w \in Changers, groups_add(w) \/ groups_remove(w)
        PROVE  NoneOnTheWay' /\ AdminsComeFromAdmins'
    <3>1. /\ groups' = groups /\ change[w].step = "allowed"
          /\ \E effect \in BOOLEAN : Written(w, effect)
      BY <2>6, SomeEffect DEF groups_add, groups_remove
    <3>2. \A v \in Changers : change'[v] # NoChange =>
             change[v] # NoChange /\ change'[v].row.role = change[v].row.role
      BY <3>1, WrittenType DEF AdminInv, NoChange
    <3> QED BY <2>2, <3>1, <3>2 DEF NoneOnTheWay, AdminsComeFromAdmins
  <2>7. ASSUME NEW w \in Changers, AuditAndCommit(w)
        PROVE  NoneOnTheWay' /\ AdminsComeFromAdmins'
    <3>1. change[w].row.role # "admin" /\ change' = [change EXCEPT ![w] = NoChange]
      BY <2>2, <2>7 DEF AuditAndCommit, NoChange
    <3>2. \A b \in Targets : "admin" \notin groups'[b]
      BY <2>2, <2>7, <3>1 DEF AuditAndCommit, Changed, AdminInv, RoleTypeOK
    <3> QED BY <2>2, <3>1, <3>2 DEF NoneOnTheWay, AdminsComeFromAdmins, AdminInv, RoleTypeOK
  <2>8. ASSUME NEW w \in Changers, GiveUp(w)
        PROVE  NoneOnTheWay' /\ AdminsComeFromAdmins'
    BY <2>2, <2>8 DEF GiveUp, NoneOnTheWay, AdminsComeFromAdmins, AdminInv, RoleTypeOK
  <2>9. ASSUME NEW a \in Targets, NEW role \in Roles, SiteEdit(a, role)
        PROVE  FALSE
    BY <2>1, <2>9 DEF SiteEdit
  <2>10. ASSUME NEW a \in Targets, NEW w \in Changers, BootstrapAdmin(w, a)
         PROVE  FALSE
    BY <2>10 DEF BootstrapAdmin
  <2>11. ASSUME NEW a \in Targets, BootstrapNew(a)
         PROVE  FALSE
    BY <2>11 DEF BootstrapNew
  <2> QED BY <1>2, <2>3, <2>4, <2>5, <2>6, <2>7, <2>8, <2>9, <2>10, <2>11 DEF RoleNext
<1> QED BY <1>1, <1>2

\* No chain of requests leads to the admin role before the operator has made an admin
\* (DeveloperRoleView, AdminAccountRolesView, create_admin).
THEOREM AdminsDescend == RoleSpec => []AdminsComeFromAdmins
<1>1. RoleInit => AdminInv
  <2> SUFFICES ASSUME RoleInit PROVE AdminInv
    OBVIOUS
  <2>1. RoleTypeOK
    BY RoleTypeInit
  <2> QED BY <2>1 DEF RoleInit, AdminInv, NoneOnTheWay, AdminsComeFromAdmins
<1>2. AdminInv => AdminsComeFromAdmins
  BY DEF AdminInv
<1> QED BY <1>1, <1>2, RolesTyped, AdminStep, PTL DEF RoleSpec

-------------------------------------------------------------------------------
\* Both components keep their types (AccountTypesOK): rows, clicks, sessions, memberships
\* and the trail are what the tables hold.
THEOREM AccountsTyped == Spec => []AccountTypesOK
<1>1. Init => LinkInv /\ RoleInv
  BY LinkInvInit, RoleInvInit DEF Init
<1>2. LinkInv /\ RoleInv /\ [Next]_vars => LinkInv' /\ RoleInv'
  <2>1. [Next]_vars => [LinkNext]_linkVars /\ [RoleNext]_roleVars
    BY DEF Next, vars
  <2>2. LinkInv /\ [LinkNext]_linkVars => LinkInv'
    BY TypeStep, OneSessionStep, MailFirstStep DEF LinkInv
  <2> QED BY <2>1, <2>2, RoleInvStep
<1>3. LinkInv /\ RoleInv => AccountTypesOK
  BY DEF LinkInv, RoleInv, AccountTypesOK
<1> QED BY <1>1, <1>2, <1>3, PTL DEF Spec
=================================================================================
