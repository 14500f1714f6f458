-------------------------- MODULE WidgetSourceProofs --------------------------
(***************************************************************************)
(* The attribution cookie, for any applications, window and bound, and any *)
(* number of requests of the browser at once.  What is credited within its *)
(* window rests on what every copy of the cookie says of its click; what   *)
(* is credited once rests on the copy that will be credited next knowing   *)
(* all that has been.                                                      *)
(***************************************************************************)
EXTENDS WidgetSource, FiniteSetTheorems, TLAPS

\* A copy of the cookie: signed anew it may live longer than its click's window, but only
\* once there is nothing left to credit.
Told(m) ==
  m # NoCookie =>
    /\ m.src \in Apps /\ m.credited \in SUBSET Kinds
    /\ m.signed \in Days /\ m.expires \in Nat
    /\ m.click \in DOMAIN clicks
    /\ m.signed <= day /\ m.expires <= m.signed + Window
    /\ m.credited = {} => m.signed = clicks[m.click]
    /\ m.credited # Kinds => m.expires <= clicks[m.click] + Window

\* Nothing was credited that the copy does not know of.
Knows(m) ==
  m # NoCookie =>
    \A kind \in Kinds : credits[m.click][kind] # 0 => kind \in m.credited

SourceTypes ==
  /\ DOMAIN flight = Requests /\ flight = [r \in Requests |-> flight[r]]
  /\ \A r \in Requests : flight[r] # NoFlight =>
       \/ flight[r].step = "sent" /\ flight[r].errand \in Errands
       \/ flight[r].step = "answered"
  /\ \E n \in 0 .. MaxClicks : DOMAIN clicks = 1 .. n
  /\ \A c \in DOMAIN clicks : clicks[c] \in Days
  /\ credits \in [1 .. MaxClicks -> [Kinds -> Nat]]
  /\ \A c \in (1 .. MaxClicks) \ DOMAIN clicks, kind \in Kinds : credits[c][kind] = 0
  /\ overlapped \in BOOLEAN /\ day \in Days

Copies ==
  /\ Told(cookie)
  /\ \A r \in Requests : flight[r] # NoFlight =>
       /\ Told(flight[r].cookie)
       /\ flight[r].step = "sent" /\ flight[r].cookie # NoCookie => day < flight[r].cookie.expires

\* With one request at a time, its copy is the cookie, or will be.
InTurn ==
  /\ \A r, s \in Requests : flight[r] # NoFlight /\ flight[s] # NoFlight => r = s
  /\ \A r \in Requests : flight[r].step = "sent" => flight[r].cookie \in {NoCookie, cookie}
  /\ \A r \in Requests : flight[r].step = "answered" => Knows(flight[r].cookie)
  /\ (\A r \in Requests : flight[r].step = "answered" => flight[r].cookie = NoCookie)
       => Knows(cookie)

SourceInv ==
  /\ SourceTypes
  /\ Copies
  /\ ~ overlapped => InTurn
  /\ CreditedOnce
-------------------------------------------------------------------------------
LEMMA CookieKinds ==
  /\ \A m \in Markers : m # NoCookie
  /\ \A app, credited, max_age, click : Marker(app, credited, max_age, click) # NoCookie
BY DEF Markers, NoCookie, Marker

LEMMA SourceStart ==
  ASSUME SourceAssumption, SourceInit
  PROVE  SourceInv
<1>1. SourceTypes
  <2>1. DOMAIN clicks = 1 .. 0 /\ 0 \in 0 .. MaxClicks
    BY DEF SourceInit, SourceAssumption
  <2>2. \A c \in 1 .. MaxClicks, kind \in Kinds : credits[c][kind] = 0
    BY DEF SourceInit
  <2>3. day \in Days
    BY DEF SourceInit, SourceAssumption, Days
  <2> QED BY <2>1, <2>2, <2>3 DEF SourceInit, SourceTypes
<1>2. Copies /\ InTurn
  BY DEF SourceInit, Copies, InTurn, Told, Knows, NoFlight
<1>3. CreditedOnce
  BY DEF SourceInit, CreditedOnce
<1> QED BY <1>1, <1>2, <1>3 DEF SourceInv

\* The answer to a request, seen from the others.
LEMMA Responds ==
  ASSUME SourceInv, NEW r \in Requests, NEW m, Respond(r, m)
  PROVE  /\ DOMAIN flight' = Requests /\ flight' = [s \in Requests |-> flight'[s]]
         /\ flight'[r] = [step |-> "answered", cookie |-> m]
         /\ \A s \in Requests \ {r} : flight'[s] = flight[s]
BY DEF Respond, SourceInv, SourceTypes

\* A request is answered with nothing: what the browser has is what it will have.
LEMMA AnswersNothing ==
  ASSUME SourceAssumption, SourceInv, NEW r \in Requests, flight[r].step = "sent",
         Respond(r, NoCookie), UNCHANGED <<cookie, clicks, credits, overlapped, day>>
  PROVE  SourceInv'
<1>1. /\ flight'[r] = [step |-> "answered", cookie |-> NoCookie]
      /\ \A s \in Requests \ {r} : flight'[s] = flight[s]
      /\ DOMAIN flight' = Requests /\ flight' = [s \in Requests |-> flight'[s]]
  BY Responds
<1>2. flight'[r].step = "answered" /\ flight'[r].cookie = NoCookie /\ flight[r] # NoFlight
      /\ flight'[r] # NoFlight
  BY <1>1 DEF NoFlight
<1>3. SourceTypes'
  BY <1>1, <1>2 DEF SourceInv, SourceTypes
<1>4. Copies'
  BY <1>1, <1>2 DEF SourceInv, Copies, Told
<1>5. (~ overlapped => InTurn)'
  <2> SUFFICES ASSUME ~ overlapped PROVE InTurn'
    OBVIOUS
  <2>1. InTurn
    BY DEF SourceInv
  <2>2. \A s \in Requests : flight[s] # NoFlight => s = r
    BY <1>2, <2>1 DEF InTurn
  <2>3. \A s \in Requests : flight[s].step = "answered" => FALSE
    BY <1>2, <2>2 DEF NoFlight
  <2>4. Knows(cookie)
    BY <2>1, <2>3 DEF InTurn
  <2> QED BY <1>1, <1>2, <2>2, <2>4 DEF InTurn, Knows, NoFlight
<1>6. CreditedOnce'
  BY DEF SourceInv, CreditedOnce
<1> QED BY <1>3, <1>4, <1>5, <1>6 DEF SourceInv

\* A request takes a copy of the cookie with it.
LEMMA Sends ==
  ASSUME SourceAssumption, SourceInv, NEW r \in Requests, NEW errand \in Errands, Send(r, errand)
  PROVE  SourceInv'
<1> DEFINE sent == [step |-> "sent", errand |-> errand, cookie |-> Sendable]
<1>1. /\ flight[r] = NoFlight /\ flight'[r] = sent
      /\ \A s \in Requests \ {r} : flight'[s] = flight[s]
      /\ DOMAIN flight' = Requests /\ flight' = [s \in Requests |-> flight'[s]]
      /\ UNCHANGED <<cookie, clicks, credits, day>>
      /\ overlapped' = (overlapped \/ ~ NoneOut)
  BY DEF Send, SourceInv, SourceTypes
<1>2. sent.step = "sent" /\ sent.errand = errand /\ sent.cookie = Sendable /\ sent # NoFlight
  BY DEF NoFlight
<1>3. /\ Sendable \in {NoCookie, cookie}
      /\ Sendable # NoCookie => day < Sendable.expires
  <2>1. cookie # NoCookie => cookie.expires \in Nat /\ day \in Nat
    BY DEF SourceInv, SourceTypes, Copies, Told, Days
  <2> QED BY <2>1 DEF Sendable
<1> HIDE DEF sent
<1>4. SourceTypes'
  <2>1. overlapped' \in BOOLEAN
    BY <1>1 DEF SourceInv, SourceTypes
  <2> QED BY <1>1, <1>2, <2>1 DEF SourceInv, SourceTypes
<1>5. Copies'
  <2>1. Told(cookie) /\ Told(Sendable)
    BY <1>3 DEF SourceInv, Copies, Told
  <2>2. Told(cookie)' /\ Told(flight[r].cookie)'
    BY <1>1, <1>2, <2>1 DEF Told
  <2>3. \A s \in Requests \ {r} : flight[s] # NoFlight => Told(flight[s].cookie)'
    BY <1>1 DEF SourceInv, Copies, Told
  <2> QED BY <1>1, <1>2, <1>3, <2>2, <2>3 DEF SourceInv, Copies
<1>6. (~ overlapped => InTurn)'
  <2> SUFFICES ASSUME ~ overlapped' PROVE InTurn'
    OBVIOUS
  <2>1. InTurn /\ \A s \in Requests : flight[s] = NoFlight
    BY <1>1 DEF SourceInv, NoneOut
  <2>2. Knows(cookie)
    BY <2>1 DEF InTurn, NoFlight
  <2>3. Knows(cookie)'
    BY <1>1, <2>2 DEF Knows
  <2> QED BY <1>1, <1>2, <1>3, <2>1, <2>3 DEF InTurn, NoFlight
<1>7. CreditedOnce'
  BY <1>1 DEF SourceInv, CreditedOnce
<1> QED BY <1>4, <1>5, <1>6, <1>7 DEF SourceInv

LEMMA Receives ==
  ASSUME SourceAssumption, SourceInv, NEW r \in Requests, Receive(r)
  PROVE  SourceInv'
<1>1. /\ flight[r].step = "answered" /\ flight'[r] = NoFlight
      /\ \A s \in Requests \ {r} : flight'[s] = flight[s]
      /\ DOMAIN flight' = Requests /\ flight' = [s \in Requests |-> flight'[s]]
      /\ cookie' = IF flight[r].cookie = NoCookie THEN cookie ELSE flight[r].cookie
      /\ UNCHANGED <<clicks, credits, overlapped, day>>
  BY DEF Receive, SourceInv, SourceTypes
<1>2. flight[r] # NoFlight
  BY <1>1 DEF NoFlight
<1>3. SourceTypes'
  BY <1>1 DEF SourceInv, SourceTypes
<1>4. Copies'
  <2>1. Told(cookie')
    BY <1>1, <1>2 DEF SourceInv, Copies
  <2>2. Told(cookie)'
    BY <1>1, <2>1 DEF Told
  <2>3. \A s \in Requests \ {r} : flight[s] # NoFlight => Told(flight[s].cookie)'
    BY <1>1 DEF SourceInv, Copies, Told
  <2> QED BY <1>1, <2>2, <2>3 DEF SourceInv, Copies
<1>5. (~ overlapped => InTurn)'
  <2> SUFFICES ASSUME ~ overlapped PROVE InTurn'
    BY <1>1
  <2>1. InTurn
    BY DEF SourceInv
  <2>2. \A s \in Requests \ {r} : flight'[s] = NoFlight
    BY <1>1, <1>2, <2>1 DEF InTurn
  <2>3. Knows(cookie')
    <3>1. CASE flight[r].cookie = NoCookie
      <4>1. \A s \in Requests : flight[s].step = "answered" => flight[s].cookie = NoCookie
        BY <1>1, <2>2, <3>1 DEF NoFlight
      <4> QED BY <1>1, <2>1, <3>1, <4>1 DEF InTurn
    <3>2. CASE flight[r].cookie # NoCookie
      BY <1>1, <2>1, <3>2 DEF InTurn
    <3> QED BY <3>1, <3>2
  <2>4. Knows(cookie)'
    BY <1>1, <2>3 DEF Knows
  <2> QED BY <1>1, <2>2, <2>4 DEF InTurn, NoFlight
<1>6. CreditedOnce'
  BY <1>1 DEF SourceInv, CreditedOnce
<1> QED BY <1>3, <1>4, <1>5, <1>6 DEF SourceInv

\* A click has a number of its own, and nothing was credited to it.
LEMMA Clicked ==
  ASSUME SourceAssumption, SourceInv, NEW r \in Requests, set_marker(r)
  PROVE  SourceInv'
<1>1. PICK n \in 0 .. MaxClicks : DOMAIN clicks = 1 .. n
  BY DEF SourceInv, SourceTypes
<1>2. Cardinality(DOMAIN clicks) = n
  BY <1>1, FS_Interval DEF SourceAssumption
<1>a. PICK marker : marker = Marker(flight[r].errand.app, {}, Window, n + 1)
  OBVIOUS
<1>3. /\ flight[r].step = "sent" /\ flight[r].errand.kind = "click"
      /\ n < MaxClicks
      /\ clicks' = [k \in 1 .. n + 1 |-> IF k = n + 1 THEN day ELSE clicks[k]]
      /\ Respond(r, marker)
      /\ UNCHANGED <<cookie, credits, overlapped, day>>
  BY <1>2, <1>a DEF set_marker, Sent
<1>4. /\ marker.src = flight[r].errand.app /\ marker.credited = {} /\ marker.signed = day
      /\ marker.expires = day + Window /\ marker.click = n + 1 /\ marker # NoCookie
  BY <1>a DEF Marker, NoCookie
<1>5. /\ flight'[r] = [step |-> "answered", cookie |-> marker]
      /\ \A s \in Requests \ {r} : flight'[s] = flight[s]
      /\ DOMAIN flight' = Requests /\ flight' = [s \in Requests |-> flight'[s]]
  BY <1>3, Responds
<1>6. flight'[r].step = "answered" /\ flight'[r].cookie = marker /\ flight[r] # NoFlight
      /\ flight'[r] # NoFlight /\ flight[r].errand.app \in Apps
  <2>1. flight[r] # NoFlight /\ flight[r].errand \in Errands
    BY <1>3 DEF NoFlight, SourceInv, SourceTypes
  <2>2. flight[r].errand.app \in Apps
    BY <1>3, <2>1 DEF Errands
  <2> QED BY <1>5, <2>1, <2>2 DEF NoFlight
<1>7. /\ n + 1 \in 0 .. MaxClicks /\ DOMAIN clicks' = 1 .. n + 1 /\ clicks'[n + 1] = day
      /\ \A k \in DOMAIN clicks : k \in DOMAIN clicks' /\ clicks'[k] = clicks[k]
      /\ n + 1 \notin DOMAIN clicks /\ n + 1 \in (1 .. MaxClicks) \ DOMAIN clicks
  BY <1>1, <1>3 DEF SourceAssumption
<1>8. SourceTypes'
  <2>1. \A c \in DOMAIN clicks' : clicks'[c] \in Days
    BY <1>1, <1>3, <1>7 DEF SourceInv, SourceTypes
  <2>2. \A c \in (1 .. MaxClicks) \ DOMAIN clicks', kind \in Kinds : credits[c][kind] = 0
    BY <1>7 DEF SourceInv, SourceTypes
  <2>3. \E m \in 0 .. MaxClicks : DOMAIN clicks' = 1 .. m
    BY <1>7
  <2> QED BY <1>3, <1>5, <1>6, <2>1, <2>2, <2>3 DEF SourceInv, SourceTypes
<1>9. ASSUME NEW m, Told(m) PROVE Told(m)'
  BY <1>3, <1>7, <1>9 DEF Told
<1>10. Copies'
  <2>1. Told(marker)'
    <3>1. day \in Days /\ day \in Nat /\ Window \in Nat
      BY DEF SourceInv, SourceTypes, Days, SourceAssumption
    <3>2. /\ marker.src \in Apps /\ marker.signed \in Days /\ marker.expires \in Nat
          /\ marker.signed <= day /\ marker.expires <= marker.signed + Window
          /\ marker.click \in DOMAIN clicks' /\ marker.signed = clicks'[marker.click]
          /\ marker.credited = {}
      BY <1>4, <1>6, <1>7, <3>1
    <3> QED BY <1>3, <3>1, <3>2 DEF Told
  <2>2. Told(flight[r].cookie)'
    BY <1>6, <2>1 DEF Told
  <2>3. Told(cookie)'
    BY <1>3, <1>9 DEF SourceInv, Copies, Told
  <2>4. \A s \in Requests \ {r} : flight[s] # NoFlight => Told(flight[s].cookie)'
    <3> SUFFICES ASSUME NEW s \in Requests \ {r}, flight[s] # NoFlight
                 PROVE  Told(flight[s].cookie)'
      OBVIOUS
    <3>1. PICK m : m = flight[s].cookie
      OBVIOUS
    <3>2. Told(m)'
      BY <1>9, <3>1 DEF SourceInv, Copies
    <3> QED BY <1>5, <3>1, <3>2 DEF Told
  <2> QED BY <1>3, <1>5, <1>6, <2>2, <2>3, <2>4 DEF SourceInv, Copies
<1>11. (~ overlapped => InTurn)'
  <2> SUFFICES ASSUME ~ overlapped PROVE InTurn'
    BY <1>3
  <2>1. InTurn
    BY DEF SourceInv
  <2>2. \A s \in Requests \ {r} : flight'[s] = NoFlight
    BY <1>5, <1>6, <2>1 DEF InTurn
  <2>3. Knows(flight'[r].cookie)
    BY <1>4, <1>6, <1>7 DEF Knows, SourceInv, SourceTypes
  <2>4. Knows(flight[r].cookie)'
    BY <1>3, <2>3 DEF Knows
  <2> QED BY <1>4, <1>6, <2>2, <2>4 DEF InTurn, NoFlight
<1>12. CreditedOnce'
  BY <1>3 DEF SourceInv, CreditedOnce
<1> QED BY <1>8, <1>10, <1>11, <1>12 DEF SourceInv

\* A credit: the copy that comes back knows of it, and of what the one that was sent did.
LEMMA Credits ==
  ASSUME SourceAssumption, SourceInv, NEW r \in Requests, Credit(r)
  PROVE  SourceInv' /\ CreditsInWindow
<1>1. PICK marker, kind : marker = flight[r].cookie /\ kind = flight[r].errand.kind
  OBVIOUS
<1>2. PICK back : back = IF Remaining(marker) <= 0 THEN NoCookie
                         ELSE Marker(marker.src, marker.credited \cup {kind}, Remaining(marker),
                                     marker.click)
  OBVIOUS
<1>3. /\ flight[r].step = "sent" /\ kind \in Kinds
      /\ marker # NoCookie /\ kind \notin marker.credited
      /\ credits' = [credits EXCEPT ![marker.click][kind] = @ + 1]
      /\ Respond(r, back)
      /\ UNCHANGED <<cookie, clicks, overlapped, day>>
  BY <1>1, <1>2 DEF Credit, Sent, Applies
<1>4. flight[r] # NoFlight /\ Told(marker) /\ day < marker.expires
  BY <1>1, <1>3 DEF NoFlight, SourceInv, Copies
<1>5. /\ day \in Nat /\ day \in Days /\ marker.signed \in Nat /\ marker.expires \in Nat
      /\ Window \in Nat \ {0}
      /\ marker.signed <= day /\ day < marker.signed + Window
  BY <1>3, <1>4 DEF Told, SourceInv, SourceTypes, Days, SourceAssumption
<1>6. /\ marker.click \in DOMAIN clicks /\ marker.click \in 1 .. MaxClicks
      /\ clicks[marker.click] \in Nat
  BY <1>3, <1>4 DEF Told, SourceInv, SourceTypes, Days, SourceAssumption
<1>7. /\ back.src = marker.src /\ back.credited = marker.credited \cup {kind}
      /\ back.signed = day /\ back.expires = day + (Window - (day - marker.signed))
      /\ back.click = marker.click /\ back # NoCookie
  <2>1. ~ Remaining(marker) <= 0
    BY <1>5 DEF Remaining
  <2> QED BY <1>2, <2>1 DEF Marker, Remaining, NoCookie
<1>8. /\ flight'[r] = [step |-> "answered", cookie |-> back]
      /\ \A s \in Requests \ {r} : flight'[s] = flight[s]
      /\ DOMAIN flight' = Requests /\ flight' = [s \in Requests |-> flight'[s]]
  BY <1>3, Responds
<1>9. flight'[r].step = "answered" /\ flight'[r].cookie = back /\ flight'[r] # NoFlight
  BY <1>8 DEF NoFlight
<1>10. /\ credits' \in [1 .. MaxClicks -> [Kinds -> Nat]]
       /\ \A c \in 1 .. MaxClicks, k \in Kinds :
            credits'[c][k] = IF c = marker.click /\ k = kind THEN credits[c][k] + 1 ELSE credits[c][k]
  BY <1>3, <1>6 DEF SourceInv, SourceTypes
<1>11. SourceTypes'
  <2>1. \A c \in (1 .. MaxClicks) \ DOMAIN clicks', k \in Kinds : credits'[c][k] = 0
    BY <1>3, <1>6, <1>10 DEF SourceInv, SourceTypes
  <2> QED BY <1>3, <1>8, <1>9, <1>10, <2>1 DEF SourceInv, SourceTypes
<1>12. marker.credited # Kinds /\ day < clicks[marker.click] + Window
  <2>1. marker.credited # Kinds
    BY <1>3
  <2> QED BY <1>3, <1>4, <1>5, <1>6, <2>1 DEF Told
<1>13. Told(back)'
  <2>1. back.credited # {} /\ back.credited \in SUBSET Kinds /\ back.src \in Apps
    BY <1>3, <1>4, <1>7 DEF Told
  <2>2. back.credited # Kinds => marker.credited = {}
    BY <1>3, <1>4, <1>7 DEF Told, Kinds
  <2>3. back.credited # Kinds => back.expires <= clicks[back.click] + Window
    BY <1>3, <1>4, <1>5, <1>6, <1>7, <2>2 DEF Told
  <2>4. back.expires \in Nat /\ back.expires <= back.signed + Window /\ back.signed \in Days
        /\ back.signed <= day
    BY <1>5, <1>7
  <2> QED BY <1>3, <1>6, <1>7, <2>1, <2>3, <2>4 DEF Told
<1>14. Copies'
  <2>1. Told(flight[r].cookie)'
    BY <1>9, <1>13 DEF Told
  <2>2. \A s \in Requests \ {r} : flight[s] # NoFlight => Told(flight[s].cookie)'
    BY <1>3, <1>8 DEF SourceInv, Copies, Told
  <2>3. Told(cookie)'
    BY <1>3 DEF SourceInv, Copies, Told
  <2> QED BY <1>3, <1>8, <1>9, <2>1, <2>2, <2>3 DEF SourceInv, Copies
<1>15. ~ overlapped => InTurn /\ Knows(marker)
  <2> SUFFICES ASSUME ~ overlapped PROVE InTurn /\ Knows(marker)
    OBVIOUS
  <2>1. InTurn
    BY DEF SourceInv
  <2>2. \A s \in Requests : flight[s].step = "answered" => FALSE
    <3>1. \A s \in Requests : flight[s].step = "answered" => flight[s] # NoFlight
      BY DEF NoFlight
    <3> QED BY <1>3, <1>4, <2>1, <3>1 DEF InTurn
  <2>3. Knows(cookie) /\ marker = cookie
    BY <1>1, <1>3, <2>1, <2>2 DEF InTurn
  <2> QED BY <2>1, <2>3
<1>16. (~ overlapped => InTurn)'
  <2> SUFFICES ASSUME ~ overlapped PROVE InTurn'
    BY <1>3
  <2>1. \A s \in Requests \ {r} : flight'[s] = NoFlight
    BY <1>4, <1>8, <1>15 DEF InTurn
  <2>2. Knows(flight[r].cookie)'
    <3>1. \A k \in Kinds : credits'[marker.click][k] # 0 => k \in marker.credited \cup {kind}
      BY <1>3, <1>6, <1>10, <1>15 DEF Knows
    <3>2. Knows(back)'
      BY <1>7, <3>1 DEF Knows
    <3> QED BY <1>9, <3>2 DEF Knows
  <2> QED BY <1>7, <1>9, <2>1, <2>2 DEF InTurn, NoFlight
<1>17. CreditedOnce'
  <2> SUFFICES ASSUME ~ overlapped, NEW c \in 1 .. MaxClicks, NEW k \in Kinds
               PROVE  credits'[c][k] <= 1
    BY <1>3 DEF CreditedOnce
  <2>1. credits[c][k] <= 1 /\ credits[c][k] \in Nat
    BY DEF SourceInv, CreditedOnce, SourceTypes
  <2>2. c = marker.click /\ k = kind => credits[c][k] = 0
    BY <1>3, <1>15 DEF Knows
  <2> QED BY <1>10, <2>1, <2>2
<1>18. CreditsInWindow
  <2> SUFFICES ASSUME NEW c \in DOMAIN clicks, credits'[c] # credits[c]
               PROVE  day - clicks[c] < Window
    BY DEF CreditsInWindow
  <2>1. c = marker.click
    BY <1>3, <1>6 DEF SourceInv, SourceTypes
  <2> QED BY <1>5, <1>6, <1>12, <2>1
<1> QED BY <1>11, <1>14, <1>16, <1>17, <1>18 DEF SourceInv

LEMMA SourceStep ==
  ASSUME SourceAssumption, SourceInv, [SourceNext]_sourceVars
  PROVE  SourceInv' /\ CreditsInWindow
<1>1. ASSUME UNCHANGED credits PROVE CreditsInWindow
  BY <1>1 DEF CreditsInWindow
<1>2. ASSUME NEW r \in Requests, NEW errand \in Errands, Send(r, errand)
      PROVE  SourceInv' /\ CreditsInWindow
  BY <1>1, <1>2, Sends DEF Send
<1>3. ASSUME NEW r \in Requests, set_marker(r) PROVE SourceInv' /\ CreditsInWindow
  BY <1>1, <1>3, Clicked DEF set_marker
<1>4. ASSUME NEW r \in Requests, Credit(r) PROVE SourceInv' /\ CreditsInWindow
  BY <1>4, Credits
<1>5. ASSUME NEW r \in Requests, CreditNothing(r) \/ Degrade(r)
      PROVE  SourceInv' /\ CreditsInWindow
  BY <1>1, <1>5, AnswersNothing DEF CreditNothing, Degrade, Sent
<1>6. ASSUME NEW r \in Requests, Receive(r) PROVE SourceInv' /\ CreditsInWindow
  BY <1>1, <1>6, Receives DEF Receive
<1>7. CASE DayPasses
  <2>1. /\ day' = day + 1 /\ day' \in Days /\ day \in Nat
        /\ \A r \in Requests : flight[r] = NoFlight
        /\ UNCHANGED <<cookie, flight, clicks, credits, overlapped>>
    BY <1>7 DEF DayPasses, NoneOut, SourceInv, SourceTypes, Days, SourceAssumption
  <2>2. SourceTypes'
    BY <2>1 DEF SourceInv, SourceTypes
  <2>3. Told(cookie)'
    BY <2>1 DEF SourceInv, Copies, Told, Days
  <2>4. Copies' /\ CreditedOnce'
    BY <2>1, <2>3 DEF SourceInv, Copies, CreditedOnce
  <2>5. (~ overlapped => InTurn)'
    BY <2>1 DEF SourceInv, InTurn, Knows
  <2> QED BY <1>1, <2>1, <2>2, <2>4, <2>5 DEF SourceInv
<1>8. CASE UNCHANGED sourceVars
  BY <1>1, <1>8 DEF sourceVars, SourceInv, SourceTypes, Copies, Told, InTurn, Knows, CreditedOnce
<1> QED BY <1>2, <1>3, <1>4, <1>5, <1>6, <1>7, <1>8 DEF SourceNext

\* Cookies and requests keep their shape, which the invariant only says of the fields it uses.
SourceShape == cookie \in Cookies /\ flight \in [Requests -> {NoFlight} \cup Flights]

LEMMA Shaped ==
  ASSUME SourceShape, NEW r \in Requests, flight[r].step \in {"sent", "answered"}
  PROVE  /\ flight[r].cookie \in Cookies
         /\ flight[r].step = "sent" => flight[r].errand \in Errands
         /\ flight[r].cookie # NoCookie =>
              /\ flight[r].cookie.src \in Apps /\ flight[r].cookie.credited \in SUBSET Kinds
              /\ flight[r].cookie.signed \in Days /\ flight[r].cookie.click \in 1 .. MaxClicks
<1>1. flight[r] \in Flights
  BY DEF SourceShape, NoFlight
<1>2. flight[r].cookie \in Cookies /\ (flight[r].step = "sent" => flight[r].errand \in Errands)
  BY <1>1 DEF Flights
<1> QED BY <1>2 DEF Cookies, Markers

LEMMA Answered ==
  ASSUME SourceShape, NEW r \in Requests, NEW m \in Cookies, Respond(r, m), UNCHANGED cookie
  PROVE  SourceShape'
<1>1. [step |-> "answered", cookie |-> m] \in Flights
  BY DEF Flights
<1> QED BY <1>1 DEF SourceShape, Respond

LEMMA MarkerShape ==
  ASSUME day \in Days, NEW app \in Apps, NEW credited \in SUBSET Kinds, NEW max_age \in Nat,
         NEW click \in 1 .. MaxClicks
  PROVE  Marker(app, credited, max_age, click) \in Cookies
<1>1. day + max_age \in Nat
  BY DEF Days
<1> QED BY <1>1 DEF Marker, Cookies, Markers

LEMMA SourceShapeStart == SourceInit => SourceShape
BY DEF SourceInit, SourceShape, Cookies

LEMMA SourceShapeStep ==
  ASSUME SourceAssumption, SourceInv, SourceShape, [SourceNext]_sourceVars
  PROVE  SourceShape'
<1>1. day \in Days /\ NoCookie \in Cookies
  BY DEF SourceInv, SourceTypes, Cookies
<1>2. ASSUME NEW r \in Requests, NEW errand \in Errands, Send(r, errand) PROVE SourceShape'
  <2>1. Sendable \in Cookies
    BY <1>1 DEF Sendable, SourceShape
  <2>2. [step |-> "sent", errand |-> errand, cookie |-> Sendable] \in Flights
    BY <2>1 DEF Flights
  <2> QED BY <1>2, <2>2 DEF Send, SourceShape
<1>3. ASSUME NEW r \in Requests, set_marker(r) PROVE SourceShape'
  <2> DEFINE c == Cardinality(DOMAIN clicks) + 1
  <2>1. c \in 1 .. MaxClicks
    <3>1. PICK n \in 0 .. MaxClicks : DOMAIN clicks = 1 .. n
      BY DEF SourceInv, SourceTypes
    <3>2. Cardinality(DOMAIN clicks) = n
      <4>1. \A k \in Nat : Cardinality(1 .. k) = k
        BY FS_Interval
      <4> QED BY <3>1, <4>1
    <3>3. n < MaxClicks /\ MaxClicks \in Nat
      BY <1>3, <3>2 DEF set_marker, SourceAssumption
    <3> QED BY <3>2, <3>3
  <2>2. flight[r].step = "sent" /\ flight[r].errand.kind = "click" /\ flight[r].errand \in Errands
    BY <1>3, Shaped DEF set_marker, Sent
  <2>3. flight[r].errand.app \in Apps
    BY <2>2 DEF Errands
  <2>4. Window \in Nat /\ {} \in SUBSET Kinds
    BY DEF SourceAssumption
  <2> HIDE DEF c
  <2>5. Marker(flight[r].errand.app, {}, Window, c) \in Cookies
    BY <1>1, <2>1, <2>3, <2>4, MarkerShape
  <2>6. Respond(r, Marker(flight[r].errand.app, {}, Window, c)) /\ UNCHANGED cookie
    BY <1>3 DEF set_marker, c
  <2> QED BY <2>5, <2>6, Answered
<1>4. ASSUME NEW r \in Requests, Credit(r) PROVE SourceShape'
  <2> DEFINE m == flight[r].cookie
             kind == flight[r].errand.kind
  <2>1. flight[r].step = "sent" /\ kind \in Kinds /\ m # NoCookie /\ UNCHANGED cookie
    BY <1>4 DEF Credit, Sent, Applies
  <2>2. /\ m.src \in Apps /\ m.credited \in SUBSET Kinds /\ m.signed \in Days
        /\ m.click \in 1 .. MaxClicks
    BY <2>1, Shaped
  <2>3. Respond(r, IF Remaining(m) <= 0 THEN NoCookie
                   ELSE Marker(m.src, m.credited \cup {kind}, Remaining(m), m.click))
    BY <1>4 DEF Credit
  <2> HIDE DEF m, kind
  <2>4. CASE Remaining(m) <= 0
    BY <1>1, <2>1, <2>3, <2>4, Answered
  <2>5. CASE ~ (Remaining(m) <= 0)
    <3>1. Remaining(m) \in Nat
      BY <1>1, <2>2, <2>5 DEF Remaining, SourceAssumption, Days
    <3>2. m.credited \cup {kind} \in SUBSET Kinds
      BY <2>1, <2>2
    <3>3. Marker(m.src, m.credited \cup {kind}, Remaining(m), m.click) \in Cookies
      BY <1>1, <2>2, <3>1, <3>2, MarkerShape
    <3> QED BY <2>1, <2>3, <2>5, <3>3, Answered
  <2> QED BY <2>4, <2>5
<1>5. ASSUME NEW r \in Requests, CreditNothing(r) \/ Degrade(r) PROVE SourceShape'
  BY <1>1, <1>5, Answered DEF CreditNothing, Degrade
<1>6. ASSUME NEW r \in Requests, Receive(r) PROVE SourceShape'
  BY <1>6, Shaped DEF Receive, SourceShape
<1>7. CASE DayPasses \/ UNCHANGED sourceVars
  BY <1>7 DEF DayPasses, sourceVars, SourceShape
<1> QED BY <1>2, <1>3, <1>4, <1>5, <1>6, <1>7 DEF SourceNext

LEMMA SourceTyped == SourceInv /\ SourceShape => SourceTypeOK
BY DEF SourceInv, SourceTypes, SourceShape, SourceTypeOK

\* A click is credited with each kind once, if the requests of its browser do not overlap
\* (CreditedOnce, _credit).
THEOREM CreditsOnce ==
  SourceAssumption /\ SourceInit /\ [][SourceNext]_sourceVars => []CreditedOnce
<1> DEFINE IInv == SourceAssumption /\ SourceInv
<1>1. SourceAssumption /\ SourceInit => IInv
  BY SourceStart
<1>2. IInv /\ [SourceNext]_sourceVars => IInv'
  BY SourceStep DEF SourceAssumption
<1>3. IInv => CreditedOnce
  BY DEF SourceInv
<1> QED BY <1>1, <1>2, <1>3, PTL

\* Nothing is credited to a click once its window is over, although every credit signs
\* the cookie anew, and whatever overlaps (CreditedInWindow, _credit).
THEOREM CreditsTimely ==
  SourceAssumption /\ SourceInit /\ [][SourceNext]_sourceVars => CreditedInWindow
<1> DEFINE IInv == SourceAssumption /\ SourceInv
<1>1. SourceAssumption /\ SourceInit => IInv
  BY SourceStart
<1>2. IInv /\ [SourceNext]_sourceVars => IInv' /\ [CreditsInWindow]_sourceVars
  BY SourceStep DEF SourceAssumption
<1> QED BY <1>1, <1>2, PTL DEF CreditedInWindow
===============================================================================
