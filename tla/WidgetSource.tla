----------------------------- MODULE WidgetSource -----------------------------
(***************************************************************************)
(* Attribution of conversions to the widget (apps/widget/source.py), in    *)
(* one browser.  A click on an application's widget leaves a signed cookie *)
(* that names the application; a follow of that application, or a new      *)
(* account, within the window is credited to it, and the response signs    *)
(* the cookie again with what has been credited.  A request carries the    *)
(* cookie as it was when it was sent, and the responses of overlapping     *)
(* requests arrive in any order: the last to arrive is the cookie.         *)
(***************************************************************************)
EXTENDS Integers, FiniteSets

CONSTANTS
  Apps,         \* the applications with a widget
  Requests,     \* the requests in flight at the same time
  Window,       \* widget_attribution_window_days
  MaxClicks,    \* bound: the clicks
  LastDay       \* bound: the last day

\* What the constants must be.
SourceAssumption ==
  Window \in Nat \ {0} /\ MaxClicks \in Nat \ {0} /\ LastDay \in Nat

VARIABLES
  cookie,       \* the cookie in the browser
  flight,       \* flight[r]: a request, or the response on its way back
  clicks,       \* history: when each click was made
  credits,      \* history: how often each click was credited with each kind
  overlapped,   \* history: the requests have overlapped
  day           \* the day; a request takes no part of one

sourceVars == <<cookie, flight, clicks, credits, overlapped, day>>

Kinds == {"follow", "account"}
Days == 0 .. LastDay

NoCookie == [src |-> "none"]
\* `click` is the number of the click the marker descends from.
Markers == [src : Apps, credited : SUBSET Kinds, signed : Days, expires : Nat,
            click : 1 .. MaxClicks]
Cookies == {NoCookie} \cup Markers

\* What a request asks for: a click-through of app's widget, a follow of app, an account.
Errands == [kind : {"click", "follow"}, app : Apps] \cup [kind : {"account"}]

NoFlight == [step |-> "none"]
Flights ==
       [step : {"sent"}, errand : Errands, cookie : Cookies]
  \cup [step : {"answered"}, cookie : Cookies]

SourceTypeOK ==
  /\ cookie \in Cookies
  /\ flight \in [Requests -> {NoFlight} \cup Flights]
  /\ \A c \in DOMAIN clicks : clicks[c] \in Days
  /\ credits \in [1 .. MaxClicks -> [Kinds -> Nat]]
  /\ overlapped \in BOOLEAN /\ day \in Days

NoneOut == \A r \in Requests : flight[r] = NoFlight

\* The browser does not send a cookie that has expired.
Sendable == IF cookie = NoCookie THEN NoCookie
            ELSE IF cookie.expires > day THEN cookie ELSE NoCookie

Send(r, errand) ==
  /\ flight[r] = NoFlight
  /\ flight' = [flight EXCEPT ![r] = [step |-> "sent", errand |-> errand,
                                      cookie |-> Sendable]]
  /\ overlapped' = (overlapped \/ ~ NoneOut)
  /\ UNCHANGED <<cookie, clicks, credits, day>>

Sent(r, kinds) == flight[r].step = "sent" /\ flight[r].errand.kind \in kinds
Respond(r, marker) ==
  flight' = [flight EXCEPT ![r] = [step |-> "answered", cookie |-> marker]]

Marker(app, credited, max_age, click) ==
  [src |-> app, credited |-> credited, signed |-> day, expires |-> day + max_age,
   click |-> click]

\* widget_view_redirect: a fresh marker, over whatever was there.
set_marker(r) ==
  /\ Sent(r, {"click"})
  /\ Cardinality(DOMAIN clicks) < MaxClicks
  /\ LET c == Cardinality(DOMAIN clicks) + 1 IN
       /\ clicks' = [n \in 1 .. c |-> IF n = c THEN day ELSE clicks[n]]
       /\ Respond(r, Marker(flight[r].errand.app, {}, Window, c))
  /\ UNCHANGED <<cookie, credits, overlapped, day>>

\* The signature is no older than the window.
InWindow(marker) == day - marker.signed <= Window

\* _load_live_marker finds one, and it is about this conversion.
Applies(r) ==
  LET marker == flight[r].cookie IN
    /\ marker # NoCookie
    /\ InWindow(marker)
    /\ flight[r].errand.kind = "follow" => marker.src = flight[r].errand.app

\* Mutant: signed again for a whole window.
RemainingWhole(marker) == Window

\* What is left of the window, counted from the signature.
Remaining(marker) == Window - (day - marker.signed)

\* Mutant: the marker goes back as it came.
CreditUnmarked(r) ==
  LET marker == flight[r].cookie
      kind == flight[r].errand.kind
  IN  /\ Sent(r, Kinds)
      /\ Applies(r) /\ kind \notin marker.credited
      /\ credits' = [credits EXCEPT ![marker.click][kind] = @ + 1]
      /\ Respond(r, NoCookie)
      /\ UNCHANGED <<cookie, clicks, overlapped, day>>

\* _credit: one conversion recorded, and the marker signed again for what remains.
Credit(r) ==
  LET marker == flight[r].cookie
      kind == flight[r].errand.kind
  IN  /\ Sent(r, Kinds)
      /\ Applies(r) /\ kind \notin marker.credited
      /\ credits' = [credits EXCEPT ![marker.click][kind] = @ + 1]
      /\ Respond(r, IF Remaining(marker) <= 0 THEN NoCookie
                    ELSE Marker(marker.src, marker.credited \cup {kind}, Remaining(marker),
                                marker.click))
      /\ UNCHANGED <<cookie, clicks, overlapped, day>>

\* attribute_follow, attribute_account: no live marker, another application's, or one
\* that has this kind already.
CreditNothing(r) ==
  /\ Sent(r, Kinds)
  /\ Applies(r) => flight[r].errand.kind \in flight[r].cookie.credited
  /\ Respond(r, NoCookie)
  /\ UNCHANGED <<cookie, clicks, credits, overlapped, day>>

\* The recording fails, or the conversion itself; the view goes on without.
Degrade(r) ==
  /\ flight[r].step = "sent"
  /\ Respond(r, NoCookie)
  /\ UNCHANGED <<cookie, clicks, credits, overlapped, day>>

\* The browser takes the cookie that came with the response, if one did.
Receive(r) ==
  /\ flight[r].step = "answered"
  /\ cookie' = IF flight[r].cookie = NoCookie THEN cookie ELSE flight[r].cookie
  /\ flight' = [flight EXCEPT ![r] = NoFlight]
  /\ UNCHANGED <<clicks, credits, overlapped, day>>

DayPasses ==
  /\ day < LastDay
  /\ NoneOut
  /\ day' = day + 1
  /\ UNCHANGED <<cookie, flight, clicks, credits, overlapped>>

SourceInit ==
  /\ cookie = NoCookie
  /\ flight = [r \in Requests |-> NoFlight]
  /\ clicks = [n \in {} |-> 0]
  /\ credits = [n \in 1 .. MaxClicks |-> [kind \in Kinds |-> 0]]
  /\ overlapped = FALSE
  /\ day = 0

SourceNext ==
  \/ \E r \in Requests :
       \/ \E errand \in Errands : Send(r, errand)
       \/ set_marker(r) \/ Credit(r) \/ CreditNothing(r) \/ Degrade(r) \/ Receive(r)
  \/ DayPasses

-------------------------------------------------------------------------------
\* A click is credited with a kind once at most (_credit), as long as the browser does
\* not have two requests out at once: what has been credited is known to the cookie only.
CreditedOnce ==
  ~ overlapped => \A c \in 1 .. MaxClicks, kind \in Kinds : credits[c][kind] <= 1

\* What this step credits, it credits to a click whose window is not over.
CreditsInWindow ==
  \A c \in DOMAIN clicks : credits'[c] # credits[c] => day - clicks[c] < Window

\* Nothing is credited to a click once its window is over, although every credit signs
\* the marker anew (_credit), whatever overlaps.
CreditedInWindow == [][CreditsInWindow]_sourceVars
===============================================================================
