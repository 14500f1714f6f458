-------------------------------- MODULE Ratings --------------------------------
(***************************************************************************)
(* Ratings and the curated gate (apps/ratings): a rating carries a weight  *)
(* only if its author had been shown the application by a digest, as far   *)
(* as the corpus says at the moment the rating is submitted.  The gate is  *)
(* asked before the transaction that writes the row; its answer is stored, *)
(* not computed again.                                                     *)
(***************************************************************************)
EXTENDS SignalCorpus

VARIABLE
  ratings       \* the rows, each under the pair it was made for

Bases == {"curated_digest_impression", "no_curated_impression", "curation_unverified"}

RatingRows ==
  [id : Members \X Apps, user : Users, app : Apps, eligible : BOOLEAN, basis : Bases, at : Days]

RateRequests ==
  [op : {"rate"}, step : {"asked"}, user : Members, app : Apps, at : Days]
    \cup [op : {"rate"}, step : {"determined"}, user : Members, app : Apps, at : Days,
          eligible : BOOLEAN, basis : Bases]

RatingTypeOK == ratings \subseteq RatingRows

RateAt(w, step) == Serves(w, "rate") /\ requests[w].step = step

\* The global definition: the surfaces that count as curation.
CURATED_SURFACES == {"digest"}

\* Mutant: whatever the corpus holds when it is read.
SeenAtAll(m, a, surfaces, as_of) ==
  \E i \in DOMAIN impressions :
    impressions[i].user = m /\ impressions[i].app = a /\ impressions[i].surface \in surfaces

\* selectors.has_impression.
has_impression(m, a, surfaces, as_of) ==
  \E i \in DOMAIN impressions :
    /\ impressions[i].user = m
    /\ impressions[i].app = a
    /\ impressions[i].surface \in surfaces
    /\ impressions[i].at <= as_of

\* submit_rating: the checks, and the moment the gate is asked for.
OpenRating(w, m, a) ==
  /\ MayEngage(m, a)
  /\ Owner[a] # m
  /\ Begin(w, [op |-> "rate", step |-> "asked", user |-> m, app |-> a, at |-> today])
  /\ UNCHANGED <<worldVars, corpusVars, ratings>>

Determine(w, eligible, basis) ==
  LET r == requests[w] IN
    requests' = [requests EXCEPT ![w] =
                   [op |-> "rate", step |-> "determined", user |-> r.user, app |-> r.app,
                    at |-> r.at, eligible |-> eligible, basis |-> basis]]

\* determine_eligibility: the corpus is read, or cannot be, and then the rating has no
\* weight.
determine_eligibility(w) ==
  /\ RateAt(w, "asked")
  /\ LET r == requests[w]
         curated == has_impression(r.user, r.app, CURATED_SURFACES, r.at)
     IN  \/ curated /\ Determine(w, TRUE, "curated_digest_impression")
         \/ ~curated /\ Determine(w, FALSE, "no_curated_impression")
         \/ Determine(w, FALSE, "curation_unverified")
  /\ UNCHANGED <<worldVars, corpusVars, ratings>>

Rated(m, a) == {r \in ratings : r.user = m /\ r.app = a}

\* update_or_create: the row of this member and application gets all columns of this
\* submission.  The application is not checked again.
StoreRating(w) ==
  /\ RateAt(w, "determined")
  /\ LET r == requests[w] IN
       ratings' =
         IF r.user \in live
         THEN (ratings \ Rated(r.user, r.app))
                \cup {[id |-> <<r.user, r.app>>, user |-> r.user, app |-> r.app,
                       eligible |-> r.eligible, basis |-> r.basis, at |-> r.at]}
         ELSE ratings
  /\ Finish(w)
  /\ UNCHANGED <<worldVars, corpusVars>>

remove_rating(m, a) ==
  /\ Rated(m, a) # {}
  /\ ratings' = ratings \ Rated(m, a)
  /\ UNCHANGED <<worldVars, corpusVars, requests>>

\* The ratings of an account that is deleted stay, with their user blanked.
BlankRatings(m) ==
  ratings' = {IF r.user = m THEN [r EXCEPT !.user = Nobody] ELSE r : r \in ratings}

RatingInit == ratings = {}

RatingNext(w) ==
  \/ \E m \in Members, a \in Apps : OpenRating(w, m, a) \/ remove_rating(m, a)
  \/ determine_eligibility(w) \/ StoreRating(w)

-------------------------------------------------------------------------------
\* A rating has weight only with evidence in the corpus from no later than its
\* determination (determine_eligibility), and exactly when its recorded basis says so, also
\* after the author's account is gone.  A gate that could not be read gives no weight.
WeightBacked ==
  \A r \in ratings :
    /\ r.eligible <=> r.basis = "curated_digest_impression"
    /\ r.eligible =>
         \E i \in DOMAIN impressions :
           /\ impressions[i].user = r.user
           /\ impressions[i].app = r.app
           /\ impressions[i].surface = "digest"
           /\ impressions[i].at <= r.at
===============================================================================
