------------------------------ MODULE IntakeGate ------------------------------
(***************************************************************************)
(* What the intake gate promises, with no request, worker or snapshot in   *)
(* it: an application moves through the lifecycle only by the transitions  *)
(* that catalog/services.py declares, and every verdict of the gate stays  *)
(* on the record.  CatalogLifecycle implements it when requests do not     *)
(* overlap.                                                                *)
(***************************************************************************)
EXTENDS Sequences

CONSTANT Apps      \* the identities an application can be given

VARIABLES
  status,          \* status[a]: where application a is
  verdicts         \* verdicts[a]: the outcomes of its reviews, oldest first

gateVars == <<status, verdicts>>

Outcomes == {"accepted", "rejected"}

(***************************************************************************)
(* The events of the lifecycle: a set of source states and a target.       *)
(***************************************************************************)
Move(a, from, to) ==
  /\ status[a] \in from
  /\ status' = [status EXCEPT ![a] = to]

GateInit ==
  /\ status = [a \in Apps |-> "absent"]
  /\ verdicts = [a \in Apps |-> <<>>]

GateSubmit(a) ==
  Move(a, {"absent"}, "pending") /\ UNCHANGED verdicts

GateDecide(a, outcome) ==
  /\ Move(a, {"pending"}, outcome)
  /\ verdicts' = [verdicts EXCEPT ![a] = Append(@, outcome)]

GateWithdraw(a) ==
  Move(a, {"pending", "accepted", "rejected"}, "withdrawn") /\ UNCHANGED verdicts

GateResubmit(a) ==
  Move(a, {"rejected", "withdrawn"}, "pending") /\ UNCHANGED verdicts

\* An edit of what the gate had cleared sends the application back to review.
GateReReview(a) ==
  Move(a, {"accepted"}, "pending") /\ UNCHANGED verdicts

\* The application goes with the account of its owner, and its record with it.
GateRemove(a) ==
  /\ Move(a, {"pending", "accepted", "rejected", "withdrawn"}, "gone")
  /\ verdicts' = [verdicts EXCEPT ![a] = <<>>]

GateNext ==
  \E a \in Apps :
    \/ GateSubmit(a)
    \/ \E outcome \in Outcomes : GateDecide(a, outcome)
    \/ GateWithdraw(a)
    \/ GateResubmit(a)
    \/ GateReReview(a)
    \/ GateRemove(a)

GateSpec == GateInit /\ [][GateNext]_gateVars
===============================================================================
