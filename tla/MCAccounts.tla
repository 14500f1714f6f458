------------------------------ MODULE MCAccounts ------------------------------
(***************************************************************************)
(* Sign-in links and roles share no row but the account, which both create *)
(* and delete.  A behaviour of this module is a behaviour of one of the    *)
(* two components, named by `part`.  Roles are explored with changes that  *)
(* overlap, on an account that staff edit by hand and on one they do not.  *)
(***************************************************************************)
EXTENDS MagicLink, RoleAudit, TLC

VARIABLE part

vars == <<part, linkVars, roleVars>>

Init == LinkInit /\ RoleInit /\ part \in {"links", "roles"}

Next ==
  /\ UNCHANGED part
  /\ \/ part = "links" /\ LinkNext /\ UNCHANGED roleVars
     \/ part = "roles" /\ RoleNext /\ UNCHANGED linkVars

Spec == Init /\ [][Next]_vars

\* Requests are interchangeable.
Symmetry == Permutations(Workers)
-------------------------------------------------------------------------------
\* Each component keeps its types.
AccountTypesOK == LinkTypeOK /\ RoleTypeOK
===============================================================================
