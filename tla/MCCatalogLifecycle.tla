-------------------------- MODULE MCCatalogLifecycle --------------------------
(***************************************************************************)
(* Small instances of CatalogLifecycle.  A column that gates (name), one   *)
(* that the configuration leaves free (tagline), a link set (tags) and the *)
(* screenshots tell apart every way a field is compared and written.       *)
(***************************************************************************)
EXTENDS CatalogLifecycle, TLC

WorkerSymmetry == Permutations(Workers)
===============================================================================
