-------------------------- MODULE MCStoreLifecycle --------------------------
(***************************************************************************)
(* Small instances of StoreLifecycle.                                      *)
(***************************************************************************)
EXTENDS StoreLifecycle

CONSTANTS s1, s2
=============================================================================
