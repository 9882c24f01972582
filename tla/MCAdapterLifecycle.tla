-------------------------- MODULE MCAdapterLifecycle --------------------------
(***************************************************************************)
(* Model values for AdapterLifecycle.                                      *)
(***************************************************************************)
EXTENDS AdapterLifecycle

CONSTANT indeed   \* the one site
===============================================================================
