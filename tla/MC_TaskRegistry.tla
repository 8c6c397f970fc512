-------------------------- MODULE MC_TaskRegistry ---------------------------
(* TaskRegistry on small instances; the bounds are in the configurations.  *)
EXTENDS TaskRegistry
=============================================================================
