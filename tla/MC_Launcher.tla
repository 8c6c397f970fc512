----------------------------- MODULE MC_Launcher -----------------------------
(* Launcher on small instances; the bounds are in the configurations.      *)
EXTENDS Launcher
=============================================================================
