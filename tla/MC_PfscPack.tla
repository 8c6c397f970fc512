----------------------------- MODULE MC_PfscPack -----------------------------
(* PfscPack on small instances; the bounds are in the configuration.       *)
EXTENDS PfscPack
=============================================================================
