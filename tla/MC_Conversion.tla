--------------------------- MODULE MC_Conversion ---------------------------
(* Conversion on small instances; the bounds are in the configurations.    *)
EXTENDS Conversion
=============================================================================
