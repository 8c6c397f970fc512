-------------------------- MODULE MC_UrlDownload ---------------------------
(* UrlDownload on small instances; the bounds are in the configurations.   *)
EXTENDS UrlDownload, TLC

FileSymmetry == Permutations(Inodes)
=============================================================================
