-------------------------- MODULE MC_BrowserTransfer --------------------------
(* BrowserTransfer on small instances; the bounds are in the               *)
(* configuration.                                                          *)
EXTENDS BrowserTransfer, TLC

CONSTANTS j1, j2

(* A tab that has jobs, and one that uploads without a prepared job.       *)
Offers == (j1 :> {"upload", "download"}) @@ (j2 :> {"bare"})
=============================================================================
