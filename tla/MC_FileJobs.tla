----------------------------- MODULE MC_FileJobs -----------------------------
(* FileJobs on small instances; the bounds are in the configuration.       *)
EXTENDS FileJobs
=============================================================================
