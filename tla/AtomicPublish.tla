---------------------------- MODULE AtomicPublish ----------------------------
(***************************************************************************)
(* What a job that makes a file promises, be it a URL download or a        *)
(* conversion: its output name is unused, stands for the whole file, or    *)
(* was taken by another program, and is never replaced; a job is done only *)
(* when the name stands for the whole file.  A job may stop (paused,       *)
(* failed or canceled), also after the file was published, may be asked    *)
(* for again, and is forgotten by a crash; the published file is not.      *)
(***************************************************************************)
CONSTANTS
  Jobs,
  MayRetract  \* a publication that fails half way may take the name back

VARIABLES
  out,  \* what the destination name stands for
  ask   \* how far each job is

Init == /\ out = "absent"
        /\ ask = [j \in Jobs |-> "none"]

(* A job is accepted, or restored, only for an unused name.                *)
Begin(j) == /\ ask[j] = "none" /\ out = "absent"
            /\ ask' = [ask EXCEPT ![j] = "open"]
            /\ UNCHANGED out

Publish == /\ \E j \in Jobs : ask[j] = "open"
           /\ out = "absent" /\ out' = "whole"
           /\ UNCHANGED ask

Retract == /\ MayRetract
           /\ \E j \in Jobs : ask[j] = "open"
           /\ out = "whole" /\ out' = "absent"
           /\ UNCHANGED ask

Complete(j) == /\ ask[j] = "open" /\ out = "whole"
               /\ ask' = [ask EXCEPT ![j] = "done"]
               /\ UNCHANGED out

Stop(j) == /\ ask[j] = "open"
           /\ ask' = [ask EXCEPT ![j] = "stopped"]
           /\ UNCHANGED out

Again(j) == /\ ask[j] = "stopped"
            /\ ask' = [ask EXCEPT ![j] = "open"]
            /\ UNCHANGED out

Forget(j) == /\ ask[j] \in {"stopped", "done"}
             /\ ask' = [ask EXCEPT ![j] = "none"]
             /\ UNCHANGED out

(* Another program uses the name.                                          *)
Take == /\ out = "absent" /\ out' = "taken"
        /\ UNCHANGED ask

Crash == /\ ask' = [j \in Jobs |-> "none"]
         /\ UNCHANGED out

Next == \/ Publish \/ Retract \/ Take \/ Crash
        \/ \E j \in Jobs : Begin(j) \/ Complete(j) \/ Stop(j) \/ Again(j) \/ Forget(j)

Spec == Init /\ [][Next]_<<out, ask>>
=============================================================================
