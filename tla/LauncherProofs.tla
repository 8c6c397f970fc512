-------------------------- MODULE LauncherProofs ---------------------------
(***************************************************************************)
(* Theorems about the Home Screen title, for every set of ports and any    *)
(* number of starts, faults and crashes.                                   *)
(***************************************************************************)
EXTENDS Launcher, TLAPS

-----------------------------------------------------------------------------
(***************************************************************************)
(* The inductive invariant.                                                *)
(***************************************************************************)

(* Beyond the staging, where the files are as wanted.                      *)
Staged == {"verify", "mark", "uninstall", "install", "reverify", "check"}

(* Where a start is on its way, and attempts are left.                     *)
Trying == {"prepare", "param", "create", "icon", "decide", "verify", "mark",
           "uninstall", "install", "reverify"}

FilesInv ==
  /\ worker.pc # "down" => worker.port \in Ports
  /\ worker.pc \in {"prepare", "param"} => ~worker.failed
  /\ worker.pc = "param" => worker.saved = disk
  /\ worker.pc = "create" =>
       disk.param = "torn" /\ worker.saved.param = "absent" /\ ~worker.failed
  /\ worker.pc \in {"icon", "decide"} /\ ~worker.failed =>
       disk.param = worker.port /\ worker.saved.param \in Ports \union {"absent"}
  /\ worker.pc = "decide" /\ ~worker.failed => disk.icon = "new"
  /\ worker.pc \in Staged \union {"fallback"} =>
       /\ disk = [param |-> worker.port, icon |-> "new"]
       /\ worker.saved.param \in Ports \union {"absent"}
  /\ worker.pc = "reinstall" => disk.param \in Ports /\ disk.icon # "absent"
  /\ registry.state = "on" => disk.param \in Ports /\ disk.icon # "absent"
  /\ worker.pc \in Trying => worker.tries < Attempts

MarkerInv ==
  /\ registry.state = "removed" => marker \in {"yes", "told"}
  /\ worker.pc \in {"uninstall", "install", "reverify", "fallback", "reinstall"} =>
       marker \in {"yes", "told"}
  /\ worker.pc \in {"check", "clear"} => registry.state = "on"

EntryInv ==
  /\ worker.rc = "done" => worker.pc \in {"clear", "down"}
  /\ worker.pc \in {"install", "reverify"} /\ ~worker.refused => registry.state # "on"
  /\ worker.pc = "check" /\ ~worker.refused => Registered(worker.port)
  /\ worker.rc = "done" /\ ~worker.refused => Registered(worker.port)

IInv == TypeOK /\ FilesInv /\ MarkerInv /\ EntryInv

(* What the assumption says of the numbers and the ports.                  *)
LEMMA Limits == /\ Attempts \in Nat \ {0} /\ MaxFaults \in Nat
               /\ \A p \in Ports : p # "absent" /\ p # "torn" /\ p # "alien"
  BY LauncherAssumption

(* The steps of the thread by name.                                        *)
LEMMA Points ==
  /\ {"prepare", "param", "create", "icon", "decide", "verify", "mark", "uninstall"} \subseteq Steps
  /\ {"install", "reverify", "fallback", "reinstall", "check", "clear"} \subseteq Steps
  BY DEF Steps

(* What is put back has its type, and is whole when it was.                *)
LEMMA RestoredFiles ==
  ASSUME TypeOK, NEW ok \in SUBSET {"param", "icon"}
  PROVE  /\ Restored(ok) \in Files
         /\ Restored(ok).param \in {worker.saved.param, disk.param}
         /\ Restored(ok).icon \in {worker.saved.icon, disk.icon}
         /\ disk.param # "absent" => Restored(ok).param # "absent"
         /\ disk.icon # "absent" => Restored(ok).icon # "absent"
  BY DEF TypeOK, Restored, Files, Worker

(* Every step keeps the types.                                             *)
LEMMA TypeStep == IInv /\ [Next]_vars => TypeOK'
<1> SUFFICES ASSUME TypeOK, FilesInv, [Next]_vars PROVE TypeOK'
  BY DEF IInv
<1>0. worker \in Worker /\ disk \in Files /\ worker.port \in Params /\ worker.saved \in Files
  BY DEF TypeOK, Worker, Params
<1>1. CASE Start
  <2>1. worker' \in Worker
    <3>1. Idle \in Worker
      BY Limits, Points DEF Idle, Worker, Files, Params, Icons
    <3>2. PICK port \in Ports : worker' = [Idle EXCEPT !.pc = "prepare", !.port = port]
      BY <1>1 DEF Start
    <3>3. QED  BY <3>1, <3>2, Points DEF Worker
  <2>2. disk' \in Files /\ registry' \in [state : {"never", "removed", "on"}, param : Params, icon : Icons]
    BY <1>0, <1>1 DEF Start, At, Idle, TypeOK, Files, Params, Icons
  <2>3. marker' \in {"no", "yes", "told"} /\ faults' \in 0 .. MaxFaults
    BY <1>1, Limits DEF Start, At, Idle, TypeOK
  <2>4. QED  BY <2>1, <2>2, <2>3 DEF TypeOK
<1>2. CASE Prepare
  <2>1. worker' \in Worker
    BY <1>0, <1>2, Points, Limits DEF Prepare, At, End, Fine, Fault, Worker
  <2>2. disk' \in Files /\ registry' \in [state : {"never", "removed", "on"}, param : Params, icon : Icons]
    BY <1>0, <1>2 DEF Prepare, At, End, Fine, Fault, TypeOK, Files, Params, Icons
  <2>3. marker' \in {"no", "yes", "told"} /\ faults' \in 0 .. MaxFaults
    BY <1>2, Limits DEF Prepare, At, End, Fine, Fault, TypeOK
  <2>4. QED  BY <2>1, <2>2, <2>3 DEF TypeOK
<1>3. CASE StageParam
  <2>1. worker' \in Worker
    BY <1>0, <1>3, Points, Limits DEF StageParam, At, Goto, Replace, Put, Fine, Fault, Worker
  <2>2. disk' \in Files /\ registry' \in [state : {"never", "removed", "on"}, param : Params, icon : Icons]
    BY <1>0, <1>3 DEF StageParam, At, Goto, Replace, Put, Fine, Fault, TypeOK, Files, Params, Icons
  <2>3. marker' \in {"no", "yes", "told"} /\ faults' \in 0 .. MaxFaults
    BY <1>3, Limits DEF StageParam, At, Goto, Replace, Put, Fine, Fault, TypeOK
  <2>4. QED  BY <2>1, <2>2, <2>3 DEF TypeOK
<1>4. CASE Create
  <2>1. worker' \in Worker
    BY <1>0, <1>4, Points, Limits DEF Create, At, Fine, Fault, Worker
  <2>2. disk' \in Files /\ registry' \in [state : {"never", "removed", "on"}, param : Params, icon : Icons]
    BY <1>0, <1>4 DEF Create, At, Fine, Fault, TypeOK, Files, Params, Icons
  <2>3. marker' \in {"no", "yes", "told"} /\ faults' \in 0 .. MaxFaults
    BY <1>4, Limits DEF Create, At, Fine, Fault, TypeOK
  <2>4. QED  BY <2>1, <2>2, <2>3 DEF TypeOK
<1>5. CASE StageIcon
  <2>1. worker' \in Worker
    BY <1>0, <1>5, Points, Limits DEF StageIcon, At, Goto, Put, Fine, Fault, Worker
  <2>2. disk' \in Files /\ registry' \in [state : {"never", "removed", "on"}, param : Params, icon : Icons]
    BY <1>0, <1>5 DEF StageIcon, At, Goto, Put, Fine, Fault, TypeOK, Files, Params, Icons
  <2>3. marker' \in {"no", "yes", "told"} /\ faults' \in 0 .. MaxFaults
    BY <1>5, Limits DEF StageIcon, At, Goto, Put, Fine, Fault, TypeOK
  <2>4. QED  BY <2>1, <2>2, <2>3 DEF TypeOK
<1>6. CASE Decide
  <2>1. worker' \in Worker
    BY <1>0, <1>6, Points, Limits DEF Decide, At, Goto, End, Worker
  <2>2. disk' \in Files /\ registry' \in [state : {"never", "removed", "on"}, param : Params, icon : Icons]
    BY <1>0, <1>6 DEF Decide, At, Goto, End, TypeOK, Files, Params, Icons
  <2>3. marker' \in {"no", "yes", "told"} /\ faults' \in 0 .. MaxFaults
    BY <1>6, Limits DEF Decide, At, Goto, End, TypeOK
  <2>4. QED  BY <2>1, <2>2, <2>3 DEF TypeOK
<1>7. CASE Verify
  <2>1. worker' \in Worker
    BY <1>0, <1>7, Points, Limits DEF Verify, At, Goto, End, Fine, Fault, Worker
  <2>2. disk' \in Files /\ registry' \in [state : {"never", "removed", "on"}, param : Params, icon : Icons]
    BY <1>0, <1>7, RestoredFiles DEF Verify, At, Goto, End, Fine, Fault, TypeOK, Files, Params, Icons
  <2>3. marker' \in {"no", "yes", "told"} /\ faults' \in 0 .. MaxFaults
    BY <1>7, Limits DEF Verify, At, Goto, End, Fine, Fault, TypeOK
  <2>4. QED  BY <2>1, <2>2, <2>3 DEF TypeOK
<1>8. CASE Mark
  <2>1. worker' \in Worker
    BY <1>0, <1>8, Points, Limits DEF Mark, At, Goto, Fine, Fault, Worker
  <2>2. disk' \in Files /\ registry' \in [state : {"never", "removed", "on"}, param : Params, icon : Icons]
    BY <1>0, <1>8 DEF Mark, At, Goto, Fine, Fault, TypeOK, Files, Params, Icons
  <2>3. marker' \in {"no", "yes", "told"} /\ faults' \in 0 .. MaxFaults
    BY <1>8, Limits DEF Mark, At, Goto, Fine, Fault, TypeOK
  <2>4. QED  BY <2>1, <2>2, <2>3 DEF TypeOK
<1>9. CASE Uninstall
  <2>1. worker' \in Worker
    BY <1>0, <1>9, Points, Limits DEF Uninstall, Forgotten, At, Goto, Fine, Fault, Worker
  <2>2. disk' \in Files /\ registry' \in [state : {"never", "removed", "on"}, param : Params, icon : Icons]
    BY <1>0, <1>9 DEF Uninstall, Forgotten, At, Goto, Fine, Fault, TypeOK, Files, Params, Icons
  <2>3. marker' \in {"no", "yes", "told"} /\ faults' \in 0 .. MaxFaults
    BY <1>9, Limits DEF Uninstall, Forgotten, At, Goto, Fine, Fault, TypeOK
  <2>4. QED  BY <2>1, <2>2, <2>3 DEF TypeOK
<1>10. CASE Install
  <2>1. worker' \in Worker
    <3>1. CASE Goto("check")
      BY <1>0, <3>1, Points DEF Goto, Worker
    <3>2. CASE worker' = [worker EXCEPT !.tries = @ + 1,
                 !.pc = IF worker.tries + 1 < Attempts THEN "reverify" ELSE "fallback"]
      <4>1. worker.tries \in 0 .. Attempts /\ worker.tries < Attempts
        BY <1>0, <1>10 DEF Install, At, Worker, FilesInv, Trying
      <4>2. worker.tries + 1 \in 0 .. Attempts
        BY <4>1, Limits
      <4>3. (IF worker.tries + 1 < Attempts THEN "reverify" ELSE "fallback") \in Steps
        BY Points
      <4>4. QED  BY <1>0, <3>2, <4>2, <4>3 DEF Worker
    <3>3. QED  BY <1>10, <3>1, <3>2 DEF Install
  <2>2. disk' \in Files /\ registry' \in [state : {"never", "removed", "on"}, param : Params, icon : Icons]
    BY <1>0, <1>10 DEF Install, Enter, Entry, At, Goto, Fine, Fault, TypeOK, Files, Params, Icons
  <2>3. marker' \in {"no", "yes", "told"} /\ faults' \in 0 .. MaxFaults
    BY <1>10, Limits DEF Install, Enter, Entry, At, Goto, Fine, Fault, TypeOK
  <2>4. QED  BY <2>1, <2>2, <2>3 DEF TypeOK
<1>11. CASE Reverify
  <2>1. worker' \in Worker
    BY <1>0, <1>11, Points, Limits DEF Reverify, At, Goto, Fine, Fault, Worker
  <2>2. disk' \in Files /\ registry' \in [state : {"never", "removed", "on"}, param : Params, icon : Icons]
    BY <1>0, <1>11 DEF Reverify, At, Goto, Fine, Fault, TypeOK, Files, Params, Icons
  <2>3. marker' \in {"no", "yes", "told"} /\ faults' \in 0 .. MaxFaults
    BY <1>11, Limits DEF Reverify, At, Goto, Fine, Fault, TypeOK
  <2>4. QED  BY <2>1, <2>2, <2>3 DEF TypeOK
<1>12. CASE Fallback
  <2>1. worker' \in Worker
    BY <1>0, <1>12, Points, Limits DEF Fallback, At, Goto, End, Fine, Fault, Worker
  <2>2. disk' \in Files /\ registry' \in [state : {"never", "removed", "on"}, param : Params, icon : Icons]
    BY <1>0, <1>12, RestoredFiles DEF Fallback, At, Goto, End, Fine, Fault, TypeOK, Files, Params, Icons
  <2>3. marker' \in {"no", "yes", "told"} /\ faults' \in 0 .. MaxFaults
    BY <1>12, Limits DEF Fallback, At, Goto, End, Fine, Fault, TypeOK
  <2>4. QED  BY <2>1, <2>2, <2>3 DEF TypeOK
<1>13. CASE Reinstall
  <2>1. worker' \in Worker
    BY <1>0, <1>13, Points, Limits DEF Reinstall, Enter, Entry, GiveUp, At, End, Fine, Fault, Worker
  <2>2. disk' \in Files /\ registry' \in [state : {"never", "removed", "on"}, param : Params, icon : Icons]
    BY <1>0, <1>13 DEF Reinstall, Enter, Entry, GiveUp, At, End, Fine, Fault, TypeOK, Files, Params, Icons
  <2>3. marker' \in {"no", "yes", "told"} /\ faults' \in 0 .. MaxFaults
    BY <1>13, Limits DEF Reinstall, Enter, Entry, GiveUp, At, End, Fine, Fault, TypeOK
  <2>4. QED  BY <2>1, <2>2, <2>3 DEF TypeOK
<1>14. CASE Check
  <2>1. worker' \in Worker
    BY <1>0, <1>14, Points, Limits DEF Check, At, End, Fine, Fault, Worker
  <2>2. disk' \in Files /\ registry' \in [state : {"never", "removed", "on"}, param : Params, icon : Icons]
    BY <1>0, <1>14 DEF Check, At, End, Fine, Fault, TypeOK, Files, Params, Icons
  <2>3. marker' \in {"no", "yes", "told"} /\ faults' \in 0 .. MaxFaults
    BY <1>14, Limits DEF Check, At, End, Fine, Fault, TypeOK
  <2>4. QED  BY <2>1, <2>2, <2>3 DEF TypeOK
<1>15. CASE Clear
  <2>1. worker' \in Worker
    BY <1>0, <1>15, Points, Limits DEF Clear, At, Goto, Fine, Fault, Worker
  <2>2. disk' \in Files /\ registry' \in [state : {"never", "removed", "on"}, param : Params, icon : Icons]
    BY <1>0, <1>15 DEF Clear, At, Goto, Fine, Fault, TypeOK, Files, Params, Icons
  <2>3. marker' \in {"no", "yes", "told"} /\ faults' \in 0 .. MaxFaults
    BY <1>15, Limits DEF Clear, At, Goto, Fine, Fault, TypeOK
  <2>4. QED  BY <2>1, <2>2, <2>3 DEF TypeOK
<1>16. CASE Crash
  <2>1. worker' \in Worker
    BY <1>0, <1>16, Points, Limits DEF Crash, At, Idle, Worker, Files, Params, Icons
  <2>2. disk' \in Files /\ registry' \in [state : {"never", "removed", "on"}, param : Params, icon : Icons]
    BY <1>0, <1>16 DEF Crash, At, Idle, TypeOK, Files, Params, Icons
  <2>3. marker' \in {"no", "yes", "told"} /\ faults' \in 0 .. MaxFaults
    <3>1. marker' = marker /\ faults < MaxFaults /\ faults' = faults + 1
      BY <1>16 DEF Crash
    <3>2. QED  BY <3>1, Limits DEF TypeOK
  <2>4. QED  BY <2>1, <2>2, <2>3 DEF TypeOK
<1>17. CASE UNCHANGED vars
  BY <1>0, <1>17 DEF vars, TypeOK
<1>18. QED
  BY <1>1, <1>2, <1>3, <1>4, <1>5, <1>6, <1>7, <1>8, <1>9,
     <1>10, <1>11, <1>12, <1>13, <1>14, <1>15, <1>16, <1>17 DEF Next, Work

(* Every step keeps what is known of the files.                            *)
LEMMA FilesStep == IInv /\ [Next]_vars => FilesInv'
<1> SUFFICES ASSUME IInv, [Next]_vars PROVE FilesInv'
  OBVIOUS
<1>0. worker \in Worker /\ disk \in Files /\ FilesInv
  BY DEF IInv, TypeOK
<1>1. CASE Start
  BY <1>0, <1>1, Limits DEF Start, At, Idle, Worker, Files, Staged, Trying, FilesInv
<1>2. CASE Prepare
  <2>0. worker.pc = "prepare" /\ disk' = disk /\ registry' = registry
    BY <1>2 DEF Prepare, At
  <2>1. CASE worker' = [worker EXCEPT !.pc = "param", !.saved = disk]
    BY <1>0, <2>0, <2>1 DEF Worker, Files, Staged, Trying, FilesInv
  <2>2. CASE End("failed")
    BY <1>0, <2>0, <2>2 DEF Worker, Files, Staged, Trying, FilesInv, End
  <2>3. QED  BY <1>2, <2>1, <2>2 DEF Prepare
<1>3. CASE StageParam
  <2>0. worker.pc = "param" /\ registry' = registry /\ worker.saved = disk /\ ~worker.failed
    BY <1>0, <1>3 DEF StageParam, At, FilesInv
  <2>1. CASE disk.param = "absent" /\ disk' = [disk EXCEPT !.param = "torn"] /\ Goto("create")
    BY <1>0, <2>0, <2>1, Limits DEF Worker, Files, Staged, Trying, FilesInv, Goto
  <2>2. CASE disk.param = worker.port /\ Goto("icon") /\ disk' = disk
    BY <1>0, <2>0, <2>2, Limits DEF Worker, Files, Staged, Trying, FilesInv, Goto
  <2>3. CASE disk.param \in Ports /\ Replace
    <3>1. CASE /\ disk' = [disk EXCEPT !.param = worker.port]
               /\ \/ worker' = [worker EXCEPT !.pc = "icon", !.changed = TRUE]
                  \/ worker' = [worker EXCEPT !.pc = "icon", !.failed = TRUE]
      <4>1. disk'.param = worker.port /\ disk'.icon = disk.icon
        BY <1>0, <3>1 DEF Files
      <4>2. /\ worker'.pc = "icon" /\ worker'.port = worker.port
            /\ worker'.saved = worker.saved /\ worker'.tries = worker.tries
        BY <1>0, <3>1 DEF Worker
      <4>3. QED  BY <1>0, <2>0, <2>3, <4>1, <4>2, Limits DEF FilesInv, Staged, Trying
    <3>2. CASE disk' = disk /\ worker' = [worker EXCEPT !.pc = "icon", !.failed = TRUE]
      BY <1>0, <2>0, <2>3, <3>2, Limits DEF Worker, Files, Staged, Trying, FilesInv
    <3>3. QED  BY <2>3, <3>1, <3>2 DEF Replace, Put
  <2>4. CASE disk' = disk /\ worker' = [worker EXCEPT !.pc = "icon", !.failed = TRUE]
    BY <1>0, <2>0, <2>4, Limits DEF Worker, Files, Staged, Trying, FilesInv
  <2>5. QED  BY <1>3, <2>1, <2>2, <2>3, <2>4 DEF StageParam
<1>4. CASE Create
  <2>0. /\ worker.pc = "create" /\ registry' = registry /\ disk.param = "torn"
        /\ worker.saved.param = "absent" /\ ~worker.failed
    BY <1>0, <1>4 DEF Create, At, FilesInv
  <2>1. /\ disk'.icon = disk.icon /\ worker'.pc = "icon" /\ worker'.port = worker.port
        /\ worker'.saved = worker.saved /\ worker'.tries = worker.tries
    BY <1>0, <1>4 DEF Create, Worker, Files
  <2>2. ~worker'.failed => disk'.param = worker.port
    BY <1>0, <1>4 DEF Create, Worker, Files
  <2>3. registry.state # "on"
    BY <1>0, <2>0, Limits DEF FilesInv
  <2>4. QED  BY <1>0, <2>0, <2>1, <2>2, <2>3 DEF FilesInv, Staged, Trying
<1>5. CASE StageIcon
  <2>0. worker.pc = "icon" /\ registry' = registry
    BY <1>5 DEF StageIcon, At
  <2>1. CASE disk.icon = "new" /\ Goto("decide") /\ disk' = disk
    BY <1>0, <2>0, <2>1, Limits DEF Worker, Files, Staged, Trying, FilesInv, Goto
  <2>2. CASE Put("icon", "new", "decide")
    <3>1. CASE /\ disk' = [disk EXCEPT !.icon = "new"]
               /\ \/ worker' = [worker EXCEPT !.pc = "decide", !.changed = TRUE]
                  \/ worker' = [worker EXCEPT !.pc = "decide", !.failed = TRUE]
      <4>1. disk'.param = disk.param /\ disk'.icon = "new"
        BY <1>0, <3>1 DEF Files
      <4>2. /\ worker'.pc = "decide" /\ worker'.port = worker.port
            /\ worker'.saved = worker.saved /\ worker'.tries = worker.tries
            /\ ~worker'.failed => ~worker.failed
        BY <1>0, <3>1 DEF Worker
      <4>3. QED  BY <1>0, <2>0, <4>1, <4>2 DEF FilesInv, Staged, Trying
    <3>2. CASE disk' = disk /\ worker' = [worker EXCEPT !.pc = "decide", !.failed = TRUE]
      BY <1>0, <2>0, <3>2, Limits DEF Worker, Files, Staged, Trying, FilesInv
    <3>3. QED  BY <2>2, <3>1, <3>2 DEF Put
  <2>3. QED  BY <1>5, <2>1, <2>2 DEF StageIcon
<1>6. CASE Decide
  <2>1. worker.pc = "decide" /\ disk' = disk /\ registry' = registry
    BY <1>6 DEF Decide, At
  <2>2. CASE ~worker.failed /\ Goto("verify")
    <3>1. /\ worker'.pc = "verify" /\ worker'.port = worker.port
          /\ worker'.saved = worker.saved /\ worker'.tries = worker.tries
      BY <1>0, <2>2 DEF Goto, Worker
    <3>2. disk = [param |-> worker.port, icon |-> "new"]
      BY <1>0, <2>1, <2>2 DEF FilesInv, Files
    <3>3. QED  BY <1>0, <2>1, <2>2, <3>1, <3>2 DEF FilesInv, Staged, Trying
  <2>3. CASE worker'.pc = "down"
    BY <1>0, <2>1, <2>3 DEF FilesInv, Staged, Trying
  <2>4. QED  BY <1>0, <1>6, <2>2, <2>3 DEF Decide, End, Worker
<1>7. CASE Verify
  <2>0. worker.pc = "verify" /\ registry' = registry
    BY <1>7 DEF Verify, At
  <2>1. CASE Goto("mark") /\ disk' = disk
    BY <1>0, <2>0, <2>1, Limits DEF Worker, Files, Staged, Trying, FilesInv, Goto
  <2>2. CASE End("failed") /\ \E ok \in SUBSET {"param", "icon"} : disk' = Restored(ok)
    <3>1. disk'.param \in Ports /\ disk'.icon # "absent"
      <4>1. PICK ok \in SUBSET {"param", "icon"} : disk' = Restored(ok)
        BY <2>2
      <4>2. /\ disk = [param |-> worker.port, icon |-> "new"] /\ worker.port \in Ports
            /\ worker.saved.param \in Ports \union {"absent"}
        BY <1>0, <2>0 DEF FilesInv, Staged
      <4>3. TypeOK
        BY DEF IInv
      <4>4. QED  BY <4>1, <4>2, <4>3, RestoredFiles, Limits
    <3>2. worker'.pc = "down"
      BY <1>0, <2>2 DEF End, Worker
    <3>3. QED  BY <3>1, <3>2 DEF FilesInv, Staged, Trying
  <2>3. QED  BY <1>7, <2>1, <2>2 DEF Verify
<1>8. CASE Mark
  <2>1. worker.pc \in Staged /\ worker.pc \in Trying /\ disk' = disk
    BY <1>8 DEF Mark, At, Staged, Trying
  <2>2. registry'.state = "on" => registry.state = "on"
    BY <1>8 DEF Mark
  <2>3. /\ worker'.pc = "uninstall" /\ worker'.port = worker.port
        /\ worker'.saved = worker.saved /\ worker'.tries = worker.tries
    BY <1>0, <1>8 DEF Mark, Goto, Worker
  <2>4. QED  BY <1>0, <2>1, <2>2, <2>3 DEF FilesInv, Staged, Trying
<1>9. CASE Uninstall
  <2>1. worker.pc \in Staged /\ worker.pc \in Trying /\ disk' = disk
    BY <1>9 DEF Uninstall, At, Staged, Trying
  <2>2. registry'.state = "on" => registry.state = "on"
    BY <1>9 DEF Uninstall, Forgotten
  <2>3. /\ worker'.pc = "install" /\ worker'.port = worker.port
        /\ worker'.saved = worker.saved /\ worker'.tries = worker.tries
    BY <1>0, <1>9 DEF Uninstall, Goto, Worker
  <2>4. QED  BY <1>0, <2>1, <2>2, <2>3 DEF FilesInv, Staged, Trying
<1>10. CASE Install
  <2>0. /\ worker.pc = "install" /\ disk' = disk
        /\ disk = [param |-> worker.port, icon |-> "new"] /\ worker.port \in Ports
        /\ worker.saved.param \in Ports \union {"absent"}
    BY <1>0, <1>10 DEF Install, At, FilesInv, Staged
  <2>1. CASE Goto("check")
    BY <1>0, <2>0, <2>1, Limits DEF Worker, Files, Staged, Trying, FilesInv, Goto
  <2>2. CASE worker' = [worker EXCEPT !.tries = @ + 1,
               !.pc = IF worker.tries + 1 < Attempts THEN "reverify" ELSE "fallback"]
    <3>1. worker.tries + 1 < Attempts =>
            worker' = [worker EXCEPT !.tries = worker.tries + 1, !.pc = "reverify"]
      BY <2>2
    <3>2. ~(worker.tries + 1 < Attempts) =>
            worker' = [worker EXCEPT !.tries = worker.tries + 1, !.pc = "fallback"]
      BY <2>2
    <3>3. /\ worker'.port = worker.port /\ worker'.saved = worker.saved
          /\ worker'.pc \in {"reverify", "fallback"} /\ worker'.failed = worker.failed
          /\ worker'.pc = "reverify" => worker'.tries < Attempts
      BY <1>0, <3>1, <3>2 DEF Worker
    <3>4. QED  BY <2>0, <3>3, Limits DEF FilesInv, Staged, Trying
  <2>3. QED  BY <1>10, <2>1, <2>2 DEF Install
<1>11. CASE Reverify
  BY <1>0, <1>11, Limits DEF Reverify, At, Goto, Fine, Fault, AsStaged, Worker, Files, Staged, Trying, FilesInv
<1>12. CASE Fallback
  <2>0. /\ worker.pc = "fallback" /\ registry' = registry
        /\ disk = [param |-> worker.port, icon |-> "new"] /\ worker.port \in Ports
        /\ worker.saved.param \in Ports \union {"absent"}
    BY <1>0, <1>12 DEF Fallback, At, FilesInv, Staged
  <2>1. disk'.param \in Ports /\ disk'.icon # "absent"
    <3>1. CASE disk' = disk
      BY <2>0, <3>1
    <3>2. CASE \E ok \in SUBSET {"param", "icon"} : disk' = Restored(ok)
      <4>1. PICK ok \in SUBSET {"param", "icon"} : disk' = Restored(ok)
        BY <3>2
      <4>2. TypeOK
        BY DEF IInv
      <4>3. QED  BY <2>0, <4>1, <4>2, RestoredFiles, Limits
    <3>3. QED  BY <1>12, <3>1, <3>2 DEF Fallback
  <2>2. worker'.pc \in {"down", "reinstall"} /\ worker'.port = worker.port
    BY <1>0, <1>12 DEF Fallback, Goto, End, Worker
  <2>3. QED  BY <2>0, <2>1, <2>2 DEF FilesInv, Staged, Trying
<1>13. CASE Reinstall
  <2>1. worker.pc = "reinstall" /\ disk' = disk
    BY <1>13 DEF Reinstall, At
  <2>2. worker'.pc \in {"clear", "down"} /\ worker'.port = worker.port
    BY <1>0, <1>13 DEF Reinstall, GiveUp, End, Worker
  <2>3. QED  BY <1>0, <2>1, <2>2 DEF FilesInv, Staged, Trying
<1>14. CASE Check
  <2>1. worker.pc = "check" /\ disk' = disk /\ registry' = registry
    BY <1>14 DEF Check, At
  <2>2. worker'.pc \in {"clear", "down"} /\ worker'.port = worker.port
    BY <1>0, <1>14 DEF Check, End, Worker
  <2>3. QED  BY <1>0, <2>1, <2>2 DEF FilesInv, Staged, Trying
<1>15. CASE Clear
  BY <1>0, <1>15, Limits DEF Clear, At, Goto, Fine, Fault, Worker, Files, Staged, Trying, FilesInv
<1>16. CASE Crash
  BY <1>0, <1>16, Limits DEF Crash, At, Idle, Worker, Files, Staged, Trying, FilesInv
<1>17. CASE UNCHANGED vars
  BY <1>0, <1>17 DEF vars, FilesInv
<1>18. QED
  BY <1>1, <1>2, <1>3, <1>4, <1>5, <1>6, <1>7, <1>8, <1>9,
     <1>10, <1>11, <1>12, <1>13, <1>14, <1>15, <1>16, <1>17 DEF Next, Work

(* The marker outlasts the removal of the title.                           *)
LEMMA MarkerStep == IInv /\ [Next]_vars => MarkerInv'
<1> SUFFICES ASSUME IInv, [Next]_vars PROVE MarkerInv'
  OBVIOUS
<1>0. worker \in Worker /\ disk \in Files /\ MarkerInv
  BY DEF IInv, TypeOK
<1>1. CASE Start
  BY <1>0, <1>1 DEF Start, At, Idle, Worker, MarkerInv
<1>2. CASE Prepare
  BY <1>0, <1>2 DEF Prepare, At, End, Fine, Fault, Worker, MarkerInv
<1>3. CASE StageParam
  BY <1>0, <1>3 DEF StageParam, At, Goto, Replace, Put, Fine, Fault, Worker, MarkerInv
<1>4. CASE Create
  BY <1>0, <1>4 DEF Create, At, Fine, Fault, Worker, MarkerInv
<1>5. CASE StageIcon
  BY <1>0, <1>5 DEF StageIcon, At, Goto, Put, Fine, Fault, Worker, MarkerInv
<1>6. CASE Decide
  BY <1>0, <1>6 DEF Decide, At, Goto, End, Worker, MarkerInv
<1>7. CASE Verify
  BY <1>0, <1>7 DEF Verify, At, Goto, End, Fine, Fault, Worker, MarkerInv
<1>8. CASE Mark
  BY <1>0, <1>8 DEF Mark, At, Goto, Fine, Fault, Worker, MarkerInv
<1>9. CASE Uninstall
  BY <1>0, <1>9 DEF Uninstall, Forgotten, At, Goto, Fine, Fault, Worker, MarkerInv
<1>10. CASE Install
  <2>0. worker.pc = "install" /\ marker' = marker /\ marker \in {"yes", "told"}
    BY <1>0, <1>10 DEF Install, At, MarkerInv
  <2>1. CASE Enter /\ Goto("check")
    <3>1. registry'.state = "on" /\ worker'.pc = "check"
      BY <1>0, <2>1 DEF Enter, Entry, Goto, Worker
    <3>2. QED  BY <2>0, <3>1 DEF MarkerInv
  <2>2. CASE /\ registry' = registry
             /\ worker' = [worker EXCEPT !.tries = @ + 1,
                  !.pc = IF worker.tries + 1 < Attempts THEN "reverify" ELSE "fallback"]
    <3>1. worker'.pc \in {"reverify", "fallback"}
      BY <1>0, <2>2 DEF Worker
    <3>2. QED  BY <1>0, <2>0, <2>2, <3>1 DEF MarkerInv
  <2>3. QED  BY <1>10, <2>1, <2>2 DEF Install
<1>11. CASE Reverify
  BY <1>0, <1>11 DEF Reverify, At, Goto, Fine, Fault, Worker, MarkerInv
<1>12. CASE Fallback
  BY <1>0, <1>12 DEF Fallback, At, Goto, End, Fine, Fault, Worker, MarkerInv
<1>13. CASE Reinstall
  <2>0. worker.pc = "reinstall" /\ marker' = marker /\ marker \in {"yes", "told"}
    BY <1>0, <1>13 DEF Reinstall, At, MarkerInv
  <2>1. CASE Enter /\ worker' = [worker EXCEPT !.pc = "clear", !.rc = "failed"]
    <3>1. registry'.state = "on" /\ worker'.pc = "clear"
      BY <1>0, <2>1 DEF Enter, Entry, Worker
    <3>2. QED  BY <2>0, <3>1 DEF MarkerInv
  <2>2. CASE registry' = registry /\ GiveUp
    <3>1. worker'.pc = "down"
      BY <1>0, <2>2 DEF GiveUp, End, Worker
    <3>2. QED  BY <2>0, <2>2, <3>1 DEF MarkerInv
  <2>3. QED  BY <1>13, <2>1, <2>2 DEF Reinstall
<1>14. CASE Check
  BY <1>0, <1>14 DEF Check, At, End, Fine, Fault, Worker, MarkerInv
<1>15. CASE Clear
  BY <1>0, <1>15 DEF Clear, At, Goto, Fine, Fault, Worker, MarkerInv
<1>16. CASE Crash
  BY <1>0, <1>16 DEF Crash, At, Idle, Worker, MarkerInv
<1>17. CASE UNCHANGED vars
  BY <1>0, <1>17 DEF vars, MarkerInv
<1>18. QED
  BY <1>1, <1>2, <1>3, <1>4, <1>5, <1>6, <1>7, <1>8, <1>9,
     <1>10, <1>11, <1>12, <1>13, <1>14, <1>15, <1>16, <1>17 DEF Next, Work

(* A refreshed title was entered when the old entry was gone.              *)
LEMMA EntryStep == IInv /\ [Next]_vars => EntryInv'
<1> SUFFICES ASSUME IInv, [Next]_vars PROVE EntryInv'
  OBVIOUS
<1>0. worker \in Worker /\ disk \in Files /\ FilesInv /\ MarkerInv /\ EntryInv
  BY DEF IInv, TypeOK
<1>1. CASE Start
  BY <1>0, <1>1 DEF Start, At, Idle, Worker, Staged, FilesInv, MarkerInv, EntryInv, Registered
<1>2. CASE Prepare
  BY <1>0, <1>2 DEF Prepare, At, End, Fine, Fault, Worker, Staged, FilesInv, MarkerInv, EntryInv, Registered
<1>3. CASE StageParam
  BY <1>0, <1>3 DEF StageParam, At, Goto, Replace, Put, Fine, Fault, Worker, Staged, FilesInv, MarkerInv, EntryInv, Registered
<1>4. CASE Create
  BY <1>0, <1>4 DEF Create, At, Fine, Fault, Worker, Staged, FilesInv, MarkerInv, EntryInv, Registered
<1>5. CASE StageIcon
  BY <1>0, <1>5 DEF StageIcon, At, Goto, Put, Fine, Fault, Worker, Staged, FilesInv, MarkerInv, EntryInv, Registered
<1>6. CASE Decide
  BY <1>0, <1>6 DEF Decide, At, Goto, End, Worker, Staged, FilesInv, MarkerInv, EntryInv, Registered
<1>7. CASE Verify
  BY <1>0, <1>7 DEF Verify, At, Goto, End, Fine, Fault, AsStaged, Worker, Staged, FilesInv, MarkerInv, EntryInv, Registered
<1>8. CASE Mark
  BY <1>0, <1>8 DEF Mark, At, Goto, Fine, Fault, Worker, Staged, FilesInv, MarkerInv, EntryInv, Registered
<1>9. CASE Uninstall
  <2>0. worker.pc = "uninstall" /\ worker.rc # "done"
    BY <1>0, <1>9 DEF Uninstall, At, EntryInv
  <2>1. CASE registry' = Forgotten /\ Goto("install")
    <3>1. registry'.state # "on"
      <4>1. registry \in [state : {"never", "removed", "on"}, param : Params, icon : Icons]
        BY DEF IInv, TypeOK
      <4>2. QED  BY <2>1, <4>1 DEF Forgotten
    <3>2. worker'.pc = "install" /\ worker'.rc = worker.rc
      BY <1>0, <2>1 DEF Goto, Worker
    <3>3. QED  BY <2>0, <3>1, <3>2 DEF EntryInv
  <2>2. CASE worker' = [worker EXCEPT !.pc = "install", !.refused = TRUE]
    <3>1. worker'.pc = "install" /\ worker'.rc = worker.rc /\ worker'.refused
      BY <1>0, <2>2 DEF Worker
    <3>2. QED  BY <2>0, <3>1 DEF EntryInv
  <2>3. QED  BY <1>9, <2>1, <2>2 DEF Uninstall
<1>10. CASE Install
  <2>0. /\ worker.pc = "install" /\ worker.rc # "done"
        /\ disk = [param |-> worker.port, icon |-> "new"]
    BY <1>0, <1>10 DEF Install, At, EntryInv, FilesInv, Staged
  <2>1. CASE Enter /\ Goto("check")
    <3>1. /\ worker'.pc = "check" /\ worker'.rc = worker.rc
          /\ worker'.port = worker.port /\ worker'.refused = worker.refused
      BY <1>0, <2>1 DEF Goto, Worker
    <3>2. ~worker.refused => registry' = [state |-> "on", param |-> worker.port, icon |-> "new"]
      BY <1>0, <2>0, <2>1 DEF Enter, Entry, EntryInv
    <3>3. QED  BY <2>0, <3>1, <3>2 DEF EntryInv, Registered
  <2>2. CASE /\ registry' = registry
             /\ worker' = [worker EXCEPT !.tries = @ + 1,
                  !.pc = IF worker.tries + 1 < Attempts THEN "reverify" ELSE "fallback"]
    <3>1. /\ worker'.pc \in {"reverify", "fallback"} /\ worker'.rc = worker.rc
          /\ worker'.refused = worker.refused
      BY <1>0, <2>2 DEF Worker
    <3>2. QED  BY <1>0, <2>0, <2>2, <3>1 DEF EntryInv
  <2>3. QED  BY <1>10, <2>1, <2>2 DEF Install
<1>11. CASE Reverify
  BY <1>0, <1>11 DEF Reverify, At, Goto, Fine, Fault, AsStaged, Worker, Staged, FilesInv, MarkerInv, EntryInv, Registered
<1>12. CASE Fallback
  BY <1>0, <1>12 DEF Fallback, At, Goto, End, Fine, Fault, HasBackup, Worker, Staged, FilesInv, MarkerInv, EntryInv, Registered
<1>13. CASE Reinstall
  BY <1>0, <1>13 DEF Reinstall, Enter, Entry, GiveUp, At, End, Fine, Fault, Worker, Staged, FilesInv, MarkerInv, EntryInv, Registered
<1>14. CASE Check
  BY <1>0, <1>14 DEF Check, At, End, Fine, Fault, AsStaged, Worker, Staged, FilesInv, MarkerInv, EntryInv, Registered
<1>15. CASE Clear
  BY <1>0, <1>15 DEF Clear, At, Goto, Fine, Fault, Worker, Staged, FilesInv, MarkerInv, EntryInv, Registered
<1>16. CASE Crash
  BY <1>0, <1>16 DEF Crash, At, Idle, Worker, Staged, FilesInv, MarkerInv, EntryInv, Registered
<1>17. CASE UNCHANGED vars
  BY <1>0, <1>17 DEF vars, EntryInv, Registered
<1>18. QED
  BY <1>1, <1>2, <1>3, <1>4, <1>5, <1>6, <1>7, <1>8, <1>9,
     <1>10, <1>11, <1>12, <1>13, <1>14, <1>15, <1>16, <1>17 DEF Next, Work

(* The inductive invariant holds in every reachable state.                 *)
THEOREM Inductive == Spec => []IInv
<1>1. Init => TypeOK
  BY Limits DEF Init, Idle, Entry, TypeOK, Params, Icons, Files, Worker
<1>2. Init => FilesInv /\ MarkerInv /\ EntryInv
  BY Limits DEF Init, Idle, Entry, FilesInv, MarkerInv, EntryInv, Staged, Trying, Registered
<1>3. IInv /\ [Next]_vars => IInv'
  BY TypeStep, FilesStep, MarkerStep, EntryStep DEF IInv
<1>4. QED  BY <1>1, <1>2, <1>3, PTL DEF Spec, IInv

(* What the firmware reads of a registered title is whole, wherever the    *)
(* payload fails or dies.                                                  *)
THEOREM RegisteredIsWhole == Spec => []MetadataWhole
<1>1. IInv => MetadataWhole
  BY DEF IInv, FilesInv, MetadataWhole
<1>2. QED  BY <1>1, Inductive, PTL

(* A title that was taken away is marked for the next start.               *)
THEOREM RemovalIsMarked == Spec => []RemovedIsMarked
<1>1. IInv => RemovedIsMarked
  BY DEF IInv, MarkerInv, RemovedIsMarked
<1>2. QED  BY <1>1, Inductive, PTL

(* A refresh that succeeds has registered the title for the bound port.    *)
THEOREM RefreshRegisters == Spec => []SuccessIsRegistered
<1>1. IInv => SuccessIsRegistered
  BY DEF IInv, EntryInv, SuccessIsRegistered
<1>2. QED  BY <1>1, Inductive, PTL
=============================================================================
