------------------------------ MODULE Launcher ------------------------------
(***************************************************************************)
(* app_install_if_needed: the Home Screen title of the payload.  Each      *)
(* start of the payload runs it once, in a thread of its own, with the     *)
(* port that was bound: it stages param.json and icon0.png in the title's  *)
(* folder and has the firmware forget and register the title again.        *)
(***************************************************************************)
EXTENDS Naturals

CONSTANTS
  Ports,     \* the ports the payload may be given
  Attempts,  \* LAUNCHER_INSTALL_ATTEMPTS
  Faults,    \* what may go wrong
  MaxFaults, \* bound: how often something goes wrong
  CrashAt    \* the steps of the thread at which the payload may die

AllFaults == {"service", "disk", "dirsync", "read", "marker", "refused", "stale", "install", "unlink"}
Steps == {"prepare", "param", "create", "icon", "decide", "verify", "mark", "uninstall",
          "install", "reverify", "fallback", "reinstall", "check", "clear"}

ASSUME LauncherAssumption ==
  /\ {"absent", "torn", "alien"} \cap Ports = {}
  /\ Attempts \in Nat \ {0} /\ MaxFaults \in Nat
  /\ Faults \subseteq AllFaults /\ CrashAt \subseteq Steps

VARIABLES
  disk,     \* param.json, by the port in its deep link, and icon0.png
  marker,   \* .mkpfs-<title>-pending: "no", "yes", or "told" when it could not
            \* be written, which the log says and which leaves no file
  registry, \* the firmware's entry for the title, with the files it was made from
  worker,   \* launcher_install_worker
  faults    \* how often something went wrong

vars == <<disk, marker, registry, worker, faults>>

Idle == [pc |-> "down", port |-> "absent", saved |-> [param |-> "absent", icon |-> "absent"],
         changed |-> FALSE, failed |-> FALSE, refused |-> FALSE, tries |-> 0, rc |-> "none"]

At(point) == worker.pc = point
Goto(point) == worker' = [worker EXCEPT !.pc = point]
End(rc) == worker' = [worker EXCEPT !.pc = "down", !.rc = rc]

Fine == UNCHANGED faults
Fault(f) == f \in Faults /\ faults < MaxFaults /\ faults' = faults + 1

Entry == [state |-> "on", param |-> disk.param, icon |-> disk.icon]
Registered(port) == registry = [state |-> "on", param |-> port, icon |-> "new"]

(* Nothing is there yet, or a param.json that is not the payload's, or the *)
(* title of an earlier version of the payload.                             *)
Init ==
  /\ marker = "no"
  /\ \/ /\ disk \in [param : {"absent", "alien"}, icon : {"absent"}]
        /\ registry = [state |-> "never", param |-> "absent", icon |-> "absent"]
     \/ /\ disk \in [param : Ports, icon : {"old"}]
        /\ registry = Entry
  /\ worker = Idle
  /\ faults = 0

-----------------------------------------------------------------------------
(* server_ready, with the port the listener was bound to.                  *)
Start ==
  /\ At("down")
  /\ \E port \in Ports : worker' = [Idle EXCEPT !.pc = "prepare", !.port = port]
  /\ UNCHANGED <<disk, marker, registry, faults>>

(* The installer service, the folders, and read_backup_file for each file. *)
Prepare ==
  /\ At("prepare")
  /\ \/ Fine /\ worker' = [worker EXCEPT !.pc = "param", !.saved = disk]
     \/ Fault("service") /\ End("failed")
  /\ UNCHANGED <<disk, marker, registry>>

(* A file is replaced under its name, or not, or it is and the folder      *)
(* cannot be synchronized, which counts as a failure.                      *)
Put(part, content, next) ==
  \/ /\ Fine
     /\ disk' = [disk EXCEPT ![part] = content]
     /\ worker' = [worker EXCEPT !.pc = next, !.changed = TRUE]
  \/ /\ Fault("disk") /\ disk' = disk
     /\ worker' = [worker EXCEPT !.pc = next, !.failed = TRUE]
  \/ /\ Fault("dirsync") /\ disk' = [disk EXCEPT ![part] = content]
     /\ worker' = [worker EXCEPT !.pc = next, !.failed = TRUE]

(* Mutant: a new param.json is written in place.                           *)
InPlace == disk' = [disk EXCEPT !.param = "torn"] /\ Goto("create") /\ Fine

Replace == Put("param", worker.port, "icon")

(* write_owned_param: a first file is created under its name and filled    *)
(* afterwards, one without the payload's title id is refused.              *)
StageParam ==
  /\ At("param")
  /\ \/ disk.param = "absent" /\ disk' = [disk EXCEPT !.param = "torn"]
          /\ Goto("create") /\ Fine
     \/ disk.param = worker.port /\ Goto("icon") /\ Fine /\ UNCHANGED disk
     \/ disk.param \in Ports \ {worker.port} /\ Replace
     \/ /\ \/ disk.param \in {"torn", "alien"} /\ Fine
           \/ disk.param = "absent" /\ Fault("disk")
        /\ worker' = [worker EXCEPT !.pc = "icon", !.failed = TRUE]
        /\ UNCHANGED disk
  /\ UNCHANGED <<marker, registry>>

(* install_file after open: the data, or the file is removed again.        *)
Create ==
  /\ At("create")
  /\ \/ Fine /\ disk' = [disk EXCEPT !.param = worker.port]
          /\ worker' = [worker EXCEPT !.pc = "icon", !.changed = TRUE]
     \/ /\ \/ Fault("disk") /\ disk' = [disk EXCEPT !.param = "absent"]
           \/ Fault("dirsync") /\ disk' = [disk EXCEPT !.param = worker.port]
        /\ worker' = [worker EXCEPT !.pc = "icon", !.failed = TRUE]
  /\ UNCHANGED <<marker, registry>>

(* write_owned_binary, also after param.json has failed.                   *)
StageIcon ==
  /\ At("icon")
  /\ \/ disk.icon = "new" /\ Goto("decide") /\ Fine /\ UNCHANGED disk
     \/ disk.icon # "new" /\ Put("icon", "new", "decide")
  /\ UNCHANGED <<marker, registry>>

(* Mutant: the marker of an earlier start is not looked at.                *)
UpToDateByFiles == ~worker.changed

UpToDate == ~worker.changed /\ marker # "yes"

Decide ==
  /\ At("decide")
  /\ \/ worker.failed /\ End("failed")
     \/ ~worker.failed /\ UpToDate /\ End("current")
     \/ ~worker.failed /\ ~UpToDate /\ Goto("verify")
  /\ UNCHANGED <<disk, marker, registry, faults>>

AsStaged == disk = [param |-> worker.port, icon |-> "new"]
HasBackup == worker.saved.param # "absent" \/ worker.saved.icon # "absent"

(* The files after restore_launcher_file for the parts in ok that have a   *)
(* backup.                                                                 *)
Restored(ok) ==
  [part \in {"param", "icon"} |->
     IF part \in ok /\ worker.saved[part] # "absent" THEN worker.saved[part] ELSE disk[part]]

(* verify_launcher_file for both.  After a failure the old files are       *)
(* put back as far as that goes.                                           *)
Verify ==
  /\ At("verify")
  /\ \/ AsStaged /\ Goto("mark") /\ Fine /\ UNCHANGED disk
     \/ Fault("read") /\ End("failed")
          /\ \E ok \in SUBSET {"param", "icon"} : disk' = Restored(ok)
  /\ UNCHANGED <<marker, registry>>

(* write_install_pending; the work goes on without a marker.               *)
Mark ==
  /\ At("mark")
  /\ Goto("uninstall")
  /\ \/ Fine /\ marker' = "yes"
     \/ Fault("marker") /\ marker' = IF marker = "yes" THEN "yes" ELSE "told"
  /\ UNCHANGED <<disk, registry>>

(* Mutant: the entry that is there is left to the installer to refresh.    *)
Kept == registry

Forgotten == IF registry.state = "on" THEN [registry EXCEPT !.state = "removed"] ELSE registry

(* sceAppInstUtilAppUnInstall; an error of it is logged and ignored.       *)
Uninstall ==
  /\ At("uninstall")
  /\ \/ Fine /\ registry' = Forgotten /\ Goto("install")
     \/ Fault("refused") /\ UNCHANGED registry
          /\ worker' = [worker EXCEPT !.pc = "install", !.refused = TRUE]
  /\ UNCHANGED <<disk, marker>>

(* install_app: the firmware enters the title as the files are, or reports *)
(* success and keeps an entry that was there.                              *)
Enter ==
  \/ Fine /\ registry' = Entry
  \/ registry.state = "on" /\ Fault("stale") /\ UNCHANGED registry

(* One attempt of the loop around install_app.                             *)
Install ==
  /\ At("install")
  /\ \/ Enter /\ Goto("check")
     \/ /\ Fault("install") /\ UNCHANGED registry
        /\ worker' = [worker EXCEPT !.tries = @ + 1,
             !.pc = IF worker.tries + 1 < Attempts THEN "reverify" ELSE "fallback"]
  /\ UNCHANGED <<disk, marker>>

Reverify ==
  /\ At("reverify")
  /\ \/ AsStaged /\ Goto("install") /\ Fine
     \/ Fault("read") /\ Goto("fallback")
  /\ UNCHANGED <<disk, marker, registry>>

(* All attempts failed: back to the files of before, if there were any.    *)
Fallback ==
  /\ At("fallback")
  /\ \/ ~HasBackup /\ End("failed") /\ Fine /\ UNCHANGED disk
     \/ HasBackup /\ disk' = Restored({"param", "icon"}) /\ Goto("reinstall") /\ Fine
     \/ HasBackup /\ Fault("disk") /\ End("failed")
          /\ \E ok \in SUBSET {"param", "icon"} : disk' = Restored(ok)
  /\ UNCHANGED <<marker, registry>>

(* Mutant: the marker goes also when nothing could be registered.          *)
GiveUpClears == worker' = [worker EXCEPT !.pc = "clear", !.rc = "failed"]

GiveUp == End("failed")

Reinstall ==
  /\ At("reinstall")
  /\ \/ Enter /\ worker' = [worker EXCEPT !.pc = "clear", !.rc = "failed"]
     \/ Fault("install") /\ UNCHANGED registry /\ GiveUp
  /\ UNCHANGED <<disk, marker>>

(* The check after the registration.                                       *)
Check ==
  /\ At("check")
  /\ \/ AsStaged /\ worker' = [worker EXCEPT !.pc = "clear", !.rc = "done"] /\ Fine
     \/ Fault("read") /\ End("failed")
  /\ UNCHANGED <<disk, marker, registry>>

(* clear_install_pending.                                                  *)
Clear ==
  /\ At("clear")
  /\ Goto("down")
  /\ \/ Fine /\ marker' = "no"
     \/ Fault("unlink") /\ UNCHANGED marker
  /\ UNCHANGED <<disk, registry>>

(* The payload dies.                                                       *)
Crash ==
  /\ \E point \in CrashAt : At(point)
  /\ faults < MaxFaults /\ faults' = faults + 1
  /\ worker' = Idle
  /\ UNCHANGED <<disk, marker, registry>>

Work == \/ Prepare \/ StageParam \/ Create \/ StageIcon \/ Decide \/ Verify \/ Mark
        \/ Uninstall \/ Install \/ Reverify \/ Fallback \/ Reinstall \/ Check \/ Clear

Next == Start \/ Work \/ Crash

Spec == Init /\ [][Next]_vars

(* The thread goes on, and somebody starts the payload again.              *)
FairSpec == Spec /\ WF_vars(Work) /\ WF_vars(Start)

-----------------------------------------------------------------------------
Params == {"absent", "torn", "alien"} \union Ports
Icons  == {"absent", "old", "new"}

Files  == [param : Params, icon : Icons]
Worker == [pc : Steps \union {"down"}, port : Ports \union {"absent"}, saved : Files,
           changed : BOOLEAN, failed : BOOLEAN, refused : BOOLEAN, tries : 0 .. Attempts,
           rc : {"none", "current", "done", "failed"}]

TypeOK ==
  /\ disk \in Files
  /\ marker \in {"no", "yes", "told"}
  /\ registry \in [state : {"never", "removed", "on"}, param : Params, icon : Icons]
  /\ worker \in Worker
  /\ faults \in 0 .. MaxFaults

(* Every variable has its type, and what the firmware reads of a title     *)
(* that is registered is whole at every moment, whatever fails or dies     *)
(* while its files are replaced.                                           *)
MetadataWhole == TypeOK /\ (registry.state = "on" => disk.param \in Ports /\ disk.icon # "absent")

(* A title that the payload has unregistered and not registered again is   *)
(* marked for the next start, whatever failed since, unless the log says   *)
(* that it could not be marked.                                            *)
RemovedIsMarked == registry.state = "removed" => marker \in {"yes", "told"}

(* A refresh that reports success leaves the title registered for the port *)
(* that was bound and with the new icon, unless the firmware refused to    *)
(* forget the old entry, which is only logged.                             *)
SuccessIsRegistered == worker.rc = "done" /\ ~worker.refused => Registered(worker.port)

(* A call that finds the title up to date leaves it registered for the     *)
(* port that was bound.                                                    *)
UpToDateIsRegistered ==
  worker.rc = "current" => registry.state = "on" /\ registry.param = worker.port

(* A marked title ends up registered, if the payload is started again and  *)
(* the faults end.                                                         *)
RetryRegisters == marker = "yes" ~> registry.state = "on"
=============================================================================
