------------------------------ MODULE FileJobs ------------------------------
(***************************************************************************)
(* The body of task_worker for the exclusive file system jobs: a folder,   *)
(* or one file of it, is copied or moved, a folder is deleted, or gets new *)
(* permissions, an archive is extracted.  There is one source folder, one  *)
(* destination for it and one name for extracted archives.  Which job runs *)
(* when is TaskRegistry's.                                                 *)
(***************************************************************************)
EXTENDS Naturals, Sequences, FiniteSets

CONSTANTS
  Files,    \* the files of the source folder, and of the archive
  Large,    \* those that reach LARGE_FILE_THRESHOLD
  Slots,    \* COPY_PIPELINE_SLOTS
  Chunks,   \* reads that a large file takes
  Kinds,    \* what is asked for
  Requests, \* bound: how many jobs are asked for
  Faults    \* what may go wrong

Ops == {"copy", "move", "delete", "chmod", "extract"}
AllFaults == {"disk", "nolink", "unlink", "link", "deep", "foreign", "taken"}

(* What an archive may hold that is not published: a symbolic link, or     *)
(* folders nested deeper than STAGING_TREE_MAX_DEPTH or with a name that   *)
(* path_join refuses, which the clean-up does not get past either.         *)
Entries == {"link", "deep"}

ASSUME FileJobsAssumption ==
  /\ IsFiniteSet(Files) /\ Files # {} /\ Large \subseteq Files
  /\ Slots \in Nat \ {0, 1} /\ Chunks \in Nat
  /\ Kinds \subseteq Ops /\ Requests \in Nat \ {0}
  /\ Faults \subseteq AllFaults

VARIABLES
  src,    \* the source folder: each file, and whether the folder is there
  dst,    \* the destination folder, likewise
  temp,   \* the private file of a copy
  stage,  \* .mkpfs-extract-<id>.tmp
  out,    \* the name an archive is extracted to
  mode,   \* what has the new permissions
  job,    \* file_task_t
  worker, \* task_worker
  asked,  \* jobs asked for so far
  slot, ctl, reader, writer, sink \* the copy of a large file: CopyPipeline

pipe == <<slot, ctl, reader, writer, sink>>
vars == <<src, dst, temp, stage, out, mode, job, worker, asked, pipe>>

Open    == {"QUEUED", "RUNNING"}
Ended   == {"DONE", "FAILED", "CANCELED"}
Folder  == "folder"
NoTemp  == [file |-> Folder, whole |-> FALSE, stuck |-> FALSE]
NoStage == [on |-> FALSE, got |-> {}, bad |-> {}, stuck |-> FALSE]
NoJob   == [state |-> "NONE", op |-> "none", one |-> Folder, cancel |-> FALSE,
            overwrite |-> FALSE, near |-> FALSE, staged |-> FALSE]
Idle    == [pc |-> "idle", todo |-> {}, file |-> Folder, err |-> FALSE, late |-> FALSE]

At(point) == worker.pc = point
Goto(point) == worker' = [worker EXCEPT !.pc = point]
Fail == worker' = [worker EXCEPT !.pc = "settle", !.err = TRUE]

(* The error paths that all steps share: a cancel that is seen, a fault.   *)
Seen == job.cancel
Broken == "disk" \in Faults
Here == {f \in Files : src.file[f] = "here"}

(* What the job is about: the folder, or one file of it.                   *)
Subject == IF job.one = Folder THEN Here ELSE {job.one} \intersect Here

Pipe == INSTANCE CopyPipeline WITH MayFail <- Broken, cancel <- Seen

Init ==
  /\ src = [file |-> [f \in Files |-> "here"], on |-> TRUE]
  /\ dst \in [file : {[f \in Files |-> "absent"]}, on : BOOLEAN]
  /\ temp = NoTemp /\ stage = NoStage /\ out = "absent"
  /\ mode = {} /\ job = NoJob /\ worker = Idle /\ asked = 0
  /\ Pipe!Off

-----------------------------------------------------------------------------
(* create_task_response with validate_task_target, or api_extract.  near:  *)
(* source and destination are on one device.  one: a file that is copied   *)
(* or moved by itself, into a folder that exists.                          *)
Ask ==
  /\ job.state = "NONE" /\ At("idle") /\ asked < Requests
  /\ \E op \in Kinds, overwrite, near \in BOOLEAN, one \in Files \union {Folder} :
       /\ op = "extract" => out = "absent" /\ ~overwrite
       /\ op # "extract" => src.on
       /\ one = Folder /\ op \in {"copy", "move"} /\ dst.on => overwrite
       /\ one # Folder => /\ op \in {"copy", "move"} /\ dst.on /\ one \in Here
                          /\ dst.file[one] # "absent" => overwrite
       /\ op \in {"delete", "chmod"} => ~overwrite
       /\ op # "move" => ~near
       /\ job' = [NoJob EXCEPT !.state = "QUEUED", !.op = op, !.one = one,
                               !.overwrite = overwrite, !.near = near]
       /\ mode' = IF op = "chmod" THEN {} ELSE mode
  /\ worker' = [Idle EXCEPT !.pc = "start"]
  /\ asked' = asked + 1
  /\ UNCHANGED <<src, dst, temp, stage, out, pipe>>

(* An early return of task_worker.                                         *)
Give(state) == job' = [job EXCEPT !.state = state] /\ worker' = Idle

Start ==
  /\ At("start")
  /\ \/ Seen /\ Give("CANCELED")
     \/ /\ ~Seen
        /\ job' = [job EXCEPT !.state = "RUNNING"]
        /\ worker' = [worker EXCEPT !.todo = Subject, !.file = job.one,
             !.pc = CASE job.op \in {"copy", "move"} -> "target"
                      [] job.op = "delete" -> "remove"
                      [] job.op = "chmod" -> "count"
                      [] job.op = "extract" -> "stage"]
  /\ UNCHANGED <<src, dst, temp, stage, out, mode, asked, pipe>>

(* Target permissions, then sizes, then space; a move on one device to a   *)
(* free name counts nothing.                                               *)
Check ==
  /\ \/ /\ At("target")
        /\ \/ Seen /\ Give("CANCELED")
           \/ Broken /\ Give("FAILED")
           \/ ~Seen /\ Goto("count") /\ UNCHANGED job
     \/ /\ At("count") /\ job.op # "chmod"
        /\ LET counts == ~(job.near /\ (job.one # Folder \/ ~dst.on)) IN
           \/ counts /\ Seen /\ Give("CANCELED")
           \/ Broken /\ Give("FAILED")
           \/ (counts => ~Seen) /\ Goto("space") /\ UNCHANGED job
     \/ /\ At("count") /\ job.op = "chmod"
        /\ UNCHANGED job
        /\ \/ (Seen \/ Broken) /\ Fail
           \/ ~Seen /\ Goto("chmod")
     \/ /\ At("space")
        /\ \/ Broken /\ Give("FAILED")
           \/ Goto("route") /\ UNCHANGED job
  /\ UNCHANGED <<src, dst, temp, stage, out, mode, asked, pipe>>

(* A move that is one rename: on one device, of a folder to a free name or *)
(* of a file to any name.                                                  *)
Renames == job.op = "move" /\ job.near /\ (job.one # Folder \/ ~dst.on)

(* copy_path, or move_path: onto a folder that exists, or onto another     *)
(* device, a move copies first.                                            *)
Route ==
  /\ At("route")
  /\ \/ /\ ~Renames
        /\ Goto(IF job.one = Folder THEN "mkdir" ELSE "open")
        /\ UNCHANGED <<src, dst>>
     \/ /\ Renames /\ job.one = Folder
        /\ dst' = [on |-> TRUE, file |-> [f \in Files |->
                     IF f \in Here THEN "whole" ELSE "absent"]]
        /\ src' = [on |-> FALSE, file |-> [f \in Files |->
                     IF f \in Here THEN "moved" ELSE src.file[f]]]
        /\ Goto("settle")
     \/ /\ Renames /\ job.one # Folder
        /\ dst' = [on |-> TRUE, file |-> [dst.file EXCEPT ![job.one] = "whole"]]
        /\ src' = [src EXCEPT !.file[job.one] = "alone"]
        /\ Goto("settle")
     \/ /\ Renames /\ Broken
        /\ Fail
        /\ UNCHANGED <<src, dst>>
  /\ UNCHANGED <<temp, stage, out, mode, job, asked, pipe>>

-----------------------------------------------------------------------------
(***************************************************************************)
(* copy_dir and copy_file.                                                 *)
(***************************************************************************)

CopyDir ==
  /\ At("mkdir")
  /\ \/ (Seen \/ Broken) /\ Fail /\ UNCHANGED dst
     \/ ~Seen /\ dst' = [dst EXCEPT !.on = TRUE]
          /\ worker' = [worker EXCEPT !.pc = "pick", !.todo = Here]
  /\ UNCHANGED <<src, temp, stage, out, mode, job, asked, pipe>>

(* Mutant: a move removes what it has copied so far.                       *)
AfterCopyEarly == IF job.op = "move" THEN "checkrm" ELSE IF worker.todo = {} THEN "settle" ELSE "open"

AfterCopy == IF worker.todo # {} THEN "open" ELSE IF job.op = "move" THEN "checkrm" ELSE "settle"

(* The next entry of the folder.                                           *)
Pick ==
  /\ At("pick")
  /\ \/ worker.todo # {} /\ Seen /\ Fail
     \/ (worker.todo # {} => ~Seen)
          /\ \E f \in IF worker.todo = {} THEN {Folder} ELSE worker.todo :
               worker' = [worker EXCEPT !.pc = AfterCopy, !.file = f]
  /\ UNCHANGED <<src, dst, temp, stage, out, mode, job, asked, pipe>>

OpenTemp ==
  /\ At("open")
  /\ \/ (Seen \/ Broken) /\ Fail /\ UNCHANGED temp
     \/ ~Seen /\ temp' = [NoTemp EXCEPT !.file = worker.file]
          /\ Goto(IF worker.file \in Large THEN "pipe" ELSE "write")
  /\ UNCHANGED <<src, dst, stage, out, mode, job, asked, pipe>>

(* The last unlink of a private file, whose result is not looked at.       *)
Discarded == {NoTemp} \union (IF "unlink" \in Faults THEN {[temp EXCEPT !.stuck = TRUE]} ELSE {})

Write ==
  /\ At("write")
  /\ \/ (Seen \/ Broken) /\ Fail /\ temp' \in Discarded
     \/ ~Seen /\ temp' = [temp EXCEPT !.whole = TRUE] /\ Goto("publish")
  /\ UNCHANGED <<src, dst, stage, out, mode, job, asked, pipe>>

(***************************************************************************)
(* copy_file_pipeline, between OpenTemp and Publish.                       *)
(***************************************************************************)

Beside == UNCHANGED <<src, dst, stage, out, mode, job, asked>>

(* The reader thread is started, or that fails.                            *)
PipeBegin ==
  /\ At("pipe")
  /\ \/ Pipe!Begin /\ UNCHANGED <<temp, worker>>
     \/ Pipe!Off /\ Broken /\ Fail /\ temp' \in Discarded /\ UNCHANGED pipe
  /\ Beside

PipeReader ==
  /\ Pipe!ReaderLook \/ Pipe!Read \/ Pipe!Post
  /\ UNCHANGED <<temp, worker>> /\ Beside

PipeWriter ==
  /\ \/ Pipe!WriterLook \/ Pipe!Write \/ Pipe!Drop
     \/ Pipe!Finish \/ Pipe!Stop \/ Pipe!Join
  /\ UNCHANGED <<temp, worker>> /\ Beside

(* The reader is gone and the private file is closed.                      *)
PipeEnd ==
  /\ Pipe!End
  /\ \/ /\ writer.pc = "ok"
        /\ temp' = [temp EXCEPT !.whole = (sink = Pipe!Whole)]
        /\ Goto("publish")
     \/ /\ writer.pc = "failed" \/ Broken
        /\ Fail /\ temp' \in Discarded
  /\ Beside

Content == IF temp.whole THEN "whole" ELSE "broken"
Copied  == worker' = [worker EXCEPT !.pc = "pick", !.todo = @ \ {worker.file}, !.late = FALSE]
Named   == dst' = [dst EXCEPT !.file[worker.file] = Content, !.on = TRUE]

(* Mutant: a copy replaces a file it may not overwrite.                    *)
ReplacesAlways == TRUE

Replaces == job.overwrite

(* rename when files may be overwritten, else link, and on FAT a look at   *)
(* the name before rename.                                                 *)
Publish ==
  /\ At("publish")
  /\ LET free == dst.file[worker.file] = "absent" IN
     \/ Seen /\ Fail /\ temp' \in Discarded /\ UNCHANGED dst
     \/ ~Seen /\ Replaces /\ Named /\ temp' = NoTemp /\ Copied
     \/ ~Seen /\ ~Replaces /\ free /\ Named /\ Goto("unlink") /\ UNCHANGED temp
     \/ ~Seen /\ ~Replaces /\ free /\ "nolink" \in Faults /\ UNCHANGED <<temp, dst>>
          /\ worker' = [worker EXCEPT !.pc = "rename", !.late = FALSE]
     \/ ~Seen /\ ~Replaces /\ ~free /\ Fail /\ temp' \in Discarded /\ UNCHANGED dst
  /\ UNCHANGED <<src, stage, out, mode, job, asked, pipe>>

UnlinkTemp ==
  /\ At("unlink")
  /\ \/ temp' = NoTemp /\ Copied
     \/ "unlink" \in Faults /\ temp' \in Discarded /\ Fail
  /\ UNCHANGED <<src, dst, stage, out, mode, job, asked, pipe>>

RenameTemp ==
  /\ At("rename")
  /\ \/ Named /\ temp' = NoTemp /\ Copied
     \/ Broken /\ Fail /\ temp' \in Discarded /\ UNCHANGED dst
  /\ UNCHANGED <<src, stage, out, mode, job, asked, pipe>>

-----------------------------------------------------------------------------
(***************************************************************************)
(* finish_copied_move, remove_path and chmod_task_path.                    *)
(***************************************************************************)

CheckRemovable ==
  /\ At("checkrm")
  /\ \/ (Seen \/ Broken) /\ Fail
     \/ ~Seen /\ worker' = [worker EXCEPT !.pc = "remove", !.todo = Subject]
  /\ UNCHANGED <<src, dst, temp, stage, out, mode, job, asked, pipe>>

Gone == IF job.op = "delete" THEN "deleted" ELSE IF job.one = Folder THEN "moved" ELSE "alone"

Remove ==
  /\ At("remove")
  /\ \/ (Seen \/ Broken) /\ Fail /\ UNCHANGED src
     \/ /\ ~Seen
        /\ \E f \in worker.todo :
             /\ src' = [src EXCEPT !.file[f] = Gone]
             /\ worker' = [worker EXCEPT !.todo = @ \ {f}]
     \/ /\ worker.todo = {}
        /\ src' = [src EXCEPT !.on = (job.one # Folder)]
        /\ Goto("settle")
  /\ UNCHANGED <<dst, temp, stage, out, mode, job, asked, pipe>>

(* The files of a folder first, then the folder.                           *)
Chmod ==
  /\ At("chmod")
  /\ \/ (Seen \/ Broken) /\ Fail /\ UNCHANGED mode
     \/ /\ ~Seen
        /\ \E f \in worker.todo :
             /\ mode' = mode \union {f}
             /\ worker' = [worker EXCEPT !.todo = @ \ {f}]
     \/ /\ worker.todo = {}
        /\ mode' = mode \union {Folder}
        /\ Goto("settle")
  /\ UNCHANGED <<src, dst, temp, stage, out, job, asked, pipe>>

-----------------------------------------------------------------------------
(***************************************************************************)
(* Extraction.                                                             *)
(***************************************************************************)

(* remove_staging_tree: the folder is gone, or what was left of it when    *)
(* the removal failed is still there.                                      *)
Removed ==
  (IF "deep" \in stage.bad THEN {} ELSE {NoStage}) \union
  (IF stage.on /\ ("deep" \in stage.bad \/ "unlink" \in Faults)
   THEN {[stage EXCEPT !.stuck = TRUE]} ELSE {})

(* The private folder, in place of one that an earlier start left.         *)
Stage ==
  /\ At("stage")
  /\ \/ /\ NoStage \in Removed
        /\ stage' = [NoStage EXCEPT !.on = TRUE]
        /\ job' = [job EXCEPT !.staged = TRUE]
        /\ Goto("decode")
     \/ /\ stage' \in IF Broken THEN Removed \union {stage} ELSE Removed \ {NoStage}
        /\ Fail
        /\ UNCHANGED job
  /\ UNCHANGED <<src, dst, temp, out, mode, asked, pipe>>

Unpublished == worker' = [worker EXCEPT !.pc = "unstage", !.err = TRUE]

(* archive_extract_run: a file appears, or it ends.                        *)
Decode ==
  /\ At("decode")
  /\ \/ \E f \in Files \ stage.got, bad \in SUBSET (Entries \intersect Faults) :
          /\ stage' = [stage EXCEPT !.got = @ \union {f}, !.bad = @ \union bad]
          /\ UNCHANGED worker
     \/ stage.got = Files /\ Goto("gate") /\ UNCHANGED stage
     \/ (Seen \/ Broken) /\ Unpublished /\ UNCHANGED stage
  /\ UNCHANGED <<src, dst, temp, out, mode, job, asked, pipe>>

(* Mutant: what the archive produced is not inspected.                     *)
SafeAlways == TRUE

Safe == stage.bad = {}

(* The checks before publication, verify_extract_staging_tree among them.  *)
Gate ==
  /\ At("gate")
  /\ \/ Seen /\ Goto("unstage")
     \/ ~Seen /\ out = "absent" /\ Safe /\ Goto("move")
     \/ ~Seen /\ (out # "absent" \/ ~Safe \/ Broken) /\ Unpublished
  /\ UNCHANGED <<src, dst, temp, stage, out, mode, job, asked, pipe>>

MoveStage ==
  /\ At("move")
  /\ \/ /\ out = "absent"
        /\ out' = IF stage.got = Files /\ stage.bad = {} THEN "whole" ELSE "broken"
        /\ stage' = NoStage
        /\ Goto("sync")
     \/ /\ out # "absent" \/ Broken
        /\ Unpublished
        /\ UNCHANGED <<out, stage>>
  /\ UNCHANGED <<src, dst, temp, mode, job, asked, pipe>>

SyncParent ==
  /\ At("sync")
  /\ \/ Goto("unstage")
     \/ Broken /\ Unpublished
  /\ UNCHANGED <<src, dst, temp, stage, out, mode, job, asked, pipe>>

(* Mutant: the private folder is removed after an error only.              *)
UnstagedOnError == IF worker.err THEN Removed ELSE {stage}

Unstaged == IF worker.err \/ Seen THEN Removed ELSE {stage}

(* A cancel seen here makes the job canceled, published or not.            *)
Unstage ==
  /\ At("unstage")
  /\ stage' \in Unstaged
  /\ worker' = [worker EXCEPT !.pc = "settle", !.err = @ \/ Seen]
  /\ UNCHANGED <<src, dst, temp, out, mode, job, asked, pipe>>

-----------------------------------------------------------------------------
(* Mutant: an error counts as an end.                                      *)
OutcomeGood == IF worker.err /\ Seen THEN "CANCELED" ELSE "DONE"

Outcome == IF ~worker.err THEN "DONE" ELSE IF Seen THEN "CANCELED" ELSE "FAILED"

Settle == At("settle") /\ Give(Outcome)
          /\ UNCHANGED <<src, dst, temp, stage, out, mode, asked, pipe>>

Cancel ==
  /\ job.state \in Open /\ ~job.cancel
  /\ job' = [job EXCEPT !.cancel = TRUE]
  /\ UNCHANGED <<src, dst, temp, stage, out, mode, worker, asked, pipe>>

(* remove_finished_tasks_locked.  The private names of the next job are    *)
(* others: what this one could not remove stays under names that are not   *)
(* used again before the next start.                                       *)
Forget ==
  /\ job.state \in Ended
  /\ job' = NoJob /\ temp' = NoTemp
  /\ stage' = IF job.op = "extract" THEN NoStage ELSE stage
  /\ UNCHANGED <<src, dst, out, mode, worker, asked, pipe>>

(* Another program makes a file.  late: it did so between the two steps of *)
(* a publication without links.                                            *)
TakeName ==
  /\ \/ /\ "taken" \in Faults /\ out = "absent"
        /\ out' = "taken"
        /\ UNCHANGED <<dst, worker>>
     \/ \E f \in Files :
          /\ "foreign" \in Faults /\ dst.file[f] = "absent"
          /\ dst' = [dst EXCEPT !.file[f] = "foreign", !.on = TRUE]
          /\ worker' = [worker EXCEPT !.late = @ \/ (At("rename") /\ worker.file = f)]
          /\ UNCHANGED out
  /\ UNCHANGED <<src, temp, stage, mode, job, asked, pipe>>

(* The payload dies and starts again, with task ids from 1.  A private     *)
(* file of a copy stays, under a name that is not used again.              *)
Crash ==
  /\ job' = NoJob /\ worker' = Idle /\ temp' = NoTemp /\ Pipe!Reset
  /\ UNCHANGED <<src, dst, stage, out, mode, asked>>

Work == \/ Start \/ Check \/ Route
        \/ CopyDir \/ Pick \/ OpenTemp \/ Write \/ Publish \/ UnlinkTemp \/ RenameTemp
        \/ PipeBegin \/ PipeWriter \/ PipeEnd
        \/ CheckRemovable \/ Remove \/ Chmod
        \/ Stage \/ Decode \/ Gate \/ MoveStage \/ SyncParent \/ Unstage \/ Settle

Next == Work \/ PipeReader \/ Ask \/ Cancel \/ Forget \/ TakeName \/ Crash

Spec == Init /\ [][Next]_vars

(* The threads are scheduled.                                              *)
FairSpec == Spec /\ WF_vars(Work) /\ WF_vars(PipeReader)

-----------------------------------------------------------------------------
TypeOK ==
  /\ src.file \in [Files -> {"here", "moved", "alone", "deleted"}] /\ src.on \in BOOLEAN
  /\ dst.file \in [Files -> {"absent", "whole", "broken", "foreign"}] /\ dst.on \in BOOLEAN
  /\ temp \in [file : Files \union {Folder}, whole : BOOLEAN, stuck : BOOLEAN]
  /\ stage \in [on : BOOLEAN, got : SUBSET Files, bad : SUBSET Entries, stuck : BOOLEAN]
  /\ out \in {"absent", "whole", "broken", "taken"}
  /\ mode \subseteq Files \union {Folder}
  /\ job.state \in Open \union Ended \union {"NONE"} /\ job.op \in Ops \union {"none"}
  /\ job.one \in Files \union {Folder}
  /\ worker.todo \subseteq Files /\ worker.err \in BOOLEAN /\ worker.late \in BOOLEAN

(* A move removes a file of the source only when every file it was to move *)
(* has a whole copy at the destination, also when it fails, is canceled or *)
(* dies, and is asked for again: a file by itself, or all of the folder.   *)
NothingLost ==
  /\ \A f \in Files : src.file[f] = "alone" => dst.file[f] = "whole"
  /\ (\E f \in Files : src.file[f] = "moved") =>
       \A f \in Files : src.file[f] # "deleted" => dst.file[f] = "whole"

(* A job that is done has done all of it.                                  *)
DoneMeansAll ==
  job.state = "DONE" =>
    CASE job.op = "copy" -> \A f \in Subject : dst.file[f] = "whole"
      [] job.op \in {"move", "delete"} -> Subject = {} /\ (job.one = Folder => ~src.on)
      [] job.op = "chmod" -> Here \union {Folder} \subseteq mode
      [] job.op = "extract" -> out = "whole"

(* Every variable has its type, and whatever is copied, also by two        *)
(* threads, appears whole or not at all, whenever it is canceled, fails or *)
(* dies.                                                                   *)
CopiesAreWhole == TypeOK /\ \A f \in Files : dst.file[f] # "broken"

(* The slot that is filled is never the one that is emptied, the chunks in *)
(* the private file are in order, and the buffers are not released before  *)
(* the reader is gone.                                                     *)
PipelineIsSound ==
  /\ writer.pc = "write" => slot[writer.at].ready
  /\ writer.pc \in {"write", "drop"} /\ reader.pc \in {"read", "post"} => reader.slot # writer.at
  /\ sink = SubSeq(Pipe!Whole, 1, Len(sink))
  /\ writer.pc \in {"off", "ok", "failed"} => reader.pc \in {"off", "gone"}

(* A job that was accepted ends, or is caught by a crash.                  *)
JobSettles == job.state \in Open ~> job.state \notin Open

(* A job that is done leaves no private file or folder of its own, and one *)
(* that failed or was canceled leaves none that it did not try to remove:  *)
(* what stays is what the removal could not get rid of.                    *)
EndIsClean ==
  job.state \in Ended =>
    /\ temp # NoTemp => temp.stuck /\ job.state # "DONE"
    /\ job.staged /\ stage.on => stage.stuck /\ job.state # "DONE"

Replaced(f) == dst.file[f] = "foreign" /\ dst.file'[f] # "foreign"

(* No copy replaces a file of another program without leave, unless that   *)
(* file appeared after the look at its name, before the rename of a file   *)
(* system without links.  (A move that is one rename does: see             *)
(* NoStrangerReplaced.)                                                    *)
CopiesAskLeave ==
  [][\A f \in Files : Replaced(f) =>
       \/ job.overwrite
       \/ At("rename") /\ worker.late
       \/ At("route") /\ job.one # Folder]_vars

Extracting == CASE job.op # "extract" -> "none"
                [] job.op = "extract" /\ job.state \in Open -> "open"
                [] job.op = "extract" /\ job.state \in {"FAILED", "CANCELED"} -> "stopped"
                [] job.op = "extract" /\ job.state = "DONE" -> "done"

Publication == INSTANCE AtomicPublish
                 WITH Jobs <- {"extract"}, MayRetract <- FALSE,
                      ask <- [j \in {"extract"} |-> Extracting]

(* An extraction implements AtomicPublish.                                 *)
ImplementsAtomicPublish == Publication!Spec

-----------------------------------------------------------------------------
(* If an extraction fails, its private folder is removed.                  *)
FailedIsUnstaged == job.state = "FAILED" /\ job.staged => ~stage.on

(* No job replaces a file of another program without leave.                *)
NoStrangerReplaced == [][\A f \in Files : Replaced(f) => job.overwrite]_vars
=============================================================================
