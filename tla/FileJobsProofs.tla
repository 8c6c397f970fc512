--------------------------- MODULE FileJobsProofs ---------------------------
(***************************************************************************)
(* Theorems about FileJobs, for every folder, every ring, every number of  *)
(* requests and every set of faults.                                       *)
(***************************************************************************)
EXTENDS CopyPipelineProofs

Copying    == {"open", "pipe", "write", "publish", "unlink", "rename"}
Extracts   == {"stage", "decode", "gate", "move", "sync", "unstage"}
CopyOrMove == {"target", "space", "route", "mkdir", "pick"} \union Copying
Points     == {"idle", "start", "count", "checkrm", "remove", "chmod", "settle"}
                \union Extracts \union CopyOrMove

States     == Open \union Ended \union {"NONE"}

SrcType    == [file : [Files -> {"here", "moved", "alone", "deleted"}], on : BOOLEAN]
DstType    == [file : [Files -> {"absent", "whole", "broken", "foreign"}], on : BOOLEAN]
TempType   == [file : Files \union {Folder}, whole : BOOLEAN, stuck : BOOLEAN]
StageType  == [on : BOOLEAN, got : SUBSET Files, bad : SUBSET Entries, stuck : BOOLEAN]
JobType    == [state : States, op : Ops \union {"none"}, one : Files \union {Folder},
               cancel : BOOLEAN, overwrite : BOOLEAN, near : BOOLEAN, staged : BOOLEAN]
WorkerType == [pc : Points, todo : SUBSET Files, file : Files \union {Folder},
               err : BOOLEAN, late : BOOLEAN]

TypeInv ==
  /\ src \in SrcType /\ dst \in DstType /\ temp \in TempType /\ stage \in StageType
  /\ out \in {"absent", "whole", "broken", "taken"}
  /\ mode \subseteq Files \union {Folder}
  /\ job \in JobType /\ worker \in WorkerType

(* Which job the worker is at which point of.                              *)
ControlInv ==
  /\ At("idle") <=> job.state \in Ended \union {"NONE"}
  /\ At("start") <=> job.state = "QUEUED"
  /\ job.op = "none" <=> job.state = "NONE"
  /\ job.one # Folder => job.op \in {"copy", "move"}
  /\ At("mkdir") => job.one = Folder
  /\ worker.pc \in CopyOrMove => job.op \in {"copy", "move"}
  /\ At("count") => job.op \in {"copy", "move", "chmod"}
  /\ At("checkrm") => job.op = "move"
  /\ At("remove") => job.op \in {"move", "delete"}
  /\ At("chmod") => job.op = "chmod"
  /\ worker.pc \in Extracts => job.op = "extract"
  /\ worker.err => worker.pc \in {"unstage", "settle"}
  /\ job.staged => worker.pc \in (Extracts \ {"stage"}) \union {"settle", "idle"}

(* The threads of the ring are there only while the worker waits for them. *)
PipeAt == PipeInv /\ (writer.pc # "off" => At("pipe"))

(* A file that is copied or moved by itself is there until it is copied.   *)
SingleInv ==
  worker.pc \in {"start", "target", "count", "space", "route"} /\ job.one # Folder =>
    /\ job.one \in Here
    /\ worker.pc # "start" => worker.todo = {job.one} /\ worker.file = job.one

(* What a copy has done so far.                                            *)
CopyInv ==
  /\ worker.pc \in Copying => worker.file \in worker.todo
  /\ worker.pc \in Copying \union {"pick"} =>
       worker.todo \subseteq Subject /\ \A f \in Subject \ worker.todo : dst.file[f] = "whole"
  /\ worker.pc \in {"publish", "unlink", "rename"} => temp.whole
  /\ At("rename") => \/ dst.file[worker.file] = "absent"
                     \/ dst.file[worker.file] = "foreign" /\ worker.late
  /\ At("unlink") => dst.file[worker.file] = "whole"
  /\ \A f \in Files : dst.file[f] # "broken"
  /\ (\E f \in Files : dst.file[f] # "absent") => dst.on

(* What a removal, the second half of a move among them, relies on.        *)
RemoveInv ==
  /\ NothingLost
  /\ At("checkrm") \/ (At("remove") /\ job.op = "move") =>
       \A f \in Subject : dst.file[f] = "whole"
  /\ At("remove") => worker.todo = Subject

ModeInv ==
  worker.pc \in {"count", "chmod"} /\ job.op = "chmod" => Here \subseteq mode \union worker.todo

(* What an extraction has done so far.                                     *)
ExtractInv ==
  /\ worker.pc \in {"gate", "move"} => stage.got = Files
  /\ At("move") => stage.bad = {}
  /\ At("sync") \/ (At("unstage") /\ ~worker.err /\ ~Seen) => out = "whole" /\ ~stage.on
  /\ out # "broken"

(* Only a job that goes wrong leaves something behind.                     *)
Wrong == (At("settle") /\ worker.err) \/ job.state \in {"FAILED", "CANCELED"}

LeftInv ==
  /\ temp # NoTemp => temp.stuck \/ worker.pc \in Copying \ {"open"}
  /\ temp.stuck => Wrong
  /\ job.staged /\ stage.on /\ worker.pc \in {"settle", "idle"} => stage.stuck /\ Wrong

(* All that a job is asked for.                                            *)
Achieved ==
  CASE job.op = "copy" -> \A f \in Subject : dst.file[f] = "whole"
    [] job.op \in {"move", "delete"} -> Subject = {} /\ (job.one = Folder => ~src.on)
    [] job.op = "chmod" -> Here \union {Folder} \subseteq mode
    [] job.op = "extract" -> out = "whole"
    [] job.op = "none" -> FALSE

DoneInv == (At("settle") /\ ~worker.err) \/ job.state = "DONE" => Achieved

IInv == /\ TypeInv /\ ControlInv /\ PipeAt /\ SingleInv /\ CopyInv
        /\ RemoveInv /\ ModeInv /\ ExtractInv /\ LeftInv /\ DoneInv
-----------------------------------------------------------------------------
(* What the pieces that the actions are built from do, field by field.     *)

LEMMA PointsAre ==
  Points = {"idle", "start", "count", "checkrm", "remove", "chmod", "settle",
            "stage", "decode", "gate", "move", "sync", "unstage",
            "target", "space", "route", "mkdir", "pick",
            "open", "pipe", "write", "publish", "unlink", "rename"}
BY DEF Points, Copying, Extracts, CopyOrMove

LEMMA GotoIs ==
  ASSUME TypeInv, NEW p \in Points, Goto(p)
  PROVE  /\ worker' \in WorkerType /\ worker'.pc = p
         /\ worker'.todo = worker.todo /\ worker'.file = worker.file /\ worker'.err = worker.err
         /\ worker'.late = worker.late
BY DEF TypeInv, WorkerType, Goto

LEMMA FailIs ==
  ASSUME TypeInv, Fail
  PROVE  /\ worker' \in WorkerType /\ worker'.pc = "settle" /\ worker'.err
         /\ worker'.todo = worker.todo
BY PointsAre DEF TypeInv, WorkerType, Fail

LEMMA UnpublishedIs ==
  ASSUME TypeInv, Unpublished
  PROVE  worker' \in WorkerType /\ worker'.pc = "unstage" /\ worker'.err
BY PointsAre DEF TypeInv, WorkerType, Unpublished

LEMMA IdleIs ==
  Idle \in WorkerType /\ Idle.pc = "idle" /\ ~Idle.err /\ ~Idle.late
BY PointsAre DEF WorkerType, Idle

LEMMA GiveIs ==
  ASSUME TypeInv, NEW s \in States, Give(s)
  PROVE  /\ job' \in JobType /\ job'.state = s /\ job'.op = job.op /\ job'.cancel = job.cancel
         /\ job'.staged = job.staged /\ job'.one = job.one
         /\ worker' \in WorkerType /\ worker'.pc = "idle" /\ ~worker'.err
BY IdleIs DEF TypeInv, JobType, Give

LEMMA NoTempIs == NoTemp \in TempType /\ ~NoTemp.whole /\ ~NoTemp.stuck
BY DEF TempType, NoTemp

(* A private file that its copy gives up is gone, or could not be removed. *)
LEMMA DiscardedIs ==
  ASSUME TypeInv, temp' \in Discarded
  PROVE  temp' \in TempType /\ (temp' = NoTemp \/ temp'.stuck)
<1>1. CASE temp' = NoTemp
  BY <1>1, NoTempIs
<1>2. CASE temp' = [temp EXCEPT !.stuck = TRUE]
  BY <1>2 DEF TypeInv, TempType
<1>3. QED
  BY <1>1, <1>2 DEF Discarded

LEMMA NoStageIs == NoStage \in StageType /\ ~NoStage.on
BY DEF StageType, NoStage

(* remove_staging_tree leaves nothing, or what it could not remove.        *)
LEMMA RemovedIs ==
  ASSUME TypeInv, NEW s \in Removed
  PROVE  s \in StageType /\ (s = NoStage \/ s.stuck)
<1>1. CASE s = NoStage
  BY <1>1, NoStageIs
<1>2. CASE s = [stage EXCEPT !.stuck = TRUE]
  BY <1>2 DEF TypeInv, StageType
<1>3. QED
  BY <1>1, <1>2 DEF Removed

LEMMA NoJobIs ==
  /\ NoJob \in JobType /\ NoJob.state = "NONE" /\ NoJob.op = "none" /\ ~NoJob.staged
  /\ NoJob.one = Folder
BY DEF JobType, NoJob, States

-----------------------------------------------------------------------------
(* What the parts of the invariant need to stay as they are.               *)

LEMMA PipeApart == ASSUME PipeAt, ~At("pipe"), UNCHANGED pipe PROVE PipeAt'
<1>1. Pipe!Off
  BY DEF PipeAt, PipeInv, WriterInv
<1>2. Pipe!Off'
  BY <1>1 DEF Pipe!Off, pipe
<1>3. PipeInv'
  BY <1>2, OffIsSound, PTL
<1>4. writer'.pc = "off"
  BY <1>2 DEF Pipe!Off, Pipe!NoWriter
<1>5. QED
  BY <1>3, <1>4 DEF PipeAt

LEMMA CopyApart ==
  ASSUME CopyInv, UNCHANGED <<src, dst>>,
         worker'.pc \notin Copying \union {"pick"}
  PROVE  CopyInv'
BY DEF CopyInv, Copying, At

LEMMA RemoveApart ==
  ASSUME RemoveInv, UNCHANGED <<src, dst>>, worker'.pc \notin {"checkrm", "remove"}
  PROVE  RemoveInv'
BY DEF RemoveInv, NothingLost, At

LEMMA ExtractApart ==
  ASSUME ExtractInv, UNCHANGED <<stage, out>>,
         worker'.pc \notin {"gate", "move", "sync", "unstage"}
  PROVE  ExtractInv'
BY DEF ExtractInv, At

LEMMA CleanApart == ASSUME temp' = NoTemp, ~job'.staged PROVE LeftInv'
BY NoTempIs DEF LeftInv

LEMMA SingleApart ==
  ASSUME worker'.pc \notin {"start", "target", "count", "space", "route"} PROVE SingleInv'
BY DEF SingleInv

(* Before a copy or a removal begins there is no private file.             *)
LEMMA NoTempYet ==
  ASSUME IInv, worker.pc \notin {"pipe", "write", "publish", "unlink", "rename", "settle", "idle"}
  PROVE  temp = NoTemp
BY DEF IInv, LeftInv, Wrong, Copying, ControlInv, Ended, At

LEMMA NotStuck ==
  ASSUME IInv, worker.pc \notin {"settle", "idle"}
  PROVE  ~temp.stuck
BY DEF IInv, LeftInv, Wrong, ControlInv, Ended, At

(* An error ends a copy, a removal or a change of permissions.             *)
LEMMA FailKeeps ==
  ASSUME IInv, worker.pc \notin Extracts \union {"idle", "start", "settle"}, Fail,
         temp' \in TempType, temp' = NoTemp \/ temp'.stuck,
         PipeAt', UNCHANGED <<src, dst, stage, out, mode, job>>
  PROVE  IInv'
<1>0. /\ worker' \in WorkerType /\ worker'.pc = "settle" /\ worker'.err
      /\ TypeInv /\ ControlInv /\ CopyInv /\ RemoveInv /\ ExtractInv /\ ~job.staged
  BY FailIs DEF IInv, ControlInv, Extracts
<1>1. TypeInv'
  BY <1>0 DEF TypeInv
<1>2. ControlInv'
  BY <1>0 DEF ControlInv, At, CopyOrMove, Copying, Extracts
<1>3. CopyInv'
  BY <1>0, CopyApart DEF Copying
<1>4. RemoveInv' /\ ExtractInv'
  BY <1>0, RemoveApart, ExtractApart
<1>5. ModeInv' /\ DoneInv'
  BY <1>0 DEF ModeInv, DoneInv, At, ControlInv, Ended
<1>6. SingleInv' /\ LeftInv'
  BY <1>0, SingleApart, NoTempIs DEF LeftInv, Wrong, At
<1>7. QED
  BY <1>1, <1>2, <1>3, <1>4, <1>5, <1>6 DEF IInv

(* An early return ends any job before it has begun.                       *)
LEMMA GiveKeeps ==
  ASSUME IInv, worker.pc \in {"start", "target", "count", "space"},
         NEW s \in {"FAILED", "CANCELED"}, Give(s),
         UNCHANGED <<src, dst, temp, stage, out, mode, pipe>>
  PROVE  IInv'
<1>0. /\ job' \in JobType /\ job'.state = s /\ job'.op = job.op /\ job'.staged = job.staged
      /\ job'.one = job.one
      /\ worker' \in WorkerType /\ worker'.pc = "idle" /\ ~worker'.err
      /\ TypeInv /\ ControlInv /\ CopyInv /\ RemoveInv /\ ExtractInv /\ ~job.staged
  BY GiveIs DEF IInv, ControlInv, Extracts, States, Ended
<1>1. TypeInv'
  BY <1>0 DEF TypeInv
<1>2. ControlInv'
  BY <1>0 DEF ControlInv, At, CopyOrMove, Copying, Extracts, Ended
<1>3. CopyInv'
  BY <1>0, CopyApart DEF Copying
<1>4. RemoveInv' /\ ExtractInv'
  BY <1>0, RemoveApart, ExtractApart
<1>5. ModeInv' /\ DoneInv'
  BY <1>0 DEF ModeInv, DoneInv, At
<1>6. PipeAt' /\ SingleInv' /\ LeftInv'
  BY <1>0, PipeApart, NoTempYet, CleanApart, SingleApart DEF IInv, At
<1>7. QED
  BY <1>1, <1>2, <1>3, <1>4, <1>5, <1>6 DEF IInv

(* An error of an extraction.                                              *)
LEMMA UnpublishedKeeps ==
  ASSUME IInv, worker.pc \in {"decode", "gate", "move", "sync"}, Unpublished,
         UNCHANGED <<src, dst, temp, stage, out, mode, job, pipe>>
  PROVE  IInv'
<1>0. /\ worker' \in WorkerType /\ worker'.pc = "unstage" /\ worker'.err
      /\ TypeInv /\ ControlInv /\ CopyInv /\ RemoveInv /\ ExtractInv
      /\ temp = NoTemp
  BY UnpublishedIs, NoTempYet DEF IInv
<1>1. TypeInv'
  BY <1>0 DEF TypeInv
<1>2. ControlInv'
  BY <1>0 DEF ControlInv, At, CopyOrMove, Copying, Extracts, Ended
<1>3. CopyInv'
  BY <1>0, CopyApart DEF Copying
<1>4. RemoveInv'
  BY <1>0, RemoveApart
<1>5. ExtractInv'
  BY <1>0 DEF ExtractInv, At
<1>6. ModeInv' /\ DoneInv'
  BY <1>0 DEF ModeInv, DoneInv, At, ControlInv, Ended
<1>7. PipeAt' /\ SingleInv' /\ LeftInv'
  BY <1>0, PipeApart, NoTempIs, SingleApart DEF IInv, LeftInv, At
<1>8. QED
  BY <1>1, <1>2, <1>3, <1>4, <1>5, <1>6, <1>7 DEF IInv

-----------------------------------------------------------------------------
(* Each action keeps the invariant.                                        *)

LEMMA StartKeeps == ASSUME IInv, Start PROVE IInv'
<1>0. TypeInv /\ ControlInv /\ CopyInv /\ RemoveInv /\ ExtractInv /\ worker.pc = "start"
  BY DEF IInv, Start, At
<1>1. CASE Give("CANCELED")
  BY <1>0, <1>1, GiveKeeps DEF Start
<1>2. CASE ~Give("CANCELED")
  <2>0. /\ temp = NoTemp /\ ~job.staged /\ job.op # "none" /\ job.state = "QUEUED" /\ ~worker.err
        /\ job.op \in Ops
    BY <1>0, NoTempYet DEF ControlInv, Extracts, At, TypeInv, JobType
  <2>1. /\ job' \in JobType /\ job'.state = "RUNNING" /\ job'.op = job.op /\ ~job'.staged
        /\ job'.one = job.one
    BY <1>0, <1>2, <2>0 DEF Start, TypeInv, JobType, States, Open
  <2>2. PICK p \in {"target", "remove", "count", "stage"} :
          /\ worker' = [worker EXCEPT !.todo = Subject, !.file = job.one, !.pc = p]
          /\ p = "target" => job.op \in {"copy", "move"}
          /\ p = "remove" => job.op = "delete"
          /\ p = "count" => job.op = "chmod"
          /\ p = "stage" => job.op = "extract"
    BY <1>2, <2>0 DEF Start, Ops
  <2>3. /\ worker' \in WorkerType /\ worker'.pc = p /\ ~worker'.err
        /\ worker'.todo = Subject /\ worker'.file = job.one
    BY <1>0, <2>0, <2>2, PointsAre DEF TypeInv, WorkerType, JobType, Subject, Here
  <2>4. UNCHANGED <<src, dst, temp, stage, out, mode, pipe>>
    BY DEF Start
  <2>5. TypeInv'
    BY <1>0, <2>1, <2>3, <2>4 DEF TypeInv
  <2>6. ControlInv'
    BY <1>0, <2>1, <2>2, <2>3 DEF ControlInv, At, CopyOrMove, Copying, Extracts, Ended
  <2>7. CopyInv'
    BY <1>0, <2>0, <2>2, <2>3, <2>4, CopyApart DEF Copying
  <2>8. RemoveInv'
    BY <1>0, <2>1, <2>2, <2>3, <2>4 DEF RemoveInv, NothingLost, At, Subject, Here
  <2>9. ExtractInv'
    BY <1>0, <2>1, <2>2, <2>3, <2>4, ExtractApart
  <2>10. ModeInv' /\ DoneInv'
    BY <1>0, <2>1, <2>2, <2>3, <2>4 DEF ModeInv, DoneInv, At, Subject, Here, ControlInv
  <2>11. PipeAt' /\ LeftInv'
    BY <1>0, <2>0, <2>1, <2>4, PipeApart, CleanApart DEF IInv, At
  <2>12. SingleInv'
    BY <1>0, <2>1, <2>3, <2>4 DEF IInv, SingleInv, Subject, Here
  <2>13. QED
    BY <2>5, <2>6, <2>7, <2>8, <2>9, <2>10, <2>11, <2>12 DEF IInv
<1>3. QED
  BY <1>1, <1>2

(* A step that only moves a copy, or a change of permissions, forward.     *)
LEMMA GotoKeeps ==
  ASSUME IInv, worker.pc \in {"target", "count", "space", "route"},
         NEW p \in {"count", "space", "route", "mkdir", "chmod"}, Goto(p),
         p = "mkdir" => job.one = Folder,
         p = "chmod" <=> job.op = "chmod", p = "count" => job.op # "chmod",
         UNCHANGED <<src, dst, temp, stage, out, mode, job, pipe>>
  PROVE  IInv'
<1>0. /\ TypeInv /\ ControlInv /\ CopyInv /\ RemoveInv /\ ExtractInv /\ ModeInv
      /\ temp = NoTemp /\ ~job.staged /\ job.state = "RUNNING" /\ ~worker.err
      /\ job.op = "chmod" => worker.pc = "count"
      /\ job.op \in {"copy", "move", "chmod"}
  BY NoTempYet DEF IInv, ControlInv, CopyOrMove, Copying, Extracts, At, TypeInv, JobType,
     States, Open, Ended
<1>1. /\ worker' \in WorkerType /\ worker'.pc = p /\ worker'.todo = worker.todo /\ ~worker'.err
      /\ worker'.file = worker.file
  BY <1>0, GotoIs, PointsAre
<1>2. TypeInv'
  BY <1>0, <1>1 DEF TypeInv
<1>3. ControlInv'
  BY <1>0, <1>1 DEF ControlInv, At, CopyOrMove, Copying, Extracts, Ended
<1>4. CopyInv'
  BY <1>0, <1>1, CopyApart DEF Copying
<1>5. RemoveInv' /\ ExtractInv'
  BY <1>0, <1>1, RemoveApart, ExtractApart
<1>6. ModeInv' /\ DoneInv'
  BY <1>0, <1>1 DEF ModeInv, DoneInv, At, Here
<1>7. PipeAt' /\ LeftInv'
  BY <1>0, PipeApart, CleanApart DEF IInv, At
<1>8. SingleInv'
  BY <1>1 DEF IInv, SingleInv, Here
<1>9. QED
  BY <1>2, <1>3, <1>4, <1>5, <1>6, <1>7, <1>8 DEF IInv

LEMMA CheckKeeps == ASSUME IInv, Check PROVE IInv'
<1>0. UNCHANGED <<src, dst, temp, stage, out, mode, pipe>> /\ ControlInv
  BY DEF Check, IInv
<1>1. CASE worker.pc \in {"target", "count", "space"} /\ (Give("CANCELED") \/ Give("FAILED"))
  BY <1>0, <1>1, GiveKeeps
<1>2. CASE At("target") /\ Goto("count") /\ UNCHANGED job
  BY <1>0, <1>2, GotoKeeps DEF ControlInv, CopyOrMove, At
<1>3. CASE At("count") /\ job.op # "chmod" /\ Goto("space") /\ UNCHANGED job
  BY <1>0, <1>3, GotoKeeps DEF At
<1>4. CASE At("count") /\ job.op = "chmod" /\ Fail /\ UNCHANGED job
  <2>1. temp' = NoTemp /\ temp' \in TempType /\ PipeAt'
    BY <1>0, <1>4, NoTempYet, NoTempIs, PipeApart DEF IInv, At
  <2>2. QED
    BY <2>1, <1>0, <1>4, FailKeeps DEF At, Extracts
<1>5. CASE At("count") /\ job.op = "chmod" /\ Goto("chmod") /\ UNCHANGED job
  BY <1>0, <1>5, GotoKeeps DEF At
<1>6. CASE At("space") /\ Goto("route") /\ UNCHANGED job
  BY <1>0, <1>6, GotoKeeps DEF ControlInv, CopyOrMove, At
<1>7. QED
  BY <1>1, <1>2, <1>3, <1>4, <1>5, <1>6 DEF Check, At

(* While files are copied the source and the outcome are not touched.      *)
LEMMA CopyingKeeps ==
  ASSUME IInv, worker.pc \in Copying \union {"pick", "route"},
         worker'.pc \in Copying \union {"pick"}, worker' \in WorkerType, ~worker'.err,
         UNCHANGED <<src, stage, out, mode, job>>, dst' \in DstType, temp' \in TempType,
         temp' = NoTemp \/ (~temp'.stuck /\ worker'.pc \in Copying \ {"open"}),
         \A f \in Files : dst.file[f] = "whole" => dst'.file[f] = "whole",
         CopyInv', PipeAt'
  PROVE  IInv'
<1>0. /\ TypeInv /\ ControlInv /\ RemoveInv /\ ExtractInv /\ ~job.staged
      /\ job.op \in {"copy", "move"} /\ job.state = "RUNNING"
  BY DEF IInv, ControlInv, CopyOrMove, Copying, Extracts, Ended, At, TypeInv, JobType, States, Open
<1>1. TypeInv'
  BY <1>0 DEF TypeInv
<1>2. ControlInv'
  BY <1>0 DEF ControlInv, At, CopyOrMove, Copying, Extracts, Ended
<1>3. RemoveInv'
  BY <1>0 DEF RemoveInv, NothingLost, At, Copying
<1>4. ExtractInv' /\ ModeInv' /\ DoneInv'
  BY <1>0, ExtractApart DEF ModeInv, DoneInv, At, Copying
<1>5. SingleInv' /\ LeftInv'
  BY <1>0, SingleApart, NoTempIs DEF LeftInv, Copying
<1>6. QED
  BY <1>1, <1>2, <1>3, <1>4, <1>5 DEF IInv

LEMMA RouteKeeps == ASSUME IInv, Route PROVE IInv'
<1>0. /\ worker.pc = "route" /\ UNCHANGED <<temp, stage, out, mode, job, pipe>>
      /\ TypeInv /\ ControlInv /\ CopyInv /\ RemoveInv /\ ExtractInv
      /\ temp = NoTemp /\ PipeAt' /\ job.op \in {"copy", "move"}
      /\ ~job.staged /\ job.state = "RUNNING" /\ ~worker.err
  BY NoTempYet, PipeApart DEF IInv, Route, At, ControlInv, CopyOrMove, Extracts, Ended,
     TypeInv, JobType, States, Open
<1>1. CASE job.one = Folder /\ Goto("mkdir") /\ UNCHANGED <<src, dst>>
  BY <1>0, <1>1, GotoKeeps
<1>2. CASE Fail /\ UNCHANGED <<src, dst>>
  BY <1>0, <1>2, FailKeeps, NoTempIs DEF Extracts
<1>3. CASE job.one # Folder /\ Goto("open") /\ UNCHANGED <<src, dst>>
  <2>1. job.one \in Here /\ worker.todo = {job.one} /\ worker.file = job.one
    BY <1>0, <1>3 DEF IInv, SingleInv
  <2>2. /\ worker' \in WorkerType /\ worker'.pc = "open" /\ ~worker'.err
        /\ worker'.todo = {job.one} /\ worker'.file = job.one
    BY <1>0, <1>3, <2>1, GotoIs, PointsAre
  <2>3. Subject = {job.one} /\ Subject' = Subject
    BY <1>0, <1>3, <2>1 DEF Subject, Here
  <2>4. CopyInv'
    BY <1>0, <1>3, <2>2, <2>3 DEF CopyInv, Copying, At
  <2>5. QED
    BY <1>0, <1>3, <2>2, <2>4, NoTempIs, CopyingKeeps DEF Copying, TypeInv
<1>4. ASSUME Goto("settle"), src' \in SrcType, dst' \in DstType,
             CopyInv', NothingLost', job.op = "move",
             Subject' = {}, job.one = Folder => ~src'.on
      PROVE  IInv'
  <2>1. /\ worker' \in WorkerType /\ worker'.pc = "settle" /\ ~worker'.err
    BY <1>0, <1>4, GotoIs, PointsAre
  <2>2. TypeInv'
    BY <1>0, <1>4, <2>1 DEF TypeInv
  <2>3. ControlInv'
    BY <1>0, <1>4, <2>1 DEF ControlInv, At, CopyOrMove, Copying, Extracts, Ended
  <2>4. RemoveInv' /\ ExtractInv'
    BY <1>0, <1>4, <2>1, ExtractApart DEF RemoveInv, At
  <2>5. ModeInv' /\ DoneInv'
    BY <1>0, <1>4, <2>1 DEF ModeInv, DoneInv, At, Achieved
  <2>6. SingleInv' /\ LeftInv'
    BY <1>0, <2>1, SingleApart, CleanApart
  <2>7. QED
    BY <1>0, <1>4, <2>2, <2>3, <2>4, <2>5, <2>6 DEF IInv
<1>5. CASE /\ Renames /\ job.one = Folder
           /\ dst' = [on |-> TRUE, file |-> [f \in Files |->
                        IF f \in Here THEN "whole" ELSE "absent"]]
           /\ src' = [on |-> FALSE, file |-> [f \in Files |->
                        IF f \in Here THEN "moved" ELSE src.file[f]]]
           /\ Goto("settle")
  <2>1. src' \in SrcType /\ dst' \in DstType
    BY <1>0, <1>5 DEF TypeInv, SrcType, DstType, Here
  <2>2. /\ \A f \in Files : dst'.file[f] = IF src.file[f] = "here" THEN "whole" ELSE "absent"
        /\ \A f \in Files : src'.file[f] = IF src.file[f] = "here" THEN "moved" ELSE src.file[f]
        /\ dst'.on /\ ~src'.on /\ Here' = {}
    BY <1>5 DEF Here
  <2>3. \A f \in Files : src.file[f] \notin {"moved", "alone"}
    BY <1>0, <1>5 DEF CopyInv, RemoveInv, NothingLost, Renames
  <2>4. CopyInv'
    BY <1>0, <1>5, <2>2, GotoIs, PointsAre DEF CopyInv, Copying, At
  <2>5. NothingLost'
    BY <1>0, <2>2, <2>3 DEF NothingLost, TypeInv, SrcType
  <2>6. Subject' = {}
    BY <1>0, <1>5, <2>2 DEF Subject
  <2>7. QED
    BY <1>4, <1>5, <2>1, <2>2, <2>4, <2>5, <2>6 DEF Renames
<1>6. CASE /\ Renames /\ job.one # Folder
           /\ dst' = [on |-> TRUE, file |-> [dst.file EXCEPT ![job.one] = "whole"]]
           /\ src' = [src EXCEPT !.file[job.one] = "alone"]
           /\ Goto("settle")
  <2>0. job.one \in Here /\ job.one \in Files
    BY <1>0, <1>6 DEF IInv, SingleInv, Here
  <2>1. src' \in SrcType /\ dst' \in DstType
    BY <1>0, <1>6, <2>0 DEF TypeInv, SrcType, DstType
  <2>2. /\ \A f \in Files : dst'.file[f] = IF f = job.one THEN "whole" ELSE dst.file[f]
        /\ \A f \in Files : src'.file[f] = IF f = job.one THEN "alone" ELSE src.file[f]
        /\ dst'.on /\ src.file[job.one] = "here"
    BY <1>0, <1>6, <2>0 DEF TypeInv, SrcType, DstType, Here
  <2>4. CopyInv'
    BY <1>0, <1>6, <2>2, GotoIs, PointsAre DEF CopyInv, Copying, At
  <2>5. NothingLost'
    BY <1>0, <2>2 DEF NothingLost, RemoveInv
  <2>6. Subject' = {}
    BY <1>0, <1>6, <2>0, <2>2 DEF Subject, Here
  <2>7. QED
    BY <1>4, <1>6, <2>1, <2>4, <2>5, <2>6 DEF Renames
<1>7. QED
  BY <1>1, <1>2, <1>3, <1>5, <1>6 DEF Route

LEMMA CopyDirKeeps == ASSUME IInv, CopyDir PROVE IInv'
<1>0. /\ worker.pc = "mkdir" /\ UNCHANGED <<src, temp, stage, out, mode, job, pipe>>
      /\ TypeInv /\ ControlInv /\ CopyInv /\ RemoveInv /\ ExtractInv
      /\ temp = NoTemp /\ PipeAt' /\ job.op \in {"copy", "move"}
      /\ ~job.staged /\ job.state = "RUNNING" /\ ~worker.err /\ job.one = Folder
  BY NoTempYet, PipeApart DEF IInv, CopyDir, At, ControlInv, CopyOrMove, Extracts, Ended,
     TypeInv, JobType, States, Open
<1>1. CASE Fail /\ UNCHANGED dst
  BY <1>0, <1>1, FailKeeps, NoTempIs DEF Extracts
<1>2. CASE /\ dst' = [dst EXCEPT !.on = TRUE]
           /\ worker' = [worker EXCEPT !.pc = "pick", !.todo = Here]
  <2>1. worker' \in WorkerType /\ worker'.pc = "pick" /\ worker'.todo = Here /\ ~worker'.err
    BY <1>0, <1>2, PointsAre DEF TypeInv, WorkerType, Here
  <2>2. dst' \in DstType /\ dst'.on /\ dst'.file = dst.file
    BY <1>0, <1>2 DEF TypeInv, DstType
  <2>3. TypeInv'
    BY <1>0, <2>1, <2>2 DEF TypeInv
  <2>4. ControlInv'
    BY <1>0, <2>1 DEF ControlInv, At, CopyOrMove, Copying, Extracts, Ended
  <2>5. CopyInv'
    BY <1>0, <2>1, <2>2 DEF CopyInv, Copying, At, Subject, Here
  <2>6. RemoveInv'
    BY <1>0, <2>1, <2>2 DEF RemoveInv, NothingLost, At
  <2>7. ExtractInv' /\ ModeInv' /\ DoneInv'
    BY <1>0, <2>1, ExtractApart DEF ModeInv, DoneInv, At
  <2>8. SingleInv' /\ LeftInv'
    BY <1>0, <2>1, SingleApart, CleanApart
  <2>9. QED
    BY <1>0, <2>3, <2>4, <2>5, <2>6, <2>7, <2>8 DEF IInv
<1>3. QED
  BY <1>1, <1>2 DEF CopyDir

LEMMA PickKeeps == ASSUME IInv, Pick PROVE IInv'
<1>0. /\ worker.pc = "pick" /\ UNCHANGED <<src, dst, temp, stage, out, mode, job, pipe>>
      /\ TypeInv /\ ControlInv /\ CopyInv /\ RemoveInv /\ ExtractInv
      /\ temp = NoTemp /\ PipeAt' /\ job.op \in {"copy", "move"}
      /\ ~job.staged /\ job.state = "RUNNING" /\ ~worker.err
  BY NoTempYet, PipeApart DEF IInv, Pick, At, ControlInv, CopyOrMove, Extracts, Ended,
     TypeInv, JobType, States, Open
<1>1. CASE Fail
  BY <1>0, <1>1, FailKeeps, NoTempIs DEF Extracts
<1>2. CASE worker.todo # {} /\ ~Fail
  <2>1. PICK f \in worker.todo : worker' = [worker EXCEPT !.pc = "open", !.file = f]
    BY <1>2 DEF Pick, AfterCopy
  <2>2. /\ worker' \in WorkerType /\ worker'.pc = "open" /\ worker'.file = f
        /\ worker'.todo = worker.todo /\ ~worker'.err
    BY <1>0, <2>1, PointsAre DEF TypeInv, WorkerType
  <2>3. CopyInv'
    BY <1>0, <2>1, <2>2 DEF CopyInv, Copying, At, Subject, Here
  <2>4. QED
    BY <1>0, <2>2, <2>3, CopyingKeeps DEF Copying, TypeInv
<1>3. CASE worker.todo = {} /\ ~Fail
  <2>1. PICK p \in {"checkrm", "settle"} :
          /\ worker' = [worker EXCEPT !.pc = p, !.file = Folder]
          /\ p = "checkrm" <=> job.op = "move"
    BY <1>3 DEF Pick, AfterCopy
  <2>2. worker' \in WorkerType /\ worker'.pc = p /\ ~worker'.err
    BY <1>0, <2>1, PointsAre DEF TypeInv, WorkerType
  <2>3. \A f \in Subject : dst.file[f] = "whole"
    BY <1>0, <1>3 DEF CopyInv
  <2>4. TypeInv'
    BY <1>0, <2>2 DEF TypeInv
  <2>5. ControlInv'
    BY <1>0, <2>1, <2>2 DEF ControlInv, At, CopyOrMove, Copying, Extracts, Ended
  <2>6. CopyInv'
    BY <1>0, <2>2, CopyApart DEF Copying
  <2>7. RemoveInv'
    BY <1>0, <2>2, <2>3 DEF RemoveInv, NothingLost, At, Subject, Here
  <2>8. ExtractInv'
    BY <1>0, <2>2, ExtractApart
  <2>9. ModeInv' /\ DoneInv'
    BY <1>0, <2>1, <2>2, <2>3 DEF ModeInv, DoneInv, At, Achieved, Subject, Here
  <2>10. SingleInv' /\ LeftInv'
    BY <1>0, <2>2, SingleApart, CleanApart
  <2>11. QED
    BY <1>0, <2>4, <2>5, <2>6, <2>7, <2>8, <2>9, <2>10 DEF IInv
<1>4. QED
  BY <1>1, <1>2, <1>3

LEMMA OpenTempKeeps == ASSUME IInv, OpenTemp PROVE IInv'
<1>0. /\ worker.pc = "open" /\ UNCHANGED <<src, dst, stage, out, mode, job, pipe>>
      /\ TypeInv /\ ControlInv /\ CopyInv /\ temp = NoTemp /\ PipeAt' /\ ~worker.err
  BY NoTempYet, PipeApart DEF IInv, OpenTemp, At, ControlInv
<1>1. CASE Fail /\ UNCHANGED temp
  BY <1>0, <1>1, FailKeeps, NoTempIs DEF Extracts
<1>2. CASE temp' = [NoTemp EXCEPT !.file = worker.file] /\ (Goto("pipe") \/ Goto("write"))
  <2>1. /\ worker' \in WorkerType /\ worker'.pc \in {"pipe", "write"} /\ ~worker'.err
        /\ worker'.todo = worker.todo /\ worker'.file = worker.file
    BY <1>0, <1>2, GotoIs, PointsAre
  <2>2. temp' \in TempType /\ ~temp'.stuck
    BY <1>0, <1>2 DEF TypeInv, TempType, WorkerType, NoTemp
  <2>3. CopyInv'
    BY <1>0, <2>1 DEF CopyInv, Copying, At, Subject, Here
  <2>4. QED
    BY <1>0, <2>1, <2>2, <2>3, CopyingKeeps DEF Copying, TypeInv
<1>3. QED
  BY <1>1, <1>2 DEF OpenTemp

LEMMA WriteKept == ASSUME IInv, Write PROVE IInv'
<1>0. /\ worker.pc = "write" /\ UNCHANGED <<src, dst, stage, out, mode, job, pipe>>
      /\ TypeInv /\ ControlInv /\ CopyInv /\ PipeAt' /\ ~worker.err /\ ~temp.stuck
  BY PipeApart, NotStuck DEF IInv, Write, At, ControlInv
<1>1. CASE Fail /\ temp' \in Discarded
  BY <1>0, <1>1, FailKeeps, DiscardedIs DEF Extracts
<1>2. CASE temp' = [temp EXCEPT !.whole = TRUE] /\ Goto("publish")
  <2>1. /\ worker' \in WorkerType /\ worker'.pc = "publish" /\ ~worker'.err
        /\ worker'.todo = worker.todo /\ worker'.file = worker.file
    BY <1>0, <1>2, GotoIs, PointsAre
  <2>2. temp' \in TempType /\ temp'.whole /\ ~temp'.stuck
    BY <1>0, <1>2 DEF TypeInv, TempType
  <2>3. CopyInv'
    BY <1>0, <2>1, <2>2 DEF CopyInv, Copying, At, Subject, Here
  <2>4. QED
    BY <1>0, <2>1, <2>2, <2>3, CopyingKeeps DEF Copying, TypeInv
<1>3. QED
  BY <1>1, <1>2 DEF Write

(* The private file becomes the file of the destination.                   *)
LEMMA NamedIs ==
  ASSUME TypeInv, CopyInv, Named, worker.pc \in {"publish", "rename"}
  PROVE  /\ dst' \in DstType /\ dst'.on /\ worker.file \in Files
         /\ \A f \in Files : dst'.file[f] = IF f = worker.file THEN "whole" ELSE dst.file[f]
<1>1. worker.file \in Files /\ Content = "whole"
  BY DEF CopyInv, Copying, TypeInv, WorkerType, Content
<1>2. dst' = [dst EXCEPT !.file[worker.file] = "whole", !.on = TRUE]
  BY <1>1 DEF Named
<1>3. QED
  BY <1>1, <1>2 DEF TypeInv, DstType

LEMMA CopiedIs ==
  ASSUME TypeInv, Copied
  PROVE  /\ worker' \in WorkerType /\ worker'.pc = "pick" /\ worker'.err = worker.err
         /\ worker'.todo = worker.todo \ {worker.file}
BY PointsAre DEF TypeInv, WorkerType, Copied

(* A published file is not copied again.                                   *)
LEMMA CopiedKeeps ==
  ASSUME IInv, worker.pc \in {"publish", "unlink", "rename"}, Copied, temp' = NoTemp,
         UNCHANGED <<src, stage, out, mode, job, pipe>>, dst' \in DstType, dst'.on,
         \A f \in Files : dst'.file[f] = IF f = worker.file THEN "whole" ELSE dst.file[f]
  PROVE  IInv'
<1>0. /\ TypeInv /\ ControlInv /\ CopyInv /\ PipeAt' /\ ~worker.err
  BY PipeApart DEF IInv, At, ControlInv
<1>1. /\ worker' \in WorkerType /\ worker'.pc = "pick" /\ ~worker'.err
      /\ worker'.todo = worker.todo \ {worker.file}
  BY <1>0, CopiedIs
<1>2. CopyInv'
  BY <1>0, <1>1 DEF CopyInv, Copying, At, Subject, Here
<1>3. QED
  BY <1>0, <1>1, <1>2, CopyingKeeps, NoTempIs DEF Copying

LEMMA PublishKeeps == ASSUME IInv, Publish PROVE IInv'
<1>0. /\ worker.pc = "publish" /\ UNCHANGED <<src, stage, out, mode, job, pipe>>
      /\ TypeInv /\ ControlInv /\ CopyInv /\ PipeAt' /\ ~worker.err /\ ~temp.stuck
  BY PipeApart, NotStuck DEF IInv, Publish, At, ControlInv
<1>1. CASE Fail /\ temp' \in Discarded /\ UNCHANGED dst
  BY <1>0, <1>1, FailKeeps, DiscardedIs DEF Extracts
<1>2. CASE Named /\ temp' = NoTemp /\ Copied
  BY <1>0, <1>2, NamedIs, CopiedKeeps
<1>3. CASE Named /\ Goto("unlink") /\ UNCHANGED temp
  <2>1. /\ worker' \in WorkerType /\ worker'.pc = "unlink" /\ ~worker'.err
        /\ worker'.todo = worker.todo /\ worker'.file = worker.file
    BY <1>0, <1>3, GotoIs, PointsAre
  <2>2. /\ dst' \in DstType /\ dst'.on /\ worker.file \in Files
        /\ \A f \in Files : dst'.file[f] = IF f = worker.file THEN "whole" ELSE dst.file[f]
    BY <1>0, <1>3, NamedIs
  <2>3. CopyInv'
    BY <1>0, <1>3, <2>1, <2>2 DEF CopyInv, Copying, At, Subject, Here
  <2>4. QED
    BY <1>0, <1>3, <2>1, <2>2, <2>3, CopyingKeeps DEF Copying, TypeInv
<1>4. CASE /\ dst.file[worker.file] = "absent" /\ UNCHANGED <<temp, dst>>
           /\ worker' = [worker EXCEPT !.pc = "rename", !.late = FALSE]
  <2>1. /\ worker' \in WorkerType /\ worker'.pc = "rename" /\ ~worker'.err
        /\ worker'.todo = worker.todo /\ worker'.file = worker.file
    BY <1>0, <1>4, PointsAre DEF TypeInv, WorkerType
  <2>2. CopyInv'
    BY <1>0, <1>4, <2>1 DEF CopyInv, Copying, At, Subject, Here
  <2>3. QED
    BY <1>0, <1>4, <2>1, <2>2, CopyingKeeps DEF Copying, TypeInv
<1>5. QED
  BY <1>1, <1>2, <1>3, <1>4 DEF Publish

LEMMA UnlinkTempKeeps == ASSUME IInv, UnlinkTemp PROVE IInv'
<1>0. /\ worker.pc = "unlink" /\ UNCHANGED <<src, dst, stage, out, mode, job, pipe>>
      /\ TypeInv /\ ControlInv /\ CopyInv /\ PipeAt' /\ ~worker.err
  BY PipeApart DEF IInv, UnlinkTemp, At, ControlInv
<1>1. CASE Fail /\ temp' \in Discarded
  BY <1>0, <1>1, FailKeeps, DiscardedIs DEF Extracts
<1>2. CASE Copied /\ temp' = NoTemp
  <2>1. dst.file[worker.file] = "whole" /\ worker.file \in Files
    BY <1>0 DEF CopyInv, Copying, At, TypeInv, WorkerType
  <2>2. dst' \in DstType /\ dst'.on
    BY <1>0, <2>1 DEF CopyInv, TypeInv
  <2>3. QED
    BY <1>0, <1>2, <2>1, <2>2, CopiedKeeps
<1>3. QED
  BY <1>1, <1>2 DEF UnlinkTemp

LEMMA RenameTempKeeps == ASSUME IInv, RenameTemp PROVE IInv'
<1>0. /\ worker.pc = "rename" /\ UNCHANGED <<src, stage, out, mode, job, pipe>>
      /\ TypeInv /\ ControlInv /\ CopyInv /\ PipeAt' /\ ~worker.err
  BY PipeApart DEF IInv, RenameTemp, At, ControlInv
<1>1. CASE Fail /\ temp' \in Discarded /\ UNCHANGED dst
  BY <1>0, <1>1, FailKeeps, DiscardedIs DEF Extracts
<1>2. CASE Named /\ temp' = NoTemp /\ Copied
  BY <1>0, <1>2, NamedIs, CopiedKeeps
<1>3. QED
  BY <1>1, <1>2 DEF RenameTemp

(* The rest of the invariant knows nothing of the ring.                    *)
LEMMA OnlyPipe ==
  ASSUME IInv, UNCHANGED <<src, dst, temp, stage, out, mode, job, worker>>, PipeAt'
  PROVE  IInv'
<1>1. TypeInv' /\ ControlInv'
  BY DEF IInv, TypeInv, ControlInv, At
<1>2. CopyInv' /\ SingleInv'
  BY DEF IInv, CopyInv, SingleInv, At, Subject, Here
<1>3. RemoveInv' /\ ModeInv'
  BY DEF IInv, RemoveInv, NothingLost, ModeInv, At, Subject, Here
<1>4. ExtractInv' /\ LeftInv'
  BY DEF IInv, ExtractInv, LeftInv, Wrong, At, Seen
<1>5. DoneInv'
  BY DEF IInv, DoneInv, Achieved, At, Subject, Here
<1>6. QED
  BY <1>1, <1>2, <1>3, <1>4, <1>5 DEF IInv

(* The two threads of a large copy.                                        *)
LEMMA ThreadKeeps ==
  ASSUME IInv, Beside, UNCHANGED <<temp, worker>>,
         \/ Pipe!Begin /\ At("pipe")
         \/ Pipe!ReaderLook \/ Pipe!Read \/ Pipe!Post
         \/ Pipe!WriterLook \/ Pipe!Write \/ Pipe!Drop \/ Pipe!Finish \/ Pipe!Stop \/ Pipe!Join
  PROVE  IInv'
<1>1. PipeInv'
  BY ThreadsKeep DEF Beside, IInv, PipeAt
<1>2. At("pipe")
  BY DEF IInv, PipeAt, PipeInv, WriterInv, Pipe!ReaderLook, Pipe!Read, Pipe!Post,
     Pipe!WriterLook, Pipe!Write, Pipe!Drop, Pipe!Finish, Pipe!Stop, Pipe!Join,
     Pipe!Reader, Pipe!Writer
<1>3. PipeAt'
  BY <1>1, <1>2 DEF PipeAt, At
<1>4. QED
  BY <1>3, OnlyPipe DEF Beside

LEMMA PipeBeginKeeps == ASSUME IInv, PipeBegin PROVE IInv'
<1>1. CASE Pipe!Begin /\ UNCHANGED <<temp, worker>>
  BY <1>1, ThreadKeeps DEF PipeBegin
<1>2. CASE Pipe!Off /\ Fail /\ temp' \in Discarded /\ UNCHANGED pipe
  <2>1. Pipe!Off'
    BY <1>2 DEF Pipe!Off, pipe
  <2>2. PipeAt'
    <3>1. PipeInv'
      BY <2>1, OffIsSound, PTL
    <3>2. QED
      BY <2>1, <3>1 DEF PipeAt, Pipe!Off, Pipe!NoWriter
  <2>3. QED
    BY <1>2, <2>2, FailKeeps, DiscardedIs DEF IInv, PipeBegin, Beside, At, Extracts
<1>3. QED
  BY <1>1, <1>2 DEF PipeBegin

LEMMA PipeEndKeeps == ASSUME IInv, PipeEnd PROVE IInv'
<1>0. /\ worker.pc = "pipe" /\ UNCHANGED <<src, dst, stage, out, mode, job>>
      /\ TypeInv /\ ControlInv /\ CopyInv /\ ~worker.err /\ ~temp.stuck
  BY NotStuck DEF IInv, PipeEnd, Pipe!End, Beside, PipeAt, At, ControlInv
<1>1. Pipe!Reset
  BY DEF PipeEnd, Pipe!End
<1>2. PipeAt'
  BY <1>1, ResetIsSound DEF PipeAt, Pipe!Reset, Pipe!NoWriter
<1>3. CASE Fail /\ temp' \in Discarded
  BY <1>0, <1>2, <1>3, FailKeeps, DiscardedIs DEF Extracts
<1>4. CASE writer.pc = "ok" /\ temp' = [temp EXCEPT !.whole = (sink = Pipe!Whole)] /\ Goto("publish")
  <2>1. /\ worker' \in WorkerType /\ worker'.pc = "publish" /\ ~worker'.err
        /\ worker'.todo = worker.todo /\ worker'.file = worker.file
    BY <1>0, <1>4, GotoIs, PointsAre
  <2>2. sink = Pipe!Whole
    BY <1>4, SoundPipe DEF IInv, PipeAt
  <2>3. temp' \in TempType /\ temp'.whole /\ ~temp'.stuck
    BY <1>0, <1>4, <2>2 DEF TypeInv, TempType
  <2>4. CopyInv'
    BY <1>0, <2>1, <2>3 DEF CopyInv, Copying, At, Subject, Here
  <2>5. QED
    BY <1>0, <1>2, <2>1, <2>3, <2>4, CopyingKeeps DEF Copying, TypeInv
<1>5. QED
  BY <1>3, <1>4 DEF PipeEnd

LEMMA CheckRemovableKeeps == ASSUME IInv, CheckRemovable PROVE IInv'
<1>0. /\ worker.pc = "checkrm" /\ UNCHANGED <<src, dst, temp, stage, out, mode, job, pipe>>
      /\ TypeInv /\ ControlInv /\ CopyInv /\ RemoveInv /\ ExtractInv
      /\ temp = NoTemp /\ PipeAt' /\ job.op = "move" /\ ~job.staged /\ job.state = "RUNNING"
      /\ ~worker.err
  BY NoTempYet, PipeApart DEF IInv, CheckRemovable, At, ControlInv, Extracts, Ended,
     TypeInv, JobType, States, Open
<1>1. CASE Fail
  BY <1>0, <1>1, FailKeeps, NoTempIs DEF Extracts
<1>2. CASE worker' = [worker EXCEPT !.pc = "remove", !.todo = Subject]
  <2>1. worker' \in WorkerType /\ worker'.pc = "remove" /\ worker'.todo = Subject /\ ~worker'.err
    BY <1>0, <1>2, PointsAre DEF TypeInv, WorkerType, Subject, Here
  <2>2. TypeInv'
    BY <1>0, <2>1 DEF TypeInv
  <2>3. ControlInv'
    BY <1>0, <2>1 DEF ControlInv, At, CopyOrMove, Copying, Extracts, Ended
  <2>4. CopyInv'
    BY <1>0, <2>1, CopyApart DEF Copying
  <2>5. RemoveInv'
    BY <1>0, <2>1 DEF RemoveInv, NothingLost, At, Subject, Here
  <2>6. ExtractInv' /\ ModeInv' /\ DoneInv'
    BY <1>0, <2>1, ExtractApart DEF ModeInv, DoneInv, At
  <2>7. SingleInv' /\ LeftInv'
    BY <1>0, <2>1, SingleApart, CleanApart
  <2>8. QED
    BY <1>0, <2>2, <2>3, <2>4, <2>5, <2>6, <2>7 DEF IInv
<1>3. QED
  BY <1>1, <1>2 DEF CheckRemovable

LEMMA RemoveKeeps == ASSUME IInv, Remove PROVE IInv'
<1>0. /\ worker.pc = "remove" /\ UNCHANGED <<dst, temp, stage, out, mode, job, pipe>>
      /\ TypeInv /\ ControlInv /\ CopyInv /\ RemoveInv /\ ExtractInv
      /\ temp = NoTemp /\ PipeAt' /\ ~job.staged /\ job.state = "RUNNING"
      /\ job.op \in {"move", "delete"} /\ ~worker.err /\ worker.todo = Subject
  BY NoTempYet, PipeApart DEF IInv, Remove, At, ControlInv, Extracts, Ended, RemoveInv,
     TypeInv, JobType, States, Open
<1>1. CASE Fail /\ UNCHANGED src
  BY <1>0, <1>1, FailKeeps, NoTempIs DEF Extracts
<1>2. ASSUME NEW f \in worker.todo, src' = [src EXCEPT !.file[f] = Gone],
             worker' = [worker EXCEPT !.todo = @ \ {f}]
      PROVE  IInv'
  <2>1. /\ f \in Files /\ f \in Here /\ f \in Subject /\ Gone \in {"moved", "alone", "deleted"}
        /\ Gone = "deleted" <=> job.op = "delete"
        /\ Gone = "moved" => job.one = Folder
    BY <1>0, <1>2 DEF Here, Subject, Gone
  <2>2. /\ worker' \in WorkerType /\ worker'.pc = "remove" /\ worker'.todo = Subject \ {f}
        /\ ~worker'.err
    BY <1>0, <1>2 DEF TypeInv, WorkerType
  <2>3. /\ src' \in SrcType
        /\ \A g \in Files : src'.file[g] = IF g = f THEN Gone ELSE src.file[g]
    BY <1>0, <1>2, <2>1 DEF TypeInv, SrcType
  <2>4. Subject' = Subject \ {f}
    BY <1>0, <2>1, <2>3 DEF Subject, Here
  <2>5. TypeInv'
    BY <1>0, <2>2, <2>3 DEF TypeInv
  <2>6. ControlInv'
    BY <1>0, <2>2 DEF ControlInv, At, CopyOrMove, Copying, Extracts, Ended
  <2>7. CopyInv'
    BY <1>0, <2>2 DEF CopyInv, Copying, At
  <2>8. NothingLost'
    <3>0. src.file[f] = "here" /\ NothingLost
      BY <1>0, <2>1 DEF Here, RemoveInv
    <3>1. CASE Gone = "deleted"
      BY <1>0, <2>1, <2>3, <3>0, <3>1 DEF NothingLost
    <3>2. CASE Gone = "alone"
      <4>1. dst.file[f] = "whole"
        BY <1>0, <2>1, <3>2 DEF RemoveInv, At
      <4>2. QED
        BY <1>0, <2>1, <2>3, <3>0, <3>2, <4>1 DEF NothingLost
    <3>3. CASE Gone = "moved"
      <4>1. \A g \in Files : src.file[g] \in {"here", "moved", "alone", "deleted"}
        BY <1>0 DEF TypeInv, SrcType
      <4>2. \A g \in Files : src.file[g] = "here" => dst.file[g] = "whole"
        BY <1>0, <2>1, <3>3 DEF RemoveInv, At, Subject, Here
      <4>3. \A g \in Files : src.file[g] # "deleted" => dst.file[g] = "whole"
        BY <3>0, <4>1, <4>2 DEF NothingLost
      <4>4. \A g \in Files : src'.file[g] # "deleted" => dst'.file[g] = "whole"
        BY <1>0, <2>3, <3>0, <4>3
      <4>5. \A g \in Files : src'.file[g] = "alone" => src'.file[g] # "deleted"
        OBVIOUS
      <4>6. QED
        BY <4>4, <4>5 DEF NothingLost
    <3>4. QED
      BY <2>1, <3>1, <3>2, <3>3
  <2>9. RemoveInv'
    BY <1>0, <2>2, <2>4, <2>8 DEF RemoveInv, At
  <2>10. ExtractInv' /\ ModeInv' /\ DoneInv'
    BY <1>0, <2>2, ExtractApart DEF ModeInv, DoneInv, At
  <2>11. SingleInv' /\ LeftInv'
    BY <1>0, <2>2, SingleApart, CleanApart
  <2>12. QED
    BY <1>0, <2>5, <2>6, <2>7, <2>9, <2>10, <2>11 DEF IInv
<1>3. CASE worker.todo = {} /\ src' = [src EXCEPT !.on = (job.one # Folder)] /\ Goto("settle")
  <2>1. /\ worker' \in WorkerType /\ worker'.pc = "settle" /\ ~worker'.err
    BY <1>0, <1>3, GotoIs, PointsAre
  <2>2. /\ src' \in SrcType /\ src'.file = src.file /\ Subject' = {}
        /\ job.one = Folder => ~src'.on
    BY <1>0, <1>3 DEF TypeInv, SrcType, Subject, Here
  <2>3. TypeInv'
    BY <1>0, <2>1, <2>2 DEF TypeInv
  <2>4. ControlInv'
    BY <1>0, <2>1 DEF ControlInv, At, CopyOrMove, Copying, Extracts, Ended
  <2>5. CopyInv'
    BY <1>0, <2>1 DEF CopyInv, Copying, At
  <2>6. RemoveInv'
    BY <1>0, <2>1, <2>2 DEF RemoveInv, NothingLost, At
  <2>7. ExtractInv'
    BY <1>0, <2>1, ExtractApart
  <2>8. ModeInv' /\ DoneInv'
    BY <1>0, <2>1, <2>2 DEF ModeInv, DoneInv, At, Achieved
  <2>9. SingleInv' /\ LeftInv'
    BY <1>0, <2>1, SingleApart, CleanApart
  <2>10. QED
    BY <1>0, <2>3, <2>4, <2>5, <2>6, <2>7, <2>8, <2>9 DEF IInv
<1>4. QED
  BY <1>1, <1>2, <1>3 DEF Remove

LEMMA ChmodKeeps == ASSUME IInv, Chmod PROVE IInv'
<1>0. /\ worker.pc = "chmod" /\ UNCHANGED <<src, dst, temp, stage, out, job, pipe>>
      /\ TypeInv /\ ControlInv /\ CopyInv /\ RemoveInv /\ ExtractInv /\ ModeInv
      /\ temp = NoTemp /\ PipeAt' /\ ~job.staged /\ job.state = "RUNNING"
      /\ job.op = "chmod" /\ ~worker.err /\ Here \subseteq mode \union worker.todo
  BY NoTempYet, PipeApart DEF IInv, Chmod, At, ControlInv, Extracts, Ended, ModeInv,
     TypeInv, JobType, States, Open
<1>1. CASE Fail /\ UNCHANGED mode
  BY <1>0, <1>1, FailKeeps, NoTempIs DEF Extracts
<1>2. ASSUME worker' \in WorkerType, worker'.pc \in {"chmod", "settle"}, ~worker'.err,
             mode' \subseteq Files \union {Folder}, ModeInv', DoneInv'
      PROVE  IInv'
  <2>1. TypeInv'
    BY <1>0, <1>2 DEF TypeInv
  <2>2. ControlInv'
    BY <1>0, <1>2 DEF ControlInv, At, CopyOrMove, Copying, Extracts, Ended
  <2>3. CopyInv'
    BY <1>0, <1>2, CopyApart DEF Copying
  <2>4. RemoveInv' /\ ExtractInv'
    BY <1>0, <1>2, RemoveApart, ExtractApart
  <2>5. SingleInv' /\ LeftInv'
    BY <1>0, <1>2, SingleApart, CleanApart
  <2>6. QED
    BY <1>0, <1>2, <2>1, <2>2, <2>3, <2>4, <2>5 DEF IInv
<1>3. ASSUME NEW f \in worker.todo, mode' = mode \union {f},
             worker' = [worker EXCEPT !.todo = @ \ {f}]
      PROVE  IInv'
  <2>1. /\ worker' \in WorkerType /\ worker'.pc = "chmod" /\ worker'.todo = worker.todo \ {f}
        /\ ~worker'.err
    BY <1>0, <1>3 DEF TypeInv, WorkerType
  <2>2. mode' \subseteq Files \union {Folder}
    BY <1>0, <1>3 DEF TypeInv, WorkerType
  <2>3. ModeInv' /\ DoneInv'
    BY <1>0, <1>3, <2>1 DEF ModeInv, DoneInv, At, Here
  <2>4. QED
    BY <1>2, <2>1, <2>2, <2>3
<1>4. CASE worker.todo = {} /\ mode' = mode \union {Folder} /\ Goto("settle")
  <2>1. /\ worker' \in WorkerType /\ worker'.pc = "settle" /\ ~worker'.err
    BY <1>0, <1>4, GotoIs, PointsAre
  <2>2. mode' \subseteq Files \union {Folder}
    BY <1>0, <1>4 DEF TypeInv
  <2>3. ModeInv' /\ DoneInv'
    BY <1>0, <1>4, <2>1 DEF ModeInv, DoneInv, At, Achieved, Here
  <2>4. QED
    BY <1>2, <2>1, <2>2, <2>3
<1>5. QED
  BY <1>1, <1>3, <1>4 DEF Chmod

(* An extraction touches neither folder.                                   *)
LEMMA ExtractingKeeps ==
  ASSUME IInv, worker.pc \in Extracts,
         worker' \in WorkerType, worker'.pc \in (Extracts \ {"stage"}) \union {"settle"},
         worker'.err => worker'.pc \in {"unstage", "settle"},
         job' \in JobType, job'.op = job.op, job'.state = job.state, job'.one = job.one,
         stage' \in StageType, out' \in {"absent", "whole", "broken", "taken"},
         worker'.pc = "settle" => \/ worker'.err /\ ~job'.staged
                                  \/ stage'.on => stage'.stuck /\ worker'.err,
         UNCHANGED <<src, dst, temp, mode, pipe>>, ExtractInv', DoneInv'
  PROVE  IInv'
<1>0. /\ TypeInv /\ ControlInv /\ CopyInv /\ RemoveInv /\ temp = NoTemp /\ PipeAt'
      /\ job.op = "extract" /\ job.state = "RUNNING"
  BY NoTempYet, PipeApart DEF IInv, ControlInv, Extracts, At, TypeInv, JobType, States, Open, Ended
<1>1. TypeInv'
  BY <1>0 DEF TypeInv
<1>2. ControlInv'
  BY <1>0 DEF ControlInv, At, CopyOrMove, Copying, Extracts, Ended
<1>3. CopyInv'
  BY <1>0, CopyApart DEF Copying, Extracts
<1>4. RemoveInv'
  BY <1>0, RemoveApart DEF Extracts
<1>5. ModeInv'
  BY <1>0 DEF ModeInv
<1>6. SingleInv' /\ LeftInv'
  BY <1>0, SingleApart, NoTempIs DEF Extracts, LeftInv, Wrong, At
<1>7. QED
  BY <1>0, <1>1, <1>2, <1>3, <1>4, <1>5, <1>6 DEF IInv

LEMMA StageKeeps == ASSUME IInv, Stage PROVE IInv'
<1>0. /\ worker.pc = "stage" /\ UNCHANGED <<src, dst, temp, out, mode, pipe>>
      /\ TypeInv /\ ControlInv /\ ExtractInv /\ ~worker.err /\ ~job.staged
      /\ job.state = "RUNNING"
  BY DEF IInv, Stage, At, ControlInv, Extracts, TypeInv, JobType, States, Open, Ended
<1>1. CASE /\ stage' = [NoStage EXCEPT !.on = TRUE] /\ Goto("decode")
           /\ job' = [job EXCEPT !.staged = TRUE]
  <2>1. worker' \in WorkerType /\ worker'.pc = "decode" /\ ~worker'.err
    BY <1>0, <1>1, GotoIs, PointsAre
  <2>2. /\ job' \in JobType /\ job'.op = job.op /\ job'.state = job.state /\ job'.one = job.one
        /\ stage' \in StageType
    BY <1>0, <1>1 DEF TypeInv, JobType, StageType, NoStage
  <2>3. ExtractInv' /\ DoneInv'
    BY <1>0, <2>1, <2>2 DEF ExtractInv, DoneInv, At
  <2>4. QED
    BY <1>0, <2>1, <2>2, <2>3, ExtractingKeeps DEF Extracts, TypeInv
<1>2. CASE Fail /\ stage' \in Removed \union {stage} /\ UNCHANGED job
  <2>1. worker' \in WorkerType /\ worker'.pc = "settle" /\ worker'.err
    BY <1>0, <1>2, FailIs
  <2>2. stage' \in StageType
    BY <1>0, <1>2, RemovedIs DEF TypeInv
  <2>3. ExtractInv' /\ DoneInv'
    BY <1>0, <1>2, <2>1 DEF ExtractInv, DoneInv, At
  <2>4. QED
    BY <1>0, <1>2, <2>1, <2>2, <2>3, ExtractingKeeps DEF Extracts, TypeInv
<1>3. QED
  BY <1>1, <1>2 DEF Stage

LEMMA DecodeKeeps == ASSUME IInv, Decode PROVE IInv'
<1>0. /\ worker.pc = "decode" /\ UNCHANGED <<src, dst, temp, out, mode, job, pipe>>
      /\ TypeInv /\ ControlInv /\ ExtractInv /\ ~worker.err /\ job.state = "RUNNING"
  BY DEF IInv, Decode, At, ControlInv, Extracts, TypeInv, JobType, States, Open, Ended
<1>1. CASE \E f \in Files, bad \in SUBSET Entries :
             stage' = [stage EXCEPT !.got = @ \union {f}, !.bad = @ \union bad] /\ UNCHANGED worker
  <2>1. stage' \in StageType
    <3>1. PICK f \in Files, bad \in SUBSET Entries :
            stage' = [stage EXCEPT !.got = stage.got \union {f}, !.bad = stage.bad \union bad]
      BY <1>1
    <3>2. QED
      BY <1>0, <3>1 DEF TypeInv, StageType
  <2>2. ExtractInv' /\ DoneInv'
    BY <1>0, <1>1 DEF ExtractInv, DoneInv, At
  <2>3. QED
    BY <1>0, <1>1, <2>1, <2>2, ExtractingKeeps DEF Extracts, TypeInv
<1>2. CASE stage.got = Files /\ Goto("gate") /\ UNCHANGED stage
  <2>1. worker' \in WorkerType /\ worker'.pc = "gate" /\ ~worker'.err
    BY <1>0, <1>2, GotoIs, PointsAre
  <2>2. ExtractInv' /\ DoneInv'
    BY <1>0, <1>2, <2>1 DEF ExtractInv, DoneInv, At
  <2>3. QED
    BY <1>0, <1>2, <2>1, <2>2, ExtractingKeeps DEF Extracts, TypeInv
<1>3. CASE Unpublished /\ UNCHANGED stage
  BY <1>0, <1>3, UnpublishedKeeps
<1>4. QED
  BY <1>1, <1>2, <1>3 DEF Decode

LEMMA GateKeeps == ASSUME IInv, Gate PROVE IInv'
<1>0. /\ worker.pc = "gate" /\ UNCHANGED <<src, dst, temp, stage, out, mode, job, pipe>>
      /\ TypeInv /\ ControlInv /\ ExtractInv /\ ~worker.err /\ job.state = "RUNNING"
  BY DEF IInv, Gate, At, ControlInv, Extracts, TypeInv, JobType, States, Open, Ended
<1>1. ASSUME NEW p \in {"unstage", "move"}, Goto(p),
             p = "unstage" => Seen, p = "move" => stage.bad = {}
      PROVE  IInv'
  <2>1. worker' \in WorkerType /\ worker'.pc = p /\ ~worker'.err
    BY <1>0, <1>1, GotoIs, PointsAre
  <2>2. ExtractInv' /\ DoneInv'
    BY <1>0, <1>1, <2>1 DEF ExtractInv, DoneInv, At, Seen
  <2>3. QED
    BY <1>0, <2>1, <2>2, ExtractingKeeps DEF Extracts, TypeInv
<1>2. CASE Unpublished
  BY <1>0, <1>2, UnpublishedKeeps
<1>3. QED
  BY <1>1, <1>2 DEF Gate, Safe

LEMMA MoveStageKeeps == ASSUME IInv, MoveStage PROVE IInv'
<1>0. /\ worker.pc = "move" /\ UNCHANGED <<src, dst, temp, mode, job, pipe>>
      /\ TypeInv /\ ControlInv /\ ExtractInv /\ ~worker.err /\ job.state = "RUNNING"
      /\ stage.got = Files /\ stage.bad = {}
  BY DEF IInv, MoveStage, At, ControlInv, Extracts, TypeInv, JobType, States, Open, Ended, ExtractInv
<1>1. CASE out' = "whole" /\ stage' = NoStage /\ Goto("sync")
  <2>1. worker' \in WorkerType /\ worker'.pc = "sync" /\ ~worker'.err
    BY <1>0, <1>1, GotoIs, PointsAre
  <2>2. ExtractInv' /\ DoneInv'
    BY <1>0, <1>1, <2>1, NoStageIs DEF ExtractInv, DoneInv, At
  <2>3. QED
    BY <1>0, <1>1, <2>1, <2>2, NoStageIs, ExtractingKeeps DEF Extracts, TypeInv
<1>2. CASE Unpublished /\ UNCHANGED <<out, stage>>
  BY <1>0, <1>2, UnpublishedKeeps
<1>3. QED
  BY <1>0, <1>1, <1>2 DEF MoveStage

LEMMA SyncParentKeeps == ASSUME IInv, SyncParent PROVE IInv'
<1>0. /\ worker.pc = "sync" /\ UNCHANGED <<src, dst, temp, stage, out, mode, job, pipe>>
      /\ TypeInv /\ ControlInv /\ ExtractInv /\ ~worker.err /\ job.state = "RUNNING"
  BY DEF IInv, SyncParent, At, ControlInv, Extracts, TypeInv, JobType, States, Open, Ended
<1>1. CASE Goto("unstage")
  <2>1. worker' \in WorkerType /\ worker'.pc = "unstage" /\ ~worker'.err
    BY <1>0, <1>1, GotoIs, PointsAre
  <2>2. ExtractInv' /\ DoneInv'
    BY <1>0, <1>1, <2>1 DEF ExtractInv, DoneInv, At
  <2>3. QED
    BY <1>0, <1>1, <2>1, <2>2, ExtractingKeeps DEF Extracts, TypeInv
<1>2. CASE Unpublished
  BY <1>0, <1>2, UnpublishedKeeps
<1>3. QED
  BY <1>1, <1>2 DEF SyncParent

LEMMA UnstageKeeps == ASSUME IInv, Unstage PROVE IInv'
<1>0. /\ worker.pc = "unstage" /\ UNCHANGED <<src, dst, temp, out, mode, job, pipe>>
      /\ TypeInv /\ ControlInv /\ ExtractInv /\ job.state = "RUNNING" /\ job.op = "extract"
      /\ stage' \in Unstaged /\ worker' = [worker EXCEPT !.pc = "settle", !.err = @ \/ Seen]
  BY DEF IInv, Unstage, At, ControlInv, Extracts, TypeInv, JobType, States, Open, Ended
<1>1. /\ worker' \in WorkerType /\ worker'.pc = "settle" /\ worker'.err = (worker.err \/ Seen)
  BY <1>0, PointsAre DEF TypeInv, WorkerType, JobType, Seen
<1>2. stage' \in StageType /\ (stage'.on => stage'.stuck /\ worker'.err)
  <2>1. CASE worker.err \/ Seen
    <3>1. stage' \in Removed
      BY <1>0, <2>1 DEF Unstaged
    <3>2. stage' \in StageType /\ (stage' = NoStage \/ stage'.stuck)
      BY <1>0, <3>1, RemovedIs
    <3>3. QED
      BY <1>1, <2>1, <3>2, NoStageIs
  <2>2. CASE ~(worker.err \/ Seen)
    BY <1>0, <2>2 DEF Unstaged, TypeInv, ExtractInv, At
  <2>3. QED
    BY <2>1, <2>2
<1>3. ExtractInv'
  BY <1>0, <1>1, <1>2 DEF ExtractInv, At
<1>4. DoneInv'
  <2>1. ~worker'.err => out = "whole"
    BY <1>0, <1>1 DEF ExtractInv, At
  <2>2. QED
    BY <1>0, <1>1, <2>1 DEF DoneInv, Achieved, At
<1>5. QED
  BY <1>0, <1>1, <1>2, <1>3, <1>4, ExtractingKeeps DEF Extracts, TypeInv

LEMMA SettleKeeps == ASSUME IInv, Settle PROVE IInv'
<1>0. /\ worker.pc = "settle" /\ UNCHANGED <<src, dst, temp, stage, out, mode, pipe>>
      /\ TypeInv /\ ControlInv /\ CopyInv /\ RemoveInv /\ ExtractInv /\ LeftInv /\ PipeAt'
      /\ job.op # "none" /\ Outcome \in Ended /\ Outcome \in States
      /\ job.state \notin {"FAILED", "CANCELED"}
  BY PipeApart DEF IInv, Settle, At, ControlInv, Ended, Outcome, States
<1>1. /\ job' \in JobType /\ job'.state = Outcome /\ job'.op = job.op /\ job'.staged = job.staged
      /\ job'.one = job.one
      /\ worker' \in WorkerType /\ worker'.pc = "idle" /\ ~worker'.err
  BY <1>0, GiveIs DEF Settle
<1>2. TypeInv'
  BY <1>0, <1>1 DEF TypeInv
<1>3. ControlInv'
  BY <1>0, <1>1 DEF ControlInv, At, CopyOrMove, Copying, Extracts, Ended
<1>4. CopyInv'
  BY <1>0, <1>1, CopyApart DEF Copying
<1>5. RemoveInv' /\ ExtractInv'
  BY <1>0, <1>1, RemoveApart, ExtractApart
<1>6. ModeInv'
  BY <1>1 DEF ModeInv
<1>7. DoneInv'
  <2>1. job'.state = "DONE" => ~worker.err
    BY <1>1 DEF Outcome
  <2>2. ~worker.err => Achieved
    BY <1>0 DEF IInv, DoneInv, At
  <2>3. Achieved => Achieved'
    BY <1>0, <1>1 DEF Achieved, Subject, Here
  <2>4. QED
    BY <1>1, <2>1, <2>2, <2>3 DEF DoneInv, At
<1>8. SingleInv' /\ LeftInv'
  <2>1. worker.err => job'.state \in {"FAILED", "CANCELED"}
    BY <1>1 DEF Outcome
  <2>2. LeftInv'
    BY <1>0, <1>1, <2>1 DEF LeftInv, Wrong, At, Copying
  <2>3. QED
    BY <1>1, <2>2, SingleApart
<1>9. QED
  BY <1>0, <1>2, <1>3, <1>4, <1>5, <1>6, <1>7, <1>8 DEF IInv

LEMMA AskKeeps == ASSUME IInv, Ask PROVE IInv'
<1>0. /\ worker.pc = "idle" /\ UNCHANGED <<src, dst, temp, stage, out, pipe>>
      /\ TypeInv /\ CopyInv /\ RemoveInv /\ ExtractInv /\ PipeAt' /\ job.state = "NONE"
  BY PipeApart DEF IInv, Ask, At
<1>1. PICK op \in Ops, overwrite, near \in BOOLEAN, one \in Files \union {Folder} :
        /\ job' = [NoJob EXCEPT !.state = "QUEUED", !.op = op, !.one = one,
                                !.overwrite = overwrite, !.near = near]
        /\ one # Folder => op \in {"copy", "move"} /\ one \in Here
        /\ mode' \in {{}, mode}
  <2>1. Kinds \subseteq Ops
    BY FileJobsAssumption
  <2>2. PICK op \in Kinds, overwrite, near \in BOOLEAN, one \in Files \union {Folder} :
          /\ op = "extract" => out = "absent" /\ ~overwrite
          /\ op # "extract" => src.on
          /\ one = Folder /\ op \in {"copy", "move"} /\ dst.on => overwrite
          /\ one # Folder => /\ op \in {"copy", "move"} /\ dst.on /\ one \in Here
                             /\ dst.file[one] # "absent" => overwrite
          /\ op \in {"delete", "chmod"} => ~overwrite
          /\ op # "move" => ~near
          /\ job' = [NoJob EXCEPT !.state = "QUEUED", !.op = op, !.one = one,
                                  !.overwrite = overwrite, !.near = near]
          /\ mode' = IF op = "chmod" THEN {} ELSE mode
    BY Zenon DEF Ask
  <2>3. op \in Ops /\ mode' \in {{}, mode}
    BY <2>1, <2>2
  <2>4. QED
    BY <2>2, <2>3
<1>2. /\ job' \in JobType /\ job'.state = "QUEUED" /\ job'.op = op /\ ~job'.staged
      /\ job'.one = one
  BY <1>1 DEF JobType, NoJob, States, Open
<1>3. worker' \in WorkerType /\ worker'.pc = "start" /\ ~worker'.err
  BY IdleIs, PointsAre DEF Ask, WorkerType
<1>4. TypeInv'
  BY <1>0, <1>1, <1>2, <1>3 DEF TypeInv
<1>5. ControlInv'
  BY <1>1, <1>2, <1>3 DEF ControlInv, At, CopyOrMove, Copying, Extracts, Ended, Ops
<1>6. CopyInv'
  BY <1>0, <1>3, CopyApart DEF Copying
<1>7. RemoveInv' /\ ExtractInv'
  BY <1>0, <1>2, <1>3, RemoveApart, ExtractApart
<1>8. ModeInv' /\ DoneInv'
  BY <1>2, <1>3 DEF ModeInv, DoneInv, At
<1>9. temp = NoTemp
  BY <1>0 DEF IInv, LeftInv, Wrong, At, Copying
<1>10. LeftInv'
  BY <1>0, <1>2, <1>9, CleanApart
<1>11. SingleInv'
  BY <1>0, <1>1, <1>2, <1>3 DEF SingleInv, Here
<1>12. QED
  BY <1>0, <1>4, <1>5, <1>6, <1>7, <1>8, <1>10, <1>11 DEF IInv

LEMMA CancelIsKept == ASSUME IInv, Cancel PROVE IInv'
<1>0. /\ UNCHANGED <<src, dst, temp, stage, out, mode, worker, pipe>>
      /\ TypeInv /\ ControlInv /\ PipeAt /\ CopyInv /\ RemoveInv /\ ModeInv /\ ExtractInv /\ DoneInv
      /\ SingleInv /\ LeftInv
  BY DEF IInv, Cancel
<1>1. /\ job' \in JobType /\ job'.state = job.state /\ job'.op = job.op
      /\ job'.staged = job.staged /\ job'.cancel /\ job'.one = job.one
  BY <1>0 DEF Cancel, TypeInv, JobType
<1>2. TypeInv' /\ ControlInv'
  BY <1>0, <1>1 DEF TypeInv, ControlInv, At
<1>3. PipeAt'
  BY <1>0, <1>1, CancelKeeps DEF PipeAt, At, Seen, pipe
<1>4. CopyInv' /\ ModeInv' /\ SingleInv'
  BY <1>0, <1>1 DEF CopyInv, ModeInv, SingleInv, At, Subject, Here
<1>5. RemoveInv'
  BY <1>0, <1>1 DEF RemoveInv, NothingLost, At, Subject, Here
<1>6. ExtractInv' /\ LeftInv'
  BY <1>0, <1>1 DEF ExtractInv, LeftInv, Wrong, At, Seen
<1>7. DoneInv'
  BY <1>0, <1>1 DEF DoneInv, Achieved, At, Subject, Here
<1>8. QED
  BY <1>2, <1>3, <1>4, <1>5, <1>6, <1>7 DEF IInv

(* A job that is forgotten leaves nothing that the next could take for its *)
(* own.                                                                    *)
LEMMA AnewKeeps ==
  ASSUME IInv, job' = NoJob, worker' \in WorkerType, worker'.pc = "idle", ~worker'.err,
         temp' = NoTemp, stage' \in {stage, NoStage}, PipeAt', UNCHANGED <<src, dst, out, mode>>
  PROVE  IInv'
<1>0. TypeInv /\ CopyInv /\ RemoveInv /\ ExtractInv
  BY DEF IInv
<1>1. TypeInv'
  BY <1>0, NoJobIs, NoTempIs, NoStageIs DEF TypeInv
<1>2. ControlInv'
  BY NoJobIs DEF ControlInv, At, CopyOrMove, Copying, Extracts
<1>3. CopyInv'
  BY <1>0, CopyApart DEF Copying
<1>4. RemoveInv' /\ ExtractInv'
  BY <1>0, NoJobIs, RemoveApart DEF ExtractInv, At
<1>5. ModeInv' /\ DoneInv'
  BY NoJobIs DEF ModeInv, DoneInv, At
<1>6. SingleInv' /\ LeftInv'
  BY NoJobIs, SingleApart, CleanApart
<1>7. QED
  BY <1>1, <1>2, <1>3, <1>4, <1>5, <1>6 DEF IInv

LEMMA ForgetKeeps == ASSUME IInv, Forget PROVE IInv'
<1>1. worker.pc = "idle" /\ ~worker.err /\ worker \in WorkerType /\ PipeAt'
  BY PipeApart DEF IInv, ControlInv, Forget, At, TypeInv
<1>2. QED
  BY <1>1, AnewKeeps DEF Forget

LEMMA CrashKeeps == ASSUME IInv, Crash PROVE IInv'
<1>1. PipeAt'
  BY ResetIsSound DEF PipeAt, Pipe!Reset, Pipe!NoWriter, Crash
<1>2. QED
  BY <1>1, IdleIs, AnewKeeps DEF Crash

LEMMA PipeFrame ==
  ASSUME PipeAt, UNCHANGED pipe, worker'.pc = worker.pc, UNCHANGED job PROVE PipeAt'
<1>1. PipeInv'
  BY CancelKeeps DEF PipeAt, Seen
<1>2. writer' = writer
  BY DEF pipe
<1>3. QED
  BY <1>1, <1>2 DEF PipeAt, At

LEMMA TakeNameKeeps == ASSUME IInv, TakeName PROVE IInv'
<1>0. /\ UNCHANGED <<src, temp, stage, mode, job, pipe>>
      /\ TypeInv /\ ControlInv /\ PipeAt /\ CopyInv /\ RemoveInv /\ ModeInv /\ ExtractInv /\ DoneInv
      /\ SingleInv /\ LeftInv
  BY DEF IInv, TakeName
<1>1. /\ dst' \in DstType
      /\ dst.on => dst'.on
      /\ worker' \in WorkerType /\ worker'.pc = worker.pc /\ worker'.todo = worker.todo
      /\ worker'.file = worker.file /\ worker'.err = worker.err
      /\ worker.late => worker'.late
      /\ \A f \in Files : dst'.file[f] # dst.file[f] =>
           /\ dst.file[f] = "absent" /\ dst'.file[f] = "foreign" /\ dst'.on
           /\ At("rename") /\ worker.file = f => worker'.late
  <2>1. CASE UNCHANGED <<dst, worker>>
    BY <2>1, <1>0 DEF TypeInv
  <2>2. ASSUME NEW f \in Files, dst.file[f] = "absent",
               dst' = [dst EXCEPT !.file[f] = "foreign", !.on = TRUE],
               worker' = [worker EXCEPT !.late = @ \/ (At("rename") /\ worker.file = f)]
        PROVE  <1>1!:
    <3>1. /\ dst' \in DstType /\ dst'.on
          /\ \A g \in Files : dst'.file[g] = IF g = f THEN "foreign" ELSE dst.file[g]
      BY <1>0, <2>2 DEF TypeInv, DstType
    <3>2. PICK late \in BOOLEAN : /\ worker' = [worker EXCEPT !.late = late]
                                  /\ late = (worker.late \/ (At("rename") /\ worker.file = f))
      BY <1>0, <2>2 DEF TypeInv, WorkerType
    <3>3. /\ worker' \in WorkerType /\ worker'.pc = worker.pc /\ worker'.todo = worker.todo
          /\ worker'.file = worker.file /\ worker'.err = worker.err /\ worker'.late = late
      BY <1>0, <3>2 DEF TypeInv, WorkerType
    <3>4. QED
      BY <2>2, <3>1, <3>2, <3>3
  <2>3. QED
    BY <2>1, <2>2 DEF TakeName
<1>2. out' = out \/ (out = "absent" /\ out' = "taken")
  BY DEF TakeName
<1>3. \A f \in Files : dst.file[f] = "whole" => dst'.file[f] = "whole"
  BY <1>1
<1>4. TypeInv' /\ ControlInv'
  BY <1>0, <1>1, <1>2 DEF TypeInv, ControlInv, At
<1>5. PipeAt'
  BY <1>0, <1>1, PipeFrame
<1>6. CopyInv'
  <2>1. worker.pc \in Copying => worker.file \in Files
    BY <1>0 DEF CopyInv, TypeInv, WorkerType
  <2>2. \A f \in Files : dst'.file[f] # "broken"
    BY <1>0, <1>1 DEF CopyInv
  <2>3. (\E f \in Files : dst'.file[f] # "absent") => dst'.on
    BY <1>0, <1>1 DEF CopyInv
  <2>4. ASSUME At("rename")
        PROVE  dst'.file[worker.file] = "absent"
                 \/ (dst'.file[worker.file] = "foreign" /\ worker'.late)
    BY <1>0, <1>1, <2>1, <2>4 DEF CopyInv, At, Copying
  <2>5. At("unlink") => dst'.file[worker.file] = "whole"
    BY <1>0, <1>3, <2>1 DEF CopyInv, At, Copying
  <2>6. Subject' = Subject /\ Subject \subseteq Files
    BY <1>0 DEF Subject, Here
  <2>7. QED
    BY <1>0, <1>1, <1>3, <2>2, <2>3, <2>4, <2>5, <2>6 DEF CopyInv, At
<1>7. RemoveInv' /\ SingleInv' /\ LeftInv'
  BY <1>0, <1>1, <1>3 DEF RemoveInv, NothingLost, SingleInv, LeftInv, Wrong, At, Subject, Here
<1>8. ModeInv' /\ ExtractInv'
  BY <1>0, <1>1, <1>2 DEF ModeInv, ExtractInv, At, Here, Seen
<1>9. DoneInv'
  <2>1. /\ job' = job /\ src' = src /\ mode' = mode
        /\ worker'.pc = worker.pc /\ worker'.err = worker.err
    BY <1>0, <1>1
  <2>2. CASE job.op = "copy"
    BY <1>0, <1>3, <2>1, <2>2 DEF DoneInv, Achieved, At, Subject, Here
  <2>3. CASE job.op = "extract"
    BY <1>0, <1>2, <2>1, <2>3 DEF DoneInv, Achieved, At
  <2>4. CASE job.op \in {"move", "delete", "chmod", "none"}
    <3>1. Achieved => Achieved'
      BY <2>1, <2>4 DEF Achieved, Subject, Here
    <3>2. QED
      BY <1>0, <2>1, <3>1 DEF DoneInv, At
  <2>5. job.op \in Ops \union {"none"}
    BY <1>0 DEF TypeInv, JobType
  <2>6. QED
    BY <2>2, <2>3, <2>4, <2>5 DEF Ops
<1>10. QED
  BY <1>4, <1>5, <1>6, <1>7, <1>8, <1>9 DEF IInv

-----------------------------------------------------------------------------
LEMMA InitIsSound == Init => IInv
<1> SUFFICES ASSUME Init PROVE IInv
  OBVIOUS
<1>1. TypeInv
  BY NoTempIs, NoStageIs, NoJobIs, IdleIs DEF Init, TypeInv, SrcType, DstType
<1>2. ControlInv
  BY NoJobIs, IdleIs DEF Init, ControlInv, At, CopyOrMove, Copying, Extracts
<1>3. PipeAt
  BY OffIsSound DEF Init, PipeAt, Pipe!Off, Pipe!NoWriter
<1>4. CopyInv
  BY IdleIs DEF Init, CopyInv, Copying, At
<1>5. RemoveInv
  BY IdleIs DEF Init, RemoveInv, NothingLost, At
<1>6. ModeInv /\ ExtractInv /\ DoneInv /\ SingleInv /\ LeftInv
  BY IdleIs, NoJobIs, NoTempIs DEF Init, ModeInv, ExtractInv, DoneInv, SingleInv, LeftInv, At
<1>7. QED
  BY <1>1, <1>2, <1>3, <1>4, <1>5, <1>6 DEF IInv

LEMMA NextKeeps == IInv /\ [Next]_vars => IInv'
<1> SUFFICES ASSUME IInv, [Next]_vars PROVE IInv'
  OBVIOUS
<1>1. CASE PipeReader
  BY <1>1, ThreadKeeps DEF PipeReader
<1>2. CASE PipeWriter
  BY <1>2, ThreadKeeps DEF PipeWriter
<1>3. CASE UNCHANGED vars
  <2>1. PipeAt'
    BY <1>3, PipeFrame DEF IInv, vars
  <2>2. QED
    BY <1>3, <2>1, OnlyPipe DEF vars
<1>4. CASE Work /\ ~PipeWriter
  BY <1>4, StartKeeps, CheckKeeps, RouteKeeps, CopyDirKeeps, PickKeeps, OpenTempKeeps, WriteKept,
     PublishKeeps, UnlinkTempKeeps, RenameTempKeeps, PipeBeginKeeps, PipeEndKeeps,
     CheckRemovableKeeps, RemoveKeeps, ChmodKeeps, StageKeeps, DecodeKeeps, GateKeeps,
     MoveStageKeeps, SyncParentKeeps, UnstageKeeps, SettleKeeps DEF Work
<1>5. QED
  BY <1>1, <1>2, <1>3, <1>4, AskKeeps, CancelIsKept, ForgetKeeps, TakeNameKeeps, CrashKeeps
     DEF Next

LEMMA Invariance == Spec => []IInv
BY InitIsSound, NextKeeps, PTL DEF Spec

-----------------------------------------------------------------------------
(***************************************************************************)
(* The properties.                                                         *)
(***************************************************************************)

(* A move, however it ends and whenever it is asked for again, has removed *)
(* from the source only what has a whole copy (finish_copied_move).        *)
THEOREM NothingIsLost == Spec => []NothingLost
<1>1. IInv => NothingLost
  BY DEF IInv, RemoveInv
<1>2. QED
  BY <1>1, Invariance, PTL

(* A job that task_worker has made DONE has done all that it was asked for.*)
THEOREM DoneIsAll == Spec => []DoneMeansAll
<1>1. IInv => DoneMeansAll
  <2> SUFFICES ASSUME IInv, job.state = "DONE" PROVE DoneMeansAll
    BY DEF DoneMeansAll
  <2>1. Achieved /\ job.op \in Ops
    BY DEF IInv, DoneInv, ControlInv, TypeInv, JobType
  <2>2. QED
    BY <2>1 DEF Achieved, DoneMeansAll, Ops
<1>2. QED
  BY <1>1, Invariance, PTL

(* A job that ended has removed its private file and its private folder,   *)
(* or it failed or was canceled and the removal (unlink,                   *)
(* remove_staging_tree) failed as well.                                    *)
THEOREM EndsAreClean == Spec => []EndIsClean
<1>1. IInv => EndIsClean
  BY DEF IInv, EndIsClean, ControlInv, LeftInv, Wrong, Copying, At
<1>2. QED
  BY <1>1, Invariance, PTL

(* The destination never shows a part of a file, and every variable has    *)
(* its type.                                                               *)
THEOREM CopiesWhole == Spec => []CopiesAreWhole
<1>1. IInv => TypeOK
  BY DEF IInv, TypeInv, TypeOK, SrcType, DstType, TempType, StageType, JobType, WorkerType, States
<1>2. IInv => CopiesAreWhole
  BY <1>1 DEF IInv, CopyInv, CopiesAreWhole
<1>3. QED
  BY <1>2, Invariance, PTL

(* The two threads of copy_file_pipeline share the ring soundly.           *)
THEOREM PipelineSound == Spec => []PipelineIsSound
<1>1. IInv => PipelineIsSound
  BY SoundPipe DEF IInv, PipeAt
<1>2. QED
  BY <1>1, Invariance, PTL

(* A copy that may not overwrite (copy_file, copy_file_pipeline) leaves a  *)
(* file of another program alone, unless that file appeared after the      *)
(* lstat and before the rename of a file system without links.  The rename *)
(* that moves a single file is the other exception of the property.        *)
THEOREM CopiesWaitForLeave == Spec => CopiesAskLeave
<1>1. ASSUME IInv, [Next]_vars,
             NEW f \in Files, dst.file[f] = "foreign", ~job.overwrite,
             ~(At("rename") /\ worker.late), ~(At("route") /\ job.one # Folder)
      PROVE  dst.file'[f] = "foreign"
  <2>0. TypeInv /\ CopyInv
    BY <1>1 DEF IInv
  <2>1. CASE UNCHANGED dst
    BY <1>1, <2>1
  <2>2. CASE Route /\ ~UNCHANGED dst
    BY <1>1, <2>0, <2>2 DEF Route, CopyInv, Renames
  <2>3. CASE CopyDir /\ ~UNCHANGED dst
    BY <1>1, <2>0, <2>3 DEF CopyDir, TypeInv, DstType
  <2>4. CASE (Publish \/ RenameTemp) /\ ~UNCHANGED dst
    <3>1. dst.file[worker.file] = "absent" /\ Named /\ worker.pc \in {"publish", "rename"}
      BY <1>1, <2>0, <2>4 DEF Publish, RenameTemp, Replaces, CopyInv, At
    <3>2. dst'.file[f] = IF f = worker.file THEN "whole" ELSE dst.file[f]
      BY <1>1, <2>0, <3>1, NamedIs
    <3>3. QED
      BY <1>1, <3>1, <3>2
  <2>5. CASE TakeName /\ ~UNCHANGED dst
    <3>1. PICK g \in Files : /\ dst.file[g] = "absent"
                              /\ dst' = [dst EXCEPT !.file[g] = "foreign", !.on = TRUE]
      BY <2>5 DEF TakeName
    <3>2. dst'.file[f] = dst.file[f]
      BY <1>1, <2>0, <3>1 DEF TypeInv, DstType
    <3>3. QED
      BY <1>1, <3>2
  <2>6. Next => UNCHANGED dst \/ Route \/ CopyDir \/ Publish \/ RenameTemp \/ TakeName
    BY DEF Next, Work, Start, Check, Pick, OpenTemp, Write, UnlinkTemp, PipeBegin, PipeWriter,
       PipeEnd, CheckRemovable, Remove, Chmod, Stage, Decode, Gate, MoveStage, SyncParent,
       Unstage, Settle, PipeReader, Ask, Cancel, Forget, Crash, Beside
  <2>7. QED
    BY <1>1, <2>1, <2>2, <2>3, <2>4, <2>5, <2>6 DEF vars
<1>2. IInv /\ [Next]_vars =>
        [\A f \in Files : Replaced(f) =>
           \/ job.overwrite
           \/ At("rename") /\ worker.late
           \/ At("route") /\ job.one # Folder]_vars
  BY <1>1 DEF Replaced
<1>3. QED
  BY <1>2, Invariance, PTL DEF Spec, CopiesAskLeave

-----------------------------------------------------------------------------
(***************************************************************************)
(* An extraction implements AtomicPublish: what each step of a job is to   *)
(* the promise.                                                            *)
(***************************************************************************)

Promise == <<out, [j \in {"extract"} |-> Extracting]>>

LEMMA PromiseStays == ASSUME out' = out, Extracting' = Extracting PROVE UNCHANGED Promise
BY DEF Promise

LEMMA PromiseBegins ==
  ASSUME out = "absent", out' = out, Extracting = "none", Extracting' = "open"
  PROVE  Publication!Next
<1>1. Publication!Begin("extract")
  BY DEF Publication!Begin
<1>2. QED
  BY <1>1 DEF Publication!Next

LEMMA PromiseStops ==
  ASSUME out' = out, Extracting = "open", Extracting' = "stopped"
  PROVE  Publication!Next
<1>1. Publication!Stop("extract")
  BY DEF Publication!Stop
<1>2. QED
  BY <1>1 DEF Publication!Next

LEMMA PromiseCompletes ==
  ASSUME out = "whole", out' = out, Extracting = "open", Extracting' = "done"
  PROVE  Publication!Next
<1>1. Publication!Complete("extract")
  BY DEF Publication!Complete
<1>2. QED
  BY <1>1 DEF Publication!Next

LEMMA PromisePublishes ==
  ASSUME out = "absent", out' = "whole", Extracting = "open", Extracting' = "open"
  PROVE  Publication!Next
BY DEF Publication!Next, Publication!Publish

LEMMA PromiseIsTaken ==
  ASSUME out = "absent", out' = "taken", Extracting' = Extracting
  PROVE  Publication!Next
BY DEF Publication!Next, Publication!Take

LEMMA PromiseIsForgotten ==
  ASSUME out' = out, Extracting' = "none"
  PROVE  Publication!Next
BY DEF Publication!Next, Publication!Crash

(* What the promise shows of a job depends on its state only.              *)
LEMMA ExtractingIs ==
  ASSUME TypeInv
  PROVE  /\ job.op # "extract" => Extracting = "none"
         /\ job.op = "extract" /\ job.state \in Open => Extracting = "open"
         /\ job.op = "extract" /\ job.state \in {"FAILED", "CANCELED"} => Extracting = "stopped"
         /\ job.op = "extract" /\ job.state = "DONE" => Extracting = "done"
BY DEF Extracting, Open

LEMMA SameJob ==
  ASSUME TypeInv, TypeInv', job'.op = job.op,
         job'.state = job.state \/ (job.state \in Open /\ job'.state \in Open)
  PROVE  Extracting' = Extracting
BY DEF Extracting, Open

(* The end of a job.                                                       *)
LEMMA GivenStep ==
  ASSUME IInv, IInv', NEW s \in Ended, Give(s), out' = out, job.state \in Open,
         s = "DONE" /\ job.op = "extract" => out = "whole"
  PROVE  Publication!Next \/ UNCHANGED Promise
<1>1. TypeInv /\ TypeInv' /\ job'.state = s /\ job'.op = job.op
  BY DEF IInv, Give, TypeInv, JobType
<1>2. CASE job.op # "extract"
  <2>1. Extracting = "none" /\ Extracting' = "none"
    BY <1>1, <1>2 DEF Extracting
  <2>2. QED
    BY <2>1, PromiseStays
<1>3. CASE job.op = "extract" /\ s \in {"FAILED", "CANCELED"}
  <2>1. Extracting = "open" /\ Extracting' = "stopped"
    BY <1>1, <1>3 DEF Extracting, Open
  <2>2. QED
    BY <2>1, PromiseStops
<1>4. CASE job.op = "extract" /\ s = "DONE"
  <2>1. Extracting = "open" /\ Extracting' = "done"
    BY <1>1, <1>4 DEF Extracting, Open
  <2>2. QED
    BY <1>4, <2>1, PromiseCompletes
<1>5. QED
  BY <1>2, <1>3, <1>4 DEF Ended

LEMMA StepIsPromised ==
  ASSUME IInv, IInv', [Next]_vars PROVE [Publication!Next]_Promise
<1>0. TypeInv /\ TypeInv' /\ ControlInv /\ ExtractInv /\ DoneInv
  BY DEF IInv
<1>1. ASSUME out' = out, job'.op = job.op,
             job'.state = job.state \/ (job.state \in Open /\ job'.state \in Open)
      PROVE  UNCHANGED Promise
  BY <1>0, <1>1, SameJob, PromiseStays
<1>2. CASE Start
  <2>1. CASE Give("CANCELED")
    BY <1>0, <1>2, <2>1, GivenStep DEF Start, Ended, Open, ControlInv
  <2>2. CASE ~Give("CANCELED")
    <3>1. job'.op = job.op /\ job'.state \in Open /\ out' = out /\ job.state \in Open
      BY <1>0, <1>2, <2>2 DEF Start, Open, ControlInv, TypeInv, JobType
    <3>2. QED
      BY <1>1, <3>1
  <2>3. QED
    BY <2>1, <2>2
<1>3. CASE Check
  <2>1. CASE Give("CANCELED") \/ Give("FAILED")
    <3>1. job.state \in Open /\ out' = out
      BY <1>0, <1>3 DEF Check, At, ControlInv, Open, Ended, TypeInv, JobType, States
    <3>2. QED
      BY <2>1, <3>1, GivenStep DEF Ended
  <2>2. CASE UNCHANGED job
    BY <1>1, <1>3, <2>2 DEF Check
  <2>3. QED
    BY <1>3, <2>1, <2>2 DEF Check
<1>4. CASE Settle
  <2>1. job.state \in Open /\ out' = out /\ Outcome \in Ended
    BY <1>0, <1>4 DEF Settle, At, ControlInv, Open, Ended, TypeInv, JobType, States, Outcome
  <2>2. Outcome = "DONE" /\ job.op = "extract" => out = "whole"
    BY <1>0, <1>4 DEF Settle, At, Outcome, DoneInv, Achieved
  <2>3. QED
    BY <1>4, <2>1, <2>2, GivenStep DEF Settle
<1>5. CASE Stage
  <2>1. job'.op = job.op /\ job'.state = job.state /\ out' = out
    BY <1>0, <1>5 DEF Stage, TypeInv, JobType
  <2>2. QED
    BY <1>1, <2>1
<1>6. CASE MoveStage
  <2>0. job.op = "extract" /\ job.state \in Open /\ UNCHANGED job /\ stage.got = Files /\ stage.bad = {}
    BY <1>0, <1>6 DEF MoveStage, At, ControlInv, Extracts, Open, Ended, TypeInv, JobType, States,
       ExtractInv
  <2>1. CASE out = "absent" /\ out' # out
    <3>1. out' = "whole" /\ Extracting = "open" /\ Extracting' = "open"
      <4>1. out' = "whole"
        BY <1>6, <2>0, <2>1 DEF MoveStage
      <4>2. Extracting = "open"
        BY <1>0, <2>0, ExtractingIs
      <4>3. Extracting' = Extracting
        BY <1>0, <2>0, SameJob
      <4>4. QED
        BY <4>1, <4>2, <4>3
    <3>2. QED
      BY <2>1, <3>1, PromisePublishes
  <2>2. CASE out' = out
    BY <1>1, <2>0, <2>2
  <2>3. QED
    BY <1>6, <2>1, <2>2 DEF MoveStage
<1>7. CASE Ask
  <2>1. PICK op \in Kinds : /\ job'.op = op /\ job'.state = "QUEUED"
                            /\ op = "extract" => out = "absent"
    BY <1>7 DEF Ask, NoJob
  <2>2. job.op = "none" /\ out' = out
    BY <1>0, <1>7 DEF Ask, ControlInv
  <2>3. CASE op = "extract"
    <3>1. Extracting = "none" /\ Extracting' = "open"
      BY <2>1, <2>2, <2>3 DEF Extracting, Open
    <3>2. QED
      BY <2>1, <2>2, <2>3, <3>1, PromiseBegins
  <2>4. CASE op # "extract"
    <3>1. Extracting = "none" /\ Extracting' = "none"
      BY <2>1, <2>2, <2>4 DEF Extracting
    <3>2. QED
      BY <2>2, <3>1, PromiseStays
  <2>5. QED
    BY <2>3, <2>4
<1>8. CASE Cancel
  <2>1. job'.op = job.op /\ job'.state = job.state /\ out' = out
    BY <1>0, <1>8 DEF Cancel, TypeInv, JobType
  <2>2. QED
    BY <1>1, <2>1
<1>9. CASE Forget \/ Crash
  <2>1. job'.op = "none" /\ out' = out
    BY <1>9 DEF Forget, Crash, NoJob
  <2>2. Extracting' = "none"
    BY <2>1 DEF Extracting
  <2>3. QED
    BY <2>1, <2>2, PromiseIsForgotten
<1>10. CASE TakeName
  <2>1. CASE out' = out
    BY <1>1, <1>10, <2>1 DEF TakeName
  <2>2. CASE out = "absent" /\ out' = "taken"
    BY <1>0, <1>10, <2>2, SameJob, PromiseIsTaken DEF TakeName
  <2>3. QED
    BY <1>10, <2>1, <2>2 DEF TakeName
<1>11. Next => \/ UNCHANGED <<out, job>>
               \/ Start \/ Check \/ Settle \/ Stage \/ MoveStage \/ Ask \/ Cancel \/ Forget
               \/ Crash \/ TakeName
  BY DEF Next, Work, Route, CopyDir, Pick, OpenTemp, Write, Publish, UnlinkTemp, RenameTemp,
     PipeBegin, PipeWriter, PipeEnd, CheckRemovable, Remove, Chmod, Decode, Gate, SyncParent,
     Unstage, PipeReader, Beside
<1>12. CASE UNCHANGED <<out, job>>
  BY <1>1, <1>12
<1>13. QED
  BY <1>2, <1>3, <1>4, <1>5, <1>6, <1>7, <1>8, <1>9, <1>10, <1>11, <1>12 DEF vars

(* An extraction implements AtomicPublish: its name is unused, stands for  *)
(* the whole of the archive or was taken by another program, it is never   *)
(* replaced, and the job is done only when it stands for the whole.        *)
THEOREM ExtractionPublishesAtomically == Spec => ImplementsAtomicPublish
<1>1. Init => Publication!Init
  BY DEF Init, Publication!Init, Extracting, NoJob
<1>2. IInv /\ IInv' /\ [Next]_vars => [Publication!Next]_Promise
  BY StepIsPromised
<1>3. QED
  BY <1>1, <1>2, Invariance, PTL
     DEF Spec, ImplementsAtomicPublish, Publication!Spec, Promise
=============================================================================
