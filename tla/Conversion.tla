----------------------------- MODULE Conversion -----------------------------
(***************************************************************************)
(* Folder conversions to one output name: the job, the worker that runs    *)
(* mkpfs_convert_folder_resumable, the exFAT and PFS stages, the journal,  *)
(* the recovery note and the output, with a source that is edited, cancel, *)
(* crash and restart.                                                      *)
(*                                                                         *)
(* The image of a folder is a function from its files to the versions that *)
(* were read, the PFS stage a sequence of blocks packed from an image.     *)
(* How blocks are compressed by several threads is PfscPack's.             *)
(***************************************************************************)
EXTENDS Naturals

CONSTANTS
  Files,    \* source files, in the order of the image
  Early,    \* how many of them lie before the image's last directory
  Blocks,   \* blocks of the PFS stage
  Versions, \* bound: the versions a file can have
  Faults    \* what may go wrong

AllFaults == {"space", "journal", "note", "disk", "nolink", "unlink", "foreign", "lost"}

ASSUME ConversionAssumption ==
  /\ Files \in Nat \ {0}
  /\ Early \in 0 .. Files
  /\ Blocks \in Nat \ {0}
  /\ Versions \in Nat \ {0}
  /\ Faults \subseteq AllFaults

VARIABLES
  source,  \* the version of each source file
  seen,    \* every state the source has been in
  exfat,   \* the exFAT stage
  pfs,     \* the PFS stage
  out,     \* the output name
  journal, \* the journal on disk
  note,    \* whether the recovery note exists
  job,     \* file_task_t
  worker,  \* task_worker for the conversion, or the scan at start-up
  up       \* the payload runs

vars == <<source, seen, exfat, pfs, out, journal, note, job, worker, up>>
disk == <<exfat, pfs, out, journal, note>>

File    == 1 .. Files
Block   == 1 .. Blocks
Trees   == [File -> 1 .. Versions]
Images  == [File -> 0 .. Versions]  \* 0: not written, or torn
NoImage == [f \in File |-> 0]
Void    == [b \in Block |-> NoImage]

(* size and synced: the length now and when it was last synchronized, in   *)
(* half files.                                                             *)
NoExfat == [on |-> FALSE, data |-> NoImage, safe |-> {}, size |-> 0, synced |-> 0]
NoPfs   == [on |-> FALSE, data |-> Void, safe |-> 0, head |-> FALSE, linked |-> FALSE]
NoOut   == [st |-> "absent", data |-> Void, head |-> FALSE]

Phases == {"EXFAT", "PACK", "VERIFY", "PUBLISH", "DONE"}

(* mkpfs_resume_state_t.                                                   *)
Begun     == [phase |-> "EXFAT", next |-> 0, size |-> 0, print |-> NoImage,
              pack |-> 0, verify |-> 0]
NoJournal == [Begun EXCEPT !.phase = "NONE"]
NoJob     == [state |-> "NONE", cancel |-> FALSE]
NoWorker  == [pc |-> "idle", after |-> "idle", recovered |-> FALSE, journaled |-> FALSE,
              noted |-> FALSE, resume |-> Begun, tree |-> NoImage, block |-> 0, err |-> "none"]

Most(a, b) == IF a < b THEN b ELSE a
At(point) == up /\ worker.pc = point
Goto(point) == worker' = [worker EXCEPT !.pc = point]
Fail(e) == worker' = [worker EXCEPT !.pc = "judge", !.err = e]

(* The journal is written next, then the worker goes on at point.          *)
Record(resume, point) ==
  worker' = [worker EXCEPT !.pc = "record", !.after = point, !.resume = resume]

-----------------------------------------------------------------------------
Init ==
  /\ source = [f \in File |-> 1] /\ seen = {source}
  /\ exfat = NoExfat /\ pfs = NoPfs /\ out = NoOut
  /\ journal = NoJournal /\ note = FALSE
  /\ job = NoJob /\ worker = NoWorker
  /\ up = TRUE

(***************************************************************************)
(* task_worker up to the conversion.                                       *)
(***************************************************************************)

Start ==
  /\ At("start")
  /\ \/ /\ ~job.cancel
        /\ job' = [job EXCEPT !.state = "RUNNING"]
        /\ Goto("check")
     \/ /\ job.cancel
        /\ worker' = [worker EXCEPT !.pc = "dropexfat", !.err = "canceled"]
        /\ UNCHANGED job
  /\ UNCHANGED <<disk, source, seen, up>>

(* The workspace estimate; a recovered job past EXFAT needs its stage.     *)
Check ==
  /\ At("check")
  /\ LET lost == worker.recovered /\ worker.resume.phase # "EXFAT" /\ ~exfat.on IN
     \/ lost /\ Fail("stale")
     \/ ~lost /\ Goto("prepare")
     \/ ~lost /\ "space" \in Faults /\ Fail("error")
  /\ UNCHANGED <<disk, source, seen, job, up>>

(* prepare_conversion_resume.                                              *)
Prepare ==
  /\ At("prepare")
  /\ \/ /\ worker.journaled
        /\ Goto("note")
        /\ UNCHANGED journal
     \/ /\ ~worker.journaled
        /\ worker' = [worker EXCEPT !.pc = "note", !.journaled = TRUE, !.resume = Begun]
        /\ journal' = Begun
     \/ /\ ~worker.journaled /\ "journal" \in Faults
        /\ worker' = [worker EXCEPT !.pc = "judge", !.err = "error",
                                    !.journaled = TRUE, !.resume = Begun]
        /\ UNCHANGED journal
  /\ UNCHANGED <<exfat, pfs, out, note, source, seen, job, up>>

MakeNote ==
  /\ At("note")
  /\ \/ /\ note' = TRUE
        /\ worker' = [worker EXCEPT !.pc = "enter", !.noted = TRUE]
     \/ /\ "note" \in Faults
        /\ Fail("error")
        /\ UNCHANGED note
  /\ UNCHANGED <<exfat, pfs, out, journal, source, seen, job, up>>

Enter ==
  /\ At("enter")
  /\ \/ out.st # "absent" /\ Fail("error")
     \/ out.st = "absent" /\ Goto(IF worker.resume.phase = "EXFAT" THEN "scan" ELSE "size")
  /\ UNCHANGED <<disk, source, seen, job, up>>

(* The callback that writes the journal.                                   *)
WriteJournal ==
  /\ At("record")
  /\ \/ /\ journal' = worker.resume
        /\ Goto(worker.after)
     \/ /\ "journal" \in Faults
        /\ Fail("error")
        /\ UNCHANGED journal
  /\ UNCHANGED <<exfat, pfs, out, note, source, seen, job, up>>

-----------------------------------------------------------------------------
(***************************************************************************)
(* exfat_write_folder.                                                     *)
(***************************************************************************)

(* Mutant: the source is not compared with the one that was staged.        *)
SourceAccepted(r) == r.next > 0 => exfat.on /\ exfat.size = r.size

(* The checkpoint r fits the source as scanned and the stage as found.     *)
SourceMatches(r) ==
  /\ r.print \in {NoImage, source}
  /\ r.next > 0 => exfat.on /\ exfat.size = r.size

(* The scan of the source, and the stage: kept, or started again with its  *)
(* metadata, which reaches up to the last directory.                       *)
Scan ==
  /\ At("scan")
  /\ LET r == worker.resume
         new == [worker EXCEPT !.resume.print = source, !.tree = source] IN
     \/ /\ ~SourceMatches(r)
        /\ Fail("stale")
        /\ UNCHANGED exfat
     \/ /\ SourceMatches(r) /\ r.next > 0
        /\ worker' = [new EXCEPT !.pc = "file"]
        /\ UNCHANGED exfat
     \/ /\ SourceMatches(r) /\ r.next = 0
        /\ exfat' = [NoExfat EXCEPT !.on = TRUE, !.size = 2 * Early]
        /\ worker' = [new EXCEPT !.pc = "sync", !.after = "file"]
     \/ /\ SourceMatches(r) /\ r.next = 0 /\ "disk" \in Faults
        /\ exfat' = [NoExfat EXCEPT !.on = TRUE]
        /\ Fail("error")
  /\ UNCHANGED <<pfs, out, journal, note, source, seen, job, up>>

(* Mutant: the journal is written without fsync of the stage.              *)
SafeNot(x) == x

Safe(x) == [x EXCEPT !.safe = {f \in File : x.data[f] # 0}, !.synced = x.size]

(* exfat_checkpoint up to its callback.                                    *)
SyncExfat ==
  /\ At("sync")
  /\ \/ /\ exfat' = Safe(exfat)
        /\ Record([worker.resume EXCEPT !.size = exfat.size], worker.after)
     \/ /\ "disk" \in Faults
        /\ Fail("error")
        /\ UNCHANGED exfat
  /\ UNCHANGED <<pfs, out, journal, note, source, seen, job, up>>

(* Mutant: a changed file is read all the same.                            *)
OpenAnyway(f) == TRUE

(* Device, inode, size and time are those of the scan.                     *)
Unchanged(f) == source[f] = worker.tree[f]

OpenFile ==
  /\ At("file")
  /\ LET f == worker.resume.next + 1 IN
     \/ /\ job.cancel
        /\ Fail("canceled")
        /\ UNCHANGED exfat
     \/ /\ ~job.cancel /\ f \in File /\ Unchanged(f)
        /\ exfat' = [exfat EXCEPT !.data[f] = 0, !.safe = @ \ {f}, !.size = Most(@, 2 * f - 1)]
        /\ Goto("copy")
     \/ /\ ~job.cancel /\ f \in File /\ ~Unchanged(f)
        /\ Fail("stale")
        /\ UNCHANGED exfat
     \/ /\ f \notin File
        /\ worker' = [worker EXCEPT !.pc = "sync", !.after = "rmpfs"]
        /\ UNCHANGED exfat
  /\ UNCHANGED <<pfs, out, journal, note, source, seen, job, up>>

(* The rest of a file.  Whether a checkpoint is due is left open.          *)
CopyFile ==
  /\ At("copy")
  /\ LET f == worker.resume.next + 1
         new == [worker EXCEPT !.resume.next = f] IN
     \/ /\ exfat' = [exfat EXCEPT !.data[f] = source[f], !.size = Most(@, 2 * f)]
        /\ \/ worker' = [new EXCEPT !.pc = "file"]
           \/ worker' = [new EXCEPT !.pc = "sync", !.after = "file"]
     \/ /\ job.cancel
        /\ Fail("canceled")
        /\ UNCHANGED exfat
     \/ /\ "disk" \in Faults
        /\ Fail("error")
        /\ UNCHANGED exfat
  /\ UNCHANGED <<pfs, out, journal, note, source, seen, job, up>>

-----------------------------------------------------------------------------
(***************************************************************************)
(* mkpfs_convert_folder_resumable after the exFAT stage.                   *)
(***************************************************************************)

RemoveOldPfs ==
  /\ At("rmpfs")
  /\ pfs' = NoPfs
  /\ Record([worker.resume EXCEPT !.phase = "PACK", !.pack = 0, !.verify = 0], "size")
  /\ UNCHANGED <<exfat, out, journal, note, source, seen, job, up>>

(* The exFAT stage is as long as the image; the PFS stage is opened.       *)
OpenStages ==
  /\ At("size")
  /\ LET r == worker.resume IN
     \/ /\ ~(exfat.on /\ exfat.size = 2 * Files)
        /\ Fail("stale")
        /\ UNCHANGED pfs
     \/ /\ exfat.on /\ exfat.size = 2 * Files
        /\ pfs' = [pfs EXCEPT !.on = TRUE]
        /\ CASE r.phase = "PACK" -> Goto("seek")
             [] r.phase = "VERIFY" -> Goto("verify")
             [] r.phase = "PUBLISH" ->
                  Record([r EXCEPT !.phase = "VERIFY", !.verify = 0], "verify")
  /\ UNCHANGED <<exfat, out, journal, note, source, seen, job, up>>

Stored(b) == pfs.data[b] # NoImage

(* The start of pack_pfsc_into_stream: the offsets of the blocks that are  *)
(* kept are read back, and what follows them is cut off.                   *)
SeekPack ==
  /\ At("seek")
  /\ LET done == worker.resume.pack IN
     \/ /\ \E b \in 1 .. done : ~Stored(b)
        /\ Fail("invalid")
        /\ UNCHANGED pfs
     \/ /\ \A b \in 1 .. done : Stored(b)
        /\ pfs' = IF done = 0 THEN pfs
                  ELSE [pfs EXCEPT !.data = [b \in Block |-> IF b <= done THEN @[b] ELSE NoImage]]
        /\ worker' = [worker EXCEPT !.pc = "pack", !.block = done]
  /\ UNCHANGED <<exfat, out, journal, note, source, seen, job, up>>

(* A block is packed.  Whether a checkpoint is due is left open.           *)
PackBlock ==
  /\ At("pack")
  /\ LET b == worker.block + 1 IN
     \/ /\ job.cancel
        /\ Fail("canceled")
        /\ UNCHANGED pfs
     \/ /\ "disk" \in Faults
        /\ Fail("error")
        /\ UNCHANGED pfs
     \/ /\ ~job.cancel /\ b \in Block
        /\ pfs' = [pfs EXCEPT !.data[b] = exfat.data, !.safe = IF @ < b THEN @ ELSE b - 1]
        /\ \/ b < Blocks /\ worker' = [worker EXCEPT !.block = b]
           \/ worker' = [worker EXCEPT !.pc = "flush", !.block = b]
  /\ UNCHANGED <<exfat, out, journal, note, source, seen, job, up>>

(* Mutant: the offsets and blocks are not synchronized.                    *)
FlushedNot == pfs

Flushed == [pfs EXCEPT !.safe = worker.block]

(* The blocks and their offsets are synchronized for a checkpoint, the     *)
(* last one of which ends the packing.                                     *)
FlushPack ==
  /\ At("flush")
  /\ LET r == [worker.resume EXCEPT !.pack = worker.block] IN
     \/ /\ pfs' = Flushed
        /\ IF worker.block < Blocks THEN Record(r, "pack")
           ELSE Record([r EXCEPT !.phase = "VERIFY", !.verify = 0], "verify")
     \/ /\ "disk" \in Faults
        /\ Fail("error")
        /\ UNCHANGED pfs
  /\ UNCHANGED <<exfat, out, journal, note, source, seen, job, up>>

(* The PFSC header is there, and the block that is next.                   *)
Sound(b) == pfs.data # Void /\ (b \in Block => Stored(b))

(* A window of verify_pfsc_stream, and its end.                            *)
Verify ==
  /\ At("verify")
  /\ LET b == worker.resume.verify + 1 IN
     \/ ~Sound(b) /\ Fail("invalid")
     \/ Sound(b) /\ b \in Block /\ job.cancel /\ Fail("canceled")
     \/ Sound(b) /\ b \in Block /\ ~job.cancel
          /\ Record([worker.resume EXCEPT !.verify = b], "verify")
     \/ Sound(b) /\ b \notin Block
          /\ Record([worker.resume EXCEPT !.phase = "PUBLISH"], "publish")
  /\ UNCHANGED <<disk, source, seen, job, up>>

(* publish_resumable_pfs.                                                  *)
WriteHead ==
  /\ At("publish")
  /\ \/ /\ ~job.cancel
        /\ pfs' = [pfs EXCEPT !.head = TRUE]
        /\ Goto("link")
     \/ /\ job.cancel
        /\ Fail("canceled")
        /\ UNCHANGED pfs
     \/ /\ "disk" \in Faults
        /\ Fail("error")
        /\ UNCHANGED pfs
  /\ UNCHANGED <<exfat, out, journal, note, source, seen, job, up>>

Output == [st |-> "ours", data |-> pfs.data, head |-> pfs.head]

(* Mutant: publication replaces whatever has the name.                     *)
NameFreeAlways == TRUE

NameFree == out.st = "absent"

(* publish_stage_no_replace: link, or on FAT the check of the name.        *)
Link ==
  /\ At("link")
  /\ \/ /\ NameFree
        /\ out' = Output
        /\ pfs' = [pfs EXCEPT !.linked = TRUE]
        /\ Goto("unlink")
     \/ /\ "nolink" \in Faults /\ out.st = "absent"
        /\ Goto("rename")
        /\ UNCHANGED <<out, pfs>>
     \/ /\ ~NameFree
        /\ Fail("error")
        /\ UNCHANGED <<out, pfs>>
  /\ UNCHANGED <<exfat, journal, note, source, seen, job, up>>

(* The second name goes; when it cannot, the first is taken back.          *)
Unlink ==
  /\ At("unlink")
  /\ \/ /\ pfs' = NoPfs
        /\ Goto("rmexfat")
        /\ UNCHANGED out
     \/ /\ "unlink" \in Faults
        /\ pfs' = [pfs EXCEPT !.linked = FALSE]
        /\ out' = NoOut
        /\ Fail("error")
  /\ UNCHANGED <<exfat, journal, note, source, seen, job, up>>

Rename ==
  /\ At("rename")
  /\ out' = Output
  /\ pfs' = NoPfs
  /\ Goto("rmexfat")
  /\ UNCHANGED <<exfat, journal, note, source, seen, job, up>>

RemoveExfat ==
  /\ At("rmexfat")
  /\ \/ /\ exfat' = NoExfat
        /\ Record([worker.resume EXCEPT !.phase = "DONE"], "judge")
     \/ /\ "unlink" \in Faults
        /\ Fail("error")
        /\ UNCHANGED exfat
  /\ UNCHANGED <<pfs, out, journal, note, source, seen, job, up>>

-----------------------------------------------------------------------------
(***************************************************************************)
(* The end of task_worker for a conversion.                                *)
(***************************************************************************)

(* Mutant: a recovered stage that cannot be validated is kept.             *)
KeptInvalid(e) == e \in {"error", "invalid"}

(* After which results the private files stay for the next start.          *)
Kept(e) == e = "error" \/ (e = "invalid" /\ ~worker.recovered)

Judge ==
  /\ At("judge")
  /\ LET e == IF worker.err # "none" /\ job.cancel THEN "canceled" ELSE worker.err IN
     worker' = [worker EXCEPT !.err = e, !.pc = IF Kept(e) THEN "settle" ELSE "dropexfat"]
  /\ UNCHANGED <<disk, source, seen, job, up>>

(* remove_conversion_private_stages, _journal and _recovery_note, each for *)
(* the paths the job knows; a stage that is still linked is refused.       *)
DropExfat ==
  /\ At("dropexfat")
  /\ exfat' = IF worker.journaled THEN NoExfat ELSE exfat
  /\ Goto("droppfs")
  /\ UNCHANGED <<pfs, out, journal, note, source, seen, job, up>>

(* Mutant: the PFS stage is forgotten.                                     *)
PfsLeft == pfs

PfsGone == IF worker.journaled /\ ~pfs.linked THEN NoPfs ELSE pfs

DropPfs ==
  /\ At("droppfs")
  /\ pfs' = PfsGone
  /\ Goto("dropjournal")
  /\ UNCHANGED <<exfat, out, journal, note, source, seen, job, up>>

DropJournal ==
  /\ At("dropjournal")
  /\ journal' = IF worker.journaled THEN NoJournal ELSE journal
  /\ Goto("dropnote")
  /\ UNCHANGED <<exfat, pfs, out, note, source, seen, job, up>>

DropNote ==
  /\ At("dropnote")
  /\ note' = (note /\ ~worker.noted)
  /\ Goto("settle")
  /\ UNCHANGED <<exfat, pfs, out, journal, source, seen, job, up>>

Outcome == CASE worker.err = "none" -> "DONE"
             [] worker.err = "canceled" -> "CANCELED"
             [] worker.err \in {"error", "stale", "invalid"} -> "FAILED"

Settle ==
  /\ At("settle")
  /\ job' = [job EXCEPT !.state = Outcome]
  /\ worker' = NoWorker
  /\ UNCHANGED <<disk, source, seen, up>>

-----------------------------------------------------------------------------
(***************************************************************************)
(* The user, other programs, crashes and the start of the payload.         *)
(***************************************************************************)

(* api_convert: the output must not exist.                                 *)
Ask ==
  /\ At("idle") /\ job.state = "NONE" /\ out.st = "absent"
  /\ job' = [NoJob EXCEPT !.state = "QUEUED"]
  /\ worker' = [NoWorker EXCEPT !.pc = "start"]
  /\ UNCHANGED <<disk, source, seen, up>>

Cancel ==
  /\ up /\ job.state \in {"QUEUED", "RUNNING"} /\ ~job.cancel
  /\ job' = [job EXCEPT !.cancel = TRUE]
  /\ UNCHANGED <<disk, source, seen, worker, up>>

(* remove_finished_tasks_locked.                                           *)
Forget ==
  /\ At("idle") /\ job.state \in {"DONE", "FAILED", "CANCELED"}
  /\ job' = NoJob
  /\ UNCHANGED <<disk, source, seen, worker, up>>

(* A source file is edited, but not while it is being read.                *)
Edit ==
  /\ worker.pc # "copy"
  /\ \E f \in File :
       /\ source[f] < Versions
       /\ source' = [source EXCEPT ![f] = @ + 1]
  /\ seen' = seen \union {source'}
  /\ UNCHANGED <<disk, job, worker, up>>

(* Another program uses the output name, but not between the two steps of  *)
(* a publication without links.                                            *)
TakeName ==
  /\ "foreign" \in Faults /\ out.st = "absent" /\ worker.pc # "rename"
  /\ out' = [NoOut EXCEPT !.st = "taken"]
  /\ UNCHANGED <<exfat, pfs, journal, note, source, seen, job, worker, up>>

(* Another program removes a stage that the worker does not have open: the *)
(* PFS stage while the payload is down, the exFAT stage before packing.    *)
LoseStage ==
  /\ "lost" \in Faults
  /\ \/ ~up /\ pfs.on /\ ~pfs.linked /\ pfs' = NoPfs /\ UNCHANGED exfat
     \/ At("size") /\ exfat.on /\ exfat' = NoExfat /\ UNCHANGED pfs
  /\ UNCHANGED <<out, journal, note, source, seen, job, worker, up>>

(* The payload dies.  What was not synchronized may still have been in its *)
(* buffers, and is lost or not.                                            *)
Crash ==
  /\ up /\ up' = FALSE
  /\ \E lost \in SUBSET {f \in File : exfat.data[f] # 0 /\ f \notin exfat.safe},
       size \in {exfat.size, exfat.synced} :
       exfat' = [exfat EXCEPT !.size = size,
                   !.data = [f \in File |-> IF f \in lost THEN 0 ELSE @[f]]]
  /\ \E kept \in pfs.safe .. Blocks :
       pfs' = [pfs EXCEPT !.data = [b \in Block |-> IF b <= kept THEN @[b] ELSE NoImage]]
  /\ job' = NoJob /\ worker' = NoWorker
  /\ UNCHANGED <<out, journal, note, source, seen>>

Valid == journal.phase \in {"EXFAT", "PACK", "VERIFY", "PUBLISH"}

(* filemgr_resume_interrupted_conversions.                                 *)
Restart ==
  /\ ~up /\ up' = TRUE
  /\ \/ /\ ~Valid
        /\ UNCHANGED <<job, worker>>
     \/ /\ Valid /\ out.st # "absent"
        /\ Goto("sweepexfat")
        /\ UNCHANGED job
     \/ /\ Valid /\ out.st = "absent"
        /\ job' = [NoJob EXCEPT !.state = "QUEUED"]
        /\ worker' = [NoWorker EXCEPT !.pc = "start", !.recovered = TRUE,
                                      !.journaled = TRUE, !.resume = journal]
  /\ UNCHANGED <<disk, source, seen>>

(* cleanup_unrecoverable_conversion_journal.                               *)
Sweep ==
  /\ \/ /\ At("sweepexfat")
        /\ exfat' = NoExfat
        /\ Goto("sweeppfs")
        /\ UNCHANGED <<pfs, note, journal>>
     \/ /\ At("sweeppfs")
        /\ pfs' = IF pfs.linked THEN pfs ELSE NoPfs
        /\ Goto("sweepnote")
        /\ UNCHANGED <<exfat, note, journal>>
     \/ /\ At("sweepnote")
        /\ note' = FALSE
        /\ Goto("sweepjournal")
        /\ UNCHANGED <<exfat, pfs, journal>>
     \/ /\ At("sweepjournal")
        /\ journal' = NoJournal
        /\ Goto("idle")
        /\ UNCHANGED <<exfat, pfs, note>>
  /\ UNCHANGED <<out, source, seen, job, up>>

-----------------------------------------------------------------------------
Build == Scan \/ SyncExfat \/ OpenFile \/ CopyFile \/ RemoveOldPfs
Pack  == OpenStages \/ SeekPack \/ PackBlock \/ FlushPack \/ Verify
Finish == WriteHead \/ Link \/ Unlink \/ Rename \/ RemoveExfat
Clean == Judge \/ DropExfat \/ DropPfs \/ DropJournal \/ DropNote \/ Settle

Work == \/ Start \/ Check \/ Prepare \/ MakeNote \/ Enter \/ WriteJournal
        \/ Build \/ Pack \/ Finish \/ Clean \/ Sweep

Next == Work \/ Ask \/ Cancel \/ Forget \/ Edit \/ TakeName \/ LoseStage \/ Crash
        \/ Restart

Spec == Init /\ [][Next]_vars

-----------------------------------------------------------------------------
Resume == [phase : Phases, next : 0 .. Files, size : 0 .. 2 * Files, print : Images,
           pack : 0 .. Blocks, verify : 0 .. Blocks]

TypeOK ==
  /\ source \in Trees /\ seen \subseteq Trees
  /\ exfat.data \in Images /\ exfat.safe \subseteq File
  /\ exfat.synced <= exfat.size /\ exfat.size <= 2 * Files
  /\ pfs.safe \in 0 .. Blocks /\ \A b \in Block : pfs.data[b] \in Images
  /\ out.st \in {"absent", "ours", "taken"}
  /\ journal \in Resume \union {NoJournal}
  /\ job.state \in {"NONE", "QUEUED", "RUNNING", "DONE", "FAILED", "CANCELED"}
  /\ worker.resume \in Resume
  /\ worker.err \in {"none", "canceled", "stale", "invalid", "error"}

(* The output is complete, has its header, and every block of it is packed *)
(* from one state the source folder was in: files of different versions    *)
(* are never mixed, whatever is edited, canceled and resumed when.         *)
PublishedIsSnapshot ==
  out.st = "ours" =>
    out.head /\ \E tree \in seen : \A b \in Block : out.data[b] = tree

(* What the journal counts of a stage that is still there has reached the  *)
(* medium, at every point at which the payload may die.                    *)
JournalCovered ==
  LET all == exfat.on => exfat.safe = File /\ exfat.size = 2 * Files
      kept == pfs.on /\ pfs.data # Void IN
  CASE journal.phase \in {"NONE", "DONE"} -> TRUE
    [] journal.phase = "EXFAT" -> exfat.on => 1 .. journal.next \subseteq exfat.safe
    [] journal.phase = "PACK" -> all /\ (kept => pfs.safe >= journal.pack)
    [] journal.phase \in {"VERIFY", "PUBLISH"} -> all /\ (kept => pfs.safe = Blocks)

(* Every variable has its type, and                                        *)
(* no private stage is ever orphaned: while one exists, so do the journal  *)
(* that reclaims it and the note that explains it.  A stage that is also   *)
(* the output is left out, see the README.                                 *)
StagesAnnounced ==
  /\ TypeOK
  /\ exfat.on \/ (pfs.on /\ ~pfs.linked) => journal # NoJournal /\ note

(* A checkpoint that cannot be used is not tried again: a recovered job    *)
(* that fails for its stages or its source leaves no journal to resume.    *)
NoRetryLoop ==
  worker.recovered /\ worker.pc = "settle" /\ worker.err \in {"stale", "invalid"}
    => journal = NoJournal

Asked(s) == CASE s = "NONE" -> "none"
              [] s \in {"QUEUED", "RUNNING"} -> "open"
              [] s \in {"FAILED", "CANCELED"} -> "stopped"
              [] s = "DONE" -> "done"

Target == IF out.st # "ours" THEN out.st
          ELSE IF \A b \in Block : out.data[b] \in Trees THEN "whole" ELSE "broken"

Publication == INSTANCE AtomicPublish
                 WITH Jobs <- {"convert"}, MayRetract <- TRUE, out <- Target,
                      ask <- [j \in {"convert"} |-> Asked(job.state)]

(* The conversion implements AtomicPublish.                                *)
ImplementsAtomicPublish == Publication!Spec

-----------------------------------------------------------------------------
(* With a source nobody edits and a healthy disk, a restart continues from *)
(* the last completed file: the conversion does not fail.                  *)
HealthyNeverFails == job.state # "FAILED"
=============================================================================
