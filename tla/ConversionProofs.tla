-------------------------- MODULE ConversionProofs --------------------------
(***************************************************************************)
(* Theorems about Conversion, for any number of files, blocks and versions *)
(* of the source, any place of the last directory, and any set of faults.  *)
(***************************************************************************)
EXTENDS Conversion, Integers, TLAPS

Points == {"idle", "start", "check", "prepare", "note", "enter", "scan", "record", "sync",
           "file", "copy", "rmpfs", "size", "seek", "pack", "flush", "verify", "publish", "link",
           "unlink", "rename", "rmexfat", "judge", "dropexfat", "droppfs", "dropjournal",
           "dropnote", "settle", "sweepexfat", "sweeppfs", "sweepnote", "sweepjournal"}
Errors == {"none", "canceled", "stale", "invalid", "error"}
Packed == [Block -> Images]

ExfatType  == [on : BOOLEAN, data : Images, safe : SUBSET File, size : 0 .. 2 * Files,
               synced : 0 .. 2 * Files]
PfsType    == [on : BOOLEAN, data : Packed, safe : 0 .. Blocks, head : BOOLEAN, linked : BOOLEAN]
OutType    == [st : {"absent", "ours", "taken"}, data : Packed, head : BOOLEAN]
JobType    == [state : {"NONE", "QUEUED", "RUNNING", "DONE", "FAILED", "CANCELED"},
               cancel : BOOLEAN]
WorkerType == [pc : Points, after : Points, recovered : BOOLEAN, journaled : BOOLEAN,
               noted : BOOLEAN, resume : Resume, tree : Images, block : 0 .. Blocks,
               err : Errors]

TypeInv ==
  /\ seen \subseteq Trees /\ source \in seen
  /\ exfat \in ExfatType /\ exfat.synced <= exfat.size
  /\ pfs \in PfsType /\ (~pfs.on => pfs = NoPfs)
  /\ out \in OutType
  /\ journal \in Resume \union {NoJournal} /\ note \in BOOLEAN
  /\ job \in JobType /\ worker \in WorkerType /\ up \in BOOLEAN

-----------------------------------------------------------------------------
(* The exFAT stage, if it is there, holds all of the image im, on the      *)
(* medium; the PFS stage, if it has blocks, the first n of im.             *)
Full(im)     == exfat.on => /\ exfat.data = im /\ exfat.safe = File
                            /\ exfat.size = 2 * Files /\ exfat.synced = 2 * Files
Holds(n, im) == pfs.data # Void => pfs.safe >= n /\ \A b \in 1 .. n : pfs.data[b] = im

(* What a journal says is so.                                              *)
Covers(j) ==
  /\ j.phase = "EXFAT" /\ j.next > 0 =>
       /\ j.print \in seen /\ j.size >= 2 * j.next
       /\ exfat.on => \A f \in 1 .. j.next : f \in exfat.safe /\ exfat.data[f] = j.print[f]
  /\ j.phase \in {"PACK", "VERIFY", "PUBLISH"} => j.print \in seen /\ Full(j.print)
  /\ j.phase = "PACK" => Holds(j.pack, j.print)
  /\ j.phase \in {"VERIFY", "PUBLISH"} => Holds(Blocks, j.print)

JournalInv == Covers(journal) /\ (worker.pc = "record" => Covers(worker.resume))

(* Where the worker is, also on its way through the journal.               *)
Recording(point) == worker.pc = "record" /\ worker.after = point
In(points) == worker.pc \in points \/ (worker.pc = "record" /\ worker.after \in points)

Making   == {"scan", "file", "copy", "sync", "rmpfs", "size", "seek", "pack", "flush", "verify",
             "publish", "link", "unlink", "rename", "rmexfat"}
Body     == {"enter", "record"} \union Making
Ends     == {"judge", "dropexfat", "droppfs", "dropjournal", "dropnote", "settle"}
Sweeping == {"sweepexfat", "sweeppfs", "sweepnote", "sweepjournal"}

(* The job that the worker has, and what the worker was told at its start. *)
ControlInv ==
  /\ worker.pc \in {"idle"} \union Sweeping <=> job.state \notin {"QUEUED", "RUNNING"}
  /\ ~up => worker.pc = "idle" /\ job.state = "NONE"
  /\ worker.recovered \/ worker.noted => worker.journaled
  /\ worker.recovered /\ worker.pc \in {"start", "check", "prepare"} => worker.resume = journal
  /\ worker.journaled /\ worker.pc \in {"start", "check", "prepare"} => worker.recovered
  /\ worker.pc \in {"note", "enter"} \union (Making \ {"file", "copy", "sync", "rmpfs"})
       => worker.resume = journal
  /\ worker.pc \in {"note"} \union Body => worker.journaled

(* Which phase is recorded where.                                          *)
PhaseInv ==
  /\ worker.recovered /\ worker.pc \in {"start", "check", "prepare"}
       => worker.resume.phase # "DONE"
  /\ worker.pc \in {"note", "enter", "size"} => worker.resume.phase # "DONE"
  /\ worker.pc = "size" => worker.resume.phase # "EXFAT"
  /\ worker.pc = "record" =>
       worker.after \in {"file", "rmpfs", "size", "pack", "verify", "publish", "judge"}
  /\ worker.pc = "sync" => worker.after \in {"file", "rmpfs"}
  /\ worker.pc \in {"scan", "copy", "sync"} \/ In({"file", "rmpfs"})
       => worker.resume.phase = "EXFAT"
  /\ worker.pc \in {"seek", "flush"} \/ In({"pack"}) \/ Recording("size")
       => worker.resume.phase = "PACK"
  /\ In({"verify"}) => worker.resume.phase = "VERIFY"
  /\ worker.pc \in {"link", "unlink", "rename", "rmexfat"} \/ In({"publish"})
       => worker.resume.phase = "PUBLISH"
  /\ Recording("judge") => worker.resume.phase = "DONE"

(* The exFAT stage while it is built: the files that are counted are those *)
(* of the scan, and the one that is being read has not changed since.      *)
BuildInv ==
  /\ worker.pc \in {"copy", "sync"} \/ In({"file", "rmpfs"}) =>
       /\ exfat.on /\ exfat.size >= 2 * worker.resume.next
       /\ worker.resume.print \in seen /\ worker.tree = worker.resume.print
       /\ \A f \in 1 .. worker.resume.next : exfat.data[f] = worker.resume.print[f]
       /\ journal.phase = "EXFAT" /\ journal.next <= worker.resume.next
       /\ journal.next > 0 => journal.print = worker.resume.print
  /\ worker.pc = "copy" => /\ worker.resume.next + 1 \in File
                           /\ source[worker.resume.next + 1] = worker.tree[worker.resume.next + 1]
  /\ In({"rmpfs"}) \/ (worker.pc = "sync" /\ worker.after = "rmpfs")
       => worker.resume.next = Files
  /\ In({"rmpfs"}) => exfat.safe = File /\ exfat.size = 2 * Files /\ exfat.synced = 2 * Files

(* The PFS stage while it is packed, and after it was verified.            *)
PackInv ==
  /\ worker.pc \in {"seek", "flush"} \/ In({"pack"}) => exfat.on /\ pfs.on
  /\ worker.pc = "flush" \/ In({"pack"}) =>
       /\ worker.resume.pack <= worker.block
       /\ \A b \in 1 .. worker.block : pfs.data[b] = worker.resume.print
  /\ worker.pc = "flush" => worker.block > 0
  /\ In({"verify"}) => pfs.on
  /\ worker.pc \in {"link", "unlink", "rename"} \/ In({"publish"}) => pfs.on /\ pfs.data # Void
  /\ worker.pc \in {"link", "rename"} => pfs.head
  /\ worker.pc = "rename" => out.st = "absent"
  /\ worker.pc \in {"unlink", "rmexfat"} \/ Recording("judge") => out.st = "ours"
  /\ worker.pc \in Ends /\ worker.err = "none" => out.st = "ours"

OutInv == /\ out.st = "ours" => out.head /\ \E tree \in seen : \A b \in Block : out.data[b] = tree

(* Stages, the journal and the note, and what the end has removed.         *)
StageInv ==
  /\ exfat.on \/ (pfs.on /\ ~pfs.linked) => journal # NoJournal /\ note
  /\ worker.pc \in {"note"} \union Body => journal # NoJournal
  /\ worker.pc \in Body => note
  /\ worker.recovered /\ worker.pc \in {"start", "check", "prepare"} => journal # NoJournal
  /\ worker.pc \in {"droppfs", "dropjournal", "dropnote"} /\ worker.journaled => ~exfat.on
  /\ worker.pc \in {"dropjournal", "dropnote"} /\ worker.journaled => ~pfs.on \/ pfs.linked
  /\ worker.pc = "dropnote" /\ worker.journaled => journal = NoJournal
  /\ worker.pc = "settle" /\ worker.recovered /\ worker.err # "error" => journal = NoJournal
  /\ worker.pc \in Sweeping \ {"sweepexfat"} => ~exfat.on
  /\ worker.pc \in {"sweepnote", "sweepjournal"} => ~pfs.on \/ pfs.linked

IInv == /\ TypeInv /\ JournalInv /\ ControlInv /\ PhaseInv /\ BuildInv /\ PackInv /\ OutInv
        /\ StageInv

-----------------------------------------------------------------------------
(* What is known of the constants, and of the variables.                   *)
LEMMA Limits == /\ Files \in Nat \ {0} /\ Early \in 0 .. Files /\ Blocks \in Nat \ {0}
                /\ Versions \in Nat \ {0} /\ Files \in File /\ Blocks \in Block
BY ConversionAssumption DEF File, Block

LEMMA WorkerField ==
  ASSUME TypeInv
  PROVE  /\ worker \in WorkerType
         /\ worker.pc \in Points /\ worker.after \in Points /\ worker.recovered \in BOOLEAN
         /\ worker.journaled \in BOOLEAN /\ worker.noted \in BOOLEAN
         /\ worker.resume \in Resume /\ worker.tree \in Images /\ worker.block \in 0 .. Blocks
         /\ worker.err \in Errors
BY DEF TypeInv, WorkerType

LEMMA ResumeField ==
  ASSUME NEW r \in Resume
  PROVE  /\ r.phase \in {"EXFAT", "PACK", "VERIFY", "PUBLISH", "DONE"}
         /\ r.next \in 0 .. Files /\ r.size \in 0 .. 2 * Files /\ r.print \in Images
         /\ r.pack \in 0 .. Blocks /\ r.verify \in 0 .. Blocks
BY DEF Resume, Phases

LEMMA ExfatField ==
  ASSUME TypeInv
  PROVE  /\ exfat \in ExfatType
         /\ exfat.on \in BOOLEAN /\ exfat.data \in Images /\ exfat.safe \in SUBSET File
         /\ exfat.size \in 0 .. 2 * Files /\ exfat.synced \in 0 .. 2 * Files
         /\ exfat.synced <= exfat.size
BY DEF TypeInv, ExfatType

LEMMA PfsField ==
  ASSUME TypeInv
  PROVE  /\ pfs \in PfsType
         /\ pfs.on \in BOOLEAN /\ pfs.data \in Packed /\ pfs.safe \in 0 .. Blocks
         /\ pfs.head \in BOOLEAN /\ pfs.linked \in BOOLEAN
BY DEF TypeInv, PfsType

LEMMA OutField ==
  ASSUME TypeInv
  PROVE  /\ out \in OutType
         /\ out.st \in {"absent", "ours", "taken"} /\ out.data \in Packed /\ out.head \in BOOLEAN
BY DEF TypeInv, OutType

LEMMA JobField ==
  ASSUME TypeInv
  PROVE  /\ job \in JobType
         /\ job.state \in {"NONE", "QUEUED", "RUNNING", "DONE", "FAILED", "CANCELED"}
         /\ job.cancel \in BOOLEAN
BY DEF TypeInv, JobType

LEMMA BegunIs ==
  /\ Begun \in Resume /\ Begun.phase = "EXFAT" /\ Begun.next = 0 /\ Begun.print = NoImage
  /\ NoJournal.phase = "NONE" /\ NoJournal # Begun /\ NoJournal \notin Resume
BY Limits DEF Begun, NoJournal, Resume, Phases, Images, NoImage

LEMMA JournalField ==
  ASSUME TypeInv, journal.phase # "NONE"
  PROVE  journal \in Resume
BY BegunIs DEF TypeInv

(* An image of a tree is none of the empty ones.                           *)
LEMMA TreeIs ==
  ASSUME NEW tree \in Trees
  PROVE  tree \in Images /\ tree # NoImage /\ \A f \in File : tree[f] # 0
<1>1. \A f \in File : tree[f] \in 1 .. Versions
  BY DEF Trees
<1>2. 1 .. Versions \subseteq 0 .. Versions
  BY Limits
<1>3. tree \in Images
  BY <1>2 DEF Trees, Images
<1>4. \A f \in File : tree[f] # 0
  BY <1>1, Limits
<1>5. tree # NoImage
  BY <1>4, Limits DEF NoImage
<1>6. QED
  BY <1>3, <1>4, <1>5

LEMMA EmptyIs ==
  /\ NoImage \in Images /\ Void \in Packed
  /\ NoExfat \in ExfatType /\ ~NoExfat.on /\ NoExfat.size = 0 /\ NoExfat.synced = 0
  /\ NoExfat.data = NoImage /\ NoExfat.safe = {}
  /\ NoPfs \in PfsType /\ ~NoPfs.on /\ NoPfs.data = Void /\ NoPfs.safe = 0 /\ ~NoPfs.linked
  /\ NoOut \in OutType /\ NoOut.st = "absent"
<1>1. NoImage \in Images
  BY Limits DEF NoImage, Images
<1>2. Void \in Packed
  BY <1>1 DEF Void, Packed
<1>3. NoExfat \in ExfatType /\ ~NoExfat.on /\ NoExfat.size = 0 /\ NoExfat.synced = 0
      /\ NoExfat.data = NoImage /\ NoExfat.safe = {}
  BY <1>1, Limits DEF NoExfat, ExfatType
<1>4. NoPfs \in PfsType /\ ~NoPfs.on /\ NoPfs.data = Void /\ NoPfs.safe = 0 /\ ~NoPfs.linked
  BY <1>2, Limits DEF NoPfs, PfsType
<1>5. NoOut \in OutType /\ NoOut.st = "absent"
  BY <1>2 DEF NoOut, OutType
<1>6. QED
  BY <1>1, <1>2, <1>3, <1>4, <1>5

LEMMA NoJobIs == NoJob \in JobType /\ NoJob.state = "NONE" /\ ~NoJob.cancel
BY DEF NoJob, JobType

LEMMA NoWorkerIs == /\ NoWorker \in WorkerType /\ NoWorker.pc = "idle" /\ NoWorker.err = "none"
                    /\ ~NoWorker.recovered /\ ~NoWorker.journaled /\ ~NoWorker.noted
BY BegunIs, EmptyIs, Limits DEF NoWorker, WorkerType, Points, Errors

-----------------------------------------------------------------------------
(* What the assignments of the steps do.                                   *)
LEMMA GotoIs ==
  ASSUME TypeInv, NEW p \in Points, Goto(p)
  PROVE  /\ worker' \in WorkerType /\ worker'.pc = p /\ worker'.after = worker.after
         /\ worker'.recovered = worker.recovered /\ worker'.journaled = worker.journaled
         /\ worker'.noted = worker.noted /\ worker'.resume = worker.resume
         /\ worker'.tree = worker.tree /\ worker'.block = worker.block
         /\ worker'.err = worker.err
<1>1. worker \in WorkerType
  BY WorkerField
<1>2. QED
  BY <1>1 DEF Goto, WorkerType

LEMMA FailIs ==
  ASSUME TypeInv, NEW e \in Errors, Fail(e)
  PROVE  /\ worker' \in WorkerType /\ worker'.pc = "judge"
         /\ worker'.recovered = worker.recovered /\ worker'.journaled = worker.journaled
         /\ worker'.noted = worker.noted /\ worker'.err = e
<1>1. worker \in WorkerType /\ "judge" \in Points
  BY WorkerField DEF Points
<1>2. QED
  BY <1>1 DEF Fail, WorkerType

LEMMA RecordIs ==
  ASSUME TypeInv, NEW r \in Resume, NEW p \in Points, Record(r, p)
  PROVE  /\ worker' \in WorkerType /\ worker'.pc = "record" /\ worker'.after = p
         /\ worker'.recovered = worker.recovered /\ worker'.journaled = worker.journaled
         /\ worker'.noted = worker.noted /\ worker'.resume = r
         /\ worker'.tree = worker.tree /\ worker'.block = worker.block
         /\ worker'.err = worker.err
<1>1. worker \in WorkerType /\ "record" \in Points
  BY WorkerField DEF Points
<1>2. QED
  BY <1>1 DEF Record, WorkerType

-----------------------------------------------------------------------------
LEMMA Parts == ASSUME IInv
               PROVE  /\ TypeInv /\ JournalInv /\ ControlInv /\ PhaseInv /\ BuildInv /\ PackInv
                      /\ OutInv /\ StageInv
BY DEF IInv

LEMMA Whole == ASSUME TypeInv', JournalInv', ControlInv', PhaseInv', BuildInv', PackInv', OutInv',
                      StageInv'
               PROVE  IInv'
BY DEF IInv

(* What a step that leaves a part alone keeps of the invariant.            *)
LEMMA JournalFrame ==
  ASSUME JournalInv, UNCHANGED <<exfat, pfs, journal>>, seen \subseteq seen',
         worker'.pc # "record"
  PROVE  JournalInv'
BY DEF JournalInv, Covers, Full, Holds

LEMMA OutFrame == ASSUME OutInv, UNCHANGED out, seen \subseteq seen' PROVE OutInv'
BY DEF OutInv

(* Before the stages are worked on, and after they were left.              *)
Quiet == {"start", "check", "prepare", "note", "enter", "scan", "size"} \union Ends
           \union Sweeping \union {"idle"}

LEMMA QuietFrame ==
  ASSUME worker'.pc \in Quiet,
         worker'.pc \in Ends => worker'.err # "none" \/ out'.st = "ours"
  PROVE  BuildInv' /\ PackInv'
<1>1. worker'.pc \notin {"record"} \union (Making \ {"scan", "size"})
  BY DEF Quiet, Ends, Sweeping, Making
<1>2. BuildInv'
  BY <1>1 DEF BuildInv, In, Making
<1>3. PackInv'
  BY <1>1 DEF PackInv, In, Making, Recording
<1>4. QED
  BY <1>2, <1>3

LEMMA PhaseFrame ==
  ASSUME worker'.pc \in Ends \union Sweeping \union {"idle"}
  PROVE  PhaseInv'
BY DEF PhaseInv, Ends, Sweeping, In, Recording

(* The worker gives up: what is on disk stays, and the end judges it.      *)
LEMMA FailKeeps ==
  ASSUME IInv, up, worker.pc \in {"check", "prepare", "note"} \union Body,
         NEW e \in Errors \ {"none"}, Fail(e), UNCHANGED <<disk, source, seen, job, up>>
  PROVE  IInv'
<1>0. /\ TypeInv /\ JournalInv /\ ControlInv /\ PhaseInv /\ BuildInv /\ PackInv
      /\ OutInv /\ StageInv /\ UNCHANGED <<exfat, pfs, out, journal, note>>
  BY Parts DEF disk
<1>1. /\ worker' \in WorkerType /\ worker'.pc = "judge"
      /\ worker'.recovered = worker.recovered /\ worker'.journaled = worker.journaled
      /\ worker'.noted = worker.noted /\ worker'.err = e
  BY <1>0, FailIs
<1>2. worker.pc \notin {"idle"} \union Sweeping
  BY DEF Body, Making, Sweeping
<1>3. TypeInv'
  BY <1>0, <1>1 DEF TypeInv
<1>4. JournalInv' /\ OutInv'
  BY <1>0, <1>1, JournalFrame, OutFrame
<1>5. ControlInv'
  BY <1>0, <1>1, <1>2 DEF ControlInv, Sweeping, Making, Body
<1>6. PhaseInv'
  BY <1>1, PhaseFrame DEF Ends
<1>7. BuildInv' /\ PackInv'
  BY <1>1, QuietFrame DEF Quiet, Ends
<1>8. StageInv'
  BY <1>0, <1>1 DEF StageInv, Body, Making, Sweeping
<1>9. QED
  BY <1>3, <1>4, <1>5, <1>6, <1>7, <1>8, Whole

-----------------------------------------------------------------------------
(* The steps up to the conversion.                                         *)
LEMMA StartKeeps == ASSUME IInv, Start PROVE IInv'
<1>0. /\ TypeInv /\ JournalInv /\ ControlInv /\ PhaseInv /\ BuildInv /\ PackInv
      /\ OutInv /\ StageInv /\ UNCHANGED <<exfat, pfs, out, journal, note, source, seen, up>>
      /\ worker.pc = "start" /\ up
  BY Parts DEF Start, disk, At
<1>1. job.state \in {"QUEUED", "RUNNING"} /\ job \in JobType
  BY <1>0, JobField DEF ControlInv, Sweeping
<1>2. CASE job' = [job EXCEPT !.state = "RUNNING"] /\ Goto("check")
  <2>1. /\ worker' \in WorkerType /\ worker'.pc = "check"
        /\ worker'.recovered = worker.recovered /\ worker'.journaled = worker.journaled
        /\ worker'.noted = worker.noted /\ worker'.resume = worker.resume
    BY <1>0, <1>2, GotoIs DEF Points
  <2>2. job' \in JobType /\ job'.state = "RUNNING"
    BY <1>1, <1>2 DEF JobType
  <2>3. TypeInv'
    BY <1>0, <2>1, <2>2 DEF TypeInv
  <2>4. JournalInv' /\ OutInv'
    BY <1>0, <2>1, JournalFrame, OutFrame
  <2>5. ControlInv'
    BY <1>0, <2>1, <2>2 DEF ControlInv, Sweeping, Making, Body
  <2>6. PhaseInv'
    BY <1>0, <2>1 DEF PhaseInv, In, Recording
  <2>7. BuildInv' /\ PackInv'
    BY <2>1, QuietFrame DEF Quiet, Ends
  <2>8. StageInv'
    BY <1>0, <2>1 DEF StageInv, Body, Making, Sweeping
  <2>9. QED
    BY <2>3, <2>4, <2>5, <2>6, <2>7, <2>8, Whole
<1>3. CASE worker' = [worker EXCEPT !.pc = "dropexfat", !.err = "canceled"] /\ UNCHANGED job
  <2>1. /\ worker' \in WorkerType /\ worker'.pc = "dropexfat" /\ worker'.err = "canceled"
        /\ worker'.recovered = worker.recovered /\ worker'.journaled = worker.journaled
        /\ worker'.noted = worker.noted
    <3>1. worker \in WorkerType /\ "dropexfat" \in Points /\ "canceled" \in Errors
      BY <1>0, WorkerField DEF Points, Errors
    <3>2. QED
      BY <1>3, <3>1 DEF WorkerType
  <2>3. TypeInv'
    BY <1>0, <1>3, <2>1 DEF TypeInv
  <2>4. JournalInv' /\ OutInv'
    BY <1>0, <2>1, JournalFrame, OutFrame
  <2>5. ControlInv'
    BY <1>0, <1>1, <1>3, <2>1 DEF ControlInv, Sweeping, Making, Body
  <2>6. PhaseInv'
    BY <2>1, PhaseFrame DEF Ends
  <2>7. BuildInv' /\ PackInv'
    BY <2>1, QuietFrame DEF Quiet, Ends
  <2>8. StageInv'
    BY <1>0, <2>1 DEF StageInv, Body, Making, Sweeping
  <2>9. QED
    BY <2>3, <2>4, <2>5, <2>6, <2>7, <2>8, Whole
<1>4. QED
  BY <1>2, <1>3 DEF Start

LEMMA CheckKeeps == ASSUME IInv, Check PROVE IInv'
<1>0. /\ TypeInv /\ JournalInv /\ ControlInv /\ PhaseInv /\ BuildInv /\ PackInv
      /\ OutInv /\ StageInv /\ UNCHANGED <<disk, source, seen, job, up>>
      /\ UNCHANGED <<exfat, pfs, out, journal, note>> /\ worker.pc = "check" /\ up
  BY Parts DEF Check, disk, At
<1>1. CASE Fail("stale") \/ Fail("error")
  BY <1>0, <1>1, FailKeeps DEF Errors
<1>2. CASE Goto("prepare")
  <2>1. /\ worker' \in WorkerType /\ worker'.pc = "prepare"
        /\ worker'.recovered = worker.recovered /\ worker'.journaled = worker.journaled
        /\ worker'.noted = worker.noted /\ worker'.resume = worker.resume
    BY <1>0, <1>2, GotoIs DEF Points
  <2>3. TypeInv'
    BY <1>0, <2>1 DEF TypeInv
  <2>4. JournalInv' /\ OutInv'
    BY <1>0, <2>1, JournalFrame, OutFrame
  <2>5. ControlInv'
    BY <1>0, <2>1 DEF ControlInv, Sweeping, Making, Body
  <2>6. PhaseInv'
    BY <1>0, <2>1 DEF PhaseInv, In, Recording
  <2>7. BuildInv' /\ PackInv'
    BY <2>1, QuietFrame DEF Quiet, Ends
  <2>8. StageInv'
    BY <1>0, <2>1 DEF StageInv, Body, Making, Sweeping
  <2>9. QED
    BY <2>3, <2>4, <2>5, <2>6, <2>7, <2>8, Whole
<1>3. QED
  BY <1>1, <1>2 DEF Check

LEMMA PrepareKeeps == ASSUME IInv, Prepare PROVE IInv'
<1>0. /\ TypeInv /\ JournalInv /\ ControlInv /\ PhaseInv /\ BuildInv /\ PackInv
      /\ OutInv /\ StageInv /\ UNCHANGED <<exfat, pfs, out, note, source, seen, job, up>>
      /\ worker.pc = "prepare" /\ up /\ worker \in WorkerType
  BY Parts, WorkerField DEF Prepare, At
<1>1. CASE worker.journaled /\ Goto("note") /\ UNCHANGED journal
  <2>1. /\ worker' \in WorkerType /\ worker'.pc = "note"
        /\ worker'.recovered = worker.recovered /\ worker'.journaled = worker.journaled
        /\ worker'.noted = worker.noted /\ worker'.resume = worker.resume
    BY <1>0, <1>1, GotoIs DEF Points
  <2>3. TypeInv'
    BY <1>0, <1>1, <2>1 DEF TypeInv
  <2>4. JournalInv' /\ OutInv'
    BY <1>0, <1>1, <2>1, JournalFrame, OutFrame
  <2>5. ControlInv'
    BY <1>0, <1>1, <2>1 DEF ControlInv, Sweeping, Making, Body
  <2>6. PhaseInv'
    BY <1>0, <1>1, <2>1 DEF PhaseInv, ControlInv, In, Recording
  <2>7. BuildInv' /\ PackInv'
    BY <2>1, QuietFrame DEF Quiet, Ends
  <2>8. StageInv'
    BY <1>0, <1>1, <2>1 DEF StageInv, ControlInv, Body, Making, Sweeping
  <2>9. QED
    BY <2>3, <2>4, <2>5, <2>6, <2>7, <2>8, Whole
<1>2. CASE /\ ~worker.journaled /\ journal' = Begun
           /\ worker' = [worker EXCEPT !.pc = "note", !.journaled = TRUE, !.resume = Begun]
  <2>1. /\ worker' \in WorkerType /\ worker'.pc = "note"
        /\ worker'.recovered = worker.recovered /\ worker'.journaled = TRUE
        /\ worker'.noted = worker.noted /\ worker'.resume = Begun
    BY <1>0, <1>2, BegunIs DEF WorkerType, Points
  <2>3. TypeInv'
    BY <1>0, <1>2, <2>1, BegunIs DEF TypeInv
  <2>4. JournalInv' /\ OutInv'
    <3>1. Covers(journal)'
      BY <1>2, BegunIs DEF Covers
    <3>2. QED
      BY <1>0, <2>1, <3>1, OutFrame DEF JournalInv
  <2>5. ControlInv'
    BY <1>0, <1>2, <2>1 DEF ControlInv, Sweeping, Making, Body
  <2>6. PhaseInv'
    BY <2>1, BegunIs DEF PhaseInv, In, Recording
  <2>7. BuildInv' /\ PackInv'
    BY <2>1, QuietFrame DEF Quiet, Ends
  <2>8. StageInv'
    BY <1>0, <1>2, <2>1, BegunIs DEF StageInv, Body, Making, Sweeping, Ends
  <2>9. QED
    BY <2>3, <2>4, <2>5, <2>6, <2>7, <2>8, Whole
<1>3. CASE /\ ~worker.journaled /\ UNCHANGED journal
           /\ worker' = [worker EXCEPT !.pc = "judge", !.err = "error",
                                       !.journaled = TRUE, !.resume = Begun]
  <2>1. /\ worker' \in WorkerType /\ worker'.pc = "judge" /\ worker'.err = "error"
        /\ worker'.recovered = worker.recovered /\ worker'.journaled = TRUE
        /\ worker'.noted = worker.noted
    BY <1>0, <1>3, BegunIs DEF WorkerType, Points, Errors
  <2>3. TypeInv'
    BY <1>0, <1>3, <2>1 DEF TypeInv
  <2>4. JournalInv' /\ OutInv'
    BY <1>0, <1>3, <2>1, JournalFrame, OutFrame
  <2>5. ControlInv'
    BY <1>0, <1>3, <2>1 DEF ControlInv, Sweeping, Making, Body
  <2>6. PhaseInv'
    BY <2>1, PhaseFrame DEF Ends
  <2>7. BuildInv' /\ PackInv'
    BY <2>1, QuietFrame DEF Quiet, Ends
  <2>8. StageInv'
    BY <1>0, <1>3, <2>1 DEF StageInv, Body, Making, Sweeping
  <2>9. QED
    BY <2>3, <2>4, <2>5, <2>6, <2>7, <2>8, Whole
<1>4. QED
  BY <1>1, <1>2, <1>3 DEF Prepare

LEMMA MakeNoteKeeps == ASSUME IInv, MakeNote PROVE IInv'
<1>0. /\ TypeInv /\ JournalInv /\ ControlInv /\ PhaseInv /\ BuildInv /\ PackInv
      /\ OutInv /\ StageInv /\ UNCHANGED <<exfat, pfs, out, journal, source, seen, job, up>>
      /\ worker.pc = "note" /\ up /\ worker \in WorkerType
  BY Parts, WorkerField DEF MakeNote, At
<1>1. CASE Fail("error") /\ UNCHANGED note
  <2>1. UNCHANGED <<disk, source, seen, job, up>>
    BY <1>0, <1>1 DEF disk
  <2>2. QED
    BY <1>0, <1>1, <2>1, FailKeeps DEF Errors
<1>2. CASE note' = TRUE /\ worker' = [worker EXCEPT !.pc = "enter", !.noted = TRUE]
  <2>1. /\ worker' \in WorkerType /\ worker'.pc = "enter"
        /\ worker'.recovered = worker.recovered /\ worker'.journaled = worker.journaled
        /\ worker'.noted /\ worker'.resume = worker.resume
    BY <1>0, <1>2 DEF WorkerType, Points
  <2>3. TypeInv'
    BY <1>0, <1>2, <2>1 DEF TypeInv
  <2>4. JournalInv' /\ OutInv'
    BY <1>0, <1>2, <2>1, JournalFrame, OutFrame
  <2>5. ControlInv'
    BY <1>0, <1>2, <2>1 DEF ControlInv, Sweeping, Making, Body
  <2>6. PhaseInv'
    BY <1>0, <1>2, <2>1 DEF PhaseInv, In, Recording
  <2>7. BuildInv' /\ PackInv'
    BY <2>1, QuietFrame DEF Quiet, Ends
  <2>8. StageInv'
    BY <1>0, <1>2, <2>1 DEF StageInv, Body, Making, Sweeping
  <2>9. QED
    BY <2>3, <2>4, <2>5, <2>6, <2>7, <2>8, Whole
<1>3. QED
  BY <1>1, <1>2 DEF MakeNote

LEMMA EnterKeeps == ASSUME IInv, Enter PROVE IInv'
<1>0. /\ TypeInv /\ JournalInv /\ ControlInv /\ PhaseInv /\ BuildInv /\ PackInv
      /\ OutInv /\ StageInv /\ UNCHANGED <<disk, source, seen, job, up>>
      /\ UNCHANGED <<exfat, pfs, out, journal, note>> /\ worker.pc = "enter" /\ up
  BY Parts DEF Enter, disk, At
<1>1. CASE Fail("error")
  BY <1>0, <1>1, FailKeeps DEF Errors, Body
<1>2. CASE Goto(IF worker.resume.phase = "EXFAT" THEN "scan" ELSE "size")
  <2>1. /\ worker' \in WorkerType
        /\ worker'.pc = IF worker.resume.phase = "EXFAT" THEN "scan" ELSE "size"
        /\ worker'.recovered = worker.recovered /\ worker'.journaled = worker.journaled
        /\ worker'.noted = worker.noted /\ worker'.resume = worker.resume
    BY <1>0, <1>2, GotoIs DEF Points
  <2>2. worker'.pc = "scan" \/ worker'.pc = "size"
    BY <2>1
  <2>3. TypeInv'
    BY <1>0, <2>1 DEF TypeInv
  <2>4. JournalInv' /\ OutInv'
    BY <1>0, <2>2, JournalFrame, OutFrame
  <2>5. ControlInv'
    BY <1>0, <2>1, <2>2 DEF ControlInv, Sweeping, Making, Body
  <2>6. PhaseInv'
    BY <1>0, <2>1, <2>2 DEF PhaseInv, In, Recording
  <2>7. BuildInv' /\ PackInv'
    BY <2>2, QuietFrame DEF Quiet, Ends
  <2>8. StageInv'
    BY <1>0, <2>1, <2>2 DEF StageInv, Body, Making, Sweeping
  <2>9. QED
    BY <2>3, <2>4, <2>5, <2>6, <2>7, <2>8, Whole
<1>3. QED
  BY <1>1, <1>2 DEF Enter

-----------------------------------------------------------------------------
(* The journal, and the exFAT stage.                                       *)
LEMMA WriteJournalKeeps == ASSUME IInv, WriteJournal PROVE IInv'
<1>0. /\ TypeInv /\ JournalInv /\ ControlInv /\ PhaseInv /\ BuildInv /\ PackInv
      /\ OutInv /\ StageInv /\ UNCHANGED <<exfat, pfs, out, note, source, seen, job, up>>
      /\ worker.pc = "record" /\ up /\ worker.resume \in Resume /\ worker.after \in Points
  BY Parts, WorkerField DEF WriteJournal, At
<1>1. CASE Fail("error") /\ UNCHANGED journal
  <2>1. UNCHANGED <<disk, source, seen, job, up>>
    BY <1>0, <1>1 DEF disk
  <2>2. QED
    BY <1>0, <1>1, <2>1, FailKeeps DEF Errors, Body
<1>2. CASE journal' = worker.resume /\ Goto(worker.after)
  <2>1. /\ worker' \in WorkerType /\ worker'.pc = worker.after
        /\ worker'.recovered = worker.recovered /\ worker'.journaled = worker.journaled
        /\ worker'.noted = worker.noted /\ worker'.resume = worker.resume
        /\ worker'.tree = worker.tree /\ worker'.block = worker.block
        /\ worker'.err = worker.err
    BY <1>0, <1>2, GotoIs
  <2>2. worker.after \in {"file", "rmpfs", "size", "pack", "verify", "publish", "judge"}
    BY <1>0 DEF PhaseInv
  <2>3. TypeInv'
    BY <1>0, <1>2, <2>1 DEF TypeInv
  <2>4. JournalInv' /\ OutInv'
    <3>1. Covers(journal)'
      BY <1>0, <1>2 DEF JournalInv, Covers, Full, Holds
    <3>2. QED
      BY <1>0, <2>1, <2>2, <3>1, OutFrame DEF JournalInv
  <2>5. ControlInv'
    BY <1>0, <1>2, <2>1, <2>2 DEF ControlInv, Sweeping, Making, Body
  <2>6. PhaseInv'
    BY <1>0, <2>1, <2>2 DEF PhaseInv, In, Recording
  <2>7. BuildInv'
    BY <1>0, <1>2, <2>1, <2>2, ResumeField DEF BuildInv, PhaseInv, In
  <2>8. PackInv'
    BY <1>0, <1>2, <2>1, <2>2 DEF PackInv, In, Recording, Ends
  <2>9. StageInv'
    <3>1. journal' # NoJournal
      BY <1>0, <1>2, BegunIs
    <3>2. QED
      BY <1>0, <2>1, <2>2, <3>1 DEF StageInv, Body, Making, Sweeping
  <2>10. QED
    BY <2>3, <2>4, <2>5, <2>6, <2>7, <2>8, <2>9, Whole
<1>3. QED
  BY <1>1, <1>2 DEF WriteJournal

(* The checkpoint fits the source: it is the state that was staged.        *)
LEMMA ScanFinds ==
  ASSUME IInv, Scan, SourceMatches(worker.resume), worker.resume.next > 0
  PROVE  /\ worker.resume.print = source /\ exfat.on
         /\ exfat.size >= 2 * worker.resume.next
         /\ \A f \in 1 .. worker.resume.next : exfat.data[f] = source[f]
<1>1. /\ TypeInv /\ JournalInv /\ worker.resume = journal /\ worker.resume.phase = "EXFAT"
  BY Parts DEF Scan, At, ControlInv, PhaseInv, Making
<1>2. /\ worker.resume.print \in seen /\ worker.resume.size >= 2 * worker.resume.next
      /\ exfat.on => \A f \in 1 .. worker.resume.next : exfat.data[f] = worker.resume.print[f]
  BY <1>1 DEF JournalInv, Covers
<1>3. worker.resume.print # NoImage
  BY <1>1, <1>2, TreeIs DEF TypeInv
<1>4. QED
  BY <1>2, <1>3 DEF SourceMatches

LEMMA ScanKeeps == ASSUME IInv, Scan PROVE IInv'
<1>0. /\ TypeInv /\ JournalInv /\ ControlInv /\ PhaseInv /\ BuildInv /\ PackInv
      /\ OutInv /\ StageInv /\ UNCHANGED <<pfs, out, journal, note, source, seen, job, up>>
      /\ worker.pc = "scan" /\ up /\ worker \in WorkerType /\ worker.resume \in Resume
  BY Parts, WorkerField DEF Scan, At
<1>1. /\ worker.resume = journal /\ worker.resume.phase = "EXFAT"
      /\ source \in seen /\ source \in Images
  BY <1>0, TreeIs DEF ControlInv, PhaseInv, Making, TypeInv
<1>2. ASSUME NEW p \in {"file", "sync"}, NEW a \in Points,
             worker' = [worker EXCEPT !.resume.print = source, !.tree = source,
                                      !.pc = p, !.after = a]
      PROVE  /\ worker' \in WorkerType /\ worker'.pc = p /\ worker'.after = a
             /\ worker'.recovered = worker.recovered /\ worker'.journaled = worker.journaled
             /\ worker'.noted = worker.noted /\ worker'.tree = source
             /\ worker'.resume.print = source /\ worker'.resume.next = worker.resume.next
             /\ worker'.resume.phase = "EXFAT"
  <2>1. [worker.resume EXCEPT !.print = source] \in Resume
    BY <1>0, <1>1 DEF Resume
  <2>2. worker.resume = [worker.resume EXCEPT !.print = worker.resume.print]
    BY <1>0 DEF Resume
  <2>3. worker' = [worker EXCEPT !.resume = [worker.resume EXCEPT !.print = source],
                                 !.tree = source, !.pc = p, !.after = a]
    BY <1>0, <1>2 DEF WorkerType
  <2>4. worker'.resume = [worker.resume EXCEPT !.print = source]
    BY <1>0, <2>3 DEF WorkerType
  <2>5. p \in Points
    BY DEF Points
  <2>6. QED
    BY <1>0, <1>1, <2>1, <2>3, <2>4, <2>5 DEF WorkerType, Resume
<1>3. CASE ~SourceMatches(worker.resume) /\ Fail("stale") /\ UNCHANGED exfat
  <2>1. UNCHANGED <<disk, source, seen, job, up>>
    BY <1>0, <1>3 DEF disk
  <2>2. QED
    BY <1>0, <1>3, <2>1, FailKeeps DEF Errors, Body, Making
<1>4. CASE /\ SourceMatches(worker.resume) /\ worker.resume.next > 0 /\ UNCHANGED exfat
           /\ worker' = [[worker EXCEPT !.resume.print = source, !.tree = source]
                           EXCEPT !.pc = "file"]
  <2>1. /\ worker' \in WorkerType /\ worker'.pc = "file"
        /\ worker'.recovered = worker.recovered /\ worker'.journaled = worker.journaled
        /\ worker'.noted = worker.noted /\ worker'.tree = source
        /\ worker'.resume.print = source /\ worker'.resume.next = worker.resume.next
        /\ worker'.resume.phase = "EXFAT"
    <3>1. worker' = [worker EXCEPT !.resume.print = source, !.tree = source,
                                   !.pc = "file", !.after = worker.after]
      BY <1>0, <1>4 DEF WorkerType
    <3>2. worker.after \in Points
      BY <1>0, WorkerField
    <3>3. QED
      BY <1>2, <3>1, <3>2
  <2>2. /\ worker.resume.print = source /\ exfat.on
        /\ exfat.size >= 2 * worker.resume.next
        /\ \A f \in 1 .. worker.resume.next : exfat.data[f] = source[f]
    BY <1>4, ScanFinds
  <2>3. TypeInv'
    BY <1>0, <1>4, <2>1 DEF TypeInv
  <2>4. JournalInv' /\ OutInv'
    BY <1>0, <1>4, <2>1, JournalFrame, OutFrame
  <2>5. ControlInv'
    BY <1>0, <2>1 DEF ControlInv, Sweeping, Making, Body
  <2>6. PhaseInv'
    BY <2>1 DEF PhaseInv, In, Recording
  <2>7. BuildInv'
    BY <1>0, <1>1, <1>4, <2>1, <2>2, ResumeField DEF BuildInv, In
  <2>8. PackInv'
    BY <2>1 DEF PackInv, In, Recording, Ends
  <2>9. StageInv'
    BY <1>0, <1>4, <2>1 DEF StageInv, Body, Making, Sweeping
  <2>10. QED
    BY <2>3, <2>4, <2>5, <2>6, <2>7, <2>8, <2>9, Whole
<1>5. CASE /\ SourceMatches(worker.resume) /\ worker.resume.next = 0
           /\ exfat' = [NoExfat EXCEPT !.on = TRUE, !.size = 2 * Early]
           /\ worker' = [[worker EXCEPT !.resume.print = source, !.tree = source]
                           EXCEPT !.pc = "sync", !.after = "file"]
  <2>1. /\ worker' \in WorkerType /\ worker'.pc = "sync" /\ worker'.after = "file"
        /\ worker'.recovered = worker.recovered /\ worker'.journaled = worker.journaled
        /\ worker'.noted = worker.noted /\ worker'.tree = source
        /\ worker'.resume.print = source /\ worker'.resume.next = 0
        /\ worker'.resume.phase = "EXFAT"
    <3>1. worker' = [worker EXCEPT !.resume.print = source, !.tree = source,
                                   !.pc = "sync", !.after = "file"]
      BY <1>0, <1>5 DEF WorkerType
    <3>2. "file" \in Points
      BY DEF Points
    <3>3. QED
      BY <1>2, <1>5, <3>1, <3>2
  <2>2. exfat' \in ExfatType /\ exfat'.on /\ exfat'.size >= 0 /\ exfat'.synced <= exfat'.size
    <3>1. 2 * Early \in 0 .. 2 * Files
      BY Limits
    <3>2. QED
      <4>1. exfat' = [on |-> TRUE, data |-> NoImage, safe |-> {}, size |-> 2 * Early, synced |-> 0]
        BY <1>5 DEF NoExfat
      <4>2. 0 \in 0 .. 2 * Files /\ 0 <= 2 * Early
        BY Limits
      <4>3. QED
        BY <3>1, <4>1, <4>2, EmptyIs DEF ExfatType
  <2>3. TypeInv'
    BY <1>0, <2>1, <2>2 DEF TypeInv
  <2>4. JournalInv' /\ OutInv'
    BY <1>0, <1>1, <1>5, <2>1, OutFrame DEF JournalInv, Covers
  <2>5. ControlInv'
    BY <1>0, <2>1 DEF ControlInv, Sweeping, Making, Body
  <2>6. PhaseInv'
    BY <2>1 DEF PhaseInv, In, Recording
  <2>7. BuildInv'
    BY <1>0, <1>1, <1>5, <2>1, <2>2 DEF BuildInv, In
  <2>8. PackInv'
    BY <2>1 DEF PackInv, In, Recording, Ends
  <2>9. StageInv'
    BY <1>0, <2>1 DEF StageInv, Body, Making, Sweeping
  <2>10. QED
    BY <2>3, <2>4, <2>5, <2>6, <2>7, <2>8, <2>9, Whole
<1>6. CASE /\ worker.resume.next = 0 /\ exfat' = [NoExfat EXCEPT !.on = TRUE] /\ Fail("error")
  <2>1. /\ worker' \in WorkerType /\ worker'.pc = "judge"
        /\ worker'.recovered = worker.recovered /\ worker'.journaled = worker.journaled
        /\ worker'.noted = worker.noted /\ worker'.err = "error"
    BY <1>0, <1>6, FailIs DEF Errors
  <2>2. exfat' \in ExfatType /\ exfat'.synced <= exfat'.size
    <3>1. exfat' = [on |-> TRUE, data |-> NoImage, safe |-> {}, size |-> 0, synced |-> 0]
      BY <1>6 DEF NoExfat
    <3>2. 0 \in 0 .. 2 * Files
      BY Limits
    <3>3. QED
      BY <3>1, <3>2, EmptyIs DEF ExfatType
  <2>3. TypeInv'
    BY <1>0, <2>1, <2>2 DEF TypeInv
  <2>4. JournalInv' /\ OutInv'
    BY <1>0, <1>1, <1>6, <2>1, OutFrame DEF JournalInv, Covers
  <2>5. ControlInv'
    BY <1>0, <2>1 DEF ControlInv, Sweeping, Making, Body
  <2>6. PhaseInv'
    BY <2>1, PhaseFrame DEF Ends
  <2>7. BuildInv' /\ PackInv'
    BY <2>1, QuietFrame DEF Quiet, Ends
  <2>8. StageInv'
    BY <1>0, <2>1 DEF StageInv, Body, Making, Sweeping
  <2>9. QED
    BY <2>3, <2>4, <2>5, <2>6, <2>7, <2>8, Whole
<1>7. QED
  BY <1>3, <1>4, <1>5, <1>6 DEF Scan

(* A checkpoint has the stage on the medium before the journal counts it.  *)
LEMMA SafeIs ==
  ASSUME TypeInv, exfat' = Safe(exfat)
  PROVE  /\ exfat' \in ExfatType /\ exfat'.on = exfat.on /\ exfat'.data = exfat.data
         /\ exfat'.size = exfat.size /\ exfat'.synced = exfat.size
         /\ \A f \in File : exfat.data[f] # 0 => f \in exfat'.safe
<1>1. exfat \in ExfatType
  BY ExfatField
<1>2. {f \in File : exfat.data[f] # 0} \in SUBSET File
  OBVIOUS
<1>3. QED
  BY <1>1, <1>2 DEF Safe, ExfatType

LEMMA SyncExfatKeeps == ASSUME IInv, SyncExfat PROVE IInv'
<1>0. /\ TypeInv /\ JournalInv /\ ControlInv /\ PhaseInv /\ BuildInv /\ PackInv
      /\ OutInv /\ StageInv /\ UNCHANGED <<pfs, out, journal, note, source, seen, job, up>>
      /\ worker.pc = "sync" /\ up /\ worker.resume \in Resume
  BY Parts, WorkerField DEF SyncExfat, At
<1>1. CASE Fail("error") /\ UNCHANGED exfat
  <2>1. UNCHANGED <<disk, source, seen, job, up>>
    BY <1>0, <1>1 DEF disk
  <2>2. QED
    BY <1>0, <1>1, <2>1, FailKeeps DEF Errors, Body, Making
<1>2. CASE /\ exfat' = Safe(exfat)
           /\ Record([worker.resume EXCEPT !.size = exfat.size], worker.after)
  <2> DEFINE r == [worker.resume EXCEPT !.size = exfat.size]
  <2>1. /\ r \in Resume /\ r.phase = worker.resume.phase /\ r.next = worker.resume.next
        /\ r.print = worker.resume.print /\ r.size = exfat.size
    BY <1>0, ExfatField DEF Resume
  <2>2. Record(r, worker.after) /\ worker.after \in {"file", "rmpfs"} /\ r.phase = "EXFAT"
    BY <1>0, <1>2, <2>1 DEF PhaseInv
  <2> HIDE DEF r
  <2>3. /\ worker' \in WorkerType /\ worker'.pc = "record" /\ worker'.after = worker.after
        /\ worker'.recovered = worker.recovered /\ worker'.journaled = worker.journaled
        /\ worker'.noted = worker.noted /\ worker'.resume = r
        /\ worker'.tree = worker.tree /\ worker'.block = worker.block
    BY <1>0, <2>1, <2>2, RecordIs DEF Points
  <2>4. /\ exfat' \in ExfatType /\ exfat'.on = exfat.on /\ exfat'.data = exfat.data
        /\ exfat'.size = exfat.size /\ exfat'.synced = exfat.size
        /\ \A f \in File : exfat.data[f] # 0 => f \in exfat'.safe
        /\ exfat.size \in 0 .. 2 * Files /\ exfat'.safe \subseteq File
    BY <1>0, <1>2, SafeIs, ExfatField DEF ExfatType
  <2>5. /\ exfat.on /\ r.print \in seen /\ exfat.size >= 2 * r.next /\ r.next \in 0 .. Files
        /\ worker.tree = r.print /\ journal.phase = "EXFAT" /\ journal.next <= r.next
        /\ journal.next > 0 => journal.print = r.print
        /\ \A f \in 1 .. r.next : exfat.data[f] = r.print[f]
        /\ worker.after = "rmpfs" => r.next = Files
    BY <1>0, <2>1, <2>2, ResumeField DEF BuildInv
  <2>6. \A f \in 1 .. r.next : f \in File /\ f \in exfat'.safe
    <3>1. ASSUME NEW f \in 1 .. r.next
          PROVE  f \in File /\ r.print[f] # 0
      <4>1. f \in File
        BY <2>5, Limits DEF File
      <4>2. r.print \in Trees
        BY <1>0, <2>5 DEF TypeInv
      <4>3. QED
        BY <4>1, <4>2, TreeIs
    <3>2. QED
      BY <2>4, <2>5, <3>1
  <2>7. TypeInv'
    BY <1>0, <2>3, <2>4, Limits DEF TypeInv
  <2>8. journal.next \in 0 .. Files
    BY <1>0, <2>5, JournalField, ResumeField
  <2>9. JournalInv'
    <3>1. Covers(journal)'
      BY <1>0, <2>4, <2>5, <2>6, <2>8 DEF JournalInv, Covers
    <3>2. Covers(worker.resume)'
      BY <1>0, <2>1, <2>2, <2>3, <2>4, <2>5, <2>6 DEF Covers
    <3>3. QED
      BY <3>1, <3>2 DEF JournalInv
  <2>10. ControlInv'
    BY <1>0, <2>3 DEF ControlInv, Sweeping, Making, Body
  <2>11. PhaseInv'
    BY <2>2, <2>3 DEF PhaseInv, In, Recording
  <2>12. BuildInv'
    <3>1. worker.after = "rmpfs" => exfat'.safe = File
      BY <2>4, <2>5, <2>6 DEF File
    <3>2. worker.after = "rmpfs" => exfat.size = 2 * Files
      BY <2>4, <2>5, Limits
    <3>3. QED
      BY <1>0, <2>2, <2>3, <2>4, <2>5, <3>1, <3>2 DEF BuildInv, In
  <2>13. PackInv'
    BY <2>2, <2>3 DEF PackInv, In, Recording, Ends
  <2>14. OutInv'
    BY <1>0, OutFrame
  <2>15. StageInv'
    BY <1>0, <2>3, <2>4 DEF StageInv, Body, Making, Sweeping
  <2>16. QED
    BY <2>7, <2>9, <2>10, <2>11, <2>12, <2>13, <2>14, <2>15, Whole
<1>3. QED
  BY <1>1, <1>2 DEF SyncExfat

LEMMA MostIs == ASSUME NEW a \in Nat, NEW b \in Nat
                PROVE  Most(a, b) \in Nat /\ Most(a, b) >= a /\ Most(a, b) >= b
                       /\ (Most(a, b) = a \/ Most(a, b) = b)
BY DEF Most

LEMMA OpenFileKeeps == ASSUME IInv, OpenFile PROVE IInv'
<1> DEFINE f == worker.resume.next + 1
<1>0. /\ TypeInv /\ JournalInv /\ ControlInv /\ PhaseInv /\ BuildInv /\ PackInv
      /\ OutInv /\ StageInv /\ UNCHANGED <<pfs, out, journal, note, source, seen, job, up>>
      /\ worker.pc = "file" /\ up /\ worker \in WorkerType /\ worker.resume \in Resume
  BY Parts, WorkerField DEF OpenFile, At
<1>1. CASE (Fail("canceled") \/ Fail("stale")) /\ UNCHANGED exfat
  <2>1. UNCHANGED <<disk, source, seen, job, up>>
    BY <1>0, <1>1 DEF disk
  <2>2. QED
    BY <1>0, <1>1, <2>1, FailKeeps DEF Errors, Body, Making
<1>2. /\ exfat.on /\ worker.resume.print \in seen /\ exfat.size >= 2 * worker.resume.next
      /\ worker.tree = worker.resume.print /\ journal.phase = "EXFAT"
      /\ journal.next <= worker.resume.next /\ worker.resume.next \in 0 .. Files
      /\ journal.next > 0 => journal.print = worker.resume.print
      /\ \A g \in 1 .. worker.resume.next : exfat.data[g] = worker.resume.print[g]
      /\ worker.resume.phase = "EXFAT"
  BY <1>0, ResumeField DEF BuildInv, PhaseInv, In
<1>3. CASE /\ f \in File /\ Unchanged(f) /\ Goto("copy")
           /\ exfat' = [exfat EXCEPT !.data[f] = 0, !.safe = @ \ {f}, !.size = Most(@, 2 * f - 1)]
  <2>1. /\ worker' \in WorkerType /\ worker'.pc = "copy"
        /\ worker'.recovered = worker.recovered /\ worker'.journaled = worker.journaled
        /\ worker'.noted = worker.noted /\ worker'.resume = worker.resume
        /\ worker'.tree = worker.tree
    BY <1>0, <1>3, GotoIs DEF Points
  <2>2. f \in 1 .. Files /\ f = worker.resume.next + 1 /\ source[f] = worker.tree[f]
    BY <1>3 DEF File, Unchanged
  <2> HIDE DEF f
  <2>3. /\ exfat' \in ExfatType /\ exfat'.on = exfat.on
        /\ exfat'.data = [exfat.data EXCEPT ![f] = 0] /\ exfat'.safe = exfat.safe \ {f}
        /\ exfat'.size >= exfat.size /\ exfat'.synced = exfat.synced
    <3>1. exfat \in ExfatType /\ exfat.size \in 0 .. 2 * Files /\ exfat.data \in Images
      BY <1>0, ExfatField
    <3>2. Most(exfat.size, 2 * f - 1) \in 0 .. 2 * Files /\ Most(exfat.size, 2 * f - 1) >= exfat.size
      BY <2>2, <3>1, Limits DEF Most
    <3>3. [exfat.data EXCEPT ![f] = 0] \in Images
      <4>1. 0 \in 0 .. Versions
        BY Limits
      <4>2. QED
        BY <3>1, <4>1 DEF Images
    <3>4. QED
      BY <1>3, <3>1, <3>2, <3>3 DEF ExfatType
  <2>4. \A g \in 1 .. worker.resume.next : exfat'.data[g] = exfat.data[g] /\ g # f
    <3>1. exfat.data \in Images
      BY <1>0, ExfatField
    <3>2. ASSUME NEW g \in 1 .. worker.resume.next
          PROVE  g \in File /\ g # f
      BY <1>2, <2>2, Limits DEF File
    <3>3. QED
      BY <2>3, <3>1, <3>2 DEF Images
  <2>5. TypeInv'
    <3>1. exfat'.synced <= exfat'.size
      BY <1>0, <2>3, ExfatField, Limits DEF ExfatType
    <3>2. QED
      BY <1>0, <2>1, <2>3, <3>1 DEF TypeInv
  <2>6. JournalInv'
    <3>1. journal.next \in 0 .. Files
      BY <1>0, <1>2, JournalField, ResumeField
    <3>2. Covers(journal)'
      BY <1>0, <1>2, <2>3, <2>4, <3>1 DEF JournalInv, Covers
    <3>3. QED
      BY <2>1, <3>2 DEF JournalInv
  <2>7. ControlInv'
    BY <1>0, <2>1 DEF ControlInv, Sweeping, Making, Body
  <2>8. PhaseInv'
    BY <1>2, <2>1 DEF PhaseInv, In, Recording
  <2>9. BuildInv'
    <3>1. exfat'.size >= 2 * worker.resume.next
      BY <1>0, <1>2, <2>3, ExfatField, Limits DEF ExfatType
    <3>2. QED
      BY <1>0, <1>2, <2>1, <2>2, <2>3, <2>4, <3>1 DEF BuildInv, In, File
  <2>10. PackInv'
    BY <2>1 DEF PackInv, In, Recording, Ends
  <2>11. OutInv'
    BY <1>0, OutFrame
  <2>12. StageInv'
    BY <1>0, <2>1, <2>3 DEF StageInv, Body, Making, Sweeping
  <2>13. QED
    BY <2>5, <2>6, <2>7, <2>8, <2>9, <2>10, <2>11, <2>12, Whole
<1>4. CASE /\ f \notin File /\ UNCHANGED exfat
           /\ worker' = [worker EXCEPT !.pc = "sync", !.after = "rmpfs"]
  <2>1. /\ worker' \in WorkerType /\ worker'.pc = "sync" /\ worker'.after = "rmpfs"
        /\ worker'.recovered = worker.recovered /\ worker'.journaled = worker.journaled
        /\ worker'.noted = worker.noted /\ worker'.resume = worker.resume
        /\ worker'.tree = worker.tree
    BY <1>0, <1>4 DEF WorkerType, Points
  <2>2. worker.resume.next = Files
    BY <1>2, <1>4, Limits DEF File
  <2>3. TypeInv'
    BY <1>0, <1>4, <2>1 DEF TypeInv
  <2>4. JournalInv' /\ OutInv'
    BY <1>0, <1>4, <2>1, JournalFrame, OutFrame
  <2>5. ControlInv'
    BY <1>0, <2>1 DEF ControlInv, Sweeping, Making, Body
  <2>6. PhaseInv'
    BY <1>2, <2>1 DEF PhaseInv, In, Recording
  <2>7. BuildInv'
    BY <1>0, <1>2, <1>4, <2>1, <2>2 DEF BuildInv, In
  <2>8. PackInv'
    BY <2>1 DEF PackInv, In, Recording, Ends
  <2>9. StageInv'
    BY <1>0, <1>4, <2>1 DEF StageInv, Body, Making, Sweeping
  <2>10. QED
    BY <2>3, <2>4, <2>5, <2>6, <2>7, <2>8, <2>9, Whole
<1>5. QED
  BY <1>1, <1>3, <1>4 DEF OpenFile

LEMMA CopyFileKeeps == ASSUME IInv, CopyFile PROVE IInv'
<1> DEFINE f == worker.resume.next + 1
<1>0. /\ TypeInv /\ JournalInv /\ ControlInv /\ PhaseInv /\ BuildInv /\ PackInv
      /\ OutInv /\ StageInv /\ UNCHANGED <<pfs, out, journal, note, source, seen, job, up>>
      /\ worker.pc = "copy" /\ up /\ worker \in WorkerType /\ worker.resume \in Resume
  BY Parts, WorkerField DEF CopyFile, At
<1>1. CASE (Fail("canceled") \/ Fail("error")) /\ UNCHANGED exfat
  <2>1. UNCHANGED <<disk, source, seen, job, up>>
    BY <1>0, <1>1 DEF disk
  <2>2. QED
    BY <1>0, <1>1, <2>1, FailKeeps DEF Errors, Body, Making
<1>2. /\ exfat.on /\ worker.resume.print \in seen /\ exfat.size >= 2 * worker.resume.next
      /\ worker.tree = worker.resume.print /\ journal.phase = "EXFAT"
      /\ journal.next <= worker.resume.next /\ worker.resume.next \in 0 .. Files
      /\ journal.next > 0 => journal.print = worker.resume.print
      /\ \A g \in 1 .. worker.resume.next : exfat.data[g] = worker.resume.print[g]
      /\ worker.resume.phase = "EXFAT"
      /\ f \in 1 .. Files /\ source[f] = worker.resume.print[f]
  BY <1>0, ResumeField DEF BuildInv, PhaseInv, In, File
<1>3. CASE /\ exfat' = [exfat EXCEPT !.data[f] = source[f], !.size = Most(@, 2 * f)]
           /\ \/ worker' = [[worker EXCEPT !.resume.next = f] EXCEPT !.pc = "file"]
              \/ worker' = [[worker EXCEPT !.resume.next = f] EXCEPT !.pc = "sync",
                                                                     !.after = "file"]
  <2>1. /\ worker' \in WorkerType /\ worker'.pc \in {"file", "sync"}
        /\ worker'.pc = "sync" => worker'.after = "file"
        /\ worker'.recovered = worker.recovered /\ worker'.journaled = worker.journaled
        /\ worker'.noted = worker.noted /\ worker'.tree = worker.tree
        /\ worker'.resume.print = worker.resume.print /\ worker'.resume.next = f
        /\ worker'.resume.phase = "EXFAT"
    <3>1. f \in 0 .. Files
      BY <1>2
    <3> HIDE DEF f
    <3>2. [worker.resume EXCEPT !.next = f] \in Resume
      BY <1>0, <3>1 DEF Resume
    <3>3. worker'.resume = [worker.resume EXCEPT !.next = f]
      BY <1>0, <1>3 DEF WorkerType
    <3>4. /\ worker'.pc \in {"file", "sync"}
          /\ worker'.pc = "sync" => worker'.after = "file"
          /\ worker'.recovered = worker.recovered /\ worker'.journaled = worker.journaled
          /\ worker'.noted = worker.noted /\ worker'.tree = worker.tree
      BY <1>0, <1>3 DEF WorkerType
    <3>5. worker' \in WorkerType
      <4>1. {"file", "sync"} \subseteq Points
        BY DEF Points
      <4>2. \/ worker' = [worker EXCEPT !.resume = [worker.resume EXCEPT !.next = f], !.pc = "file"]
            \/ worker' = [worker EXCEPT !.resume = [worker.resume EXCEPT !.next = f],
                                        !.pc = "sync", !.after = "file"]
        BY <1>0, <1>3 DEF WorkerType
      <4>3. QED
        BY <1>0, <3>2, <4>1, <4>2 DEF WorkerType
    <3>6. QED
      BY <1>0, <1>2, <3>2, <3>3, <3>4, <3>5 DEF Resume
  <2>2. f = worker.resume.next + 1
    OBVIOUS
  <2> HIDE DEF f
  <2>3. /\ exfat' \in ExfatType /\ exfat'.on = exfat.on
        /\ exfat'.data = [exfat.data EXCEPT ![f] = source[f]] /\ exfat'.safe = exfat.safe
        /\ exfat'.size >= exfat.size /\ exfat'.size >= 2 * f /\ exfat'.synced = exfat.synced
    <3>1. exfat \in ExfatType /\ exfat.size \in 0 .. 2 * Files /\ exfat.data \in Images
      BY <1>0, ExfatField
    <3>2. /\ Most(exfat.size, 2 * f) \in 0 .. 2 * Files
          /\ Most(exfat.size, 2 * f) >= exfat.size /\ Most(exfat.size, 2 * f) >= 2 * f
      BY <1>2, <3>1, Limits DEF Most
    <3>3. [exfat.data EXCEPT ![f] = source[f]] \in Images
      <4>1. source \in Images /\ f \in File
        BY <1>0, <1>2, TreeIs DEF TypeInv, File
      <4>2. QED
        BY <3>1, <4>1 DEF Images
    <3>4. QED
      BY <1>3, <3>1, <3>2, <3>3 DEF ExfatType
  <2>4. \A g \in 1 .. f : exfat'.data[g] = worker.resume.print[g]
    <3>1. exfat.data \in Images
      BY <1>0, ExfatField
    <3>2. ASSUME NEW g \in 1 .. f
          PROVE  g \in File /\ (g = f \/ g \in 1 .. worker.resume.next)
      BY <1>2, <2>2, Limits DEF File
    <3>3. QED
      BY <1>2, <2>3, <3>1, <3>2 DEF Images
  <2>5. TypeInv'
    <3>1. exfat'.synced <= exfat'.size
      BY <1>0, <2>3, ExfatField, Limits DEF ExfatType
    <3>2. QED
      BY <1>0, <2>1, <2>3, <3>1 DEF TypeInv
  <2>6. JournalInv'
    <3>1. journal.next \in 0 .. Files
      BY <1>0, <1>2, JournalField, ResumeField
    <3>2. \A g \in 1 .. journal.next : g \in 1 .. f
      BY <1>2, <2>2, <3>1
    <3>3. Covers(journal)'
      BY <1>0, <1>2, <2>3, <2>4, <3>1, <3>2 DEF JournalInv, Covers
    <3>4. QED
      BY <2>1, <3>3 DEF JournalInv
  <2>7. ControlInv'
    BY <1>0, <2>1 DEF ControlInv, Sweeping, Making, Body
  <2>8. PhaseInv'
    BY <2>1 DEF PhaseInv, In, Recording
  <2>9. BuildInv'
    <3>1. journal.next \in 0 .. Files
      BY <1>0, <1>2, JournalField, ResumeField
    <3>2. journal.next <= f
      BY <1>2, <2>2, <3>1
    <3>3. QED
      BY <1>0, <1>2, <2>1, <2>3, <2>4, <3>2 DEF BuildInv, In
  <2>10. PackInv'
    BY <2>1 DEF PackInv, In, Recording, Ends
  <2>11. OutInv'
    BY <1>0, OutFrame
  <2>12. StageInv'
    BY <1>0, <2>1, <2>3 DEF StageInv, Body, Making, Sweeping
  <2>13. QED
    BY <2>5, <2>6, <2>7, <2>8, <2>9, <2>10, <2>11, <2>12, Whole
<1>4. QED
  BY <1>1, <1>3 DEF CopyFile

-----------------------------------------------------------------------------
(* The PFS stage.                                                          *)
LEMMA RemoveOldPfsKeeps == ASSUME IInv, RemoveOldPfs PROVE IInv'
<1> DEFINE r == [worker.resume EXCEPT !.phase = "PACK", !.pack = 0, !.verify = 0]
<1>0. /\ TypeInv /\ JournalInv /\ ControlInv /\ PhaseInv /\ BuildInv /\ PackInv
      /\ OutInv /\ StageInv /\ UNCHANGED <<exfat, out, journal, note, source, seen, job, up>>
      /\ worker.pc = "rmpfs" /\ up /\ worker.resume \in Resume /\ pfs' = NoPfs
  BY Parts, WorkerField DEF RemoveOldPfs, At
<1>1. /\ r \in Resume /\ r.phase = "PACK" /\ r.print = worker.resume.print /\ r.pack = 0
      /\ Record(r, "size")
  <2>1. 0 \in 0 .. Blocks /\ "PACK" \in Phases
    BY Limits DEF Phases
  <2>2. Record(r, "size")
    BY DEF RemoveOldPfs
  <2>3. QED
    BY <1>0, <2>1, <2>2 DEF Resume
<1> HIDE DEF r
<1>2. /\ worker' \in WorkerType /\ worker'.pc = "record" /\ worker'.after = "size"
      /\ worker'.recovered = worker.recovered /\ worker'.journaled = worker.journaled
      /\ worker'.noted = worker.noted /\ worker'.resume = r
  BY <1>0, <1>1, RecordIs DEF Points
<1>3. /\ journal.phase = "EXFAT" /\ r.print \in seen /\ worker.resume.next = Files
      /\ \A f \in File : exfat.data[f] = r.print[f]
      /\ exfat.safe = File /\ exfat.size = 2 * Files /\ exfat.synced = 2 * Files
  BY <1>0, <1>1 DEF BuildInv, In, File
<1>4. exfat.data = r.print
  <2>1. exfat.data \in Images /\ r.print \in Images
    BY <1>0, <1>1, ExfatField, ResumeField
  <2>2. QED
    BY <1>3, <2>1 DEF Images
<1>5. TypeInv'
  BY <1>0, <1>2, EmptyIs DEF TypeInv
<1>6. JournalInv'
  <2>1. Covers(journal)'
    BY <1>0, <1>3 DEF JournalInv, Covers
  <2>2. Covers(worker.resume)'
    BY <1>0, <1>1, <1>2, <1>3, <1>4, EmptyIs DEF Covers, Full, Holds
  <2>3. QED
    BY <2>1, <2>2 DEF JournalInv
<1>7. ControlInv'
  BY <1>0, <1>2 DEF ControlInv, Sweeping, Making, Body
<1>8. PhaseInv'
  BY <1>1, <1>2 DEF PhaseInv, In, Recording
<1>9. BuildInv'
  BY <1>2 DEF BuildInv, In
<1>10. PackInv'
  BY <1>2 DEF PackInv, In, Recording, Ends
<1>11. OutInv'
  BY <1>0, OutFrame
<1>12. StageInv'
  BY <1>0, <1>2, EmptyIs DEF StageInv, Body, Making, Sweeping
<1>13. QED
  BY <1>5, <1>6, <1>7, <1>8, <1>9, <1>10, <1>11, <1>12, Whole

LEMMA OpenedIs ==
  ASSUME TypeInv, pfs' = [pfs EXCEPT !.on = TRUE]
  PROVE  /\ pfs' \in PfsType /\ pfs'.on /\ pfs'.data = pfs.data /\ pfs'.safe = pfs.safe
         /\ pfs'.head = pfs.head /\ pfs'.linked = pfs.linked
<1>1. pfs \in PfsType
  BY PfsField
<1>2. QED
  BY <1>1 DEF PfsType

LEMMA OpenStagesKeeps == ASSUME IInv, OpenStages PROVE IInv'
<1> DEFINE r == [worker.resume EXCEPT !.phase = "VERIFY", !.verify = 0]
<1>0. /\ TypeInv /\ JournalInv /\ ControlInv /\ PhaseInv /\ BuildInv /\ PackInv
      /\ OutInv /\ StageInv /\ UNCHANGED <<exfat, out, journal, note, source, seen, job, up>>
      /\ worker.pc = "size" /\ up /\ worker.resume \in Resume
  BY Parts, WorkerField DEF OpenStages, At
<1>1. /\ worker.resume = journal /\ worker.resume.phase \in {"PACK", "VERIFY", "PUBLISH"}
  BY <1>0, ResumeField DEF ControlInv, PhaseInv, Making
<1>2. CASE Fail("stale") /\ UNCHANGED pfs
  <2>1. UNCHANGED <<disk, source, seen, job, up>>
    BY <1>0, <1>2 DEF disk
  <2>2. QED
    BY <1>0, <1>2, <2>1, FailKeeps DEF Errors, Body, Making
<1>3. ASSUME pfs' = [pfs EXCEPT !.on = TRUE]
      PROVE  /\ pfs' \in PfsType /\ pfs'.on /\ pfs'.data = pfs.data /\ pfs'.safe = pfs.safe
             /\ pfs'.head = pfs.head /\ pfs'.linked = pfs.linked
  BY <1>0, <1>3, OpenedIs
<1>4. CASE /\ exfat.on /\ pfs' = [pfs EXCEPT !.on = TRUE]
           /\ \/ worker.resume.phase = "PACK" /\ Goto("seek")
              \/ worker.resume.phase = "VERIFY" /\ Goto("verify")
  <2>1. /\ worker' \in WorkerType /\ worker'.pc \in {"seek", "verify"}
        /\ worker'.pc = "seek" => worker.resume.phase = "PACK"
        /\ worker'.pc = "verify" => worker.resume.phase = "VERIFY"
        /\ worker'.recovered = worker.recovered /\ worker'.journaled = worker.journaled
        /\ worker'.noted = worker.noted /\ worker'.resume = worker.resume
    <3>1. CASE worker.resume.phase = "PACK" /\ Goto("seek")
      BY <1>0, <3>1, GotoIs DEF Points
    <3>2. CASE worker.resume.phase = "VERIFY" /\ Goto("verify")
      BY <1>0, <3>2, GotoIs DEF Points
    <3>3. QED
      BY <1>4, <3>1, <3>2
  <2>2. TypeInv'
    BY <1>0, <1>3, <1>4, <2>1 DEF TypeInv
  <2>3. JournalInv'
    <3>1. Covers(journal)'
      BY <1>0, <1>3, <1>4 DEF JournalInv, Covers, Full, Holds
    <3>2. QED
      BY <2>1, <3>1 DEF JournalInv
  <2>4. ControlInv'
    BY <1>0, <2>1 DEF ControlInv, Sweeping, Making, Body
  <2>5. PhaseInv'
    BY <2>1 DEF PhaseInv, In, Recording
  <2>6. BuildInv'
    BY <2>1 DEF BuildInv, In
  <2>7. PackInv'
    BY <1>0, <1>3, <1>4, <2>1 DEF PackInv, In, Recording, Ends
  <2>8. OutInv'
    BY <1>0, OutFrame
  <2>9. StageInv'
    BY <1>0, <2>1 DEF StageInv, Body, Making, Sweeping
  <2>10. QED
    BY <2>2, <2>3, <2>4, <2>5, <2>6, <2>7, <2>8, <2>9, Whole
<1>5. CASE /\ exfat.on /\ pfs' = [pfs EXCEPT !.on = TRUE]
           /\ worker.resume.phase = "PUBLISH" /\ Record(r, "verify")
  <2>1. r \in Resume /\ r.phase = "VERIFY" /\ r.print = worker.resume.print
    <3>1. 0 \in 0 .. Blocks /\ "VERIFY" \in Phases
      BY Limits DEF Phases
    <3>2. QED
      BY <1>0, <3>1 DEF Resume
  <2> HIDE DEF r
  <2>2. /\ worker' \in WorkerType /\ worker'.pc = "record" /\ worker'.after = "verify"
        /\ worker'.recovered = worker.recovered /\ worker'.journaled = worker.journaled
        /\ worker'.noted = worker.noted /\ worker'.resume = r
    BY <1>0, <1>5, <2>1, RecordIs DEF Points
  <2>3. TypeInv'
    BY <1>0, <1>3, <1>5, <2>2 DEF TypeInv
  <2>4. JournalInv'
    <3>1. Covers(journal)'
      BY <1>0, <1>3, <1>5 DEF JournalInv, Covers, Full, Holds
    <3>2. Covers(worker.resume)'
      BY <1>0, <1>1, <1>3, <1>5, <2>1, <2>2 DEF JournalInv, Covers, Full, Holds
    <3>3. QED
      BY <3>1, <3>2 DEF JournalInv
  <2>5. ControlInv'
    BY <1>0, <2>2 DEF ControlInv, Sweeping, Making, Body
  <2>6. PhaseInv'
    BY <2>1, <2>2 DEF PhaseInv, In, Recording
  <2>7. BuildInv'
    BY <2>2 DEF BuildInv, In
  <2>8. PackInv'
    BY <1>3, <1>5, <2>2 DEF PackInv, In, Recording, Ends
  <2>9. OutInv'
    BY <1>0, OutFrame
  <2>10. StageInv'
    BY <1>0, <2>2 DEF StageInv, Body, Making, Sweeping
  <2>11. QED
    BY <2>3, <2>4, <2>5, <2>6, <2>7, <2>8, <2>9, <2>10, Whole
<1>6. QED
  <2>1. ASSUME CASE worker.resume.phase = "PACK" -> Goto("seek")
                 [] worker.resume.phase = "VERIFY" -> Goto("verify")
                 [] worker.resume.phase = "PUBLISH" -> Record(r, "verify")
        PROVE  \/ worker.resume.phase = "PACK" /\ Goto("seek")
               \/ worker.resume.phase = "VERIFY" /\ Goto("verify")
               \/ worker.resume.phase = "PUBLISH" /\ Record(r, "verify")
    BY <1>1, <2>1
  <2>2. QED
    BY <1>2, <1>4, <1>5, <2>1 DEF OpenStages

(* A block that was packed from a tree is not an empty one.                *)
LEMMA StoredIs ==
  ASSUME TypeInv, NEW n \in 1 .. Blocks, NEW tree \in Trees, pfs.data[n] = tree
  PROVE  pfs.data # Void
<1>1. n \in Block /\ tree # NoImage
  BY TreeIs DEF Block
<1>2. QED
  BY <1>1 DEF Void

LEMMA SeekPackKeeps == ASSUME IInv, SeekPack PROVE IInv'
<1> DEFINE done == worker.resume.pack
<1>0. /\ TypeInv /\ JournalInv /\ ControlInv /\ PhaseInv /\ BuildInv /\ PackInv
      /\ OutInv /\ StageInv /\ UNCHANGED <<exfat, out, journal, note, source, seen, job, up>>
      /\ worker.pc = "seek" /\ up /\ worker \in WorkerType /\ worker.resume \in Resume
  BY Parts, WorkerField DEF SeekPack, At
<1>1. CASE Fail("invalid") /\ UNCHANGED pfs
  <2>1. UNCHANGED <<disk, source, seen, job, up>>
    BY <1>0, <1>1 DEF disk
  <2>2. QED
    BY <1>0, <1>1, <2>1, FailKeeps DEF Errors, Body, Making
<1>2. /\ worker.resume = journal /\ worker.resume.phase = "PACK" /\ exfat.on /\ pfs.on
      /\ done \in 0 .. Blocks
  BY <1>0, ResumeField DEF ControlInv, PhaseInv, PackInv, Making
<1>3. worker.resume.print \in seen /\ Full(journal.print) /\ Holds(done, worker.resume.print)
  BY <1>0, <1>2 DEF JournalInv, Covers
<1>4. CASE /\ \A b \in 1 .. done : Stored(b)
           /\ pfs' = IF done = 0 THEN pfs
                     ELSE [pfs EXCEPT !.data = [b \in Block |-> IF b <= done THEN @[b]
                                                                ELSE NoImage]]
           /\ worker' = [worker EXCEPT !.pc = "pack", !.block = done]
  <2>1. /\ worker' \in WorkerType /\ worker'.pc = "pack" /\ worker'.block = done
        /\ worker'.recovered = worker.recovered /\ worker'.journaled = worker.journaled
        /\ worker'.noted = worker.noted /\ worker'.resume = worker.resume
    BY <1>0, <1>2, <1>4 DEF WorkerType, Points
  <2>2. /\ pfs' \in PfsType /\ pfs'.on /\ pfs'.safe = pfs.safe /\ pfs'.linked = pfs.linked
        /\ \A b \in 1 .. done : pfs'.data[b] = pfs.data[b]
        /\ pfs'.data # Void => pfs.data # Void
    <3>1. /\ pfs \in PfsType /\ pfs.data \in Packed /\ NoImage \in Images
      BY <1>0, PfsField, EmptyIs
    <3>2. CASE done = 0
      BY <1>2, <1>4, <3>1, <3>2
    <3>3. CASE done # 0
      <4> DEFINE cut == [b \in Block |-> IF b <= done THEN pfs.data[b] ELSE NoImage]
      <4>1. cut \in Packed
        BY <3>1 DEF Packed
      <4>2. pfs.data = Void => cut = Void
        BY DEF Void
      <4>3. \A b \in 1 .. done : cut[b] = pfs.data[b]
        <5>1. ASSUME NEW b \in 1 .. done
              PROVE  b \in Block /\ b <= done
          BY <1>2, Limits DEF Block
        <5>2. QED
          BY <5>1
      <4>4. pfs' = [pfs EXCEPT !.data = cut]
        BY <1>4, <3>3
      <4> HIDE DEF cut
      <4>5. /\ pfs' \in PfsType /\ pfs'.on = pfs.on /\ pfs'.safe = pfs.safe
            /\ pfs'.linked = pfs.linked /\ pfs'.data = cut
        BY <3>1, <4>1, <4>4 DEF PfsType
      <4>6. QED
        BY <1>2, <4>2, <4>3, <4>5
    <3>4. QED
      BY <3>2, <3>3
  <2>3. \A b \in 1 .. done : pfs'.data[b] = worker.resume.print
    <3>1. ASSUME NEW b \in 1 .. done
          PROVE  pfs.data # Void
      <4>1. b \in Block /\ Stored(b)
        BY <1>2, <1>4, Limits DEF Block
      <4>2. QED
        BY <4>1 DEF Stored, Void
    <3>2. QED
      BY <1>3, <2>2, <3>1 DEF Holds
  <2>4. TypeInv'
    BY <1>0, <2>1, <2>2 DEF TypeInv
  <2>5. JournalInv'
    <3>1. Covers(journal)'
      BY <1>0, <1>2, <1>3, <2>2 DEF Covers, Full, Holds
    <3>2. QED
      BY <2>1, <3>1 DEF JournalInv
  <2>6. ControlInv'
    BY <1>0, <2>1 DEF ControlInv, Sweeping, Making, Body
  <2>7. PhaseInv'
    BY <1>2, <2>1 DEF PhaseInv, In, Recording
  <2>8. BuildInv'
    BY <2>1 DEF BuildInv, In
  <2>9. PackInv'
    BY <1>0, <1>2, <2>1, <2>2, <2>3 DEF PackInv, In, Recording, Ends
  <2>10. OutInv'
    BY <1>0, OutFrame
  <2>11. StageInv'
    BY <1>0, <2>1, <2>2 DEF StageInv, Body, Making, Sweeping
  <2>12. QED
    BY <2>4, <2>5, <2>6, <2>7, <2>8, <2>9, <2>10, <2>11, Whole
<1>5. QED
  BY <1>1, <1>4 DEF SeekPack

(* What is known while blocks are packed.                                  *)
LEMMA PackingIs ==
  ASSUME IInv, worker.pc \in {"pack", "flush"}
  PROVE  /\ worker.resume = journal /\ worker.resume.phase = "PACK" /\ exfat.on /\ pfs.on
         /\ worker.resume \in Resume /\ worker.resume.print \in seen
         /\ worker.resume.print \in Trees
         /\ exfat.data = worker.resume.print /\ Full(worker.resume.print)
         /\ worker.block \in 0 .. Blocks /\ worker.resume.pack \in 0 .. Blocks
         /\ worker.resume.pack <= worker.block
         /\ \A b \in 1 .. worker.block : pfs.data[b] = worker.resume.print
         /\ worker.block > 0 => pfs.safe >= worker.resume.pack
<1>1. TypeInv /\ JournalInv /\ ControlInv /\ PhaseInv /\ PackInv
  BY Parts
<1>2. /\ worker.resume = journal /\ worker.resume.phase = "PACK" /\ exfat.on /\ pfs.on
      /\ worker.resume.pack <= worker.block
      /\ \A b \in 1 .. worker.block : pfs.data[b] = worker.resume.print
  BY <1>1 DEF ControlInv, PhaseInv, PackInv, In, Making
<1>3. /\ worker.resume \in Resume /\ worker.block \in 0 .. Blocks
      /\ worker.resume.pack \in 0 .. Blocks
  BY <1>1, WorkerField, ResumeField
<1>4. /\ worker.resume.print \in seen /\ Full(worker.resume.print)
      /\ Holds(worker.resume.pack, worker.resume.print)
  BY <1>1, <1>2 DEF JournalInv, Covers
<1>5. exfat.data = worker.resume.print
  BY <1>2, <1>4 DEF Full
<1>6. worker.resume.print \in Trees
  BY <1>1, <1>4 DEF TypeInv
<1>7. ASSUME worker.block > 0
      PROVE  pfs.safe >= worker.resume.pack
  <2>1. 1 \in 1 .. worker.block /\ 1 \in 1 .. Blocks
    BY <1>3, <1>7, Limits
  <2>2. pfs.data # Void
    BY <1>1, <1>2, <1>6, <2>1, StoredIs
  <2>3. QED
    BY <1>4, <2>2 DEF Holds
<1>8. QED
  BY <1>2, <1>3, <1>4, <1>5, <1>6, <1>7

LEMMA PackBlockKeeps == ASSUME IInv, PackBlock PROVE IInv'
<1> DEFINE b == worker.block + 1
<1>0. /\ TypeInv /\ JournalInv /\ ControlInv /\ PhaseInv /\ BuildInv /\ PackInv
      /\ OutInv /\ StageInv /\ UNCHANGED <<exfat, out, journal, note, source, seen, job, up>>
      /\ worker.pc = "pack" /\ up /\ worker \in WorkerType
  BY Parts, WorkerField DEF PackBlock, At
<1>1. CASE (Fail("canceled") \/ Fail("error")) /\ UNCHANGED pfs
  <2>1. UNCHANGED <<disk, source, seen, job, up>>
    BY <1>0, <1>1 DEF disk
  <2>2. QED
    BY <1>0, <1>1, <2>1, FailKeeps DEF Errors, Body, Making
<1>2. /\ worker.resume = journal /\ worker.resume.phase = "PACK" /\ exfat.on /\ pfs.on
      /\ worker.resume \in Resume /\ worker.resume.print \in seen
      /\ worker.resume.print \in Trees
      /\ exfat.data = worker.resume.print /\ Full(worker.resume.print)
      /\ worker.block \in 0 .. Blocks /\ worker.resume.pack \in 0 .. Blocks
      /\ worker.resume.pack <= worker.block
      /\ \A g \in 1 .. worker.block : pfs.data[g] = worker.resume.print
      /\ worker.block > 0 => pfs.safe >= worker.resume.pack
  BY <1>0, PackingIs
<1>3. CASE /\ b \in Block
           /\ pfs' = [pfs EXCEPT !.data[b] = exfat.data, !.safe = IF @ < b THEN @ ELSE b - 1]
           /\ \/ b < Blocks /\ worker' = [worker EXCEPT !.block = b]
              \/ worker' = [worker EXCEPT !.pc = "flush", !.block = b]
  <2>1. b = worker.block + 1 /\ b \in 1 .. Blocks /\ b \in 0 .. Blocks /\ b > 0
    BY <1>2, <1>3, Limits DEF Block
  <2> HIDE DEF b
  <2>2. /\ worker' \in WorkerType /\ worker'.pc \in {"pack", "flush"} /\ worker'.block = b
        /\ worker'.recovered = worker.recovered /\ worker'.journaled = worker.journaled
        /\ worker'.noted = worker.noted /\ worker'.resume = worker.resume
    BY <1>0, <1>3, <2>1 DEF WorkerType, Points
  <2>3. /\ pfs' \in PfsType /\ pfs'.on /\ pfs'.safe >= worker.resume.pack
        /\ pfs'.linked = pfs.linked
        /\ pfs'.data = [pfs.data EXCEPT ![b] = exfat.data]
    <3>1. /\ pfs \in PfsType /\ pfs.data \in Packed /\ exfat.data \in Images
          /\ pfs.safe \in 0 .. Blocks
      BY <1>0, PfsField, ExfatField
    <3>2. [pfs.data EXCEPT ![b] = exfat.data] \in Packed
      BY <3>1 DEF Packed
    <3> DEFINE safe == IF pfs.safe < b THEN pfs.safe ELSE b - 1
    <3>3. safe \in 0 .. Blocks /\ safe >= worker.resume.pack
      BY <1>2, <2>1, <3>1, Limits
    <3>4. pfs' = [pfs EXCEPT !.data = [pfs.data EXCEPT ![b] = exfat.data], !.safe = safe]
      BY <1>3, <3>1 DEF PfsType
    <3> HIDE DEF safe
    <3>5. QED
      BY <1>2, <3>1, <3>2, <3>3, <3>4 DEF PfsType
  <2>4. \A g \in 1 .. b : pfs'.data[g] = worker.resume.print
    <3>1. ASSUME NEW g \in 1 .. b
          PROVE  g \in Block /\ (g = b \/ g \in 1 .. worker.block)
      BY <1>2, <2>1, Limits DEF Block
    <3>2. pfs.data \in Packed
      BY <1>0, PfsField
    <3>3. QED
      BY <1>2, <2>3, <3>1, <3>2 DEF Packed
  <2>5. TypeInv'
    BY <1>0, <2>2, <2>3 DEF TypeInv
  <2>6. JournalInv'
    <3>1. \A g \in 1 .. worker.resume.pack : g \in 1 .. b
      BY <1>2, <2>1
    <3>2. Covers(journal)'
      BY <1>0, <1>2, <2>3, <2>4, <3>1 DEF Covers, Full, Holds
    <3>3. QED
      BY <2>2, <3>2 DEF JournalInv
  <2>7. ControlInv'
    BY <1>0, <2>2 DEF ControlInv, Sweeping, Making, Body
  <2>8. PhaseInv'
    BY <1>2, <2>2 DEF PhaseInv, In, Recording
  <2>9. BuildInv'
    BY <2>2 DEF BuildInv, In
  <2>10. PackInv'
    <3>1. worker.resume.pack <= b
      BY <1>2, <2>1
    <3>2. QED
      BY <1>0, <1>2, <2>1, <2>2, <2>3, <2>4, <3>1 DEF PackInv, In, Recording, Ends
  <2>11. OutInv'
    BY <1>0, OutFrame
  <2>12. StageInv'
    BY <1>0, <2>2, <2>3 DEF StageInv, Body, Making, Sweeping
  <2>13. QED
    BY <2>5, <2>6, <2>7, <2>8, <2>9, <2>10, <2>11, <2>12, Whole
<1>4. QED
  BY <1>1, <1>3 DEF PackBlock

LEMMA FlushPackKeeps == ASSUME IInv, FlushPack PROVE IInv'
<1> DEFINE more == [worker.resume EXCEPT !.pack = worker.block]
           last == [more EXCEPT !.phase = "VERIFY", !.verify = 0]
<1>0. /\ TypeInv /\ JournalInv /\ ControlInv /\ PhaseInv /\ BuildInv /\ PackInv
      /\ OutInv /\ StageInv /\ UNCHANGED <<exfat, out, journal, note, source, seen, job, up>>
      /\ worker.pc = "flush" /\ up /\ worker \in WorkerType
  BY Parts, WorkerField DEF FlushPack, At
<1>1. CASE Fail("error") /\ UNCHANGED pfs
  <2>1. UNCHANGED <<disk, source, seen, job, up>>
    BY <1>0, <1>1 DEF disk
  <2>2. QED
    BY <1>0, <1>1, <2>1, FailKeeps DEF Errors, Body, Making
<1>2. /\ worker.resume = journal /\ worker.resume.phase = "PACK" /\ exfat.on /\ pfs.on
      /\ worker.resume \in Resume /\ worker.resume.print \in seen
      /\ Full(worker.resume.print)
      /\ worker.block \in 0 .. Blocks /\ worker.resume.pack \in 0 .. Blocks
      /\ worker.resume.pack <= worker.block
      /\ \A g \in 1 .. worker.block : pfs.data[g] = worker.resume.print
  BY <1>0, PackingIs
<1>3. /\ more \in Resume /\ more.phase = "PACK" /\ more.pack = worker.block
      /\ more.print = worker.resume.print
  BY <1>2 DEF Resume
<1>4. /\ last \in Resume /\ last.phase = "VERIFY" /\ last.pack = worker.block
      /\ last.print = worker.resume.print
  <2>1. 0 \in 0 .. Blocks /\ "VERIFY" \in Phases
    BY Limits DEF Phases
  <2> HIDE DEF more
  <2>2. QED
    BY <1>3, <2>1 DEF Resume
<1>5. CASE /\ pfs' = Flushed
           /\ IF worker.block < Blocks THEN Record(more, "pack") ELSE Record(last, "verify")
  <2> HIDE DEF more, last
  <2>1. PICK r \in Resume, p \in {"pack", "verify"} :
          /\ Record(r, p) /\ r.print = worker.resume.print /\ r.pack = worker.block
          /\ \/ r.phase = "PACK" /\ p = "pack"
             \/ r.phase = "VERIFY" /\ p = "verify" /\ worker.block = Blocks
    <3>1. CASE worker.block < Blocks
      BY <1>3, <1>5, <3>1
    <3>2. CASE ~(worker.block < Blocks)
      <4>1. worker.block = Blocks
        BY <1>2, <3>2, Limits
      <4>2. QED
        BY <1>4, <1>5, <3>2, <4>1
    <3>3. QED
      BY <3>1, <3>2
  <2>2. /\ worker' \in WorkerType /\ worker'.pc = "record" /\ worker'.after = p
        /\ worker'.recovered = worker.recovered /\ worker'.journaled = worker.journaled
        /\ worker'.noted = worker.noted /\ worker'.resume = r
        /\ worker'.block = worker.block
    <3>1. p \in Points
      BY <2>1 DEF Points
    <3>2. QED
      BY <1>0, <2>1, <3>1, RecordIs
  <2>3. /\ pfs' \in PfsType /\ pfs'.on /\ pfs'.safe = worker.block
        /\ pfs'.linked = pfs.linked /\ pfs'.data = pfs.data
    <3>1. pfs \in PfsType
      BY <1>0, PfsField
    <3>2. QED
      BY <1>2, <1>5, <3>1 DEF PfsType, Flushed
  <2>4. TypeInv'
    BY <1>0, <2>2, <2>3 DEF TypeInv
  <2>5. JournalInv'
    <3>1. \A g \in 1 .. worker.resume.pack : g \in 1 .. worker.block
      BY <1>2
    <3>2. Covers(journal)'
      BY <1>0, <1>2, <2>3, <3>1 DEF Covers, Full, Holds
    <3>3. Covers(worker.resume)'
      BY <1>0, <1>2, <2>1, <2>2, <2>3 DEF Covers, Full, Holds
    <3>4. QED
      BY <3>2, <3>3 DEF JournalInv
  <2>6. ControlInv'
    BY <1>0, <2>2 DEF ControlInv, Sweeping, Making, Body
  <2>7. PhaseInv'
    BY <2>1, <2>2 DEF PhaseInv, In, Recording
  <2>8. BuildInv'
    BY <2>1, <2>2 DEF BuildInv, In
  <2>9. PackInv'
    BY <1>0, <1>2, <2>1, <2>2, <2>3 DEF PackInv, In, Recording, Ends
  <2>10. OutInv'
    BY <1>0, OutFrame
  <2>11. StageInv'
    BY <1>0, <2>2, <2>3 DEF StageInv, Body, Making, Sweeping
  <2>12. QED
    BY <2>4, <2>5, <2>6, <2>7, <2>8, <2>9, <2>10, <2>11, Whole
<1>6. QED
  BY <1>1, <1>5 DEF FlushPack

(* What is known while the stage is verified and published.                *)
LEMMA PublishingIs ==
  ASSUME IInv, worker.pc \in {"verify", "publish", "link", "unlink", "rename", "rmexfat"}
  PROVE  /\ worker.resume = journal /\ worker.resume \in Resume
         /\ worker.resume.phase = IF worker.pc = "verify" THEN "VERIFY" ELSE "PUBLISH"
         /\ worker.resume.print \in seen /\ Full(worker.resume.print)
         /\ Holds(Blocks, worker.resume.print)
         /\ worker.pc \notin {"unlink", "rmexfat"} => pfs.on
<1>1. TypeInv /\ JournalInv /\ ControlInv /\ PhaseInv /\ PackInv
  BY Parts
<1>2. worker.resume = journal /\ worker.resume \in Resume
  BY <1>1, WorkerField DEF ControlInv, Making
<1>3. worker.resume.phase = IF worker.pc = "verify" THEN "VERIFY" ELSE "PUBLISH"
  BY <1>1 DEF PhaseInv, In
<1>4. worker.pc \notin {"unlink", "rmexfat"} => pfs.on
  BY <1>1 DEF PackInv, In
<1>5. QED
  BY <1>1, <1>2, <1>3, <1>4 DEF JournalInv, Covers

LEMMA VerifyKeeps == ASSUME IInv, Verify PROVE IInv'
<1> DEFINE b == worker.resume.verify + 1
           more == [worker.resume EXCEPT !.verify = b]
           last == [worker.resume EXCEPT !.phase = "PUBLISH"]
<1>0. /\ TypeInv /\ JournalInv /\ ControlInv /\ PhaseInv /\ BuildInv /\ PackInv
      /\ OutInv /\ StageInv /\ UNCHANGED <<exfat, pfs, out, journal, note, source, seen, job, up>>
      /\ UNCHANGED <<disk, source, seen, job, up>>
      /\ worker.pc = "verify" /\ up /\ worker \in WorkerType
  BY Parts, WorkerField DEF Verify, At, disk
<1>1. CASE Fail("canceled") \/ Fail("invalid")
  BY <1>0, <1>1, FailKeeps DEF Errors, Body, Making
<1>2. /\ worker.resume = journal /\ worker.resume \in Resume /\ worker.resume.phase = "VERIFY"
      /\ worker.resume.print \in seen /\ Full(worker.resume.print)
      /\ Holds(Blocks, worker.resume.print) /\ pfs.on
  BY <1>0, PublishingIs
<1>3. CASE (Sound(b) /\ b \in Block /\ Record(more, "verify"))
           \/ (Sound(b) /\ Record(last, "publish"))
  <2>1. PICK r \in Resume, p \in {"verify", "publish"} :
          /\ Record(r, p) /\ r.print = worker.resume.print /\ pfs.data # Void
          /\ \/ r.phase = "VERIFY" /\ p = "verify"
             \/ r.phase = "PUBLISH" /\ p = "publish"
    <3>1. CASE Sound(b) /\ b \in Block /\ Record(more, "verify")
      <4>1. b \in 0 .. Blocks
        BY <3>1, Limits DEF Block
      <4> HIDE DEF b
      <4>2. more \in Resume /\ more.phase = "VERIFY" /\ more.print = worker.resume.print
        BY <1>2, <4>1 DEF Resume
      <4>3. pfs.data # Void
        BY <3>1 DEF Sound
      <4> HIDE DEF more
      <4>4. QED
        BY <3>1, <4>2, <4>3
    <3>2. CASE Sound(b) /\ Record(last, "publish")
      <4>1. last \in Resume /\ last.phase = "PUBLISH" /\ last.print = worker.resume.print
        BY <1>2 DEF Resume, Phases
      <4>2. pfs.data # Void
        BY <3>2 DEF Sound
      <4> HIDE DEF last
      <4>3. QED
        BY <3>2, <4>1, <4>2
    <3>3. QED
      BY <1>3, <3>1, <3>2
  <2>2. /\ worker' \in WorkerType /\ worker'.pc = "record" /\ worker'.after = p
        /\ worker'.recovered = worker.recovered /\ worker'.journaled = worker.journaled
        /\ worker'.noted = worker.noted /\ worker'.resume = r
    <3>1. p \in Points
      BY <2>1 DEF Points
    <3>2. QED
      BY <1>0, <2>1, <3>1, RecordIs
  <2>3. TypeInv'
    BY <1>0, <2>2 DEF TypeInv
  <2>4. JournalInv'
    BY <1>0, <1>2, <2>1, <2>2 DEF JournalInv, Covers, Full, Holds
  <2>5. ControlInv'
    BY <1>0, <2>2 DEF ControlInv, Sweeping, Making, Body
  <2>6. PhaseInv'
    BY <2>1, <2>2 DEF PhaseInv, In, Recording
  <2>7. BuildInv'
    BY <2>1, <2>2 DEF BuildInv, In
  <2>8. PackInv'
    BY <1>0, <1>2, <2>1, <2>2 DEF PackInv, In, Recording, Ends
  <2>9. OutInv'
    BY <1>0, OutFrame
  <2>10. StageInv'
    BY <1>0, <2>2 DEF StageInv, Body, Making, Sweeping
  <2>11. QED
    BY <2>3, <2>4, <2>5, <2>6, <2>7, <2>8, <2>9, <2>10, Whole
<1>4. QED
  BY <1>1, <1>3 DEF Verify

LEMMA WriteHeadKeeps == ASSUME IInv, WriteHead PROVE IInv'
<1>0. /\ TypeInv /\ JournalInv /\ ControlInv /\ PhaseInv /\ BuildInv /\ PackInv
      /\ OutInv /\ StageInv /\ UNCHANGED <<exfat, out, journal, note, source, seen, job, up>>
      /\ worker.pc = "publish" /\ up
  BY Parts DEF WriteHead, At
<1>1. CASE (Fail("canceled") \/ Fail("error")) /\ UNCHANGED pfs
  <2>1. UNCHANGED <<disk, source, seen, job, up>>
    BY <1>0, <1>1 DEF disk
  <2>2. QED
    BY <1>0, <1>1, <2>1, FailKeeps DEF Errors, Body, Making
<1>2. CASE pfs' = [pfs EXCEPT !.head = TRUE] /\ Goto("link")
  <2>1. /\ worker' \in WorkerType /\ worker'.pc = "link"
        /\ worker'.recovered = worker.recovered /\ worker'.journaled = worker.journaled
        /\ worker'.noted = worker.noted /\ worker'.resume = worker.resume
    BY <1>0, <1>2, GotoIs DEF Points
  <2>2. /\ pfs' \in PfsType /\ pfs'.on /\ pfs'.safe = pfs.safe /\ pfs'.linked = pfs.linked
        /\ pfs'.data = pfs.data /\ pfs'.head
    <3>1. pfs \in PfsType /\ pfs.on
      BY <1>0, PfsField, PublishingIs
    <3>2. QED
      BY <1>2, <3>1 DEF PfsType
  <2>3. TypeInv'
    BY <1>0, <2>1, <2>2 DEF TypeInv
  <2>4. JournalInv'
    BY <1>0, <2>1, <2>2 DEF JournalInv, Covers, Full, Holds
  <2>5. ControlInv'
    BY <1>0, <2>1 DEF ControlInv, Sweeping, Making, Body
  <2>6. PhaseInv'
    BY <1>0, <2>1 DEF PhaseInv, In, Recording
  <2>7. BuildInv'
    BY <2>1 DEF BuildInv, In
  <2>8. PackInv'
    BY <1>0, <2>1, <2>2 DEF PackInv, In, Recording, Ends
  <2>9. OutInv'
    BY <1>0, OutFrame
  <2>10. StageInv'
    BY <1>0, <2>1, <2>2 DEF StageInv, Body, Making, Sweeping
  <2>11. QED
    BY <2>3, <2>4, <2>5, <2>6, <2>7, <2>8, <2>9, <2>10, Whole
<1>3. QED
  BY <1>1, <1>2 DEF WriteHead

(* What is published is what was staged: one state of the source.          *)
LEMMA OutputIs ==
  ASSUME IInv, worker.pc \in {"link", "rename"}
  PROVE  /\ Output \in OutType /\ Output.st = "ours" /\ Output.head
         /\ \E tree \in seen : \A b \in Block : Output.data[b] = tree
<1>1. TypeInv /\ PackInv
  BY Parts
<1>2. pfs.data # Void /\ pfs.head /\ pfs.data \in Packed
  BY <1>1, PfsField DEF PackInv
<1>3. worker.resume.print \in seen /\ Holds(Blocks, worker.resume.print)
  BY PublishingIs
<1>4. \A b \in Block : pfs.data[b] = worker.resume.print
  BY <1>2, <1>3 DEF Holds, Block
<1>5. QED
  BY <1>2, <1>3, <1>4 DEF Output, OutType

LEMMA LinkKeeps == ASSUME IInv, Link PROVE IInv'
<1>0. /\ TypeInv /\ JournalInv /\ ControlInv /\ PhaseInv /\ BuildInv /\ PackInv
      /\ OutInv /\ StageInv /\ UNCHANGED <<exfat, journal, note, source, seen, job, up>>
      /\ worker.pc = "link" /\ up
  BY Parts DEF Link, At
<1>1. CASE Fail("error") /\ UNCHANGED <<out, pfs>>
  <2>1. UNCHANGED <<disk, source, seen, job, up>>
    BY <1>0, <1>1 DEF disk
  <2>2. QED
    BY <1>0, <1>1, <2>1, FailKeeps DEF Errors, Body, Making
<1>2. CASE out' = Output /\ pfs' = [pfs EXCEPT !.linked = TRUE] /\ Goto("unlink")
  <2>1. /\ worker' \in WorkerType /\ worker'.pc = "unlink"
        /\ worker'.recovered = worker.recovered /\ worker'.journaled = worker.journaled
        /\ worker'.noted = worker.noted /\ worker'.resume = worker.resume
    BY <1>0, <1>2, GotoIs DEF Points
  <2>2. /\ pfs' \in PfsType /\ pfs'.on /\ pfs'.safe = pfs.safe /\ pfs'.linked
        /\ pfs'.data = pfs.data
    <3>1. pfs \in PfsType /\ pfs.on
      BY <1>0, PfsField, PublishingIs
    <3>2. QED
      BY <1>2, <3>1 DEF PfsType
  <2>3. /\ out' \in OutType /\ out'.st = "ours" /\ out'.head
        /\ \E tree \in seen : \A b \in Block : out'.data[b] = tree
    BY <1>0, <1>2, OutputIs
  <2>4. TypeInv'
    BY <1>0, <2>1, <2>2, <2>3 DEF TypeInv
  <2>5. JournalInv'
    BY <1>0, <2>1, <2>2 DEF JournalInv, Covers, Full, Holds
  <2>6. ControlInv'
    BY <1>0, <2>1 DEF ControlInv, Sweeping, Making, Body
  <2>7. PhaseInv'
    BY <1>0, <2>1 DEF PhaseInv, In, Recording
  <2>8. BuildInv'
    BY <2>1 DEF BuildInv, In
  <2>9. PackInv'
    BY <1>0, <2>1, <2>2, <2>3 DEF PackInv, In, Recording, Ends
  <2>10. OutInv'
    BY <1>0, <2>3 DEF OutInv
  <2>11. StageInv'
    BY <1>0, <2>1, <2>2 DEF StageInv, Body, Making, Sweeping
  <2>12. QED
    BY <2>4, <2>5, <2>6, <2>7, <2>8, <2>9, <2>10, <2>11, Whole
<1>3. CASE out.st = "absent" /\ Goto("rename") /\ UNCHANGED <<out, pfs>>
  <2>1. /\ worker' \in WorkerType /\ worker'.pc = "rename"
        /\ worker'.recovered = worker.recovered /\ worker'.journaled = worker.journaled
        /\ worker'.noted = worker.noted /\ worker'.resume = worker.resume
    BY <1>0, <1>3, GotoIs DEF Points
  <2>2. TypeInv'
    BY <1>0, <1>3, <2>1 DEF TypeInv
  <2>3. JournalInv' /\ OutInv'
    BY <1>0, <1>3, <2>1, JournalFrame, OutFrame
  <2>4. ControlInv'
    BY <1>0, <2>1 DEF ControlInv, Sweeping, Making, Body
  <2>5. PhaseInv'
    BY <1>0, <2>1 DEF PhaseInv, In, Recording
  <2>6. BuildInv'
    BY <2>1 DEF BuildInv, In
  <2>7. PackInv'
    BY <1>0, <1>3, <2>1 DEF PackInv, In, Recording, Ends
  <2>8. StageInv'
    BY <1>0, <1>3, <2>1 DEF StageInv, Body, Making, Sweeping
  <2>9. QED
    BY <2>2, <2>3, <2>4, <2>5, <2>6, <2>7, <2>8, Whole
<1>4. QED
  BY <1>1, <1>2, <1>3 DEF Link

LEMMA UnlinkKeeps == ASSUME IInv, Unlink PROVE IInv'
<1>0. /\ TypeInv /\ JournalInv /\ ControlInv /\ PhaseInv /\ BuildInv /\ PackInv
      /\ OutInv /\ StageInv /\ UNCHANGED <<exfat, journal, note, source, seen, job, up>>
      /\ worker.pc = "unlink" /\ up /\ out.st = "ours" /\ journal # NoJournal /\ note
  BY Parts DEF Unlink, At, PackInv, StageInv, Body, Making
<1>1. CASE pfs' = NoPfs /\ Goto("rmexfat") /\ UNCHANGED out
  <2>1. /\ worker' \in WorkerType /\ worker'.pc = "rmexfat"
        /\ worker'.recovered = worker.recovered /\ worker'.journaled = worker.journaled
        /\ worker'.noted = worker.noted /\ worker'.resume = worker.resume
    BY <1>0, <1>1, GotoIs DEF Points
  <2>2. TypeInv'
    BY <1>0, <1>1, <2>1, EmptyIs DEF TypeInv
  <2>3. JournalInv'
    BY <1>0, <1>1, <2>1, EmptyIs DEF JournalInv, Covers, Full, Holds
  <2>4. ControlInv'
    BY <1>0, <2>1 DEF ControlInv, Sweeping, Making, Body
  <2>5. PhaseInv'
    BY <1>0, <2>1 DEF PhaseInv, In, Recording
  <2>6. BuildInv'
    BY <2>1 DEF BuildInv, In
  <2>7. PackInv'
    BY <1>0, <1>1, <2>1 DEF PackInv, In, Recording, Ends
  <2>8. OutInv'
    BY <1>0, <1>1, OutFrame
  <2>9. StageInv'
    BY <1>0, <2>1 DEF StageInv, Body, Making, Sweeping
  <2>10. QED
    BY <2>2, <2>3, <2>4, <2>5, <2>6, <2>7, <2>8, <2>9, Whole
<1>2. CASE pfs' = [pfs EXCEPT !.linked = FALSE] /\ out' = NoOut /\ Fail("error")
  <2>1. /\ worker' \in WorkerType /\ worker'.pc = "judge"
        /\ worker'.recovered = worker.recovered /\ worker'.journaled = worker.journaled
        /\ worker'.noted = worker.noted /\ worker'.err = "error"
    BY <1>0, <1>2, FailIs DEF Errors
  <2>2. /\ pfs' \in PfsType /\ pfs'.on = pfs.on /\ pfs'.safe = pfs.safe
        /\ pfs'.data = pfs.data /\ pfs.on
    <3>1. pfs \in PfsType /\ pfs.on
      BY <1>0, PfsField DEF PackInv
    <3>2. QED
      BY <1>2, <3>1 DEF PfsType
  <2>3. TypeInv'
    BY <1>0, <1>2, <2>1, <2>2, EmptyIs DEF TypeInv
  <2>4. JournalInv'
    BY <1>0, <2>1, <2>2 DEF JournalInv, Covers, Full, Holds
  <2>5. ControlInv'
    BY <1>0, <2>1 DEF ControlInv, Sweeping, Making, Body
  <2>6. PhaseInv'
    BY <2>1, PhaseFrame DEF Ends
  <2>7. BuildInv' /\ PackInv'
    BY <2>1, QuietFrame DEF Quiet, Ends
  <2>8. OutInv'
    BY <1>2, EmptyIs DEF OutInv
  <2>9. StageInv'
    BY <1>0, <2>1 DEF StageInv, Body, Making, Sweeping
  <2>10. QED
    BY <2>3, <2>4, <2>5, <2>6, <2>7, <2>8, <2>9, Whole
<1>3. QED
  BY <1>1, <1>2 DEF Unlink

LEMMA RenameKeeps == ASSUME IInv, Rename PROVE IInv'
<1>0. /\ TypeInv /\ JournalInv /\ ControlInv /\ PhaseInv /\ BuildInv /\ PackInv
      /\ OutInv /\ StageInv /\ UNCHANGED <<exfat, journal, note, source, seen, job, up>>
      /\ worker.pc = "rename" /\ up /\ out' = Output /\ pfs' = NoPfs /\ Goto("rmexfat")
  BY Parts DEF Rename, At
<1>1. /\ worker' \in WorkerType /\ worker'.pc = "rmexfat"
      /\ worker'.recovered = worker.recovered /\ worker'.journaled = worker.journaled
      /\ worker'.noted = worker.noted /\ worker'.resume = worker.resume
  BY <1>0, GotoIs DEF Points
<1>2. /\ out' \in OutType /\ out'.st = "ours" /\ out'.head
      /\ \E tree \in seen : \A b \in Block : out'.data[b] = tree
  BY <1>0, OutputIs
<1>3. TypeInv'
  BY <1>0, <1>1, <1>2, EmptyIs DEF TypeInv
<1>4. JournalInv'
  BY <1>0, <1>1, EmptyIs DEF JournalInv, Covers, Full, Holds
<1>5. ControlInv'
  BY <1>0, <1>1 DEF ControlInv, Sweeping, Making, Body
<1>6. PhaseInv'
  BY <1>0, <1>1 DEF PhaseInv, In, Recording
<1>7. BuildInv'
  BY <1>1 DEF BuildInv, In
<1>8. PackInv'
  BY <1>1, <1>2 DEF PackInv, In, Recording, Ends
<1>9. OutInv'
  BY <1>0, <1>2 DEF OutInv
<1>10. StageInv'
  BY <1>0, <1>1, EmptyIs DEF StageInv, Body, Making, Sweeping
<1>11. QED
  BY <1>3, <1>4, <1>5, <1>6, <1>7, <1>8, <1>9, <1>10, Whole

LEMMA RemoveExfatKeeps == ASSUME IInv, RemoveExfat PROVE IInv'
<1> DEFINE r == [worker.resume EXCEPT !.phase = "DONE"]
<1>0. /\ TypeInv /\ JournalInv /\ ControlInv /\ PhaseInv /\ BuildInv /\ PackInv
      /\ OutInv /\ StageInv /\ UNCHANGED <<pfs, out, journal, note, source, seen, job, up>>
      /\ worker.pc = "rmexfat" /\ up /\ worker.resume \in Resume /\ out.st = "ours"
  BY Parts, WorkerField DEF RemoveExfat, At, PackInv
<1>1. CASE Fail("error") /\ UNCHANGED exfat
  <2>1. UNCHANGED <<disk, source, seen, job, up>>
    BY <1>0, <1>1 DEF disk
  <2>2. QED
    BY <1>0, <1>1, <2>1, FailKeeps DEF Errors, Body, Making
<1>2. CASE exfat' = NoExfat /\ Record(r, "judge")
  <2>1. r \in Resume /\ r.phase = "DONE"
    BY <1>0 DEF Resume, Phases
  <2> HIDE DEF r
  <2>2. /\ worker' \in WorkerType /\ worker'.pc = "record" /\ worker'.after = "judge"
        /\ worker'.recovered = worker.recovered /\ worker'.journaled = worker.journaled
        /\ worker'.noted = worker.noted /\ worker'.resume = r
    BY <1>0, <1>2, <2>1, RecordIs DEF Points
  <2>3. TypeInv'
    BY <1>0, <1>2, <2>2, EmptyIs DEF TypeInv
  <2>4. JournalInv'
    <3>1. Covers(journal)'
      BY <1>0, <1>2, EmptyIs DEF JournalInv, Covers, Full, Holds
    <3>2. Covers(worker.resume)'
      BY <2>1, <2>2 DEF Covers
    <3>3. QED
      BY <3>1, <3>2 DEF JournalInv
  <2>5. ControlInv'
    BY <1>0, <2>2 DEF ControlInv, Sweeping, Making, Body
  <2>6. PhaseInv'
    BY <2>1, <2>2 DEF PhaseInv, In, Recording
  <2>7. BuildInv'
    BY <2>2 DEF BuildInv, In
  <2>8. PackInv'
    BY <1>0, <2>2 DEF PackInv, In, Recording, Ends
  <2>9. OutInv'
    BY <1>0, OutFrame
  <2>10. StageInv'
    BY <1>0, <2>2 DEF StageInv, Body, Making, Sweeping
  <2>11. QED
    BY <2>3, <2>4, <2>5, <2>6, <2>7, <2>8, <2>9, <2>10, Whole
<1>3. QED
  BY <1>1, <1>2 DEF RemoveExfat

-----------------------------------------------------------------------------
(* The end of the job.                                                     *)
LEMMA JudgeKeeps == ASSUME IInv, Judge PROVE IInv'
<1> DEFINE e == IF worker.err # "none" /\ job.cancel THEN "canceled" ELSE worker.err
<1>0. /\ TypeInv /\ JournalInv /\ ControlInv /\ PhaseInv /\ BuildInv /\ PackInv
      /\ OutInv /\ StageInv
      /\ UNCHANGED <<exfat, pfs, out, journal, note, source, seen, job, up>>
      /\ worker.pc = "judge" /\ up /\ worker \in WorkerType
      /\ worker' = [worker EXCEPT !.err = e,
                                  !.pc = IF Kept(e) THEN "settle" ELSE "dropexfat"]
  BY Parts, WorkerField DEF Judge, At, disk
<1>1. e \in Errors /\ (e = "none" => worker.err = "none")
  BY <1>0, WorkerField DEF Errors
<1> HIDE DEF e
<1>2. /\ worker' \in WorkerType /\ worker'.pc \in {"settle", "dropexfat"} /\ worker'.err = e
      /\ worker'.recovered = worker.recovered /\ worker'.journaled = worker.journaled
      /\ worker'.noted = worker.noted
      /\ worker'.pc = "settle" => Kept(e)
  BY <1>0, <1>1 DEF WorkerType, Points
<1>3. TypeInv'
  BY <1>0, <1>2 DEF TypeInv
<1>4. JournalInv' /\ OutInv'
  BY <1>0, <1>2, JournalFrame, OutFrame
<1>5. ControlInv'
  BY <1>0, <1>2 DEF ControlInv, Sweeping, Making, Body
<1>6. PhaseInv'
  BY <1>2, PhaseFrame DEF Ends
<1>7. BuildInv' /\ PackInv'
  BY <1>0, <1>1, <1>2, QuietFrame DEF Quiet, Ends, PackInv
<1>8. StageInv'
  BY <1>0, <1>2 DEF StageInv, Body, Making, Sweeping, Kept
<1>9. QED
  BY <1>3, <1>4, <1>5, <1>6, <1>7, <1>8, Whole

(* A step of the end: the worker goes on, and less is on disk.             *)
LEMMA EndStep ==
  ASSUME IInv, up, worker.pc \in Ends, NEW p \in Ends, Goto(p),
         UNCHANGED <<out, source, seen, job, up>>,
         TypeInv', JournalInv', StageInv'
  PROVE  IInv'
<1>0. /\ TypeInv /\ ControlInv /\ PackInv /\ OutInv
  BY Parts
<1>1. /\ worker' \in WorkerType /\ worker'.pc = p /\ worker'.err = worker.err
      /\ worker'.recovered = worker.recovered /\ worker'.journaled = worker.journaled
      /\ worker'.noted = worker.noted
  BY <1>0, GotoIs DEF Points, Ends
<1>2. ControlInv'
  BY <1>0, <1>1 DEF ControlInv, Sweeping, Making, Body, Ends
<1>3. PhaseInv'
  BY <1>1, PhaseFrame
<1>4. BuildInv' /\ PackInv'
  BY <1>0, <1>1, QuietFrame DEF Quiet, PackInv
<1>5. OutInv'
  BY <1>0, OutFrame
<1>6. QED
  BY <1>2, <1>3, <1>4, <1>5, Whole

LEMMA DropExfatKeeps == ASSUME IInv, DropExfat PROVE IInv'
<1>0. /\ TypeInv /\ JournalInv /\ ControlInv /\ StageInv
      /\ UNCHANGED <<pfs, out, journal, note, source, seen, job, up>>
      /\ worker.pc = "dropexfat" /\ up /\ Goto("droppfs")
      /\ exfat' = IF worker.journaled THEN NoExfat ELSE exfat
  BY Parts DEF DropExfat, At
<1>1. /\ worker' \in WorkerType /\ worker'.pc = "droppfs" /\ worker'.err = worker.err
      /\ worker'.recovered = worker.recovered /\ worker'.journaled = worker.journaled
      /\ worker'.noted = worker.noted
  BY <1>0, GotoIs DEF Points
<1>2. TypeInv'
  BY <1>0, <1>1, EmptyIs DEF TypeInv
<1>3. JournalInv'
  BY <1>0, <1>1, EmptyIs DEF JournalInv, Covers, Full, Holds
<1>4. StageInv'
  BY <1>0, <1>1, EmptyIs DEF StageInv, Body, Making, Sweeping
<1>5. QED
  BY <1>0, <1>2, <1>3, <1>4, EndStep DEF Ends

LEMMA DropPfsKeeps == ASSUME IInv, DropPfs PROVE IInv'
<1>0. /\ TypeInv /\ JournalInv /\ ControlInv /\ StageInv
      /\ UNCHANGED <<exfat, out, journal, note, source, seen, job, up>>
      /\ worker.pc = "droppfs" /\ up /\ Goto("dropjournal")
      /\ pfs' = IF worker.journaled /\ ~pfs.linked THEN NoPfs ELSE pfs
  BY Parts DEF DropPfs, At, PfsGone
<1>1. /\ worker' \in WorkerType /\ worker'.pc = "dropjournal" /\ worker'.err = worker.err
      /\ worker'.recovered = worker.recovered /\ worker'.journaled = worker.journaled
      /\ worker'.noted = worker.noted
  BY <1>0, GotoIs DEF Points
<1>2. TypeInv'
  BY <1>0, <1>1, EmptyIs DEF TypeInv
<1>3. JournalInv'
  BY <1>0, <1>1, EmptyIs DEF JournalInv, Covers, Full, Holds
<1>4. StageInv'
  BY <1>0, <1>1, EmptyIs DEF StageInv, Body, Making, Sweeping
<1>5. QED
  BY <1>0, <1>2, <1>3, <1>4, EndStep DEF Ends

LEMMA DropJournalKeeps == ASSUME IInv, DropJournal PROVE IInv'
<1>0. /\ TypeInv /\ JournalInv /\ ControlInv /\ StageInv
      /\ UNCHANGED <<exfat, pfs, out, note, source, seen, job, up>>
      /\ worker.pc = "dropjournal" /\ up /\ Goto("dropnote")
      /\ journal' = IF worker.journaled THEN NoJournal ELSE journal
  BY Parts DEF DropJournal, At
<1>1. /\ worker' \in WorkerType /\ worker'.pc = "dropnote" /\ worker'.err = worker.err
      /\ worker'.recovered = worker.recovered /\ worker'.journaled = worker.journaled
      /\ worker'.noted = worker.noted
  BY <1>0, GotoIs DEF Points
<1>2. TypeInv'
  BY <1>0, <1>1 DEF TypeInv
<1>3. JournalInv'
  BY <1>0, <1>1, BegunIs DEF JournalInv, Covers, Full, Holds
<1>4. StageInv'
  BY <1>0, <1>1 DEF StageInv, Body, Making, Sweeping
<1>5. QED
  BY <1>0, <1>2, <1>3, <1>4, EndStep DEF Ends

LEMMA DropNoteKeeps == ASSUME IInv, DropNote PROVE IInv'
<1>0. /\ TypeInv /\ JournalInv /\ ControlInv /\ StageInv
      /\ UNCHANGED <<exfat, pfs, out, journal, source, seen, job, up>>
      /\ worker.pc = "dropnote" /\ up /\ Goto("settle")
      /\ note' = (note /\ ~worker.noted)
  BY Parts DEF DropNote, At
<1>1. /\ worker' \in WorkerType /\ worker'.pc = "settle" /\ worker'.err = worker.err
      /\ worker'.recovered = worker.recovered /\ worker'.journaled = worker.journaled
      /\ worker'.noted = worker.noted
  BY <1>0, GotoIs DEF Points
<1>2. TypeInv'
  BY <1>0, <1>1 DEF TypeInv
<1>3. JournalInv'
  BY <1>0, <1>1, JournalFrame
<1>4. StageInv'
  <2>1. worker.recovered \/ worker.noted => worker.journaled
    BY <1>0 DEF ControlInv
  <2>2. ~worker.noted => note' = note
    BY <1>0 DEF TypeInv
  <2>3. QED
    BY <1>0, <1>1, <2>1, <2>2 DEF StageInv, Body, Making, Sweeping
<1>5. QED
  BY <1>0, <1>2, <1>3, <1>4, EndStep DEF Ends

LEMMA SettleKeeps == ASSUME IInv, Settle PROVE IInv'
<1>0. /\ TypeInv /\ JournalInv /\ ControlInv /\ OutInv /\ StageInv
      /\ UNCHANGED <<exfat, pfs, out, journal, note, source, seen, up>>
      /\ worker.pc = "settle" /\ up /\ worker' = NoWorker
      /\ job' = [job EXCEPT !.state = Outcome]
  BY Parts DEF Settle, At, disk
<1>1. Outcome \in {"DONE", "CANCELED", "FAILED"}
  BY <1>0, WorkerField DEF Outcome, Errors
<1>2. job' \in JobType /\ job'.state \in {"DONE", "CANCELED", "FAILED"}
  <2>1. job \in JobType
    BY <1>0, JobField
  <2>2. QED
    BY <1>0, <1>1, <2>1 DEF JobType
<1>3. TypeInv'
  BY <1>0, <1>2, NoWorkerIs DEF TypeInv
<1>4. JournalInv' /\ OutInv'
  BY <1>0, NoWorkerIs, JournalFrame, OutFrame
<1>5. ControlInv'
  BY <1>0, <1>2, NoWorkerIs DEF ControlInv, Sweeping, Making, Body
<1>6. PhaseInv'
  BY <1>0, NoWorkerIs, PhaseFrame
<1>7. BuildInv' /\ PackInv'
  BY <1>0, NoWorkerIs, QuietFrame DEF Quiet, Ends
<1>8. StageInv'
  BY <1>0, NoWorkerIs DEF StageInv, Body, Making, Sweeping
<1>9. QED
  BY <1>3, <1>4, <1>5, <1>6, <1>7, <1>8, Whole

-----------------------------------------------------------------------------
(* The user, other programs, crashes and the start of the payload.         *)
LEMMA AskKeeps == ASSUME IInv, Ask PROVE IInv'
<1>0. /\ TypeInv /\ JournalInv /\ ControlInv /\ OutInv /\ StageInv
      /\ UNCHANGED <<exfat, pfs, out, journal, note, source, seen, up>>
      /\ worker.pc = "idle" /\ up /\ worker' = [NoWorker EXCEPT !.pc = "start"]
      /\ job' = [NoJob EXCEPT !.state = "QUEUED"]
  BY Parts DEF Ask, At, disk
<1>1. job' \in JobType /\ job'.state = "QUEUED"
  BY <1>0, NoJobIs DEF JobType
<1>2. /\ worker' \in WorkerType /\ worker'.pc = "start"
      /\ ~worker'.recovered /\ ~worker'.journaled /\ ~worker'.noted
  <2>1. "start" \in Points
    BY DEF Points
  <2>2. QED
    BY <1>0, <2>1, NoWorkerIs DEF WorkerType
<1>3. TypeInv'
  BY <1>0, <1>1, <1>2 DEF TypeInv
<1>4. JournalInv' /\ OutInv'
  BY <1>0, <1>2, JournalFrame, OutFrame
<1>5. ControlInv'
  BY <1>0, <1>1, <1>2 DEF ControlInv, Sweeping, Making, Body
<1>6. PhaseInv'
  BY <1>2 DEF PhaseInv, In, Recording
<1>7. BuildInv' /\ PackInv'
  BY <1>2, QuietFrame DEF Quiet, Ends
<1>8. StageInv'
  BY <1>0, <1>2 DEF StageInv, Body, Making, Sweeping
<1>9. QED
  BY <1>3, <1>4, <1>5, <1>6, <1>7, <1>8, Whole

(* A step that leaves the worker and the disk alone.                       *)
LEMMA WorkerFrame ==
  ASSUME IInv, UNCHANGED <<exfat, pfs, out, journal, note, worker, up>>,
         TypeInv', seen \subseteq seen',
         worker.pc = "copy" => source' = source,
         job.state \in {"QUEUED", "RUNNING"} <=> job'.state \in {"QUEUED", "RUNNING"},
         ~up => job'.state = job.state
  PROVE  IInv'
<1>0. /\ JournalInv /\ ControlInv /\ PhaseInv /\ BuildInv /\ PackInv /\ OutInv /\ StageInv
  BY Parts
<1>1. JournalInv'
  BY <1>0 DEF JournalInv, Covers, Full, Holds
<1>2. ControlInv'
  BY <1>0 DEF ControlInv
<1>3. PhaseInv'
  BY <1>0 DEF PhaseInv, In, Recording
<1>4. BuildInv'
  BY <1>0 DEF BuildInv, In
<1>5. PackInv'
  BY <1>0 DEF PackInv, In, Recording
<1>6. OutInv'
  BY <1>0, OutFrame
<1>7. StageInv'
  BY <1>0 DEF StageInv
<1>8. QED
  BY <1>1, <1>2, <1>3, <1>4, <1>5, <1>6, <1>7, Whole

LEMMA CancelKeeps == ASSUME IInv, Cancel PROVE IInv'
<1>0. /\ TypeInv /\ UNCHANGED <<exfat, pfs, out, journal, note, worker, up, source, seen>>
      /\ job' = [job EXCEPT !.cancel = TRUE]
  BY Parts DEF Cancel, disk
<1>1. job' \in JobType /\ job'.state = job.state
  <2>1. job \in JobType
    BY <1>0, JobField
  <2>2. QED
    BY <1>0, <2>1 DEF JobType
<1>2. TypeInv'
  BY <1>0, <1>1 DEF TypeInv
<1>3. QED
  BY <1>0, <1>1, <1>2, WorkerFrame

LEMMA ForgetKeeps == ASSUME IInv, Forget PROVE IInv'
<1>0. /\ TypeInv /\ UNCHANGED <<exfat, pfs, out, journal, note, worker, up, source, seen>>
      /\ job' = NoJob /\ job.state \notin {"QUEUED", "RUNNING"} /\ up
  BY Parts DEF Forget, At, disk
<1>1. TypeInv'
  BY <1>0, NoJobIs DEF TypeInv
<1>2. QED
  BY <1>0, <1>1, NoJobIs, WorkerFrame

LEMMA EditKeeps == ASSUME IInv, Edit PROVE IInv'
<1>0. /\ TypeInv /\ UNCHANGED <<exfat, pfs, out, journal, note, worker, up, job>>
      /\ worker.pc # "copy" /\ seen' = seen \union {source'}
  BY Parts DEF Edit, disk
<1>1. PICK f \in File : source[f] < Versions /\ source' = [source EXCEPT ![f] = @ + 1]
  BY DEF Edit
<1>2. source' \in Trees
  <2>1. source \in Trees
    BY <1>0 DEF TypeInv
  <2>2. source[f] + 1 \in 1 .. Versions
    BY <1>1, <2>1, Limits DEF Trees
  <2>3. QED
    BY <1>1, <2>1, <2>2 DEF Trees
<1>3. TypeInv'
  BY <1>0, <1>2 DEF TypeInv
<1>4. QED
  BY <1>0, <1>3, WorkerFrame

LEMMA TakeNameKeeps == ASSUME IInv, TakeName PROVE IInv'
<1>0. /\ TypeInv /\ JournalInv /\ ControlInv /\ PhaseInv /\ BuildInv /\ PackInv
      /\ OutInv /\ StageInv
      /\ UNCHANGED <<exfat, pfs, journal, note, source, seen, job, worker, up>>
      /\ out.st = "absent" /\ worker.pc # "rename" /\ out' = [NoOut EXCEPT !.st = "taken"]
  BY Parts DEF TakeName
<1>1. out' \in OutType /\ out'.st = "taken"
  BY <1>0, EmptyIs DEF OutType
<1>2. TypeInv'
  BY <1>0, <1>1 DEF TypeInv
<1>3. JournalInv'
  BY <1>0 DEF JournalInv, Covers, Full, Holds
<1>4. ControlInv' /\ StageInv'
  BY <1>0 DEF ControlInv, StageInv
<1>5. PhaseInv' /\ BuildInv'
  BY <1>0 DEF PhaseInv, BuildInv, In, Recording
<1>6. PackInv'
  BY <1>0 DEF PackInv, In, Recording
<1>7. OutInv'
  BY <1>1 DEF OutInv
<1>8. QED
  BY <1>2, <1>3, <1>4, <1>5, <1>6, <1>7, Whole

LEMMA LoseStageKeeps == ASSUME IInv, LoseStage PROVE IInv'
<1>0. /\ TypeInv /\ JournalInv /\ ControlInv /\ PhaseInv /\ OutInv /\ StageInv
      /\ UNCHANGED <<out, journal, note, source, seen, job, worker, up>>
      /\ worker.pc \in {"idle", "size"}
      /\ exfat' = exfat \/ exfat' = NoExfat
      /\ pfs' = pfs \/ pfs' = NoPfs
  BY Parts DEF LoseStage, At, ControlInv
<1>1. TypeInv'
  BY <1>0, EmptyIs DEF TypeInv
<1>2. JournalInv'
  BY <1>0, EmptyIs DEF JournalInv, Covers, Full, Holds
<1>3. ControlInv'
  BY <1>0 DEF ControlInv
<1>4. PhaseInv'
  BY <1>0 DEF PhaseInv, In, Recording
<1>5. BuildInv' /\ PackInv'
  BY <1>0, QuietFrame DEF Quiet, Ends
<1>6. OutInv'
  BY <1>0, OutFrame
<1>7. StageInv'
  BY <1>0, EmptyIs DEF StageInv, Body, Making, Sweeping
<1>8. QED
  BY <1>1, <1>2, <1>3, <1>4, <1>5, <1>6, <1>7, Whole

(* What was on the medium survives a crash, in both stages.                *)
LEMMA CrashKeeps == ASSUME IInv, Crash PROVE IInv'
<1>0. /\ TypeInv /\ JournalInv /\ OutInv /\ StageInv
      /\ UNCHANGED <<out, journal, note, source, seen>>
      /\ up' = FALSE /\ job' = NoJob /\ worker' = NoWorker
  BY Parts DEF Crash
<1>1. PICK lost \in SUBSET {f \in File : exfat.data[f] # 0 /\ f \notin exfat.safe},
           size \in {exfat.size, exfat.synced} :
        exfat' = [exfat EXCEPT !.size = size,
                    !.data = [f \in File |-> IF f \in lost THEN 0 ELSE @[f]]]
  BY DEF Crash
<1>2. PICK kept \in pfs.safe .. Blocks :
        pfs' = [pfs EXCEPT !.data = [b \in Block |-> IF b <= kept THEN @[b] ELSE NoImage]]
  BY DEF Crash
<1>3. /\ exfat' \in ExfatType /\ exfat'.on = exfat.on /\ exfat'.safe = exfat.safe
      /\ exfat'.synced = exfat.synced /\ exfat'.synced <= exfat'.size
      /\ exfat'.size \in {exfat.size, exfat.synced}
      /\ \A f \in exfat.safe : exfat'.data[f] = exfat.data[f]
      /\ exfat.safe = File => exfat'.data = exfat.data
  <2> DEFINE left == [f \in File |-> IF f \in lost THEN 0 ELSE exfat.data[f]]
  <2>1. /\ exfat \in ExfatType /\ exfat.data \in Images /\ exfat.safe \in SUBSET File
        /\ exfat.size \in 0 .. 2 * Files /\ exfat.synced \in 0 .. 2 * Files
        /\ exfat.synced <= exfat.size
    BY <1>0, ExfatField
  <2>2. left \in Images
    <3>1. 0 \in 0 .. Versions
      BY Limits
    <3>2. QED
      BY <2>1, <3>1 DEF Images
  <2>3. \A f \in exfat.safe : left[f] = exfat.data[f]
    BY <2>1
  <2>4. exfat.safe = File => left = exfat.data
    <3>1. exfat.data = [f \in File |-> exfat.data[f]]
      BY <2>1 DEF Images
    <3>2. exfat.safe = File => lost = {}
      OBVIOUS
    <3>3. QED
      BY <3>1, <3>2
  <2>5. exfat' = [exfat EXCEPT !.size = size, !.data = left]
    BY <1>1, <2>1 DEF ExfatType
  <2> HIDE DEF left
  <2>6. size \in 0 .. 2 * Files /\ exfat.synced <= size
    BY <2>1, Limits
  <2>7. /\ exfat' \in ExfatType /\ exfat'.on = exfat.on /\ exfat'.safe = exfat.safe
        /\ exfat'.synced = exfat.synced /\ exfat'.size = size /\ exfat'.data = left
    BY <2>1, <2>2, <2>5, <2>6 DEF ExfatType
  <2>8. QED
    BY <2>3, <2>4, <2>6, <2>7
<1>4. /\ pfs' \in PfsType /\ pfs'.on = pfs.on /\ pfs'.safe = pfs.safe
      /\ pfs'.linked = pfs.linked /\ (~pfs'.on => pfs' = NoPfs)
      /\ pfs'.data # Void => pfs.data # Void
      /\ \A n \in 0 .. Blocks : n <= pfs.safe => \A b \in 1 .. n : pfs'.data[b] = pfs.data[b]
  <2> DEFINE left == [b \in Block |-> IF b <= kept THEN pfs.data[b] ELSE NoImage]
  <2>1. /\ pfs \in PfsType /\ pfs.data \in Packed /\ pfs.safe \in 0 .. Blocks
        /\ (~pfs.on => pfs = NoPfs) /\ NoImage \in Images
    BY <1>0, PfsField, EmptyIs DEF TypeInv
  <2>2. left \in Packed
    BY <2>1 DEF Packed
  <2>3. pfs.data = Void => left = Void
    BY DEF Void
  <2>4. ASSUME NEW n \in 0 .. Blocks, n <= pfs.safe, NEW b \in 1 .. n
        PROVE  left[b] = pfs.data[b]
    <3>1. b \in Block /\ b <= kept
      BY <2>1, <2>4, Limits DEF Block
    <3>2. QED
      BY <3>1
  <2>5. pfs' = [pfs EXCEPT !.data = left]
    BY <1>2, <2>1 DEF PfsType
  <2> HIDE DEF left
  <2>6. /\ pfs' \in PfsType /\ pfs'.on = pfs.on /\ pfs'.safe = pfs.safe
        /\ pfs'.linked = pfs.linked /\ pfs'.data = left
    BY <2>1, <2>2, <2>5 DEF PfsType
  <2>7. ~pfs.on => pfs' = NoPfs
    <3>1. NoPfs \in PfsType /\ NoPfs.data = Void
      BY EmptyIs
    <3>2. [NoPfs EXCEPT !.data = NoPfs.data] = NoPfs
      BY <3>1 DEF PfsType
    <3>3. QED
      BY <2>1, <2>3, <2>5, <3>1, <3>2
  <2>8. QED
    BY <2>3, <2>4, <2>6, <2>7
<1>5. TypeInv'
  BY <1>0, <1>3, <1>4, NoJobIs, NoWorkerIs DEF TypeInv
<1>6. JournalInv'
  <2>1. Covers(journal)'
    <3>1. journal.phase # "NONE" => journal.pack \in 0 .. Blocks
      BY <1>0, JournalField, ResumeField
    <3>2. /\ exfat.size \in 0 .. 2 * Files /\ exfat.synced \in 0 .. 2 * Files
          /\ pfs.safe \in 0 .. Blocks
      BY <1>0, ExfatField, PfsField
    <3>3. CASE journal.phase = "EXFAT"
      BY <1>0, <1>3, <3>3 DEF JournalInv, Covers
    <3>4. CASE journal.phase = "PACK"
      BY <1>0, <1>3, <1>4, <3>1, <3>2, <3>4 DEF JournalInv, Covers, Full, Holds
    <3>5. CASE journal.phase \in {"VERIFY", "PUBLISH"}
      <4>1. Blocks \in 0 .. Blocks
        BY Limits
      <4>2. QED
        BY <1>0, <1>3, <1>4, <3>2, <3>5, <4>1 DEF JournalInv, Covers, Full, Holds
    <3>6. CASE journal.phase \notin {"EXFAT", "PACK", "VERIFY", "PUBLISH"}
      BY <1>0, <3>6 DEF Covers
    <3>7. QED
      BY <3>3, <3>4, <3>5, <3>6
  <2>2. QED
    BY <1>0, <2>1, NoWorkerIs DEF JournalInv
<1>7. ControlInv'
  BY <1>0, NoJobIs, NoWorkerIs DEF ControlInv, Sweeping, Making, Body
<1>8. PhaseInv'
  BY <1>0, NoWorkerIs, PhaseFrame
<1>9. BuildInv' /\ PackInv'
  BY <1>0, NoWorkerIs, QuietFrame DEF Quiet, Ends
<1>10. OutInv'
  BY <1>0, OutFrame
<1>11. StageInv'
  BY <1>0, <1>3, <1>4, NoWorkerIs DEF StageInv, Body, Making, Sweeping
<1>12. QED
  BY <1>5, <1>6, <1>7, <1>8, <1>9, <1>10, <1>11, Whole

LEMMA RestartKeeps == ASSUME IInv, Restart PROVE IInv'
<1>0. /\ TypeInv /\ JournalInv /\ ControlInv /\ PhaseInv /\ OutInv /\ StageInv
      /\ UNCHANGED <<exfat, pfs, out, journal, note, source, seen>>
      /\ up' = TRUE /\ worker.pc = "idle"
  BY Parts DEF Restart, disk, ControlInv
<1>1. CASE UNCHANGED <<job, worker>>
  <2>1. TypeInv'
    BY <1>0, <1>1 DEF TypeInv
  <2>2. JournalInv' /\ OutInv'
    BY <1>0, <1>1, JournalFrame, OutFrame
  <2>3. ControlInv' /\ StageInv'
    BY <1>0, <1>1 DEF ControlInv, StageInv
  <2>4. PhaseInv'
    BY <1>0, <1>1, PhaseFrame
  <2>5. BuildInv' /\ PackInv'
    BY <1>0, <1>1, QuietFrame DEF Quiet, Ends
  <2>6. QED
    BY <2>1, <2>2, <2>3, <2>4, <2>5, Whole
<1>2. CASE Valid /\ Goto("sweepexfat") /\ UNCHANGED job
  <2>1. /\ worker' \in WorkerType /\ worker'.pc = "sweepexfat"
        /\ worker'.recovered = worker.recovered /\ worker'.journaled = worker.journaled
        /\ worker'.noted = worker.noted
    BY <1>0, <1>2, GotoIs DEF Points
  <2>2. TypeInv'
    BY <1>0, <1>2, <2>1 DEF TypeInv
  <2>3. JournalInv' /\ OutInv'
    BY <1>0, <2>1, JournalFrame, OutFrame
  <2>4. ControlInv'
    BY <1>0, <1>2, <2>1 DEF ControlInv, Sweeping, Making, Body
  <2>5. PhaseInv'
    BY <2>1, PhaseFrame DEF Sweeping
  <2>6. BuildInv' /\ PackInv'
    BY <2>1, QuietFrame DEF Quiet, Ends, Sweeping
  <2>7. StageInv'
    BY <1>0, <2>1 DEF StageInv, Body, Making, Sweeping
  <2>8. QED
    BY <2>2, <2>3, <2>4, <2>5, <2>6, <2>7, Whole
<1>3. CASE /\ Valid /\ job' = [NoJob EXCEPT !.state = "QUEUED"]
           /\ worker' = [NoWorker EXCEPT !.pc = "start", !.recovered = TRUE,
                                         !.journaled = TRUE, !.resume = journal]
  <2>1. journal \in Resume /\ journal.phase # "DONE" /\ journal # NoJournal
    BY <1>0, <1>3, JournalField, BegunIs DEF Valid
  <2>2. job' \in JobType /\ job'.state = "QUEUED"
    BY <1>3, NoJobIs DEF JobType
  <2>3. /\ worker' \in WorkerType /\ worker'.pc = "start" /\ worker'.recovered
        /\ worker'.journaled /\ worker'.resume = journal
    <3>1. "start" \in Points
      BY DEF Points
    <3>2. QED
      BY <1>3, <2>1, <3>1, NoWorkerIs DEF WorkerType
  <2>4. TypeInv'
    BY <1>0, <2>2, <2>3 DEF TypeInv
  <2>5. JournalInv' /\ OutInv'
    BY <1>0, <2>3, JournalFrame, OutFrame
  <2>6. ControlInv'
    BY <1>0, <2>2, <2>3 DEF ControlInv, Sweeping, Making, Body
  <2>7. PhaseInv'
    BY <2>1, <2>3 DEF PhaseInv, In, Recording
  <2>8. BuildInv' /\ PackInv'
    BY <2>3, QuietFrame DEF Quiet, Ends
  <2>9. StageInv'
    BY <1>0, <2>1, <2>3 DEF StageInv, Body, Making, Sweeping
  <2>10. QED
    BY <2>4, <2>5, <2>6, <2>7, <2>8, <2>9, Whole
<1>4. QED
  BY <1>1, <1>2, <1>3 DEF Restart

(* A step of the clean-up at start-up.                                     *)
LEMMA SweepKeeps == ASSUME IInv, Sweep PROVE IInv'
<1>0. /\ TypeInv /\ JournalInv /\ ControlInv /\ PhaseInv /\ OutInv /\ StageInv
      /\ UNCHANGED <<out, source, seen, job, up>> /\ up /\ worker.pc \in Sweeping
  BY Parts DEF Sweep, At, Sweeping
<1>1. ASSUME NEW p \in Sweeping \union {"idle"}, Goto(p), TypeInv', JournalInv', StageInv'
      PROVE  IInv'
  <2>1. /\ worker' \in WorkerType /\ worker'.pc = p
        /\ worker'.recovered = worker.recovered /\ worker'.journaled = worker.journaled
        /\ worker'.noted = worker.noted
    BY <1>0, <1>1, GotoIs DEF Points, Sweeping
  <2>2. ControlInv'
    BY <1>0, <2>1 DEF ControlInv, Sweeping, Making, Body
  <2>3. PhaseInv'
    BY <2>1, PhaseFrame
  <2>4. BuildInv' /\ PackInv'
    BY <2>1, QuietFrame DEF Quiet, Ends, Sweeping
  <2>5. OutInv'
    BY <1>0, OutFrame
  <2>6. QED
    BY <1>1, <2>2, <2>3, <2>4, <2>5, Whole
<1>2. ASSUME NEW p \in {"sweeppfs", "sweepnote", "sweepjournal", "idle"}, Goto(p)
      PROVE  worker' \in WorkerType /\ worker'.pc = p
  BY <1>0, <1>2, GotoIs DEF Points
<1>3. CASE /\ worker.pc = "sweepexfat" /\ exfat' = NoExfat /\ Goto("sweeppfs")
           /\ UNCHANGED <<pfs, note, journal>>
  <2>1. worker' \in WorkerType /\ worker'.pc = "sweeppfs"
    BY <1>2, <1>3
  <2>2. TypeInv'
    BY <1>0, <1>3, <2>1, EmptyIs DEF TypeInv
  <2>3. JournalInv'
    BY <1>0, <1>3, <2>1, EmptyIs DEF JournalInv, Covers, Full, Holds
  <2>4. StageInv'
    BY <1>0, <1>3, <2>1, EmptyIs DEF StageInv, Body, Making, Sweeping
  <2>5. QED
    BY <1>1, <1>3, <2>2, <2>3, <2>4 DEF Sweeping
<1>4. CASE /\ worker.pc = "sweeppfs" /\ pfs' = (IF pfs.linked THEN pfs ELSE NoPfs)
           /\ Goto("sweepnote") /\ UNCHANGED <<exfat, note, journal>>
  <2>1. worker' \in WorkerType /\ worker'.pc = "sweepnote"
    BY <1>2, <1>4
  <2>2. TypeInv'
    BY <1>0, <1>4, <2>1, EmptyIs DEF TypeInv
  <2>3. JournalInv'
    BY <1>0, <1>4, <2>1, EmptyIs DEF JournalInv, Covers, Full, Holds
  <2>4. StageInv'
    BY <1>0, <1>4, <2>1, EmptyIs DEF StageInv, Body, Making, Sweeping
  <2>5. QED
    BY <1>1, <1>4, <2>2, <2>3, <2>4 DEF Sweeping
<1>5. CASE /\ worker.pc = "sweepnote" /\ note' = FALSE /\ Goto("sweepjournal")
           /\ UNCHANGED <<exfat, pfs, journal>>
  <2>1. worker' \in WorkerType /\ worker'.pc = "sweepjournal"
    BY <1>2, <1>5
  <2>2. TypeInv'
    BY <1>0, <1>5, <2>1 DEF TypeInv
  <2>3. JournalInv'
    BY <1>0, <1>5, <2>1, JournalFrame
  <2>4. StageInv'
    BY <1>0, <1>5, <2>1 DEF StageInv, Body, Making, Sweeping
  <2>5. QED
    BY <1>1, <1>5, <2>2, <2>3, <2>4 DEF Sweeping
<1>6. CASE /\ worker.pc = "sweepjournal" /\ journal' = NoJournal /\ Goto("idle")
           /\ UNCHANGED <<exfat, pfs, note>>
  <2>1. worker' \in WorkerType /\ worker'.pc = "idle"
    BY <1>2, <1>6
  <2>2. TypeInv'
    BY <1>0, <1>6, <2>1 DEF TypeInv
  <2>3. JournalInv'
    BY <1>0, <1>6, <2>1, BegunIs DEF JournalInv, Covers
  <2>4. StageInv'
    BY <1>0, <1>6, <2>1 DEF StageInv, Body, Making, Sweeping
  <2>5. QED
    BY <1>1, <1>6, <2>2, <2>3, <2>4
<1>7. QED
  BY <1>3, <1>4, <1>5, <1>6 DEF Sweep, At

-----------------------------------------------------------------------------
LEMMA AtStart == Init => IInv
<1> SUFFICES ASSUME Init PROVE IInv
  OBVIOUS
<1>1. /\ exfat = NoExfat /\ pfs = NoPfs /\ out = NoOut /\ journal = NoJournal /\ note = FALSE
      /\ job = NoJob /\ worker = NoWorker /\ up = TRUE /\ seen = {source}
  BY DEF Init
<1>2. source \in Trees
  <2>1. 1 \in 1 .. Versions
    BY Limits
  <2>2. QED
    BY <2>1 DEF Init, Trees
<1>3. TypeInv
  <2>1. exfat \in ExfatType /\ exfat.synced <= exfat.size
    BY <1>1, EmptyIs
  <2>2. pfs \in PfsType /\ out \in OutType /\ job \in JobType /\ worker \in WorkerType
    BY <1>1, EmptyIs, NoJobIs, NoWorkerIs
  <2>3. QED
    BY <1>1, <1>2, <2>1, <2>2 DEF TypeInv
<1>4. JournalInv
  BY <1>1, BegunIs, NoWorkerIs DEF JournalInv, Covers
<1>5. ControlInv
  BY <1>1, NoJobIs, NoWorkerIs DEF ControlInv, Sweeping, Making, Body
<1>6. PhaseInv
  BY <1>1, NoWorkerIs DEF PhaseInv, In, Recording
<1>7. BuildInv
  BY <1>1, NoWorkerIs DEF BuildInv, In
<1>8. PackInv
  BY <1>1, NoWorkerIs DEF PackInv, In, Recording, Ends
<1>9. OutInv
  BY <1>1, EmptyIs DEF OutInv
<1>10. StageInv
  BY <1>1, NoWorkerIs, EmptyIs DEF StageInv, Body, Making, Sweeping
<1>11. QED
  BY <1>3, <1>4, <1>5, <1>6, <1>7, <1>8, <1>9, <1>10 DEF IInv

(* Nothing changes: neither does what is said of it.                       *)
LEMMA StutterKeeps == ASSUME IInv, UNCHANGED vars PROVE IInv'
<1>1. UNCHANGED <<source, seen, exfat, pfs, out, journal, note, job, worker, up>>
  BY DEF vars
<1>2. TypeInv'
  BY <1>1, Parts DEF TypeInv
<1>3. QED
  BY <1>1, <1>2, WorkerFrame

LEMMA StepKeeps == ASSUME IInv, [Next]_vars PROVE IInv'
<1>1. CASE Build
  BY <1>1, ScanKeeps, SyncExfatKeeps, OpenFileKeeps, CopyFileKeeps, RemoveOldPfsKeeps DEF Build
<1>2. CASE Pack
  BY <1>2, OpenStagesKeeps, SeekPackKeeps, PackBlockKeeps, FlushPackKeeps, VerifyKeeps DEF Pack
<1>3. CASE Finish
  BY <1>3, WriteHeadKeeps, LinkKeeps, UnlinkKeeps, RenameKeeps, RemoveExfatKeeps DEF Finish
<1>4. CASE Clean
  BY <1>4, JudgeKeeps, DropExfatKeeps, DropPfsKeeps, DropJournalKeeps, DropNoteKeeps,
     SettleKeeps DEF Clean
<1>5. CASE Start \/ Check \/ Prepare \/ MakeNote \/ Enter \/ WriteJournal \/ Sweep
  BY <1>5, StartKeeps, CheckKeeps, PrepareKeeps, MakeNoteKeeps, EnterKeeps, WriteJournalKeeps,
     SweepKeeps
<1>6. CASE Ask \/ Cancel \/ Forget \/ Edit \/ TakeName \/ LoseStage \/ Crash \/ Restart
  BY <1>6, AskKeeps, CancelKeeps, ForgetKeeps, EditKeeps, TakeNameKeeps, LoseStageKeeps,
     CrashKeeps, RestartKeeps
<1>7. CASE UNCHANGED vars
  BY <1>7, StutterKeeps
<1>8. QED
  BY <1>1, <1>2, <1>3, <1>4, <1>5, <1>6, <1>7 DEF Next, Work

(* The inductive invariant holds of every run.                             *)
THEOREM Invariance == Spec => []IInv
BY AtStart, StepKeeps, PTL DEF Spec

-----------------------------------------------------------------------------
(* The output is one complete state of the source, whatever is edited,     *)
(* canceled and resumed when, and whatever a crash takes.                  *)
THEOREM OutputIsSnapshot == Spec => []PublishedIsSnapshot
<1>1. IInv => PublishedIsSnapshot
  BY DEF IInv, OutInv, PublishedIsSnapshot
<1>2. QED
  BY <1>1, Invariance, PTL

(* The journal never counts what is not on the medium, so a payload that   *)
(* dies at any point resumes from what is there.                           *)
THEOREM JournalIsBacked == Spec => []JournalCovered
<1>1. IInv => JournalCovered
  <2> SUFFICES ASSUME IInv PROVE JournalCovered
    OBVIOUS
  <2>1. TypeInv /\ JournalInv
    BY Parts
  <2>2. Covers(journal)
    BY <2>1 DEF JournalInv
  <2>3. CASE journal.phase \in {"NONE", "DONE"}
    BY <2>3 DEF JournalCovered
  <2>4. CASE journal.phase = "EXFAT"
    <3>1. journal.next \in Nat
      BY <2>1, <2>4, JournalField, ResumeField
    <3>2. exfat.on => 1 .. journal.next \subseteq exfat.safe
      BY <2>2, <2>4, <3>1 DEF Covers
    <3>3. QED
      BY <2>4, <3>2 DEF JournalCovered
  <2>5. CASE journal.phase = "PACK"
    BY <2>2, <2>5 DEF Covers, Full, Holds, JournalCovered
  <2>6. CASE journal.phase \in {"VERIFY", "PUBLISH"}
    <3>1. pfs.safe \in 0 .. Blocks
      BY <2>1, PfsField
    <3>2. pfs.data # Void => pfs.safe = Blocks
      BY <2>2, <2>6, <3>1, Limits DEF Covers, Holds
    <3>3. QED
      BY <2>2, <2>6, <3>2 DEF Covers, Full, JournalCovered
  <2>7. journal.phase \in {"NONE", "DONE", "EXFAT", "PACK", "VERIFY", "PUBLISH"}
    BY <2>1, JournalField, ResumeField
  <2>8. QED
    BY <2>3, <2>4, <2>5, <2>6, <2>7
<1>2. QED
  BY <1>1, Invariance, PTL

(* No private stage is orphaned: while one exists, so do the journal that  *)
(* reclaims it and the note that explains it; and every variable has its   *)
(* type.                                                                   *)
THEOREM StagesStayAnnounced == Spec => []StagesAnnounced
<1>1. IInv => StagesAnnounced
  <2> SUFFICES ASSUME IInv PROVE StagesAnnounced
    OBVIOUS
  <2>1. TypeInv /\ StageInv
    BY Parts
  <2>2. TypeOK
    <3>1. source \in Trees /\ seen \subseteq Trees /\ journal \in Resume \union {NoJournal}
      BY <2>1 DEF TypeInv
    <3>2. /\ exfat.data \in Images /\ exfat.safe \subseteq File
          /\ exfat.synced <= exfat.size /\ exfat.size <= 2 * Files
      BY <2>1, ExfatField
    <3>3. pfs.safe \in 0 .. Blocks /\ \A b \in Block : pfs.data[b] \in Images
      BY <2>1, PfsField DEF Packed
    <3>4. QED
      BY <2>1, <3>1, <3>2, <3>3, OutField, JobField, WorkerField DEF TypeOK, Errors
  <2>3. QED
    BY <2>1, <2>2 DEF StageInv, StagesAnnounced
<1>2. QED
  BY <1>1, Invariance, PTL

(* A recovered job that fails for its stages or its source leaves no       *)
(* journal, so that the next start does not try it again.                  *)
THEOREM FailedIsNotRetried == Spec => []NoRetryLoop
<1>1. IInv => NoRetryLoop
  BY DEF IInv, StageInv, NoRetryLoop
<1>2. QED
  BY <1>1, Invariance, PTL

-----------------------------------------------------------------------------
(* The conversion implements AtomicPublish.                                *)
Answers == [j \in {"convert"} |-> Asked(job.state)]
Promise == <<Target, Answers>>

LEMMA AskedIs ==
  /\ Asked("NONE") = "none" /\ Asked("QUEUED") = "open" /\ Asked("RUNNING") = "open"
  /\ Asked("FAILED") = "stopped" /\ Asked("CANCELED") = "stopped" /\ Asked("DONE") = "done"
BY DEF Asked

LEMMA TargetIs == IInv => Target = IF out.st = "ours" THEN "whole" ELSE out.st
<1> SUFFICES ASSUME IInv, out.st = "ours" PROVE \A b \in Block : out.data[b] \in Trees
  BY DEF Target
<1>1. \A tree \in seen : tree \in Trees
  BY DEF IInv, TypeInv
<1>2. PICK tree \in seen : \A b \in Block : out.data[b] = tree
  BY DEF IInv, OutInv
<1>3. QED
  BY <1>1, <1>2

LEMMA TargetNext == (IInv => Target = IF out.st = "ours" THEN "whole" ELSE out.st)'
<1>1. IInv => Target = IF out.st = "ours" THEN "whole" ELSE out.st
  BY TargetIs
<1>2. QED
  BY <1>1, PTL

LEMMA TargetStays == ASSUME out' = out PROVE Target' = Target
BY DEF Target

LEMMA AnswersIs == /\ Answers["convert"] = Asked(job.state)
                   /\ Answers' = [Answers EXCEPT !["convert"] = Asked(job'.state)]
BY DEF Answers

LEMMA PromiseStays ==
  ASSUME Target' = Target, Asked(job'.state) = Asked(job.state)
  PROVE  UNCHANGED Promise
BY DEF Promise, Answers

(* What the job may do while the output name stays as it is.               *)
LEMMA PromiseMoves ==
  ASSUME Target' = Target,
         \/ /\ Asked(job.state) = "none" /\ Target = "absent"
            /\ Asked(job'.state) = "open"
         \/ Asked(job.state) = "open" /\ Target = "whole" /\ Asked(job'.state) = "done"
         \/ Asked(job.state) = "open" /\ Asked(job'.state) = "stopped"
         \/ Asked(job.state) \in {"stopped", "done"} /\ Asked(job'.state) = "none"
  PROVE  Publication!Next
<1> DEFINE j == "convert"
<1>1. Answers[j] = Asked(job.state) /\ Answers' = [Answers EXCEPT ![j] = Asked(job'.state)]
  BY AnswersIs
<1>2. \/ Publication!Begin(j) \/ Publication!Complete(j) \/ Publication!Stop(j)
      \/ Publication!Forget(j)
  BY <1>1 DEF Publication!Begin, Publication!Complete, Publication!Stop, Publication!Forget,
              Answers
<1>3. QED
  BY <1>2 DEF Publication!Next

(* The steps that touch the output name.                                   *)
LEMMA NamingIsPromised ==
  ASSUME IInv, IInv', Link \/ Unlink \/ Rename \/ TakeName
  PROVE  [Publication!Next]_Promise
<1>0. /\ TypeInv /\ ControlInv /\ PackInv /\ job' = job /\ Answers' = Answers
  BY Parts DEF Link, Unlink, Rename, TakeName, Answers
<1>1. ASSUME worker.pc \in {"link", "unlink", "rename"}
      PROVE  Answers["convert"] = "open"
  <2>1. job.state \in {"QUEUED", "RUNNING"}
    BY <1>0, <1>1 DEF ControlInv, Sweeping
  <2>2. QED
    BY <2>1, AskedIs, AnswersIs
<1>2. CASE out' = out
  BY <1>0, <1>2, TargetStays, PromiseStays
<1>3. CASE out' = Output /\ out.st = "absent" /\ worker.pc \in {"link", "rename"}
  <2>1. Target = "absent" /\ Target' = "whole"
    BY <1>3, TargetIs, TargetNext, OutputIs
  <2>2. Publication!Publish
    BY <1>0, <1>1, <1>3, <2>1 DEF Publication!Publish, Answers
  <2>3. QED
    BY <2>2 DEF Publication!Next
<1>4. CASE out' = NoOut /\ worker.pc = "unlink"
  <2>1. Target = "whole" /\ Target' = "absent"
    BY <1>0, <1>4, TargetIs, TargetNext, EmptyIs DEF PackInv
  <2>2. Publication!Retract
    BY <1>0, <1>1, <1>4, <2>1 DEF Publication!Retract, Answers
  <2>3. QED
    BY <2>2 DEF Publication!Next
<1>5. CASE out' = [NoOut EXCEPT !.st = "taken"] /\ out.st = "absent"
  <2>1. out'.st = "taken"
    BY <1>5, EmptyIs DEF OutType
  <2>2. Target = "absent" /\ Target' = "taken"
    BY <1>5, <2>1, TargetIs, TargetNext
  <2>3. Publication!Take
    BY <1>0, <2>2 DEF Publication!Take, Answers
  <2>4. QED
    BY <2>3 DEF Publication!Next
<1>6. \/ out' = out
      \/ out' = Output /\ out.st = "absent" /\ worker.pc \in {"link", "rename"}
      \/ out' = NoOut /\ worker.pc = "unlink"
      \/ out' = [NoOut EXCEPT !.st = "taken"] /\ out.st = "absent"
  BY <1>0 DEF Link, Unlink, Rename, TakeName, NameFree, At, PackInv
<1>7. QED
  BY <1>2, <1>3, <1>4, <1>5, <1>6

(* The steps that touch the state of the job.                              *)
LEMMA JobIsPromised ==
  ASSUME IInv, Start \/ Settle \/ Ask \/ Cancel \/ Forget \/ Restart
  PROVE  [Publication!Next]_Promise
<1>0. TypeInv /\ ControlInv /\ PackInv /\ job \in JobType
  BY Parts, JobField
<1>1. out' = out /\ Target' = Target
  <2>1. out' = out
    BY DEF Start, Settle, Ask, Cancel, Forget, Restart, disk
  <2>2. QED
    BY <2>1, TargetStays
<1>2. CASE Start
  <2>1. job.state \in {"QUEUED", "RUNNING"}
    BY <1>0, <1>2 DEF Start, At, ControlInv, Sweeping
  <2>2. job' = job \/ job'.state = "RUNNING"
    BY <1>0, <1>2 DEF Start, JobType
  <2>3. QED
    BY <1>1, <2>1, <2>2, AskedIs, PromiseStays
<1>3. CASE Settle
  <2>1. worker.pc = "settle" /\ job'.state = Outcome
    BY <1>0, <1>3 DEF Settle, At, JobType
  <2>2. job.state \in {"QUEUED", "RUNNING"}
    BY <1>0, <2>1 DEF ControlInv, Sweeping
  <2>3. CASE worker.err = "none"
    <3>1. out.st = "ours" /\ job'.state = "DONE"
      BY <1>0, <2>1, <2>3 DEF PackInv, Ends, Outcome
    <3>2. Target = "whole"
      BY <3>1, TargetIs
    <3>3. QED
      BY <1>1, <2>2, <3>1, <3>2, AskedIs, PromiseMoves
  <2>4. CASE worker.err # "none"
    <3>1. job'.state \in {"CANCELED", "FAILED"}
      BY <1>0, <2>1, <2>4, WorkerField DEF Outcome, Errors
    <3>2. QED
      BY <1>1, <2>2, <3>1, AskedIs, PromiseMoves
  <2>5. QED
    BY <2>3, <2>4
<1>4. CASE Ask
  <2>1. job.state = "NONE" /\ out.st = "absent" /\ job'.state = "QUEUED"
    BY <1>4, NoJobIs DEF Ask, JobType
  <2>2. Target = "absent"
    BY <2>1, TargetIs
  <2>3. QED
    BY <1>1, <2>1, <2>2, AskedIs, PromiseMoves
<1>5. CASE Cancel
  <2>1. job'.state = job.state
    BY <1>0, <1>5 DEF Cancel, JobType
  <2>2. QED
    BY <1>1, <2>1, PromiseStays
<1>6. CASE Forget
  <2>1. job.state \in {"DONE", "FAILED", "CANCELED"} /\ job'.state = "NONE"
    BY <1>6, NoJobIs DEF Forget
  <2>2. QED
    BY <1>1, <2>1, AskedIs, PromiseMoves
<1>7. CASE Restart
  <2>1. CASE job' = job
    BY <1>1, <2>1, PromiseStays
  <2>2. CASE out.st = "absent" /\ job' = [NoJob EXCEPT !.state = "QUEUED"]
    <3>1. job.state = "NONE" /\ job'.state = "QUEUED"
      BY <1>0, <1>7, <2>2, NoJobIs DEF Restart, ControlInv, JobType
    <3>2. Target = "absent"
      BY <2>2, TargetIs
    <3>3. QED
      BY <1>1, <3>1, <3>2, AskedIs, PromiseMoves
  <2>3. QED
    BY <1>7, <2>1, <2>2 DEF Restart
<1>8. QED
  BY <1>2, <1>3, <1>4, <1>5, <1>6, <1>7

LEMMA CrashIsPromised == ASSUME Crash PROVE Publication!Next
<1>1. out' = out /\ job' = NoJob
  BY DEF Crash
<1>2. Target' = Target
  BY <1>1, TargetStays
<1>3. Answers' = [j \in {"convert"} |-> "none"]
  BY <1>1, NoJobIs, AskedIs DEF Answers
<1>4. Publication!Crash
  BY <1>2, <1>3 DEF Publication!Crash, Answers
<1>5. QED
  BY <1>4 DEF Publication!Next

LEMMA StepIsPromised ==
  ASSUME IInv, IInv', [Next]_vars
  PROVE  [Publication!Next]_Promise
<1>1. CASE Link \/ Unlink \/ Rename \/ TakeName
  BY <1>1, NamingIsPromised
<1>2. CASE Start \/ Settle \/ Ask \/ Cancel \/ Forget \/ Restart
  BY <1>2, JobIsPromised
<1>3. CASE Crash
  BY <1>3, CrashIsPromised
<1>4. CASE UNCHANGED <<out, job>>
  BY <1>4, TargetStays, PromiseStays
<1>5. Check \/ Prepare \/ MakeNote \/ Enter \/ WriteJournal \/ Sweep => UNCHANGED <<out, job>>
  BY DEF Check, Prepare, MakeNote, Enter, WriteJournal, Sweep, disk
<1>6. Build => UNCHANGED <<out, job>>
  BY DEF Build, Scan, SyncExfat, OpenFile, CopyFile, RemoveOldPfs
<1>7. Pack => UNCHANGED <<out, job>>
  BY DEF Pack, OpenStages, SeekPack, PackBlock, FlushPack, Verify, disk
<1>8. WriteHead \/ RemoveExfat => UNCHANGED <<out, job>>
  BY DEF WriteHead, RemoveExfat
<1>9. Judge \/ DropExfat \/ DropPfs \/ DropJournal \/ DropNote => UNCHANGED <<out, job>>
  BY DEF Judge, DropExfat, DropPfs, DropJournal, DropNote, disk
<1>10. Edit \/ LoseStage \/ UNCHANGED vars => UNCHANGED <<out, job>>
  BY DEF Edit, LoseStage, disk, vars
<1>11. QED
  BY <1>1, <1>2, <1>3, <1>4, <1>5, <1>6, <1>7, <1>8, <1>9, <1>10 DEF Next, Work, Finish, Clean

(* A conversion implements AtomicPublish: the name is unused, stands for   *)
(* the whole image or was taken by another program, is never replaced, and *)
(* the job is done only when it stands for the whole image, through        *)
(* cancellation, failures, crashes and restarts.                           *)
THEOREM ConversionPublishesAtomically == Spec => ImplementsAtomicPublish
<1>1. Init => Publication!Init
  <2>1. Init => Target = "absent"
    BY EmptyIs DEF Init, Target
  <2>2. Init => Answers = [j \in {"convert"} |-> "none"]
    BY NoJobIs, AskedIs DEF Init, Answers
  <2>3. QED
    BY <2>1, <2>2 DEF Publication!Init, Answers
<1>2. IInv /\ IInv' /\ [Next]_vars => [Publication!Next]_Promise
  BY StepIsPromised
<1>3. QED
  BY <1>1, <1>2, Invariance, PTL
     DEF Spec, ImplementsAtomicPublish, Publication!Spec, Promise, Answers
=============================================================================
