------------------------- MODULE UrlDownloadProofs -------------------------
(***************************************************************************)
(* Theorems about UrlDownload, for one job at a time on its destination    *)
(* (two at once are what the run url_twice is about), and any length of    *)
(* the file, interval of checkpoints, answers of the server, points at     *)
(* which the payload may die, and set of faults.                           *)
(***************************************************************************)
EXTENDS UrlDownload, SequenceTheorems, Integers, TLAPS

(* One job has this destination.                                           *)
Alone == \E t \in Tasks : \A u \in Tasks : u = t

(* A body that was cut short is seen by its length: the server sends one,  *)
(* and it is not compared with the rest of a range.                        *)
Measured == HasLength /\ (Platform = "HOST" \/ 206 \notin RangeModes)
Counted  == "net" \in Faults => Measured

(* No name is taken between the check and the rename on FAT.               *)
Kept == "nolink" \in Faults => "foreign" \notin Faults

-----------------------------------------------------------------------------
Names      == Inodes \union {NoFile}
FileType   == [data : Seq(0 .. N), durable : Nat]
JobType    == [state : {"NONE", "QUEUED", "RUNNING", "PAUSED", "DONE", "FAILED", "CANCELED"},
               cancel : BOOLEAN, pause : BOOLEAN, done : 0 .. MaxDone,
               total : {0, N}, ckpt : 0 .. MaxDone]
WorkerType == [pc : Points, fd : Names, append : BOOLEAN,
               pos : 0 .. N, resume : 0 .. N, clen : 0 .. N, next : 1 .. N + 1,
               result : {"none", "ok", "error", "canceled", "paused"}]

TypeInv ==
  /\ dst \in Names /\ part \in Names
  /\ file \in [Inodes -> FileType]
  /\ journal = NoJournal \/ journal \in [done : 0 .. MaxDone, total : {0, N}]
  /\ job \in [Tasks -> JobType] /\ worker \in [Tasks -> WorkerType]
  /\ handler \in {"idle", "rmpart", "rmjournal"} /\ up \in BOOLEAN

(* The files are beginnings of the remote file, but for another program's. *)
Prefix(i) == Size(i) <= N /\ \A k \in 1 .. Size(i) : file[i].data[k] = k
Stranger(i) == file[i].data = Foreign /\ file[i].durable = 1

FileInv ==
  /\ \A i \in Inodes : (Prefix(i) \/ Stranger(i)) /\ file[i].durable <= Size(i)
  /\ part # NoFile => Prefix(part)
  /\ Counted /\ dst # NoFile => Stranger(dst) \/ (Prefix(dst) /\ file[dst].durable = N)

(* The points at which a worker has its file open: up to its publication,  *)
(* and after it.                                                           *)
Early == {"journal", "request", "rejournal", "total", "body", "checkpoint", "ended",
          "sync", "publish", "rename"}
Held  == Early \union {"unlink", "dirsync", "finish"}

(* Where the worker is, against the state of its job.                      *)
StateInv(t) ==
  /\ worker[t].pc = "idle" <=> job[t].state \notin {"QUEUED", "RUNNING"}
  /\ job[t].state = "NONE" => job[t] = NoJob
  /\ ~up => worker[t].pc = "idle" /\ job[t] = NoJob /\ handler = "idle"
  /\ handler # "idle" => worker[t].pc = "idle" /\ job[t].state = "CANCELED"
  /\ worker[t].pc \notin Held => worker[t].fd = NoFile
  /\ worker[t].pc \in Early => /\ worker[t].fd \in Inodes /\ worker[t].fd = part
                               /\ worker[t].fd # dst
  /\ worker[t].pc = "unlink" => /\ worker[t].fd \in Inodes /\ worker[t].fd = part
                                /\ worker[t].fd = dst
  /\ worker[t].pc = "rename" => "nolink" \in Faults /\ (Kept => dst = NoFile)
  /\ worker[t].pc = "dirsync" => dst # NoFile
  /\ worker[t].pc \in {"finish", "settle"} => worker[t].result # "none"
  /\ worker[t].pc \in {"rmpart", "rmjournal"} => worker[t].result \in {"ok", "canceled"}

(* What the worker believes of its file.                                   *)
SizeInv(t) ==
  /\ worker[t].pc \in {"journal", "request"} =>
       /\ worker[t].resume = Size(worker[t].fd)
       /\ ~worker[t].append => worker[t].resume = 0 /\ worker[t].pos = 0
  /\ worker[t].pc = "rejournal" =>
       worker[t].resume = 0 /\ worker[t].pos = 0 /\ Size(worker[t].fd) = 0
  /\ worker[t].pc \in {"total", "body", "checkpoint"} =>
       /\ worker[t].next = Size(worker[t].fd) + 1
       /\ ~worker[t].append => worker[t].pos = Size(worker[t].fd)
       /\ ~HasLength => worker[t].clen = 0
       /\ HasLength => worker[t].clen = IF Platform = "HOST" THEN N ELSE N - worker[t].resume
       /\ 206 \notin RangeModes => worker[t].resume = 0
       /\ worker[t].resume < N
  /\ worker[t].pc \in {"body", "checkpoint"} => job[t].total = IF HasLength THEN N ELSE 0
  /\ ~HasLength => job[t].total = 0 /\ (journal = NoJournal \/ journal.total = 0)

(* What is counted, while the name is not used.                            *)
CountInv(t) ==
  dst = NoFile =>
    /\ worker[t].pc \in Early \ {"rejournal"} => job[t].done = Size(worker[t].fd)
    /\ worker[t].pc = "finish" /\ worker[t].result \in {"error", "paused"} =>
         part # NoFile /\ job[t].done = Size(part)
    /\ \/ worker[t].pc \in {"start", "open"}
       \/ worker[t].pc = "settle" /\ worker[t].result \in {"error", "paused"}
       \/ job[t].state \in {"PAUSED", "FAILED"}
       => (part = NoFile \/ Size(part) = 0 => job[t].done = 0)

(* What is known of the file on the way to its publication.                *)
WholeInv(t) ==
  Counted =>
    /\ \/ worker[t].pc = "ended" /\ worker[t].result = "ok" /\ Complete(t)
       \/ worker[t].pc \in {"sync", "publish"}
       => (dst = NoFile => Size(worker[t].fd) = N)
    /\ worker[t].pc = "publish" /\ dst = NoFile => file[worker[t].fd].durable = N
    /\ worker[t].pc = "rename" => file[worker[t].fd].durable = N
    /\ \/ worker[t].pc = "dirsync"
       \/ worker[t].pc \in {"finish", "rmpart", "rmjournal", "settle"} /\ worker[t].result = "ok"
       => dst # NoFile /\ ~Stranger(dst)

(* From its first journal to its end or its pause, what the journal of a   *)
(* transfer counts is in the private file.                                 *)
Backed     == journal # NoJournal /\ part # NoFile /\ Size(part) >= journal.done
Secured(t) == \/ worker[t].pc \in Fetching
              \/ worker[t].pc = "settle" /\ worker[t].result = "paused"
              \/ job[t].state = "PAUSED"
JournalInv == \A t \in Tasks : dst = NoFile /\ Secured(t) => Backed

JobInv(t) == StateInv(t) /\ SizeInv(t) /\ CountInv(t) /\ WholeInv(t)

IInv == TypeInv /\ FileInv /\ JournalInv /\ \A t \in Tasks : JobInv(t)

-----------------------------------------------------------------------------
(* What is known of the constants, and of the variables.                   *)
LEMMA Limits == /\ N \in Nat \ {0} /\ MaxDone \in Nat /\ N <= MaxDone /\ NoFile \notin Inodes
                /\ Interval \in Nat \ {0} /\ Platform \in {"SCE", "HOST"} /\ HasLength \in BOOLEAN
BY DownloadAssumption

LEMMA Parts ==
  ASSUME IInv, NEW t \in Tasks
  PROVE  /\ TypeInv /\ FileInv /\ JournalInv
         /\ StateInv(t) /\ SizeInv(t) /\ CountInv(t) /\ WholeInv(t)
BY DEF IInv, JobInv

(* With one job, what holds of it holds of all.                            *)
LEMMA FromOne ==
  ASSUME Alone, NEW t \in Tasks, TypeInv', FileInv', JournalInv',
         StateInv(t)', SizeInv(t)', CountInv(t)', WholeInv(t)'
  PROVE  IInv'
<1>1. \A u \in Tasks : u = t
  BY DEF Alone
<1>2. \A u \in Tasks : JobInv(u)'
  BY <1>1 DEF JobInv
<1>3. QED
  BY <1>2 DEF IInv

LEMMA JobField ==
  ASSUME TypeInv, NEW t \in Tasks
  PROVE  /\ job \in [Tasks -> JobType] /\ job[t] \in JobType
         /\ job[t].state \in {"NONE", "QUEUED", "RUNNING", "PAUSED", "DONE", "FAILED", "CANCELED"}
         /\ job[t].cancel \in BOOLEAN /\ job[t].pause \in BOOLEAN
         /\ job[t].done \in 0 .. MaxDone /\ job[t].total \in {0, N}
         /\ job[t].ckpt \in 0 .. MaxDone
<1>1. job \in [Tasks -> JobType] /\ job[t] \in JobType
  BY DEF TypeInv
<1>2. QED
  BY <1>1 DEF JobType

LEMMA WorkerField ==
  ASSUME TypeInv, NEW t \in Tasks
  PROVE  /\ worker \in [Tasks -> WorkerType] /\ worker[t] \in WorkerType
         /\ worker[t].pc \in Points /\ worker[t].fd \in Names /\ worker[t].append \in BOOLEAN
         /\ worker[t].pos \in 0 .. N /\ worker[t].resume \in 0 .. N
         /\ worker[t].clen \in 0 .. N /\ worker[t].next \in 1 .. N + 1
         /\ worker[t].result \in {"none", "ok", "error", "canceled", "paused"}
<1>1. worker \in [Tasks -> WorkerType] /\ worker[t] \in WorkerType
  BY DEF TypeInv
<1>2. QED
  BY <1>1 DEF WorkerType

LEMMA FileField ==
  ASSUME TypeInv, NEW i \in Inodes
  PROVE  /\ file \in [Inodes -> FileType] /\ file[i] \in FileType
         /\ file[i].data \in Seq(0 .. N) /\ file[i].durable \in Nat /\ Size(i) \in Nat
<1>1. file \in [Inodes -> FileType] /\ file[i] \in FileType
  BY DEF TypeInv
<1>2. QED
  BY <1>1 DEF FileType, Size

(* What another program wrote is no beginning of the remote file.          *)
LEMMA StrangerIs ==
  ASSUME NEW i, Stranger(i)
  PROVE  Size(i) = 1 /\ ~Prefix(i)
<1>1. file[i].data = <<0>>
  BY DEF Stranger, Foreign
<1>2. Size(i) = 1 /\ file[i].data[1] = 0
  BY <1>1 DEF Size
<1>3. QED
  BY <1>2 DEF Prefix

(* A file that a worker writes is its private file, not the published one. *)
LEMMA PrivateIs ==
  ASSUME IInv, NEW t \in Tasks, worker[t].pc \in Early
  PROVE  /\ worker[t].fd \in Inodes /\ worker[t].fd = part /\ part # NoFile /\ part # dst
         /\ Prefix(part) /\ ~Stranger(part) /\ file[part].durable <= Size(part)
         /\ Size(part) \in 0 .. N
<1>1. TypeInv /\ FileInv /\ StateInv(t)
  BY DEF IInv, JobInv
<1>2. worker[t].fd \in Inodes /\ worker[t].fd = part /\ part # dst /\ part # NoFile
  BY <1>1, Limits DEF StateInv
<1>3. Prefix(part) /\ file[part].durable <= Size(part)
  BY <1>1, <1>2 DEF FileInv
<1>4. Size(part) \in 0 .. N
  BY <1>1, <1>2, <1>3, FileField, Limits DEF Prefix
<1>5. QED
  BY <1>2, <1>3, <1>4, StrangerIs

-----------------------------------------------------------------------------
(* What the assignments of the steps do.                                   *)
LEMMA GotoIs ==
  ASSUME TypeInv, NEW t \in Tasks, NEW p \in Points, Goto(t, p)
  PROVE  /\ worker' \in [Tasks -> WorkerType] /\ worker'[t].pc = p
         /\ worker'[t].fd = worker[t].fd /\ worker'[t].append = worker[t].append
         /\ worker'[t].pos = worker[t].pos /\ worker'[t].resume = worker[t].resume
         /\ worker'[t].clen = worker[t].clen /\ worker'[t].next = worker[t].next
         /\ worker'[t].result = worker[t].result
<1>1. worker \in [Tasks -> WorkerType] /\ worker[t] \in WorkerType
  BY WorkerField
<1>2. QED
  BY <1>1 DEF Goto, WorkerType

LEMMA EndIs ==
  ASSUME TypeInv, NEW t \in Tasks, NEW p \in Points,
         NEW r \in {"ok", "error", "canceled", "paused"}, End(t, p, r)
  PROVE  /\ worker' \in [Tasks -> WorkerType] /\ worker'[t].pc = p
         /\ worker'[t].fd = worker[t].fd /\ worker'[t].append = worker[t].append
         /\ worker'[t].pos = worker[t].pos /\ worker'[t].resume = worker[t].resume
         /\ worker'[t].clen = worker[t].clen /\ worker'[t].next = worker[t].next
         /\ worker'[t].result = r
<1>1. worker \in [Tasks -> WorkerType] /\ worker[t] \in WorkerType
  BY WorkerField
<1>2. QED
  BY <1>1 DEF End, WorkerType

LEMMA WorkerTo ==
  ASSUME TypeInv, NEW t \in Tasks, NEW x \in WorkerType, worker' = [worker EXCEPT ![t] = x]
  PROVE  worker' \in [Tasks -> WorkerType] /\ worker'[t] = x
<1>1. worker \in [Tasks -> WorkerType]
  BY WorkerField
<1>2. QED
  BY <1>1

LEMMA JobTo ==
  ASSUME TypeInv, NEW t \in Tasks, NEW x \in JobType, job' = [job EXCEPT ![t] = x]
  PROVE  job' \in [Tasks -> JobType] /\ job'[t] = x
<1>1. job \in [Tasks -> JobType]
  BY JobField
<1>2. QED
  BY <1>1

LEMMA FileTo ==
  ASSUME TypeInv, NEW i \in Inodes, NEW x \in FileType, file' = [file EXCEPT ![i] = x]
  PROVE  /\ file' \in [Inodes -> FileType] /\ file'[i] = x
         /\ \A k \in Inodes \ {i} : file'[k] = file[k]
<1>1. file \in [Inodes -> FileType]
  BY DEF TypeInv
<1>2. QED
  BY <1>1

LEMMA NoJobIs == /\ NoJob \in JobType /\ NoJob.state = "NONE" /\ NoJob.done = 0 /\ NoJob.total = 0
                 /\ ~NoJob.cancel /\ ~NoJob.pause
BY Limits DEF NoJob, JobType

LEMMA NoWorkerIs == /\ NoWorker \in WorkerType /\ NoWorker.pc = "idle" /\ NoWorker.fd = NoFile
                    /\ NoWorker.result = "none" /\ ~NoWorker.append /\ NoWorker.pos = 0
                    /\ NoWorker.resume = 0
BY Limits DEF NoWorker, WorkerType, Names, Points

LEMMA EmptyIs == Empty \in FileType /\ Empty.durable = 0 /\ Len(Empty.data) = 0
BY DEF Empty, FileType

-----------------------------------------------------------------------------
(* What a step that leaves a part alone keeps of the invariant.            *)
LEMMA FileFrame ==
  ASSUME FileInv, dst' = dst, part' = part, file' = file
  PROVE  FileInv'
BY DEF FileInv, Prefix, Stranger, Size

LEMMA JournalFrame ==
  ASSUME JournalInv, UNCHANGED disk, NEW t \in Tasks, Alone, Secured(t)' => Secured(t)
  PROVE  JournalInv'
<1>1. \A u \in Tasks : u = t
  BY DEF Alone
<1>2. Backed' = Backed /\ dst' = dst
  BY DEF Backed, disk, Size
<1>3. QED
  BY <1>1, <1>2 DEF JournalInv

(* With one job, its journal is the only one.                              *)
LEMMA JournalOne ==
  ASSUME Alone, NEW t \in Tasks, dst' = NoFile /\ Secured(t)' => Backed'
  PROVE  JournalInv'
<1>1. \A u \in Tasks : u = t
  BY DEF Alone
<1>2. QED
  BY <1>1 DEF JournalInv

(* A journal that was written is one.                                      *)
LEMMA JournalIs ==
  ASSUME NEW x \in [done : 0 .. MaxDone, total : {0, N}] PROVE x # NoJournal
<1>1. x.total # MaxDone + 1
  BY Limits
<1>2. QED
  BY <1>1 DEF NoJournal

(* A job with a worker is not paused.                                      *)
LEMMA AtWork ==
  ASSUME NEW t \in Tasks, StateInv(t), worker[t].pc # "idle"
  PROVE  job[t].state \in {"QUEUED", "RUNNING"}
BY DEF StateInv

(* A transfer that gives up closes its file and writes its journal.        *)
LEMMA GiveUpKeeps ==
  ASSUME Alone, IInv, NEW t \in Tasks, up,
         worker[t].pc \in (Early \ {"rejournal"}) \union {"unlink", "dirsync"},
         NEW r \in {"error", "canceled", "paused"}, End(t, "finish", r),
         UNCHANGED <<disk, job, handler, up>>
  PROVE  IInv'
<1>0. /\ TypeInv /\ FileInv /\ JournalInv
      /\ StateInv(t) /\ SizeInv(t) /\ CountInv(t) /\ WholeInv(t)
  BY Parts
<1>1. /\ worker' \in [Tasks -> WorkerType] /\ worker'[t].pc = "finish"
      /\ worker'[t].fd = worker[t].fd /\ worker'[t].result = r
  BY <1>0, EndIs DEF Points
<1>2. TypeInv'
  BY <1>0, <1>1 DEF TypeInv, disk
<1>3. FileInv'
  BY <1>0, FileFrame DEF disk
<1>4. JournalInv'
  BY <1>0, <1>1, AtWork, JournalOne DEF Secured, Fetching, Early
<1>5. StateInv(t)'
  BY <1>0, <1>1 DEF StateInv, Early, Held, disk
<1>6. SizeInv(t)'
  BY <1>0, <1>1 DEF SizeInv, disk
<1>7. CountInv(t)'
  <2>1. ASSUME dst = NoFile
        PROVE  part # NoFile /\ job[t].done = Size(part)
    <3>1. worker[t].pc \in Early \ {"rejournal"}
      BY <1>0, <2>1, Limits DEF StateInv
    <3>2. QED
      BY <1>0, <2>1, <3>1, PrivateIs DEF CountInv
  <2>2. job[t].state \notin {"PAUSED", "FAILED"}
    BY <1>0 DEF StateInv, Early
  <2>3. job' = job /\ dst' = dst /\ part' = part /\ file' = file
    BY DEF disk
  <2>4. QED
    BY <1>1, <2>1, <2>2, <2>3 DEF CountInv, Early, Size
<1>8. WholeInv(t)'
  BY <1>1 DEF WholeInv
<1>9. QED
  BY <1>2, <1>3, <1>4, <1>5, <1>6, <1>7, <1>8, FromOne

-----------------------------------------------------------------------------
(* The steps of a worker, up to the first byte.                            *)
LEMMA StateIs ==
  ASSUME TypeInv, NEW t \in Tasks,
         NEW s \in {"NONE", "QUEUED", "RUNNING", "PAUSED", "DONE", "FAILED", "CANCELED"},
         job' = [job EXCEPT ![t].state = s]
  PROVE  /\ job' \in [Tasks -> JobType] /\ job'[t].state = s /\ job'[t].done = job[t].done
         /\ job'[t].total = job[t].total
<1>1. job \in [Tasks -> JobType] /\ job[t] \in JobType
  BY JobField
<1>2. QED
  BY <1>1 DEF JobType

LEMMA InitHolds == Init => IInv
<1> SUFFICES ASSUME Init PROVE IInv
  OBVIOUS
<1>1. TypeInv
  <2>1. file \in [Inodes -> FileType] /\ job \in [Tasks -> JobType]
        /\ worker \in [Tasks -> WorkerType]
    BY EmptyIs, NoJobIs, NoWorkerIs DEF Init
  <2>2. QED
    BY <2>1 DEF Init, TypeInv, Names
<1>2. FileInv
  <2>1. \A i \in Inodes : Size(i) = 0 /\ file[i].durable = 0
    BY EmptyIs DEF Init, Size
  <2>2. \A i \in Inodes : Prefix(i)
    BY <2>1, Limits DEF Prefix
  <2>3. QED
    BY <2>1, <2>2 DEF Init, FileInv
<1>3. JournalInv
  BY NoJobIs, NoWorkerIs DEF Init, JournalInv, Secured, Fetching
<1>4. ASSUME NEW t \in Tasks
      PROVE  JobInv(t)
  <2>1. job[t] = NoJob /\ worker[t].pc = "idle" /\ worker[t].fd = NoFile
    BY NoWorkerIs DEF Init
  <2>2. journal = NoJournal /\ handler = "idle" /\ up
    BY DEF Init
  <2>3. StateInv(t)
    BY <2>1, <2>2, NoJobIs DEF StateInv, Early, Held
  <2>4. SizeInv(t)
    BY <2>1, <2>2, NoJobIs DEF SizeInv
  <2>5. CountInv(t) /\ WholeInv(t)
    BY <2>1, <2>2, NoJobIs DEF CountInv, WholeInv, Early
  <2>6. QED
    BY <2>3, <2>4, <2>5 DEF JobInv
<1>5. QED
  BY <1>1, <1>2, <1>3, <1>4 DEF IInv

LEMMA StartKeeps == ASSUME Alone, IInv, NEW t \in Tasks, Start(t) PROVE IInv'
<1>0. /\ TypeInv /\ FileInv /\ JournalInv
      /\ StateInv(t) /\ SizeInv(t) /\ CountInv(t) /\ WholeInv(t)
      /\ up /\ worker[t].pc = "start"
  BY Parts DEF Start, At
<1>1. /\ UNCHANGED <<disk, handler, up>>
      /\ dst' = dst /\ part' = part /\ file' = file /\ journal' = journal
  BY DEF Start, disk
<1>2. /\ job[t].state \in {"QUEUED", "RUNNING"} /\ handler = "idle" /\ worker[t].fd = NoFile
  BY <1>0 DEF StateInv, Early, Held
<1>3. FileInv'
  BY <1>0, <1>1, FileFrame
<1>4. JournalInv'
  <2>1. job \in [Tasks -> JobType] /\ job[t] \in JobType /\ worker \in [Tasks -> WorkerType]
        /\ worker[t] \in WorkerType
    BY <1>0, JobField, WorkerField
  <2>2. job'[t].state \in {"RUNNING", "CANCELED"} /\ worker'[t].pc \in {"open", "idle"}
    BY <2>1, NoWorkerIs DEF Start, Goto, JobType, WorkerType
  <2>3. QED
    BY <2>2, JournalOne DEF Secured, Fetching
<1>5. CASE job' = [job EXCEPT ![t].state = "RUNNING"] /\ Goto(t, "open")
  <2>1. /\ worker' \in [Tasks -> WorkerType] /\ worker'[t].pc = "open"
        /\ worker'[t].fd = worker[t].fd
    BY <1>0, <1>5, GotoIs DEF Points
  <2>2. /\ job' \in [Tasks -> JobType] /\ job'[t].state = "RUNNING"
        /\ job'[t].done = job[t].done /\ job'[t].total = job[t].total
    BY <1>0, <1>5, StateIs
  <2>3. TypeInv'
    BY <1>0, <1>1, <2>1, <2>2 DEF TypeInv
  <2>4. StateInv(t)'
    BY <1>0, <1>1, <1>2, <2>1, <2>2 DEF StateInv, Early, Held
  <2>5. SizeInv(t)'
    BY <1>0, <1>1, <2>1, <2>2 DEF SizeInv
  <2>6. CountInv(t)'
    BY <1>0, <1>1, <2>1, <2>2 DEF CountInv, Early, Size
  <2>7. WholeInv(t)'
    BY <2>1 DEF WholeInv
  <2>8. QED
    BY <1>3, <1>4, <2>3, <2>4, <2>5, <2>6, <2>7, FromOne
<1>6. CASE job' = [job EXCEPT ![t].state = "CANCELED"] /\ worker' = [worker EXCEPT ![t] = NoWorker]
  <2>1. worker' \in [Tasks -> WorkerType] /\ worker'[t] = NoWorker
    BY <1>0, <1>6, WorkerTo, NoWorkerIs
  <2>2. /\ job' \in [Tasks -> JobType] /\ job'[t].state = "CANCELED"
        /\ job'[t].done = job[t].done /\ job'[t].total = job[t].total
    BY <1>0, <1>6, StateIs
  <2>3. TypeInv'
    BY <1>0, <1>1, <2>1, <2>2 DEF TypeInv
  <2>4. StateInv(t)'
    BY <1>0, <1>1, <1>2, <2>1, <2>2, NoWorkerIs DEF StateInv, Early, Held
  <2>5. SizeInv(t)'
    BY <1>0, <1>1, <2>1, <2>2, NoWorkerIs DEF SizeInv
  <2>6. CountInv(t)' /\ WholeInv(t)'
    BY <2>1, <2>2, NoWorkerIs DEF CountInv, WholeInv, Early
  <2>7. QED
    BY <1>3, <1>4, <2>3, <2>4, <2>5, <2>6, FromOne
<1>7. QED
  BY <1>5, <1>6 DEF Start

LEMMA RestartedIs ==
  ASSUME TypeInv, NEW t \in Tasks, NEW n \in 0 .. N
  PROVE  /\ Restarted(job[t], n) \in JobType /\ Restarted(job[t], n).done = n
         /\ Restarted(job[t], n).state = job[t].state
         /\ Restarted(job[t], n).total = job[t].total
<1>1. job[t] \in JobType /\ n \in 0 .. MaxDone
  BY JobField, Limits
<1>2. QED
  BY <1>1 DEF Restarted, JobType

LEMMA OpenPartKeeps == ASSUME Alone, IInv, NEW t \in Tasks, OpenPart(t) PROVE IInv'
<1>0. /\ TypeInv /\ FileInv /\ JournalInv
      /\ StateInv(t) /\ SizeInv(t) /\ CountInv(t) /\ WholeInv(t)
      /\ up /\ worker[t].pc = "open"
  BY Parts DEF OpenPart, At
<1>1. dst' = dst /\ journal' = journal /\ handler' = handler /\ up' = up
  BY DEF OpenPart
<1>2. /\ job[t].state \in {"QUEUED", "RUNNING"} /\ handler = "idle" /\ worker[t].fd = NoFile
      /\ \A u \in Tasks : u = t
  BY <1>0 DEF StateInv, Early, Held, Alone
<1>3. ASSUME part = NoFile, job' = job, NEW i \in Inodes, Unused(i), part' = i,
             file' = [file EXCEPT ![i] = Empty],
             worker' = [worker EXCEPT ![t] = [NoWorker EXCEPT !.pc = "journal", !.fd = i]]
      PROVE  IInv'
  <2>1. /\ file' \in [Inodes -> FileType] /\ file'[i] = Empty
        /\ \A k \in Inodes \ {i} : file'[k] = file[k]
    BY <1>0, <1>3, FileTo, EmptyIs
  <2> DEFINE x == [NoWorker EXCEPT !.pc = "journal", !.fd = i]
  <2>2. /\ x \in WorkerType /\ x.pc = "journal" /\ x.fd = i /\ ~x.append
        /\ x.resume = 0 /\ x.pos = 0
    <3>1. "journal" \in Points /\ i \in Names
      BY DEF Points, Names
    <3>2. QED
      BY <3>1, NoWorkerIs DEF WorkerType
  <2> HIDE DEF x
  <2>3. worker' \in [Tasks -> WorkerType] /\ worker'[t] = x
    BY <1>0, <1>3, <2>2, WorkerTo DEF x
  <2>4. TypeInv'
    BY <1>0, <1>1, <1>3, <2>1, <2>3 DEF TypeInv, Names
  <2>5. i # dst /\ Size(i)' = 0 /\ file'[i].durable = 0
    BY <1>3, <2>1, EmptyIs DEF Unused, Size
  <2>6. FileInv'
    <3>1. Prefix(i)'
      BY <2>5, Limits DEF Prefix
    <3>2. \A k \in Inodes \ {i} : /\ Size(k)' = Size(k) /\ Prefix(k)' = Prefix(k)
                                  /\ Stranger(k)' = Stranger(k)
      BY <2>1 DEF Size, Prefix, Stranger
    <3>3. dst # NoFile => dst \in Inodes \ {i}
      BY <1>0, <2>5 DEF TypeInv, Names
    <3>4. \A k \in Inodes : (Prefix(k)' \/ Stranger(k)') /\ file'[k].durable <= Size(k)'
      BY <1>0, <2>1, <2>5, <3>1, <3>2 DEF FileInv
    <3>5. Counted /\ dst # NoFile => Stranger(dst)' \/ (Prefix(dst)' /\ file'[dst].durable = N)
      BY <1>0, <1>1, <2>1, <3>2, <3>3 DEF FileInv
    <3>6. QED
      BY <1>1, <1>3, <3>1, <3>4, <3>5 DEF FileInv
  <2>7. JournalInv'
    BY <1>0, <1>1, <1>2, <1>3, JournalOne DEF Secured, Fetching, Backed, JournalInv
  <2>8. StateInv(t)'
    BY <1>0, <1>1, <1>2, <1>3, <2>2, <2>3, <2>5 DEF StateInv, Early, Held
  <2>9. SizeInv(t)'
    BY <1>0, <1>1, <1>3, <2>2, <2>3, <2>5 DEF SizeInv
  <2>10. CountInv(t)'
    BY <1>0, <1>1, <1>2, <1>3, <2>2, <2>3, <2>5 DEF CountInv
  <2>11. WholeInv(t)'
    BY <2>2, <2>3 DEF WholeInv
  <2>12. QED
    BY <2>4, <2>6, <2>7, <2>8, <2>9, <2>10, <2>11, FromOne
<1>4. CASE /\ part # NoFile /\ part # dst
           /\ worker' = [worker EXCEPT ![t] = [NoWorker EXCEPT
                           !.pc = "journal", !.fd = part, !.append = TRUE, !.resume = Size(part)]]
           /\ job' = IF Size(part) > 0
                     THEN [job EXCEPT ![t] = Restarted(@, Size(part))] ELSE job
           /\ UNCHANGED <<part, file>>
  <2>1. part \in Inodes /\ Prefix(part) /\ Size(part) \in 0 .. N
    <3>1. part \in Inodes
      BY <1>0, <1>4 DEF TypeInv, Names
    <3>2. QED
      BY <1>0, <1>4, <3>1, FileField, Limits DEF FileInv, Prefix
  <2> DEFINE x == [NoWorker EXCEPT !.pc = "journal", !.fd = part, !.append = TRUE,
                                   !.resume = Size(part)]
  <2>2. /\ x \in WorkerType /\ x.pc = "journal" /\ x.fd = part /\ x.append
        /\ x.resume = Size(part)
    <3>1. "journal" \in Points /\ part \in Names
      BY <2>1 DEF Points, Names
    <3>2. QED
      BY <2>1, <3>1, NoWorkerIs DEF WorkerType
  <2> HIDE DEF x
  <2>3. worker' \in [Tasks -> WorkerType] /\ worker'[t] = x
    BY <1>0, <1>4, <2>2, WorkerTo DEF x
  <2>4. /\ job' \in [Tasks -> JobType] /\ job'[t].state = job[t].state
        /\ job'[t].total = job[t].total
        /\ job'[t].done = IF Size(part) > 0 THEN Size(part) ELSE job[t].done
    <3>1. CASE Size(part) > 0
      <4> DEFINE y == Restarted(job[t], Size(part))
      <4>1. /\ y \in JobType /\ y.done = Size(part) /\ y.state = job[t].state
            /\ y.total = job[t].total
        BY <1>0, <2>1, RestartedIs
      <4> HIDE DEF y
      <4>2. job' = [job EXCEPT ![t] = y]
        BY <1>4, <3>1 DEF y
      <4>3. QED
        BY <1>0, <3>1, <4>1, <4>2, JobTo
    <3>2. CASE ~(Size(part) > 0)
      BY <1>0, <1>4, <3>2, JobField
    <3>3. QED
      BY <3>1, <3>2
  <2>5. TypeInv'
    BY <1>0, <1>1, <1>4, <2>3, <2>4 DEF TypeInv
  <2>6. FileInv'
    BY <1>0, <1>1, <1>4, FileFrame
  <2>7. JournalInv'
    BY <1>0, <2>2, <2>3, <2>4, AtWork, JournalOne DEF Secured, Fetching
  <2>8. StateInv(t)'
    BY <1>0, <1>1, <1>2, <1>4, <2>1, <2>2, <2>3, <2>4 DEF StateInv, Early, Held
  <2>9. part' = part /\ Size(part)' = Size(part)
    BY <1>4 DEF Size
  <2>10. SizeInv(t)'
    BY <1>0, <1>1, <2>2, <2>3, <2>4, <2>9 DEF SizeInv
  <2>11. CountInv(t)'
    <3>1. dst = NoFile => job'[t].done = Size(part)
      BY <1>0, <2>1, <2>4 DEF CountInv
    <3>2. QED
      BY <1>1, <1>2, <2>2, <2>3, <2>4, <2>9, <3>1 DEF CountInv
  <2>12. WholeInv(t)'
    BY <2>2, <2>3 DEF WholeInv
  <2>13. QED
    BY <2>5, <2>6, <2>7, <2>8, <2>10, <2>11, <2>12, FromOne
<1>5. CASE part # NoFile /\ part = dst /\ End(t, "settle", "error") /\ UNCHANGED <<part, file, job>>
  <2>1. /\ worker' \in [Tasks -> WorkerType] /\ worker'[t].pc = "settle"
        /\ worker'[t].fd = worker[t].fd /\ worker'[t].result = "error"
    BY <1>0, <1>5, EndIs DEF Points
  <2>2. TypeInv'
    BY <1>0, <1>1, <1>5, <2>1 DEF TypeInv
  <2>3. FileInv'
    BY <1>0, <1>1, <1>5, FileFrame
  <2>4. JournalInv'
    BY <1>0, <1>5, <2>1, AtWork, JournalOne DEF Secured, Fetching
  <2>5. StateInv(t)'
    BY <1>0, <1>1, <1>2, <1>5, <2>1 DEF StateInv, Early, Held
  <2>6. SizeInv(t)'
    BY <1>0, <1>1, <1>5, <2>1 DEF SizeInv
  <2>7. CountInv(t)' /\ WholeInv(t)'
    BY <1>1, <1>5, <2>1 DEF CountInv, WholeInv
  <2>8. QED
    BY <2>2, <2>3, <2>4, <2>5, <2>6, <2>7, FromOne
<1>6. QED
  BY <1>3, <1>4, <1>5 DEF OpenPart

LEMMA SnapshotIs ==
  ASSUME TypeInv, NEW t \in Tasks
  PROVE  /\ Snapshot(t) \in [done : 0 .. MaxDone, total : {0, N}]
         /\ Snapshot(t).done = job[t].done /\ Snapshot(t).total = job[t].total
BY JobField DEF Snapshot

LEMMA FirstJournalKeeps == ASSUME Alone, IInv, NEW t \in Tasks, FirstJournal(t) PROVE IInv'
<1>0. /\ TypeInv /\ FileInv /\ JournalInv
      /\ StateInv(t) /\ SizeInv(t) /\ CountInv(t) /\ WholeInv(t)
      /\ up /\ worker[t].pc = "journal"
  BY Parts DEF FirstJournal, Journal, At
<1>1. UNCHANGED <<dst, part, file, job, handler, up>>
  BY DEF FirstJournal
<1>2. CASE journal' = Snapshot(t) /\ Goto(t, "request")
  <2>1. /\ worker' \in [Tasks -> WorkerType] /\ worker'[t].pc = "request"
        /\ worker'[t].fd = worker[t].fd /\ worker'[t].append = worker[t].append
        /\ worker'[t].pos = worker[t].pos /\ worker'[t].resume = worker[t].resume
    BY <1>0, <1>2, GotoIs DEF Points
  <2>2. journal' \in [done : 0 .. MaxDone, total : {0, N}]
        /\ journal'.done = job[t].done /\ journal'.total = job[t].total
    BY <1>0, <1>2, SnapshotIs
  <2>3. TypeInv'
    BY <1>0, <1>1, <2>1, <2>2 DEF TypeInv
  <2>4. FileInv'
    BY <1>0, <1>1, FileFrame
  <2>5. JournalInv'
    <3>1. dst = NoFile => part # NoFile /\ Size(part) >= job[t].done
      BY <1>0, PrivateIs DEF CountInv, Early
    <3>2. QED
      BY <1>0, <1>1, <2>1, <2>2, <3>1, JournalIs, JournalOne DEF Backed, Size
  <2>6. StateInv(t)'
    BY <1>0, <1>1, <2>1 DEF StateInv, Early, Held
  <2>7. SizeInv(t)'
    BY <1>0, <1>1, <2>1, <2>2 DEF SizeInv, Size
  <2>8. CountInv(t)' /\ WholeInv(t)'
    BY <1>0, <1>1, <2>1 DEF CountInv, WholeInv, Size, Early
  <2>9. QED
    BY <2>3, <2>4, <2>5, <2>6, <2>7, <2>8, FromOne
<1>3. CASE End(t, "finish", "error") /\ UNCHANGED journal
  BY <1>0, <1>1, <1>3, GiveUpKeeps DEF disk, Early
<1>4. QED
  BY <1>2, <1>3 DEF FirstJournal, Journal

-----------------------------------------------------------------------------
(* The request, and the transfer.                                          *)
LEMMA RespondIs ==
  ASSUME TypeInv, NEW t \in Tasks, NEW from \in 0 .. N, from < N, Respond(t, from)
  PROVE  /\ worker' \in [Tasks -> WorkerType] /\ worker'[t].pc = "total"
         /\ worker'[t].fd = worker[t].fd /\ worker'[t].append = worker[t].append
         /\ worker'[t].pos = worker[t].pos /\ worker'[t].resume = worker[t].resume
         /\ worker'[t].result = worker[t].result /\ worker'[t].next = from + 1
         /\ ~HasLength => worker'[t].clen = 0
         /\ HasLength => worker'[t].clen = IF Platform = "HOST" THEN N ELSE N - from
<1> DEFINE c == IF ~HasLength THEN 0 ELSE IF Platform = "HOST" THEN N ELSE N - from
<1>1. worker \in [Tasks -> WorkerType] /\ worker[t] \in WorkerType
  BY WorkerField
<1>2. c \in 0 .. N /\ from + 1 \in 1 .. N + 1 /\ "total" \in Points
  BY Limits DEF Points
<1>3. worker' = [worker EXCEPT ![t].pc = "total", ![t].next = from + 1, ![t].clen = c]
  BY DEF Respond
<1> HIDE DEF c
<1>4. /\ worker' \in [Tasks -> WorkerType] /\ worker'[t].pc = "total"
      /\ worker'[t].fd = worker[t].fd /\ worker'[t].append = worker[t].append
      /\ worker'[t].pos = worker[t].pos /\ worker'[t].resume = worker[t].resume
      /\ worker'[t].result = worker[t].result /\ worker'[t].next = from + 1
      /\ worker'[t].clen = c
  BY <1>1, <1>2, <1>3 DEF WorkerType
<1>5. QED
  BY <1>4 DEF c

LEMMA RequestKeeps == ASSUME Alone, IInv, NEW t \in Tasks, Request(t) PROVE IInv'
<1>0. /\ TypeInv /\ FileInv /\ JournalInv
      /\ StateInv(t) /\ SizeInv(t) /\ CountInv(t) /\ WholeInv(t)
      /\ up /\ worker[t].pc = "request"
  BY Parts DEF Request, At
<1>1. UNCHANGED <<dst, part, journal, job, handler, up>>
  BY DEF Request
<1>2. /\ worker[t].fd \in Inodes /\ worker[t].fd = part /\ part # NoFile /\ part # dst
      /\ Size(part) \in 0 .. N /\ worker[t].resume = Size(part) /\ worker[t].resume \in 0 .. N
      /\ ~worker[t].append => worker[t].resume = 0 /\ worker[t].pos = 0
  BY <1>0, PrivateIs, WorkerField DEF SizeInv, Early
<1>3. ASSUME Respond(t, worker[t].resume), worker[t].resume < N, UNCHANGED file,
             206 \notin RangeModes => worker[t].resume = 0
      PROVE  IInv'
  <2>1. /\ worker' \in [Tasks -> WorkerType] /\ worker'[t].pc = "total"
        /\ worker'[t].fd = worker[t].fd /\ worker'[t].append = worker[t].append
        /\ worker'[t].pos = worker[t].pos /\ worker'[t].resume = worker[t].resume
        /\ worker'[t].next = worker[t].resume + 1
        /\ ~HasLength => worker'[t].clen = 0
        /\ HasLength => worker'[t].clen = IF Platform = "HOST" THEN N ELSE N - worker[t].resume
    BY <1>0, <1>2, <1>3, RespondIs
  <2>2. TypeInv'
    BY <1>0, <1>1, <1>3, <2>1 DEF TypeInv
  <2>3. FileInv'
    BY <1>0, <1>1, <1>3, FileFrame
  <2>4. JournalInv'
    BY <1>0, <1>1, <1>3, JournalFrame DEF disk, Secured, Fetching
  <2>5. StateInv(t)'
    BY <1>0, <1>1, <2>1 DEF StateInv, Early, Held
  <2>6. SizeInv(t)'
    BY <1>0, <1>1, <1>2, <1>3, <2>1 DEF SizeInv, Size
  <2>7. CountInv(t)'
    BY <1>0, <1>1, <1>3, <2>1 DEF CountInv, Size, Early
  <2>8. WholeInv(t)'
    BY <2>1 DEF WholeInv
  <2>9. QED
    BY <2>2, <2>3, <2>4, <2>5, <2>6, <2>7, <2>8, FromOne
<1>4. CASE /\ file' = [file EXCEPT ![worker[t].fd] = Empty]
           /\ worker' = [worker EXCEPT ![t].pc = "rejournal", ![t].resume = 0, ![t].pos = 0]
  <2>1. /\ file' \in [Inodes -> FileType] /\ file'[part] = Empty
        /\ \A k \in Inodes \ {part} : file'[k] = file[k]
    BY <1>0, <1>2, <1>4, FileTo, EmptyIs
  <2>2. /\ worker' \in [Tasks -> WorkerType] /\ worker'[t].pc = "rejournal"
        /\ worker'[t].fd = worker[t].fd /\ worker'[t].pos = 0 /\ worker'[t].resume = 0
    <3>1. worker \in [Tasks -> WorkerType] /\ worker[t] \in WorkerType
      BY <1>0, WorkerField
    <3>2. 0 \in 0 .. N /\ "rejournal" \in Points
      BY Limits DEF Points
    <3>3. QED
      BY <1>4, <3>1, <3>2 DEF WorkerType
  <2>3. TypeInv'
    BY <1>0, <1>1, <2>1, <2>2 DEF TypeInv
  <2>4. Size(part)' = 0 /\ part' = part /\ dst' = dst /\ file'[part].durable = 0
    BY <1>1, <2>1, EmptyIs DEF Size
  <2>5. FileInv'
    <3>1. Prefix(part)'
      BY <2>4, Limits DEF Prefix
    <3>2. \A k \in Inodes \ {part} : /\ Size(k)' = Size(k) /\ Prefix(k)' = Prefix(k)
                                     /\ Stranger(k)' = Stranger(k)
      BY <2>1 DEF Size, Prefix, Stranger
    <3>3. dst # NoFile => dst \in Inodes \ {part}
      BY <1>0, <1>2 DEF TypeInv, Names
    <3>4. \A k \in Inodes : (Prefix(k)' \/ Stranger(k)') /\ file'[k].durable <= Size(k)'
      <4>1. ASSUME NEW k \in Inodes
            PROVE  (Prefix(k)' \/ Stranger(k)') /\ file'[k].durable <= Size(k)'
        <5>1. CASE k = part
          <6>1. Prefix(k)' /\ Size(k)' = 0 /\ file'[k].durable = 0
            BY <2>4, <3>1, <5>1 DEF Prefix, Size
          <6>2. QED
            BY <6>1
        <5>2. CASE k # part
          BY <1>0, <2>1, <3>2, <5>2 DEF FileInv
        <5>3. QED
          BY <5>1, <5>2
      <4>2. QED
        BY <4>1
    <3>5. Counted /\ dst # NoFile => Stranger(dst)' \/ (Prefix(dst)' /\ file'[dst].durable = N)
      BY <1>0, <1>1, <2>1, <3>2, <3>3 DEF FileInv, Stranger, Prefix, Size
    <3>6. QED
      BY <2>4, <3>1, <3>4, <3>5 DEF FileInv
  <2>6. JournalInv'
    BY <1>0, <1>1, <2>2, AtWork, JournalOne DEF Secured, Fetching
  <2>7. StateInv(t)'
    BY <1>0, <1>1, <2>2 DEF StateInv, Early, Held
  <2>8. SizeInv(t)'
    <3>1. Size(worker[t].fd)' = 0
      BY <1>2, <2>1, <2>2, EmptyIs DEF Size
    <3>2. QED
      BY <1>0, <1>1, <2>2, <3>1 DEF SizeInv
  <2>9. CountInv(t)'
    BY <1>0, <1>1, <2>2 DEF CountInv, StateInv, Early
  <2>10. WholeInv(t)'
    BY <2>2 DEF WholeInv
  <2>11. QED
    BY <2>3, <2>5, <2>6, <2>7, <2>8, <2>9, <2>10, FromOne
<1>5. CASE End(t, "finish", "error") /\ UNCHANGED file
  BY <1>0, <1>1, <1>5, GiveUpKeeps DEF disk, Early
<1>6. QED
  <2>1. 0 < N
    BY Limits
  <2>2. QED
    BY <1>3, <1>4, <1>5, <2>1 DEF Request

LEMMA RejournalKeeps == ASSUME Alone, IInv, NEW t \in Tasks, Rejournal(t) PROVE IInv'
<1>0. /\ TypeInv /\ FileInv /\ JournalInv
      /\ StateInv(t) /\ SizeInv(t) /\ CountInv(t) /\ WholeInv(t)
      /\ up /\ worker[t].pc = "rejournal"
  BY Parts DEF Rejournal, At
<1>1. UNCHANGED <<dst, part, file, handler, up>>
  BY DEF Rejournal
<1>2. /\ worker[t].fd \in Inodes /\ worker[t].fd = part /\ part # NoFile
      /\ Size(part) = 0 /\ worker[t].resume = 0 /\ worker[t].pos = 0
      /\ job[t].state \notin {"PAUSED", "FAILED"}
  BY <1>0, PrivateIs DEF SizeInv, StateInv, Early
<1>3. /\ job' \in [Tasks -> JobType] /\ job'[t].state = job[t].state
      /\ job'[t].total = job[t].total /\ job'[t].done = 0
  <2> DEFINE y == Restarted(job[t], 0)
  <2>1. y \in JobType /\ y.done = 0 /\ y.state = job[t].state /\ y.total = job[t].total
    BY <1>0, RestartedIs, Limits
  <2>2. job' = [job EXCEPT ![t] = y]
    BY DEF Rejournal
  <2> HIDE DEF y
  <2>3. QED
    BY <1>0, <2>1, <2>2, JobTo
<1>4. FileInv'
  BY <1>0, <1>1, FileFrame
<1>6. CASE journal' = [done |-> job'[t].done, total |-> job[t].total] /\ Respond(t, 0)
  <2>1. /\ worker' \in [Tasks -> WorkerType] /\ worker'[t].pc = "total"
        /\ worker'[t].fd = worker[t].fd /\ worker'[t].append = worker[t].append
        /\ worker'[t].pos = worker[t].pos /\ worker'[t].resume = worker[t].resume
        /\ worker'[t].next = 1
        /\ ~HasLength => worker'[t].clen = 0
        /\ HasLength => worker'[t].clen = IF Platform = "HOST" THEN N ELSE N - 0
    <3>1. 0 \in 0 .. N /\ 0 < N /\ 0 + 1 = 1
      BY Limits
    <3>2. QED
      BY <1>0, <1>6, <3>1, RespondIs
  <2>2. /\ journal' \in [done : 0 .. MaxDone, total : {0, N}]
        /\ journal'.done = 0 /\ journal'.total = job[t].total
    BY <1>0, <1>3, <1>6, JobField, Limits
  <2>3. TypeInv'
    BY <1>0, <1>1, <1>3, <2>1, <2>2 DEF TypeInv
  <2>4. JournalInv'
    <3>1. journal' # NoJournal
      BY <2>2, JournalIs
    <3>2. QED
      BY <1>0, <1>1, <1>2, <2>2, <3>1, JournalOne DEF Backed, Size
  <2>5. StateInv(t)'
    <3>1. job'[t].state # "NONE"
      BY <1>0, <1>3 DEF StateInv
    <3>2. QED
      BY <1>0, <1>1, <1>3, <2>1, <3>1 DEF StateInv, Early, Held
  <2>6. SizeInv(t)'
    BY <1>0, <1>1, <1>2, <1>3, <2>1, <2>2, Limits DEF SizeInv, Size
  <2>7. CountInv(t)'
    BY <1>1, <1>2, <1>3, <2>1 DEF CountInv, Size, Early
  <2>8. WholeInv(t)'
    BY <2>1 DEF WholeInv
  <2>9. QED
    BY <1>4, <2>3, <2>4, <2>5, <2>6, <2>7, <2>8, FromOne
<1>7. CASE "journal" \in Faults /\ End(t, "finish", "error") /\ UNCHANGED journal
  <2>1. /\ worker' \in [Tasks -> WorkerType] /\ worker'[t].pc = "finish"
        /\ worker'[t].fd = worker[t].fd /\ worker'[t].result = "error"
    BY <1>0, <1>7, EndIs DEF Points
  <2>2. TypeInv'
    BY <1>0, <1>1, <1>3, <1>7, <2>1 DEF TypeInv
  <2>3. JournalInv'
    BY <1>0, <1>3, <2>1, AtWork, JournalOne DEF Secured, Fetching
  <2>4. StateInv(t)'
    <3>1. job'[t].state # "NONE"
      BY <1>0, <1>3 DEF StateInv
    <3>2. QED
      BY <1>0, <1>1, <1>3, <2>1, <3>1 DEF StateInv, Early, Held
  <2>5. SizeInv(t)'
    BY <1>0, <1>1, <1>3, <1>7, <2>1 DEF SizeInv
  <2>6. CountInv(t)'
    BY <1>1, <1>2, <1>3, <2>1 DEF CountInv, Size, Early
  <2>7. WholeInv(t)'
    BY <2>1 DEF WholeInv
  <2>8. QED
    BY <1>4, <2>2, <2>3, <2>4, <2>5, <2>6, <2>7, FromOne
<1>8. QED
  BY <1>6, <1>7 DEF Rejournal

LEMMA SetTotalKeeps == ASSUME Alone, IInv, NEW t \in Tasks, SetTotal(t) PROVE IInv'
<1>0. /\ TypeInv /\ FileInv /\ JournalInv
      /\ StateInv(t) /\ SizeInv(t) /\ CountInv(t) /\ WholeInv(t)
      /\ up /\ worker[t].pc = "total"
  BY Parts DEF SetTotal, At
<1>1. /\ UNCHANGED <<disk, handler, up>> /\ Goto(t, "body")
      /\ dst' = dst /\ part' = part /\ file' = file /\ journal' = journal
  BY DEF SetTotal, disk
<1>2. /\ worker' \in [Tasks -> WorkerType] /\ worker'[t].pc = "body"
      /\ worker'[t].fd = worker[t].fd /\ worker'[t].append = worker[t].append
      /\ worker'[t].pos = worker[t].pos /\ worker'[t].resume = worker[t].resume
      /\ worker'[t].clen = worker[t].clen /\ worker'[t].next = worker[t].next
  BY <1>0, <1>1, GotoIs DEF Points
<1>3. /\ job' \in [Tasks -> JobType] /\ job'[t].state = job[t].state
      /\ job'[t].done = job[t].done /\ job'[t].total = IF HasLength THEN N ELSE 0
  <2> DEFINE n == IF worker[t].clen = 0 THEN job[t].total
                  ELSE IF Platform = "HOST" THEN worker[t].clen
                  ELSE worker[t].clen + worker[t].resume
  <2>1. job \in [Tasks -> JobType] /\ job[t] \in JobType
    BY <1>0, JobField
  <2>2. job' = [job EXCEPT ![t].total = n]
    BY <2>1 DEF SetTotal
  <2>3. n = IF HasLength THEN N ELSE 0
    <3>1. worker[t].resume \in Nat /\ worker[t].resume < N /\ worker[t].clen \in Nat /\ N \in Nat \ {0}
      BY <1>0, WorkerField, Limits DEF SizeInv
    <3>2. CASE ~HasLength
      BY <1>0, <3>2 DEF SizeInv
    <3>3. CASE HasLength
      <4>1. worker[t].clen = IF Platform = "HOST" THEN N ELSE N - worker[t].resume
        BY <1>0, <3>3 DEF SizeInv
      <4>2. QED
        BY <3>1, <3>3, <4>1
    <3>4. QED
      BY <3>2, <3>3
  <2> HIDE DEF n
  <2>4. n \in {0, N}
    BY <2>3
  <2>5. QED
    BY <2>1, <2>2, <2>3, <2>4 DEF JobType
<1>4. TypeInv'
  BY <1>0, <1>1, <1>2, <1>3 DEF TypeInv
<1>5. FileInv'
  BY <1>0, <1>1, FileFrame
<1>6. JournalInv'
  BY <1>0, <1>1, JournalFrame DEF Secured, Fetching
<1>7. StateInv(t)'
  <2>1. job'[t].state # "NONE"
    BY <1>0, <1>3 DEF StateInv
  <2>2. QED
    BY <1>0, <1>1, <1>2, <1>3, <2>1 DEF StateInv, Early, Held
<1>8. SizeInv(t)'
  BY <1>0, <1>1, <1>2, <1>3 DEF SizeInv, Size
<1>9. CountInv(t)'
  BY <1>0, <1>1, <1>2, <1>3 DEF CountInv, StateInv, Early, Size
<1>10. WholeInv(t)'
  BY <1>2 DEF WholeInv
<1>11. QED
  BY <1>4, <1>5, <1>6, <1>7, <1>8, <1>9, <1>10, FromOne

(* A chunk written at the end of a beginning makes a longer one.           *)
LEMMA AppendIs ==
  ASSUME TypeInv, NEW i \in Inodes, Prefix(i), Size(i) < N
  PROVE  /\ WriteAt(file[i].data, Size(i), Size(i) + 1) \in Seq(0 .. N)
         /\ Len(WriteAt(file[i].data, Size(i), Size(i) + 1)) = Size(i) + 1
         /\ \A k \in 1 .. Size(i) + 1 : WriteAt(file[i].data, Size(i), Size(i) + 1)[k] = k
<1> DEFINE s == Size(i)
           d == WriteAt(file[i].data, s, s + 1)
<1>1. s \in Nat /\ s + 1 \in 0 .. N /\ s = Len(file[i].data) /\ N \in Nat
  BY FileField, Limits DEF Size
<1>2. Greatest(Len(file[i].data), s + 1) = s + 1
  BY <1>1 DEF Greatest
<1>3. d = [k \in 1 .. s + 1 |-> IF k = s + 1 THEN s + 1
                                ELSE IF k <= Len(file[i].data) THEN file[i].data[k] ELSE 0]
  BY <1>2 DEF WriteAt
<1>4. \A k \in 1 .. s : file[i].data[k] = k
  BY DEF Prefix
<1> HIDE DEF d
<1>5. \A k \in 1 .. s + 1 : d[k] = k
  <2>1. ASSUME NEW k \in 1 .. s + 1
        PROVE  d[k] = k
    <3>1. d[k] = IF k = s + 1 THEN s + 1
                 ELSE IF k <= Len(file[i].data) THEN file[i].data[k] ELSE 0
      BY <1>3
    <3>2. CASE k = s + 1
      BY <3>1, <3>2
    <3>3. CASE k # s + 1
      <4>1. k \in 1 .. s /\ k <= Len(file[i].data)
        BY <1>1, <3>3
      <4>2. QED
        BY <1>4, <3>1, <3>3, <4>1
    <3>4. QED
      BY <3>2, <3>3
  <2>2. QED
    BY <2>1
<1>6. d \in [1 .. s + 1 -> 0 .. N]
  <2>1. DOMAIN d = 1 .. s + 1 /\ d = [k \in 1 .. s + 1 |-> d[k]]
    BY <1>3
  <2>2. \A k \in 1 .. s + 1 : d[k] \in 0 .. N
    BY <1>1, <1>5
  <2>3. QED
    BY <2>1, <2>2
<1>7. d \in Seq(0 .. N) /\ Len(d) = s + 1
  BY <1>1, <1>6
<1>8. QED
  BY <1>5, <1>7 DEF d

(* The byte counter goes up with a chunk, and never past the total.        *)
LEMMA AddedIs ==
  ASSUME TypeInv, NEW t \in Tasks, job[t].done < MaxDone
  PROVE  /\ Added(job[t]) \in JobType
         /\ Added(job[t]).state = job[t].state /\ Added(job[t]).total = job[t].total
         /\ Added(job[t]).done = IF job[t].total # 0
                                 THEN Least(job[t].done + 1, job[t].total) ELSE job[t].done + 1
<1> DEFINE n == IF job[t].total # 0 THEN Least(job[t].done + 1, job[t].total) ELSE job[t].done + 1
<1>1. /\ job[t] \in JobType /\ job[t].done \in 0 .. MaxDone /\ job[t].total \in {0, N}
      /\ N \in Nat /\ N <= MaxDone /\ MaxDone \in Nat
  BY JobField, Limits
<1>2. n \in 0 .. MaxDone
  <2>1. job[t].done + 1 \in 0 .. MaxDone /\ job[t].total \in 0 .. MaxDone
    BY <1>1
  <2>2. QED
    BY <2>1 DEF Least
<1>3. Added(job[t]) = [job[t] EXCEPT !.done = n]
  BY DEF Added
<1> HIDE DEF n
<1>4. /\ Added(job[t]) \in JobType /\ Added(job[t]).done = n
      /\ Added(job[t]).state = job[t].state /\ Added(job[t]).total = job[t].total
  BY <1>1, <1>2, <1>3 DEF JobType
<1>5. QED
  BY <1>4 DEF n

LEMMA ReadChunkKeeps == ASSUME Alone, IInv, NEW t \in Tasks, ReadChunk(t) PROVE IInv'
<1>0. /\ TypeInv /\ FileInv /\ JournalInv
      /\ StateInv(t) /\ SizeInv(t) /\ CountInv(t) /\ WholeInv(t)
      /\ up /\ worker[t].pc = "body"
  BY Parts DEF ReadChunk, At
<1>1. UNCHANGED <<dst, part, journal, handler, up>> /\ worker[t].next <= N /\ job[t].done < MaxDone
  BY DEF ReadChunk
<1> DEFINE s == Size(part)
           pos == IF worker[t].append THEN Size(worker[t].fd) ELSE worker[t].pos
           p == IF job'[t].done >= job[t].ckpt + Interval THEN "checkpoint" ELSE "body"
<1>2. /\ worker[t].fd \in Inodes /\ worker[t].fd = part /\ part # NoFile /\ part # dst
      /\ Prefix(part) /\ file[part].durable <= s /\ s \in 0 .. N
  BY <1>0, PrivateIs DEF Early
<1>3. /\ worker[t].next = s + 1 /\ pos = s /\ s < N /\ worker[t].append \in BOOLEAN
      /\ N \in Nat /\ s \in Nat
  <2>1. worker[t].next = s + 1 /\ worker[t].append \in BOOLEAN
        /\ (~worker[t].append => worker[t].pos = s)
    BY <1>0, <1>2, WorkerField DEF SizeInv
  <2>2. QED
    BY <1>1, <1>2, <2>1, Limits
<1> DEFINE d == WriteAt(file[part].data, s, s + 1)
           f == [file[part] EXCEPT !.data = d]
<1>4. d \in Seq(0 .. N) /\ Len(d) = s + 1 /\ \A k \in 1 .. s + 1 : d[k] = k
  BY <1>0, <1>2, <1>3, AppendIs
<1>5. /\ job' = [job EXCEPT ![t] = Added(job[t])]
      /\ worker' = [worker EXCEPT ![t].next = @ + 1, ![t].pos = pos + 1, ![t].pc = p]
      /\ file' = [file EXCEPT ![worker[t].fd].data = WriteAt(@, pos, worker[t].next)]
  BY DEF ReadChunk
<1>6. file' = [file EXCEPT ![part] = f]
  BY <1>2, <1>3, <1>5
<1> HIDE DEF d, p, pos
<1>7. f \in FileType /\ f.data = d /\ f.durable = file[part].durable
  <2>1. file[part] \in FileType
    BY <1>0, <1>2, FileField
  <2>2. QED
    BY <1>4, <2>1 DEF FileType
<1> HIDE DEF f
<1>8. /\ file' \in [Inodes -> FileType] /\ file'[part] = f
      /\ \A k \in Inodes \ {part} : file'[k] = file[k]
  BY <1>0, <1>2, <1>6, <1>7, FileTo
<1>9. /\ job' \in [Tasks -> JobType] /\ job'[t] = Added(job[t])
      /\ job'[t].state = job[t].state /\ job'[t].total = job[t].total
      /\ job'[t].done = IF job[t].total # 0
                        THEN Least(job[t].done + 1, job[t].total) ELSE job[t].done + 1
  <2>1. Added(job[t]) \in JobType
    BY <1>0, <1>1, AddedIs
  <2>2. job' \in [Tasks -> JobType] /\ job'[t] = Added(job[t])
    BY <1>0, <1>5, <2>1, JobTo
  <2>3. QED
    BY <1>0, <1>1, <2>2, AddedIs
<1>10. /\ worker' \in [Tasks -> WorkerType] /\ worker'[t].pc \in {"body", "checkpoint"}
       /\ worker'[t].fd = worker[t].fd /\ worker'[t].append = worker[t].append
       /\ worker'[t].pos = s + 1 /\ worker'[t].next = s + 2
       /\ worker'[t].resume = worker[t].resume /\ worker'[t].clen = worker[t].clen
       /\ worker'[t].result = worker[t].result
  <2>1. worker \in [Tasks -> WorkerType] /\ worker[t] \in WorkerType
    BY <1>0, WorkerField
  <2>2. p \in {"body", "checkpoint"} /\ p \in Points
    BY DEF p, Points
  <2>3. worker[t].next + 1 \in 1 .. N + 1 /\ pos + 1 \in 0 .. N /\ worker[t].next + 1 = s + 2
    BY <1>3
  <2>4. QED
    BY <1>3, <1>5, <2>1, <2>2, <2>3 DEF WorkerType
<1>11. /\ Size(part)' = s + 1 /\ Prefix(part)' /\ part' = part /\ dst' = dst
       /\ file'[part].durable <= s + 1
  <2>1. part' = part /\ dst' = dst /\ file'[part].data = d /\ file'[part].durable = file[part].durable
    BY <1>1, <1>7, <1>8
  <2>2. Size(part)' = s + 1
    BY <1>4, <2>1 DEF Size
  <2>3. s + 1 <= N
    BY <1>3
  <2>4. file[part].durable <= s + 1
    BY <1>0, <1>2, <1>3, FileField
  <2>5. QED
    BY <1>4, <2>1, <2>2, <2>3, <2>4 DEF Prefix
<1>12. TypeInv'
  BY <1>0, <1>1, <1>8, <1>9, <1>10 DEF TypeInv
<1>13. FileInv'
  <2>1. \A k \in Inodes \ {part} : /\ Size(k)' = Size(k) /\ Prefix(k)' = Prefix(k)
                                   /\ Stranger(k)' = Stranger(k)
    BY <1>8 DEF Size, Prefix, Stranger
  <2>2. dst # NoFile => dst \in Inodes \ {part}
    BY <1>0, <1>2 DEF TypeInv, Names
  <2>3. ASSUME NEW k \in Inodes
        PROVE  (Prefix(k)' \/ Stranger(k)') /\ file'[k].durable <= Size(k)'
    <3>1. CASE k = part
      <4>1. Prefix(k)' /\ Size(k)' = s + 1 /\ file'[k].durable <= s + 1
        BY <1>11, <3>1 DEF Prefix, Size
      <4>2. QED
        BY <4>1
    <3>2. CASE k # part
      BY <1>0, <1>8, <2>1, <3>2 DEF FileInv
    <3>3. QED
      BY <3>1, <3>2
  <2>4. Counted /\ dst # NoFile => Stranger(dst)' \/ (Prefix(dst)' /\ file'[dst].durable = N)
    BY <1>0, <1>8, <1>11, <2>1, <2>2 DEF FileInv, Stranger, Prefix, Size
  <2>5. QED
    BY <1>11, <2>3, <2>4 DEF FileInv, Prefix, Stranger, Size
<1>14. JournalInv'
  <2>1. dst = NoFile => journal # NoJournal /\ s >= journal.done
    BY <1>0 DEF JournalInv, Secured, Fetching, Backed
  <2>2. journal # NoJournal => journal.done \in Nat
    BY <1>0 DEF TypeInv
  <2>3. QED
    BY <1>1, <1>2, <1>3, <1>11, <2>1, <2>2, JournalOne DEF Backed
<1>15. StateInv(t)'
  <2>1. job'[t].state # "NONE" /\ job[t].state \in {"QUEUED", "RUNNING"}
    BY <1>0, <1>9, JobField DEF StateInv
  <2>2. QED
    BY <1>0, <1>1, <1>9, <1>10, <2>1 DEF StateInv, Early, Held
<1>16. Size(worker[t].fd)' = s + 1 /\ worker'[t].fd = part
  BY <1>2, <1>10, <1>11 DEF Size
<1>17. SizeInv(t)'
  <2>1. (s + 1) + 1 = s + 2
    BY <1>3
  <2>2. QED
    BY <1>0, <1>1, <1>9, <1>10, <1>16, <2>1 DEF SizeInv
<1>18. CountInv(t)'
  <2>1. dst = NoFile => job'[t].done = s + 1
    <3>1. dst = NoFile => job[t].done = s
      BY <1>0, <1>2 DEF CountInv, Early
    <3>2. Least(s + 1, N) = s + 1
      BY <1>3 DEF Least
    <3>3. job[t].total \in {0, N}
      BY <1>0, JobField
    <3>4. QED
      BY <1>9, <3>1, <3>2, <3>3
  <2>2. job'[t].state \notin {"PAUSED", "FAILED"}
    BY <1>0, <1>9 DEF StateInv
  <2>3. QED
    BY <1>1, <1>10, <1>16, <2>1, <2>2 DEF CountInv
<1>19. WholeInv(t)'
  BY <1>10 DEF WholeInv
<1>20. QED
  BY <1>12, <1>13, <1>14, <1>15, <1>17, <1>18, <1>19, FromOne

(* A worker that goes on with nothing but its place changed.               *)
LEMMA MoveKeeps ==
  ASSUME Alone, IInv, NEW t \in Tasks, up, UNCHANGED <<disk, job, handler, up>>,
         worker[t].pc \in {"body", "ended"}, NEW p \in {"ended", "sync"},
         worker' \in [Tasks -> WorkerType], worker'[t].pc = p,
         worker'[t].fd = worker[t].fd,
         Counted /\ (p = "ended" => worker'[t].result = "ok" /\ Complete(t)') /\ dst = NoFile
           => Size(part) = N
  PROVE  IInv'
<1>0. /\ TypeInv /\ FileInv /\ JournalInv
      /\ StateInv(t) /\ SizeInv(t) /\ CountInv(t) /\ WholeInv(t)
  BY Parts
<1>1. /\ dst' = dst /\ part' = part /\ file' = file /\ journal' = journal
      /\ job' = job /\ handler' = handler /\ up' = up
  BY DEF disk
<1>2. worker[t].fd = part
  BY <1>0 DEF StateInv, Early
<1>3. TypeInv'
  BY <1>0, <1>1 DEF TypeInv
<1>4. FileInv'
  BY <1>0, <1>1, FileFrame
<1>5. JournalInv'
  BY <1>0, JournalFrame DEF Secured, Fetching
<1>6. StateInv(t)'
  BY <1>0, <1>1 DEF StateInv, Early, Held
<1>7. SizeInv(t)'
  BY <1>0, <1>1 DEF SizeInv
<1>8. CountInv(t)'
  BY <1>0, <1>1 DEF CountInv, StateInv, Size, Early
<1>9. WholeInv(t)'
  <2>1. Size(worker[t].fd)' = Size(part)
    BY <1>1, <1>2 DEF Size
  <2>2. QED
    BY <1>1, <2>1 DEF WholeInv
<1>10. QED
  BY <1>3, <1>4, <1>5, <1>6, <1>7, <1>8, <1>9, FromOne

(* A body that is over, or as long as the server said, is the whole file.  *)
LEMMA BodyIsWhole ==
  ASSUME IInv, NEW t \in Tasks, worker[t].pc = "body", dst = NoFile, Counted,
         worker[t].next > N \/ "net" \in Faults, Complete(t)
  PROVE  Size(part) = N
<1>0. TypeInv /\ StateInv(t) /\ SizeInv(t) /\ CountInv(t)
  BY Parts
<1>1. worker[t].fd = part /\ Size(part) \in 0 .. N /\ N \in Nat \ {0}
  BY PrivateIs, Limits DEF Early
<1>2. CASE worker[t].next > N
  BY <1>0, <1>1, <1>2 DEF SizeInv
<1>3. CASE "net" \in Faults
  <2>1. HasLength /\ (Platform = "HOST" \/ 206 \notin RangeModes)
    BY <1>3 DEF Counted, Measured
  <2>2. worker[t].clen = N
    <3>1. Platform # "HOST" => worker[t].resume = 0
      BY <1>0, <2>1 DEF SizeInv
    <3>2. worker[t].clen = IF Platform = "HOST" THEN N ELSE N - worker[t].resume
      BY <1>0, <2>1 DEF SizeInv
    <3>3. N - 0 = N
      BY <1>1
    <3>4. QED
      BY <3>1, <3>2, <3>3
  <2>3. job[t].done = N
    BY <1>1, <2>2 DEF Complete
  <2>4. job[t].done = Size(part)
    BY <1>0, <1>1 DEF CountInv, Early
  <2>5. QED
    BY <2>3, <2>4
<1>4. QED
  BY <1>2, <1>3

LEMMA LeaveLoopKeeps == ASSUME Alone, IInv, NEW t \in Tasks, LeaveLoop(t) PROVE IInv'
<1>0. TypeInv /\ up /\ worker[t].pc = "body" /\ UNCHANGED <<disk, job, handler, up>>
  BY Parts DEF LeaveLoop, At
<1>1. CASE End(t, "ended", "error")
  <2>1. /\ worker' \in [Tasks -> WorkerType] /\ worker'[t].pc = "ended"
        /\ worker'[t].fd = worker[t].fd /\ worker'[t].result = "error"
    BY <1>0, <1>1, EndIs DEF Points
  <2>2. QED
    BY <1>0, <2>1, MoveKeeps
<1>2. CASE End(t, "ended", "ok") /\ (worker[t].next > N \/ "net" \in Faults)
  <2>1. /\ worker' \in [Tasks -> WorkerType] /\ worker'[t].pc = "ended"
        /\ worker'[t].fd = worker[t].fd /\ worker'[t].result = "ok"
        /\ worker'[t].clen = worker[t].clen
    BY <1>0, <1>2, EndIs DEF Points
  <2>2. Complete(t)' => Complete(t)
    BY <1>0, <2>1 DEF Complete
  <2>3. Counted /\ Complete(t)' /\ dst = NoFile => Size(part) = N
    BY <1>0, <1>2, <2>2, BodyIsWhole
  <2>4. QED
    BY <1>0, <2>1, <2>3, MoveKeeps
<1>3. ASSUME NEW r \in {"canceled", "error"}, End(t, "finish", r)
      PROVE  IInv'
  BY <1>0, <1>3, GiveUpKeeps DEF Early
<1>4. QED
  BY <1>1, <1>2, <1>3 DEF LeaveLoop

LEMMA CheckpointKeeps == ASSUME Alone, IInv, NEW t \in Tasks, Checkpoint(t) PROVE IInv'
<1>0. /\ TypeInv /\ FileInv /\ JournalInv
      /\ StateInv(t) /\ SizeInv(t) /\ CountInv(t) /\ WholeInv(t)
      /\ up /\ worker[t].pc = "checkpoint"
  BY Parts DEF Checkpoint, Journal, At
<1>1. UNCHANGED <<dst, part, file, handler, up>>
  BY DEF Checkpoint
<1>2. CASE journal' = Snapshot(t) /\ Goto(t, "body")
  <2>1. /\ worker' \in [Tasks -> WorkerType] /\ worker'[t].pc = "body"
        /\ worker'[t].fd = worker[t].fd /\ worker'[t].append = worker[t].append
        /\ worker'[t].pos = worker[t].pos /\ worker'[t].resume = worker[t].resume
        /\ worker'[t].clen = worker[t].clen /\ worker'[t].next = worker[t].next
    BY <1>0, <1>2, GotoIs DEF Points
  <2>2. /\ job' \in [Tasks -> JobType] /\ job'[t].state = job[t].state
        /\ job'[t].done = job[t].done /\ job'[t].total = job[t].total
    <3>1. job \in [Tasks -> JobType] /\ job[t] \in JobType /\ job[t].done \in 0 .. MaxDone
      BY <1>0, JobField
    <3>2. job' = [job EXCEPT ![t].ckpt = job[t].done]
      BY <2>1 DEF Checkpoint
    <3>3. QED
      BY <3>1, <3>2 DEF JobType
  <2>3. /\ journal' \in [done : 0 .. MaxDone, total : {0, N}]
        /\ journal'.done = job[t].done /\ journal'.total = job[t].total
    BY <1>0, <1>2, SnapshotIs
  <2>4. TypeInv'
    BY <1>0, <1>1, <2>1, <2>2, <2>3 DEF TypeInv
  <2>5. FileInv'
    BY <1>0, <1>1, FileFrame
  <2>6. JournalInv'
    <3>1. dst = NoFile => part # NoFile /\ Size(part) >= job[t].done
      BY <1>0, PrivateIs DEF CountInv, Early
    <3>2. QED
      BY <1>0, <1>1, <2>3, <3>1, JournalIs, JournalOne DEF Backed, Size
  <2>7. StateInv(t)'
    <3>1. job'[t].state # "NONE" /\ job[t].state # "NONE"
      BY <1>0, <2>2 DEF StateInv
    <3>2. QED
      BY <1>0, <1>1, <2>1, <2>2, <3>1 DEF StateInv, Early, Held
  <2>8. SizeInv(t)'
    BY <1>0, <1>1, <2>1, <2>2, <2>3 DEF SizeInv, Size
  <2>9. CountInv(t)'
    BY <1>0, <1>1, <2>1, <2>2 DEF CountInv, StateInv, Size, Early
  <2>10. WholeInv(t)'
    BY <2>1 DEF WholeInv
  <2>11. QED
    BY <2>4, <2>5, <2>6, <2>7, <2>8, <2>9, <2>10, FromOne
<1>3. CASE End(t, "finish", "error") /\ UNCHANGED journal
  <2>1. worker'[t].pc = "finish"
    BY <1>0, <1>3, EndIs DEF Points
  <2>2. job' = job
    BY <2>1 DEF Checkpoint
  <2>3. QED
    BY <1>0, <1>1, <1>3, <2>2, GiveUpKeeps DEF disk, Early
<1>4. QED
  BY <1>2, <1>3 DEF Checkpoint, Journal

LEMMA JudgeKeeps == ASSUME Alone, IInv, NEW t \in Tasks, Judge(t) PROVE IInv'
<1>0. /\ TypeInv /\ StateInv(t) /\ WholeInv(t) /\ up /\ worker[t].pc = "ended"
      /\ UNCHANGED <<disk, job, handler, up>>
  BY Parts DEF Judge, At
<1>1. CASE worker[t].result = "ok" /\ Complete(t) /\ Goto(t, "sync")
  <2>1. /\ worker' \in [Tasks -> WorkerType] /\ worker'[t].pc = "sync"
        /\ worker'[t].fd = worker[t].fd
    BY <1>0, <1>1, GotoIs DEF Points
  <2>2. worker[t].fd = part
    BY <1>0 DEF StateInv, Early
  <2>3. Counted /\ dst = NoFile => Size(part) = N
    BY <1>0, <1>1, <2>2 DEF WholeInv
  <2>4. QED
    BY <1>0, <2>1, <2>3, MoveKeeps
<1>2. ASSUME NEW r \in {"canceled", "paused", "error"}, End(t, "finish", r)
      PROVE  IInv'
  BY <1>0, <1>2, GiveUpKeeps DEF Early
<1>3. QED
  BY <1>1, <1>2 DEF Judge

-----------------------------------------------------------------------------
(* Synchronization and publication.                                        *)
LEMMA SyncKeeps == ASSUME Alone, IInv, NEW t \in Tasks, Sync(t) PROVE IInv'
<1>0. /\ TypeInv /\ FileInv /\ JournalInv
      /\ StateInv(t) /\ SizeInv(t) /\ CountInv(t) /\ WholeInv(t)
      /\ up /\ worker[t].pc = "sync"
  BY Parts DEF Sync, At
<1>1. UNCHANGED <<dst, part, journal, job, handler, up>>
  BY DEF Sync
<1>2. /\ worker[t].fd \in Inodes /\ worker[t].fd = part /\ part # NoFile /\ part # dst
      /\ Prefix(part) /\ Size(part) \in 0 .. N
  BY <1>0, PrivateIs DEF Early
<1>3. ASSUME file' = [file EXCEPT ![worker[t].fd] = Synced(@)],
             NEW p \in {"finish", "publish"}, worker' \in [Tasks -> WorkerType],
             worker'[t].pc = p, worker'[t].fd = worker[t].fd,
             p = "finish" => worker'[t].result = "canceled"
      PROVE  IInv'
  <2> DEFINE f == Synced(file[part])
  <2>1. f \in FileType /\ f.data = file[part].data /\ f.durable = Size(part)
    <3>1. file[part] \in FileType /\ Size(part) \in Nat
      BY <1>0, <1>2, FileField
    <3>2. QED
      BY <3>1 DEF Synced, FileType, Size
  <2>2. file' = [file EXCEPT ![part] = f]
    BY <1>2, <1>3
  <2> HIDE DEF f
  <2>3. /\ file' \in [Inodes -> FileType] /\ file'[part] = f
        /\ \A k \in Inodes \ {part} : file'[k] = file[k]
    BY <1>0, <1>2, <2>1, <2>2, FileTo
  <2>4. /\ part' = part /\ dst' = dst /\ file'[part].data = file[part].data
        /\ file'[part].durable = Size(part) /\ Size(part)' = Size(part)
        /\ Size(worker[t].fd)' = Size(part) /\ Size(worker[t].fd) = Size(part)
    BY <1>1, <1>2, <1>3, <2>1, <2>3 DEF Size
  <2>5. TypeInv'
    BY <1>0, <1>1, <1>3, <2>3 DEF TypeInv
  <2>6. FileInv'
    <3>1. \A k \in Inodes \ {part} : /\ Size(k)' = Size(k) /\ Prefix(k)' = Prefix(k)
                                     /\ Stranger(k)' = Stranger(k)
      BY <2>3 DEF Size, Prefix, Stranger
    <3>2. dst # NoFile => dst \in Inodes \ {part}
      BY <1>0, <1>2 DEF TypeInv, Names
    <3>3. Prefix(part)'
      BY <1>2, <2>4 DEF Prefix
    <3>4. ASSUME NEW k \in Inodes
          PROVE  (Prefix(k)' \/ Stranger(k)') /\ file'[k].durable <= Size(k)'
      <4>1. CASE k = part
        <5>1. Prefix(k)' /\ Size(k)' = Size(part) /\ file'[k].durable = Size(part)
          BY <2>4, <3>3, <4>1 DEF Prefix, Size
        <5>2. QED
          BY <1>2, <5>1
      <4>2. CASE k # part
        BY <1>0, <2>3, <3>1, <4>2 DEF FileInv
      <4>3. QED
        BY <4>1, <4>2
    <3>5. Counted /\ dst # NoFile => Stranger(dst)' \/ (Prefix(dst)' /\ file'[dst].durable = N)
      BY <1>0, <1>1, <2>3, <3>1, <3>2 DEF FileInv, Stranger, Prefix, Size
    <3>6. QED
      BY <2>4, <3>3, <3>4, <3>5 DEF FileInv
  <2>7. JournalInv'
    <3>1. dst = NoFile => Backed
      BY <1>0 DEF JournalInv, Secured, Fetching
    <3>2. QED
      BY <1>0, <1>1, <2>4, <3>1, JournalOne DEF Backed
  <2>8. StateInv(t)'
    BY <1>0, <1>1, <1>3 DEF StateInv, Early, Held
  <2>9. SizeInv(t)'
    BY <1>0, <1>1, <1>3 DEF SizeInv
  <2>10. CountInv(t)'
    BY <1>0, <1>1, <1>3, <2>4 DEF CountInv, StateInv, Early
  <2>11. WholeInv(t)'
    <3>1. Counted /\ dst = NoFile => Size(part) = N
      BY <1>0, <1>2 DEF WholeInv
    <3>2. CASE p = "finish"
      BY <1>3, <3>2 DEF WholeInv
    <3>3. CASE p = "publish"
      <4>1. worker'[t].fd = part /\ file'[worker'[t].fd].durable = Size(part)
        BY <1>2, <1>3, <2>4
      <4>2. QED
        BY <1>1, <1>3, <2>4, <3>1, <3>3, <4>1 DEF WholeInv
    <3>4. QED
      BY <3>2, <3>3
  <2>12. QED
    BY <2>5, <2>6, <2>7, <2>8, <2>9, <2>10, <2>11, FromOne
<1>4. ASSUME file' = [file EXCEPT ![worker[t].fd] = Synced(@)], End(t, "finish", "canceled")
      PROVE  IInv'
  <2>1. /\ worker' \in [Tasks -> WorkerType] /\ worker'[t].pc = "finish"
        /\ worker'[t].fd = worker[t].fd /\ worker'[t].result = "canceled"
    BY <1>0, <1>4, EndIs DEF Points
  <2>2. QED
    BY <1>3, <1>4, <2>1
<1>5. ASSUME file' = [file EXCEPT ![worker[t].fd] = Synced(@)], Goto(t, "publish")
      PROVE  IInv'
  <2>1. /\ worker' \in [Tasks -> WorkerType] /\ worker'[t].pc = "publish"
        /\ worker'[t].fd = worker[t].fd
    BY <1>0, <1>5, GotoIs DEF Points
  <2>2. QED
    BY <1>3, <1>5, <2>1
<1>6. CASE End(t, "finish", "error") /\ UNCHANGED file
  BY <1>0, <1>1, <1>6, GiveUpKeeps DEF disk, Early
<1>7. QED
  BY <1>4, <1>5, <1>6 DEF Sync

LEMMA PublishKeeps == ASSUME Alone, IInv, NEW t \in Tasks, Publish(t) PROVE IInv'
<1>0. /\ TypeInv /\ FileInv /\ JournalInv
      /\ StateInv(t) /\ SizeInv(t) /\ CountInv(t) /\ WholeInv(t)
      /\ up /\ worker[t].pc = "publish"
  BY Parts DEF Publish, At
<1>1. UNCHANGED <<part, file, journal, job, handler, up>>
  BY DEF Publish
<1>2. /\ worker[t].fd \in Inodes /\ worker[t].fd = part /\ part # NoFile
      /\ Prefix(part)
  BY <1>0, PrivateIs DEF Early
<1>3. Counted /\ dst = NoFile => file[part].durable = N
  BY <1>0, <1>2 DEF WholeInv
<1>4. CASE Linkable /\ dst' = part /\ Goto(t, "unlink")
  <2>1. /\ worker' \in [Tasks -> WorkerType] /\ worker'[t].pc = "unlink"
        /\ worker'[t].fd = worker[t].fd
    BY <1>0, <1>4, GotoIs DEF Points
  <2>2. dst = NoFile /\ dst' = part /\ dst' # NoFile /\ part' = part /\ file' = file
    BY <1>1, <1>2, <1>4 DEF Linkable
  <2>3. TypeInv'
    BY <1>0, <1>1, <2>1, <2>2 DEF TypeInv
  <2>4. FileInv'
    BY <1>0, <1>2, <1>3, <2>2 DEF FileInv, Prefix, Stranger, Size
  <2>5. JournalInv'
    BY <2>2, JournalOne
  <2>6. StateInv(t)'
    BY <1>0, <1>1, <1>2, <2>1, <2>2 DEF StateInv, Early, Held
  <2>7. SizeInv(t)'
    BY <1>0, <1>1, <2>1 DEF SizeInv
  <2>8. CountInv(t)' /\ WholeInv(t)'
    BY <2>1, <2>2 DEF CountInv, WholeInv
  <2>9. QED
    BY <2>3, <2>4, <2>5, <2>6, <2>7, <2>8, FromOne
<1>5. CASE "nolink" \in Faults /\ dst = NoFile /\ Goto(t, "rename") /\ UNCHANGED dst
  <2>1. /\ worker' \in [Tasks -> WorkerType] /\ worker'[t].pc = "rename"
        /\ worker'[t].fd = worker[t].fd
    BY <1>0, <1>5, GotoIs DEF Points
  <2>2. TypeInv'
    BY <1>0, <1>1, <1>5, <2>1 DEF TypeInv
  <2>3. FileInv'
    BY <1>0, <1>1, <1>5, FileFrame
  <2>4. JournalInv'
    BY <1>0, <1>1, <1>5, JournalFrame DEF disk, Secured, Fetching
  <2>5. StateInv(t)'
    BY <1>0, <1>1, <1>5, <2>1 DEF StateInv, Early, Held
  <2>6. SizeInv(t)'
    BY <1>0, <1>1, <2>1 DEF SizeInv
  <2>7. CountInv(t)'
    BY <1>0, <1>1, <1>5, <2>1 DEF CountInv, StateInv, Size, Early
  <2>8. WholeInv(t)'
    BY <1>1, <1>2, <1>3, <1>5, <2>1 DEF WholeInv
  <2>9. QED
    BY <2>2, <2>3, <2>4, <2>5, <2>6, <2>7, <2>8, FromOne
<1>6. CASE End(t, "finish", "error") /\ UNCHANGED dst
  BY <1>0, <1>1, <1>6, GiveUpKeeps DEF disk, Early
<1>7. QED
  BY <1>4, <1>5, <1>6 DEF Publish

(* The private name goes when the file has its final one.                  *)
LEMMA LandedKeeps ==
  ASSUME Alone, IInv, NEW t \in Tasks, up, worker[t].pc \in {"unlink", "rename"},
         part # NoFile, dst' = part, part' = NoFile, UNCHANGED <<file, journal, job, handler, up>>,
         Goto(t, "dirsync"), Counted => file[part].durable = N
  PROVE  IInv'
<1>0. /\ TypeInv /\ FileInv /\ JournalInv
      /\ StateInv(t) /\ SizeInv(t) /\ CountInv(t) /\ WholeInv(t)
  BY Parts
<1>1. /\ worker' \in [Tasks -> WorkerType] /\ worker'[t].pc = "dirsync"
      /\ worker'[t].fd = worker[t].fd
  BY <1>0, GotoIs DEF Points
<1>2. part \in Inodes /\ Prefix(part) /\ ~Stranger(part)
  BY <1>0, StrangerIs DEF TypeInv, Names, FileInv
<1>3. dst' # NoFile /\ Prefix(dst)' /\ ~Stranger(dst)' /\ file'[dst'].durable = file[part].durable
  BY <1>2 DEF Prefix, Stranger, Size
<1>4. TypeInv'
  BY <1>0, <1>1 DEF TypeInv, Names
<1>5. FileInv'
  <2>1. \A i \in Inodes : (Prefix(i)' \/ Stranger(i)') /\ file'[i].durable <= Size(i)'
    BY <1>0 DEF FileInv, Prefix, Stranger, Size
  <2>2. QED
    BY <1>3, <2>1 DEF FileInv
<1>6. JournalInv'
  BY <1>3, JournalOne
<1>7. StateInv(t)'
  BY <1>0, <1>1, <1>3 DEF StateInv, Early, Held
<1>8. SizeInv(t)'
  BY <1>0, <1>1 DEF SizeInv
<1>9. CountInv(t)'
  BY <1>3 DEF CountInv
<1>10. WholeInv(t)'
  BY <1>1, <1>3 DEF WholeInv
<1>11. QED
  BY <1>4, <1>5, <1>6, <1>7, <1>8, <1>9, <1>10, FromOne

LEMMA UnlinkPartKeeps == ASSUME Alone, IInv, NEW t \in Tasks, UnlinkPart(t) PROVE IInv'
<1>0. /\ TypeInv /\ FileInv /\ StateInv(t) /\ up /\ worker[t].pc = "unlink"
      /\ UNCHANGED <<dst, file, journal, job, handler, up>>
  BY Parts DEF UnlinkPart, At
<1>1. dst = part /\ part # NoFile /\ Prefix(part) /\ ~Stranger(part)
  <2>1. dst = part /\ part # NoFile
    BY <1>0, Limits DEF StateInv
  <2>2. QED
    BY <1>0, <2>1, StrangerIs DEF FileInv
<1>2. CASE part' = NoFile /\ Goto(t, "dirsync")
  <2>1. Counted => file[part].durable = N
    BY <1>0, <1>1 DEF FileInv
  <2>2. QED
    BY <1>0, <1>1, <1>2, <2>1, LandedKeeps
<1>3. CASE End(t, "finish", "error") /\ UNCHANGED part
  BY <1>0, <1>3, GiveUpKeeps DEF disk
<1>4. QED
  BY <1>2, <1>3 DEF UnlinkPart

LEMMA RenameKeeps == ASSUME Alone, IInv, NEW t \in Tasks, Rename(t) PROVE IInv'
<1>0. /\ TypeInv /\ StateInv(t) /\ WholeInv(t) /\ up /\ worker[t].pc = "rename"
      /\ UNCHANGED <<file, journal, job, handler, up>>
  BY Parts DEF Rename, At
<1>1. CASE part # NoFile /\ dst' = part /\ part' = NoFile /\ Goto(t, "dirsync")
  <2>1. Counted => file[part].durable = N
    BY <1>0 DEF WholeInv, StateInv, Early
  <2>2. QED
    BY <1>0, <1>1, <2>1, LandedKeeps
<1>2. CASE End(t, "finish", "error") /\ UNCHANGED <<dst, part>>
  BY <1>0, <1>2, GiveUpKeeps DEF disk, Early
<1>3. QED
  BY <1>1, <1>2 DEF Rename

LEMMA SyncParentKeeps == ASSUME Alone, IInv, NEW t \in Tasks, SyncParent(t) PROVE IInv'
<1>0. /\ TypeInv /\ FileInv /\ JournalInv
      /\ StateInv(t) /\ SizeInv(t) /\ CountInv(t) /\ WholeInv(t)
      /\ up /\ worker[t].pc = "dirsync" /\ UNCHANGED <<disk, job, handler, up>>
  BY Parts DEF SyncParent, At
<1>1. CASE End(t, "finish", "ok")
  <2>1. /\ worker' \in [Tasks -> WorkerType] /\ worker'[t].pc = "finish"
        /\ worker'[t].fd = worker[t].fd /\ worker'[t].result = "ok"
    BY <1>0, <1>1, EndIs DEF Points
  <2>2. dst' = dst /\ part' = part /\ file' = file /\ journal' = journal /\ dst # NoFile
    BY <1>0 DEF disk, StateInv
  <2>3. TypeInv'
    BY <1>0, <2>1, <2>2 DEF TypeInv
  <2>4. FileInv'
    BY <1>0, <2>2, FileFrame
  <2>5. JournalInv'
    BY <2>2, JournalOne
  <2>6. StateInv(t)'
    BY <1>0, <2>1, <2>2 DEF StateInv, Early, Held
  <2>7. SizeInv(t)'
    BY <1>0, <2>1, <2>2 DEF SizeInv
  <2>8. CountInv(t)'
    BY <2>2 DEF CountInv
  <2>9. WholeInv(t)'
    BY <1>0, <2>1, <2>2 DEF WholeInv, Stranger
  <2>10. QED
    BY <2>3, <2>4, <2>5, <2>6, <2>7, <2>8, <2>9, FromOne
<1>2. CASE End(t, "finish", "error")
  BY <1>0, <1>2, GiveUpKeeps
<1>3. QED
  BY <1>1, <1>2 DEF SyncParent

-----------------------------------------------------------------------------
(* The end of a transfer.                                                  *)
LEMMA LeaveIs ==
  ASSUME TypeInv, NEW t \in Tasks, NEW p \in Points,
         NEW r \in {"ok", "error", "canceled", "paused"},
         worker' = [worker EXCEPT ![t].fd = NoFile, ![t].pc = p, ![t].result = r]
  PROVE  /\ worker' \in [Tasks -> WorkerType] /\ worker'[t].pc = p
         /\ worker'[t].fd = NoFile /\ worker'[t].result = r
<1>1. worker \in [Tasks -> WorkerType] /\ worker[t] \in WorkerType /\ NoFile \in Names
  BY WorkerField DEF Names
<1>2. QED
  BY <1>1 DEF WorkerType

LEMMA FinishKeeps == ASSUME Alone, IInv, NEW t \in Tasks, Finish(t) PROVE IInv'
<1>0. /\ TypeInv /\ FileInv /\ JournalInv
      /\ StateInv(t) /\ SizeInv(t) /\ CountInv(t) /\ WholeInv(t)
      /\ up /\ worker[t].pc = "finish"
  BY Parts DEF Finish, At
<1>1. UNCHANGED <<dst, part, file, job, handler, up>>
  BY DEF Finish
<1> DEFINE r == worker[t].result
<1>2. FileInv'
  BY <1>0, <1>1, FileFrame
<1>3. ASSUME r \in {"ok", "canceled"}, UNCHANGED journal,
             worker' = [worker EXCEPT ![t].fd = NoFile, ![t].pc = "rmpart", ![t].result = r]
      PROVE  IInv'
  <2>1. /\ worker' \in [Tasks -> WorkerType] /\ worker'[t].pc = "rmpart"
        /\ worker'[t].fd = NoFile /\ worker'[t].result = r
    BY <1>0, <1>3, LeaveIs DEF Points
  <2>2. TypeInv'
    BY <1>0, <1>1, <1>3, <2>1 DEF TypeInv
  <2>3. JournalInv'
    BY <1>0, <1>1, <2>1, AtWork, JournalOne DEF Secured, Fetching
  <2>4. StateInv(t)'
    BY <1>0, <1>1, <1>3, <2>1 DEF StateInv, Early, Held
  <2>5. SizeInv(t)'
    BY <1>0, <1>1, <1>3, <2>1 DEF SizeInv
  <2>6. CountInv(t)'
    BY <1>0, <1>1, <2>1 DEF CountInv, StateInv, Early
  <2>7. WholeInv(t)'
    BY <1>0, <1>1, <2>1 DEF WholeInv, Stranger
  <2>8. QED
    BY <1>2, <2>2, <2>3, <2>4, <2>5, <2>6, <2>7, FromOne
<1>4. ASSUME r \in {"paused", "error"}, NEW e \in {"paused", "error"},
             worker' = [worker EXCEPT ![t].fd = NoFile, ![t].pc = "settle", ![t].result = e],
             journal' = Snapshot(t) \/ (journal' = journal /\ e = "error")
      PROVE  IInv'
  <2>1. /\ worker' \in [Tasks -> WorkerType] /\ worker'[t].pc = "settle"
        /\ worker'[t].fd = NoFile /\ worker'[t].result = e
    BY <1>0, <1>4, LeaveIs DEF Points
  <2>2. /\ Snapshot(t) \in [done : 0 .. MaxDone, total : {0, N}]
        /\ Snapshot(t).done = job[t].done /\ Snapshot(t).total = job[t].total
    BY <1>0, SnapshotIs
  <2>3. dst = NoFile => part # NoFile /\ job[t].done = Size(part) /\ Size(part) \in Nat
    BY <1>0, <1>4, FileField DEF CountInv, TypeInv, Names
  <2>4. TypeInv'
    BY <1>0, <1>1, <1>4, <2>1, <2>2 DEF TypeInv
  <2>5. JournalInv'
    <3>1. CASE journal' = journal /\ e = "error"
      BY <1>0, <1>1, <1>4, <2>1, <3>1, AtWork, JournalOne DEF Secured, Fetching
    <3>2. CASE journal' = Snapshot(t)
      BY <1>0, <1>1, <2>2, <2>3, <3>2, JournalIs, JournalOne DEF Backed, Size
    <3>3. QED
      BY <1>4, <3>1, <3>2
  <2>6. StateInv(t)'
    BY <1>0, <1>1, <1>4, <2>1 DEF StateInv, Early, Held
  <2>7. SizeInv(t)'
    BY <1>0, <1>1, <1>4, <2>1, <2>2 DEF SizeInv
  <2>8. CountInv(t)'
    BY <1>0, <1>1, <2>1, <2>3 DEF CountInv, StateInv, Size, Early
  <2>9. WholeInv(t)'
    BY <1>4, <2>1 DEF WholeInv
  <2>10. QED
    BY <1>2, <2>4, <2>5, <2>6, <2>7, <2>8, <2>9, FromOne
<1>5. QED
  <2>1. r \in {"paused", "error"} => r \in {"paused", "error"} /\ "error" \in {"paused", "error"}
    OBVIOUS
  <2>2. QED
    BY <1>3, <1>4, <2>1 DEF Finish

LEMMA RemovePartKeeps == ASSUME Alone, IInv, NEW t \in Tasks, RemovePart(t) PROVE IInv'
<1>0. /\ TypeInv /\ FileInv /\ JournalInv
      /\ StateInv(t) /\ SizeInv(t) /\ CountInv(t) /\ WholeInv(t)
      /\ up /\ worker[t].pc = "rmpart"
  BY Parts DEF RemovePart, At
<1>1. UNCHANGED <<dst, file, journal, job, handler, up>> /\ part' = NoFile /\ Goto(t, "rmjournal")
  BY DEF RemovePart
<1>2. /\ worker' \in [Tasks -> WorkerType] /\ worker'[t].pc = "rmjournal"
      /\ worker'[t].fd = worker[t].fd /\ worker'[t].result = worker[t].result
  BY <1>0, <1>1, GotoIs DEF Points
<1>3. TypeInv'
  BY <1>0, <1>1, <1>2 DEF TypeInv, Names
<1>4. FileInv'
  BY <1>0, <1>1 DEF FileInv, Prefix, Stranger, Size
<1>5. JournalInv'
  BY <1>0, <1>1, <1>2, AtWork, JournalOne DEF Secured, Fetching
<1>6. StateInv(t)'
  BY <1>0, <1>1, <1>2 DEF StateInv, Early, Held
<1>7. SizeInv(t)'
  BY <1>0, <1>1, <1>2 DEF SizeInv
<1>8. CountInv(t)'
  BY <1>0, <1>1, <1>2 DEF CountInv, StateInv, Early
<1>9. WholeInv(t)'
  BY <1>0, <1>1, <1>2 DEF WholeInv, Stranger
<1>10. QED
  BY <1>3, <1>4, <1>5, <1>6, <1>7, <1>8, <1>9, FromOne

LEMMA RemoveJournalKeeps == ASSUME Alone, IInv, NEW t \in Tasks, RemoveJournal(t) PROVE IInv'
<1>0. /\ TypeInv /\ FileInv /\ JournalInv
      /\ StateInv(t) /\ SizeInv(t) /\ CountInv(t) /\ WholeInv(t)
      /\ up /\ worker[t].pc = "rmjournal"
  BY Parts DEF RemoveJournal, At
<1>1. /\ UNCHANGED <<dst, part, file, job, handler, up>> /\ journal' = NoJournal
      /\ Goto(t, "settle")
  BY DEF RemoveJournal
<1>2. /\ worker' \in [Tasks -> WorkerType] /\ worker'[t].pc = "settle"
      /\ worker'[t].fd = worker[t].fd /\ worker'[t].result = worker[t].result
      /\ worker[t].result \in {"ok", "canceled"}
  BY <1>0, <1>1, GotoIs DEF Points, StateInv
<1>3. TypeInv'
  BY <1>0, <1>1, <1>2 DEF TypeInv
<1>4. FileInv'
  BY <1>0, <1>1, FileFrame
<1>5. JournalInv'
  BY <1>0, <1>1, <1>2, AtWork, JournalOne DEF Secured, Fetching
<1>6. StateInv(t)'
  BY <1>0, <1>1, <1>2 DEF StateInv, Early, Held
<1>7. SizeInv(t)'
  BY <1>0, <1>1, <1>2 DEF SizeInv, NoJournal
<1>8. CountInv(t)'
  BY <1>0, <1>1, <1>2 DEF CountInv, StateInv, Early
<1>9. WholeInv(t)'
  BY <1>0, <1>1, <1>2 DEF WholeInv, Stranger
<1>10. QED
  BY <1>3, <1>4, <1>5, <1>6, <1>7, <1>8, <1>9, FromOne

(* What a worker leaves its job in.                                        *)
LEMMA SettleIs ==
  ASSUME TypeInv, NEW t \in Tasks, worker[t].result # "none", Settle(t)
  PROVE  /\ job' \in [Tasks -> JobType]
         /\ job'[t].state \in {"DONE", "PAUSED", "FAILED", "CANCELED"}
         /\ job'[t].state = "DONE" => worker[t].result = "ok"
         /\ job'[t].state \in {"PAUSED", "FAILED"} => worker[t].result \in {"paused", "error"}
         /\ job'[t].state = "PAUSED" => worker[t].result = "paused"
         /\ job'[t].total = job[t].total
         /\ worker[t].result # "ok" => job'[t].done = job[t].done
<1> DEFINE n == IF worker[t].result = "ok" /\ job[t].total # 0 THEN job[t].total ELSE job[t].done
           o == Outcome(t)
<1>1. job \in [Tasks -> JobType] /\ job[t] \in JobType
  BY JobField
<1>2. n \in 0 .. MaxDone
  BY JobField, Limits
<1>3. worker[t].result \in {"ok", "error", "canceled", "paused"}
  BY WorkerField
<1>4. /\ o \in {"DONE", "PAUSED", "FAILED", "CANCELED"}
      /\ o = "DONE" => worker[t].result = "ok"
      /\ o \in {"PAUSED", "FAILED"} => worker[t].result \in {"paused", "error"}
      /\ o = "PAUSED" => worker[t].result = "paused"
  BY <1>3 DEF Outcome
<1>5. job' = [job EXCEPT ![t].state = o, ![t].done = n]
  BY <1>1 DEF Settle
<1>6. worker[t].result # "ok" => n = job[t].done
  OBVIOUS
<1> HIDE DEF n, o
<1>7. /\ job' \in [Tasks -> JobType] /\ job'[t].state = o
      /\ job'[t].done = n /\ job'[t].total = job[t].total
  BY <1>1, <1>2, <1>4, <1>5 DEF JobType
<1>8. QED
  BY <1>4, <1>6, <1>7

LEMMA SettleKeeps == ASSUME Alone, IInv, NEW t \in Tasks, Settle(t) PROVE IInv'
<1>0. /\ TypeInv /\ FileInv /\ JournalInv
      /\ StateInv(t) /\ SizeInv(t) /\ CountInv(t) /\ WholeInv(t)
      /\ up /\ worker[t].pc = "settle"
  BY Parts DEF Settle, At
<1>1. /\ UNCHANGED <<disk, handler, up>> /\ worker' = [worker EXCEPT ![t] = NoWorker]
      /\ dst' = dst /\ part' = part /\ file' = file /\ journal' = journal
  BY DEF Settle, disk
<1>2. worker' \in [Tasks -> WorkerType] /\ worker'[t] = NoWorker
  BY <1>0, <1>1, WorkerTo, NoWorkerIs
<1>3. worker[t].result # "none"
  BY <1>0 DEF StateInv
<1>4. /\ job' \in [Tasks -> JobType]
      /\ job'[t].state \in {"DONE", "PAUSED", "FAILED", "CANCELED"}
      /\ job'[t].state \in {"PAUSED", "FAILED"} => worker[t].result \in {"paused", "error"}
      /\ job'[t].state = "PAUSED" => worker[t].result = "paused"
      /\ job'[t].total = job[t].total
      /\ worker[t].result # "ok" => job'[t].done = job[t].done
  BY <1>0, <1>3, SettleIs
<1>5. TypeInv'
  BY <1>0, <1>1, <1>2, <1>4 DEF TypeInv
<1>6. FileInv'
  BY <1>0, <1>1, FileFrame
<1>7. JournalInv'
  BY <1>0, <1>1, <1>2, <1>4, NoWorkerIs, JournalFrame DEF Secured, Fetching
<1>8. StateInv(t)'
  BY <1>0, <1>1, <1>2, <1>4, NoWorkerIs DEF StateInv, Early, Held
<1>9. SizeInv(t)'
  BY <1>0, <1>1, <1>2, <1>4, NoWorkerIs DEF SizeInv
<1>10. CountInv(t)'
  BY <1>0, <1>1, <1>2, <1>4, NoWorkerIs DEF CountInv, Early, Size
<1>11. WholeInv(t)'
  BY <1>2, NoWorkerIs DEF WholeInv
<1>12. QED
  BY <1>5, <1>6, <1>7, <1>8, <1>9, <1>10, <1>11, FromOne

-----------------------------------------------------------------------------
(* The handlers.                                                           *)
LEMMA AskKeeps == ASSUME Alone, IInv, NEW t \in Tasks, Ask(t) PROVE IInv'
<1>0. /\ TypeInv /\ FileInv /\ JournalInv
      /\ StateInv(t) /\ SizeInv(t) /\ CountInv(t) /\ WholeInv(t)
      /\ up /\ handler = "idle" /\ job[t].state = "NONE" /\ worker[t].pc = "idle"
      /\ worker[t].fd = NoFile
  <2>1. /\ TypeInv /\ FileInv /\ JournalInv
        /\ StateInv(t) /\ SizeInv(t) /\ CountInv(t) /\ WholeInv(t)
        /\ up /\ handler = "idle" /\ job[t].state = "NONE"
    BY Parts DEF Ask, HandlerFree
  <2>2. QED
    BY <2>1 DEF StateInv, Held, Early
<1>1. /\ UNCHANGED <<disk, handler, up>>
      /\ dst' = dst /\ part' = part /\ file' = file /\ journal' = journal
  BY DEF Ask, disk
<1>2. /\ worker' \in [Tasks -> WorkerType] /\ worker'[t].pc = "start"
      /\ worker'[t].fd = worker[t].fd
  BY <1>0, GotoIs DEF Ask, Points
<1>3. /\ job' \in [Tasks -> JobType] /\ job'[t].state = "QUEUED"
      /\ job'[t].done = job[t].done /\ job'[t].total = job[t].total
  BY <1>0, StateIs DEF Ask
<1>4. job[t].done = 0 /\ job[t].total = 0
  BY <1>0, NoJobIs DEF StateInv
<1>5. TypeInv'
  BY <1>0, <1>1, <1>2, <1>3 DEF TypeInv
<1>6. FileInv'
  BY <1>0, <1>1, FileFrame
<1>7. JournalInv'
  BY <1>2, <1>3, JournalOne DEF Secured, Fetching
<1>8. StateInv(t)'
  BY <1>0, <1>1, <1>2, <1>3 DEF StateInv, Early, Held
<1>9. SizeInv(t)'
  BY <1>0, <1>1, <1>2, <1>3 DEF SizeInv
<1>10. CountInv(t)'
  BY <1>2, <1>3, <1>4 DEF CountInv, Early
<1>11. WholeInv(t)'
  BY <1>2 DEF WholeInv
<1>12. QED
  BY <1>5, <1>6, <1>7, <1>8, <1>9, <1>10, <1>11, FromOne

(* A flag that is raised.                                                  *)
LEMMA FlagKeeps ==
  ASSUME Alone, IInv, NEW t \in Tasks, job[t].state \in {"QUEUED", "RUNNING"},
         UNCHANGED <<disk, worker, handler, up>>,
         \/ job' = [job EXCEPT ![t].cancel = TRUE]
         \/ job' = [job EXCEPT ![t].pause = TRUE]
  PROVE  IInv'
<1>0. /\ TypeInv /\ FileInv /\ JournalInv
      /\ StateInv(t) /\ SizeInv(t) /\ CountInv(t) /\ WholeInv(t)
  BY Parts
<1>1. /\ dst' = dst /\ part' = part /\ file' = file /\ journal' = journal
      /\ worker' = worker /\ handler' = handler /\ up' = up
  BY DEF disk
<1>2. /\ job' \in [Tasks -> JobType] /\ job'[t].state = job[t].state
      /\ job'[t].done = job[t].done /\ job'[t].total = job[t].total
  <2>1. job \in [Tasks -> JobType] /\ job[t] \in JobType
    BY <1>0, JobField
  <2>2. CASE job' = [job EXCEPT ![t].cancel = TRUE]
    BY <2>1, <2>2 DEF JobType
  <2>3. CASE job' = [job EXCEPT ![t].pause = TRUE]
    BY <2>1, <2>3 DEF JobType
  <2>4. QED
    BY <2>2, <2>3
<1>3. TypeInv'
  BY <1>0, <1>1, <1>2 DEF TypeInv
<1>4. FileInv'
  BY <1>0, <1>1, FileFrame
<1>5. JournalInv'
  BY <1>0, <1>1, <1>2, JournalFrame DEF Secured, Fetching
<1>6. StateInv(t)'
  <2>1. job[t] # NoJob
    BY NoJobIs
  <2>2. QED
    BY <1>0, <1>1, <1>2, <2>1 DEF StateInv
<1>7. SizeInv(t)'
  BY <1>0, <1>1, <1>2 DEF SizeInv, Size
<1>8. CountInv(t)'
  BY <1>0, <1>1, <1>2 DEF CountInv, Size
<1>9. WholeInv(t)'
  BY <1>0, <1>1, <1>2 DEF WholeInv, Complete, Size, Stranger
<1>10. QED
  BY <1>3, <1>4, <1>5, <1>6, <1>7, <1>8, <1>9, FromOne

(* A job that is idle goes to another resting state, or is forgotten.      *)
LEMMA RestKeeps ==
  ASSUME Alone, IInv, NEW t \in Tasks, up, handler = "idle", worker[t].pc = "idle",
         UNCHANGED <<disk, worker, up>>, job' \in [Tasks -> JobType],
         job'[t].state = "CANCELED" \/ job'[t] = NoJob,
         job'[t].total \in {0, job[t].total},
         handler' = "idle" \/ (handler' = "rmpart" /\ job'[t].state = "CANCELED")
  PROVE  IInv'
<1>0. /\ TypeInv /\ FileInv /\ JournalInv
      /\ StateInv(t) /\ SizeInv(t) /\ CountInv(t) /\ WholeInv(t)
  BY Parts
<1>1. /\ dst' = dst /\ part' = part /\ file' = file /\ journal' = journal
      /\ worker' = worker /\ up' = up
  BY DEF disk
<1>2. job'[t].state \in {"NONE", "CANCELED"} /\ (job'[t].state = "NONE" => job'[t] = NoJob)
  BY NoJobIs
<1>3. TypeInv'
  BY <1>0, <1>1 DEF TypeInv
<1>4. FileInv'
  BY <1>0, <1>1, FileFrame
<1>5. JournalInv'
  BY <1>1, <1>2, JournalOne DEF Secured, Fetching
<1>6. StateInv(t)'
  BY <1>0, <1>1, <1>2 DEF StateInv, Early, Held
<1>7. SizeInv(t)'
  BY <1>0, <1>1 DEF SizeInv
<1>8. CountInv(t)'
  BY <1>1, <1>2 DEF CountInv, Early
<1>9. WholeInv(t)'
  BY <1>1 DEF WholeInv
<1>10. QED
  BY <1>3, <1>4, <1>5, <1>6, <1>7, <1>8, <1>9, FromOne

LEMMA CancelKeeps == ASSUME Alone, IInv, NEW t \in Tasks, Cancel(t) PROVE IInv'
<1>0. /\ TypeInv /\ StateInv(t) /\ up /\ handler = "idle" /\ UNCHANGED <<disk, worker, up>>
  BY Parts DEF Cancel, HandlerFree
<1>1. CASE /\ job[t].state \in {"QUEUED", "RUNNING"}
           /\ job' = [job EXCEPT ![t].cancel = TRUE]
           /\ UNCHANGED handler
  BY <1>0, <1>1, FlagKeeps
<1>2. CASE /\ job[t].state \in {"PAUSED", "FAILED"}
           /\ job' = [job EXCEPT ![t].cancel = TRUE, ![t].state = "CANCELED"]
           /\ handler' = "rmpart"
  <2>1. job \in [Tasks -> JobType] /\ job[t] \in JobType
    BY <1>0, JobField
  <2>2. job' \in [Tasks -> JobType] /\ job'[t].state = "CANCELED" /\ job'[t].total = job[t].total
    BY <1>2, <2>1 DEF JobType
  <2>3. worker[t].pc = "idle"
    BY <1>0, <1>2 DEF StateInv
  <2>4. QED
    BY <1>0, <1>2, <2>2, <2>3, RestKeeps
<1>3. QED
  BY <1>1, <1>2 DEF Cancel

LEMMA PauseKeeps == ASSUME Alone, IInv, NEW t \in Tasks, Pause(t) PROVE IInv'
BY FlagKeeps DEF Pause

LEMMA ForgetKeeps == ASSUME Alone, IInv, NEW t \in Tasks, Forget(t) PROVE IInv'
<1>0. /\ TypeInv /\ StateInv(t) /\ up /\ handler = "idle" /\ UNCHANGED <<disk, worker, handler, up>>
      /\ job[t].state \in {"DONE", "FAILED", "CANCELED"} /\ job' = [job EXCEPT ![t] = NoJob]
  BY Parts DEF Forget, HandlerFree
<1>1. job' \in [Tasks -> JobType] /\ job'[t] = NoJob /\ job'[t].total = 0
  BY <1>0, JobTo, NoJobIs
<1>2. worker[t].pc = "idle"
  BY <1>0 DEF StateInv
<1>3. QED
  BY <1>0, <1>1, <1>2, RestKeeps

LEMMA ResumeOrRetryKeeps == ASSUME Alone, IInv, NEW t \in Tasks, ResumeOrRetry(t) PROVE IInv'
<1>0. /\ TypeInv /\ FileInv /\ JournalInv
      /\ StateInv(t) /\ SizeInv(t) /\ CountInv(t) /\ WholeInv(t)
      /\ up /\ handler = "idle" /\ job[t].state \in {"PAUSED", "FAILED"}
  BY Parts DEF ResumeOrRetry, HandlerFree
<1>1. /\ UNCHANGED <<disk, handler, up>> /\ worker[t].pc = "idle" /\ worker[t].fd = NoFile
      /\ dst' = dst /\ part' = part /\ file' = file /\ journal' = journal
  BY <1>0 DEF ResumeOrRetry, disk, StateInv, Held, Early
<1>2. /\ worker' \in [Tasks -> WorkerType] /\ worker'[t].pc = "start"
      /\ worker'[t].fd = worker[t].fd
  BY <1>0, GotoIs DEF ResumeOrRetry, Points
<1>3. /\ job' \in [Tasks -> JobType] /\ job'[t].state = "QUEUED"
      /\ job'[t].done = job[t].done /\ job'[t].total = job[t].total
  <2>1. job \in [Tasks -> JobType] /\ job[t] \in JobType
    BY <1>0, JobField
  <2>2. QED
    BY <2>1 DEF ResumeOrRetry, JobType
<1>4. TypeInv'
  BY <1>0, <1>1, <1>2, <1>3 DEF TypeInv
<1>5. FileInv'
  BY <1>0, <1>1, FileFrame
<1>6. JournalInv'
  BY <1>2, <1>3, JournalOne DEF Secured, Fetching
<1>7. StateInv(t)'
  BY <1>0, <1>1, <1>2, <1>3 DEF StateInv, Early, Held
<1>8. SizeInv(t)'
  BY <1>0, <1>1, <1>2, <1>3 DEF SizeInv
<1>9. CountInv(t)'
  BY <1>0, <1>1, <1>2, <1>3 DEF CountInv, Early, Size
<1>10. WholeInv(t)'
  BY <1>2 DEF WholeInv
<1>11. QED
  BY <1>4, <1>5, <1>6, <1>7, <1>8, <1>9, <1>10, FromOne

LEMMA DiscardKeeps == ASSUME Alone, IInv, Discard PROVE IInv'
<1>1. PICK t \in Tasks : \A u \in Tasks : u = t
  BY DEF Alone
<1>2. /\ TypeInv /\ FileInv /\ JournalInv
      /\ StateInv(t) /\ SizeInv(t) /\ CountInv(t) /\ WholeInv(t)
      /\ up /\ handler # "idle" /\ UNCHANGED <<dst, file, job, worker, up>>
  BY Parts DEF Discard
<1>3. worker[t].pc = "idle" /\ job[t].state = "CANCELED"
  BY <1>2 DEF StateInv
<1>4. /\ part' \in {part, NoFile} /\ journal' \in {journal, NoJournal}
      /\ handler' \in {"idle", "rmjournal"}
      /\ handler' = "idle" => journal' = NoJournal
  BY DEF Discard
<1>5. TypeInv'
  BY <1>2, <1>4 DEF TypeInv, Names
<1>6. FileInv'
  BY <1>2, <1>4 DEF FileInv, Prefix, Stranger, Size
<1>7. JournalInv'
  BY <1>2, <1>3, JournalOne DEF Secured, Fetching
<1>8. StateInv(t)'
  BY <1>2, <1>3, <1>4 DEF StateInv, Early, Held
<1>9. SizeInv(t)'
  BY <1>2, <1>3, <1>4 DEF SizeInv
<1>10. CountInv(t)'
  BY <1>2, <1>3 DEF CountInv, Early
<1>11. WholeInv(t)'
  BY <1>2, <1>3 DEF WholeInv
<1>12. QED
  BY <1>5, <1>6, <1>7, <1>8, <1>9, <1>10, <1>11, FromOne

LEMMA TakeNameKeeps == ASSUME Alone, IInv, TakeName PROVE IInv'
<1>1. PICK t \in Tasks : \A u \in Tasks : u = t
  BY DEF Alone
<1>2. PICK i \in Inodes : /\ Unused(i) /\ dst' = i
                          /\ file' = [file EXCEPT ![i] = [data |-> Foreign, durable |-> 1]]
  BY DEF TakeName
<1>3. /\ TypeInv /\ FileInv /\ JournalInv
      /\ StateInv(t) /\ SizeInv(t) /\ CountInv(t) /\ WholeInv(t)
      /\ dst = NoFile /\ UNCHANGED <<part, journal, job, worker, handler, up>>
  BY Parts DEF TakeName
<1> DEFINE x == [data |-> Foreign, durable |-> 1]
<1>4. x \in FileType /\ x.data = Foreign /\ x.durable = 1 /\ Len(x.data) = 1
  <2>1. Foreign \in Seq(0 .. N) /\ Len(Foreign) = 1
    BY Limits DEF Foreign
  <2>2. QED
    BY <2>1 DEF FileType
<1> HIDE DEF x
<1>5. /\ file' \in [Inodes -> FileType] /\ file'[i] = x
      /\ \A k \in Inodes \ {i} : file'[k] = file[k]
  BY <1>2, <1>3, <1>4, FileTo DEF x
<1>6. /\ i # part /\ worker[t].fd # i /\ dst' # NoFile
  BY <1>2, Limits DEF Unused
<1>7. Stranger(i)' /\ Size(i)' = 1
  BY <1>4, <1>5 DEF Stranger, Size
<1>8. \A k \in Inodes \ {i} : /\ Size(k)' = Size(k) /\ Prefix(k)' = Prefix(k)
                              /\ Stranger(k)' = Stranger(k)
  BY <1>5 DEF Size, Prefix, Stranger
<1>9. TypeInv'
  BY <1>2, <1>3, <1>5 DEF TypeInv, Names
<1>10. FileInv'
  <2>1. ASSUME NEW k \in Inodes
        PROVE  (Prefix(k)' \/ Stranger(k)') /\ file'[k].durable <= Size(k)'
    <3>1. CASE k = i
      <4>1. Stranger(k)' /\ file'[k].durable = 1 /\ Size(k)' = 1
        BY <1>4, <1>5, <1>7, <3>1 DEF Stranger, Size
      <4>2. QED
        BY <4>1
    <3>2. CASE k # i
      BY <1>3, <1>5, <1>8, <3>2 DEF FileInv
    <3>3. QED
      BY <3>1, <3>2
  <2>2. part' # NoFile => Prefix(part)'
    <3>1. part # NoFile => part \in Inodes \ {i} /\ Prefix(part)
      BY <1>3, <1>6 DEF FileInv, TypeInv, Names
    <3>2. QED
      BY <1>3, <1>5, <3>1 DEF Prefix, Size
  <2>3. Stranger(dst)'
    BY <1>2, <1>7 DEF Stranger
  <2>4. QED
    BY <2>1, <2>2, <2>3 DEF FileInv
<1>11. JournalInv'
  BY <1>6, JournalOne
<1>12. StateInv(t)'
  <2>1. worker[t].pc # "unlink" /\ worker[t].pc # "dirsync"
    BY <1>3, Limits DEF StateInv
  <2>2. Kept => worker[t].pc # "rename"
    BY <1>3 DEF StateInv, Kept, TakeName
  <2>3. QED
    BY <1>2, <1>3, <1>6, <2>1, <2>2 DEF StateInv
<1>13. worker[t].pc \in Early => /\ worker[t].fd \in Inodes \ {i}
                                 /\ Size(worker[t].fd)' = Size(worker[t].fd)
                                 /\ file'[worker[t].fd] = file[worker[t].fd]
  <2>1. worker[t].pc \in Early => worker[t].fd \in Inodes \ {i}
    BY <1>3, <1>6 DEF StateInv
  <2>2. QED
    BY <1>3, <1>5, <2>1 DEF Size
<1>14. SizeInv(t)'
  BY <1>3, <1>13 DEF SizeInv, Early
<1>15. CountInv(t)'
  BY <1>6 DEF CountInv
<1>16. WholeInv(t)'
  <2>1. Counted => /\ worker[t].pc = "rename" => file'[worker[t].fd].durable = N
                   /\ ~(\/ worker[t].pc = "dirsync"
                        \/ /\ worker[t].pc \in {"finish", "rmpart", "rmjournal", "settle"}
                           /\ worker[t].result = "ok")
    BY <1>3, <1>13 DEF WholeInv, Early
  <2>2. QED
    BY <1>3, <1>6, <2>1 DEF WholeInv
<1>17. QED
  BY <1>9, <1>10, <1>11, <1>12, <1>14, <1>15, <1>16, FromOne

-----------------------------------------------------------------------------
(* Crashes and restarts.                                                   *)
LEMMA CutIs ==
  ASSUME TypeInv, NEW i \in Inodes, NEW m \in 0 .. Size(i)
  PROVE  /\ SubSeq(file[i].data, 1, m) \in Seq(0 .. N)
         /\ Len(SubSeq(file[i].data, 1, m)) = m
         /\ \A k \in 1 .. m : SubSeq(file[i].data, 1, m)[k] = file[i].data[k]
         /\ m = Size(i) => SubSeq(file[i].data, 1, m) = file[i].data
<1>1. file[i].data \in Seq(0 .. N) /\ Size(i) \in Nat /\ Size(i) = Len(file[i].data)
  BY FileField DEF Size
<1>2. m \in Nat /\ m <= Size(i) /\ 1 \in Int /\ m \in Int
  BY <1>1
<1>3. \A k \in 1 .. m : file[i].data[k] \in 0 .. N
  <2>1. \A k \in 1 .. m : k \in 1 .. Len(file[i].data)
    BY <1>1, <1>2
  <2>2. QED
    BY <1>1, <2>1, ElementOfSeq
<1>4. /\ SubSeq(file[i].data, 1, m) \in Seq(0 .. N)
      /\ Len(SubSeq(file[i].data, 1, m)) = IF 1 <= m THEN m - 1 + 1 ELSE 0
      /\ \A k \in 1 .. m - 1 + 1 : SubSeq(file[i].data, 1, m)[k] = file[i].data[1 + k - 1]
  BY <1>2, <1>3, SubSeqProperties
<1>5. Len(SubSeq(file[i].data, 1, m)) = m
  BY <1>2, <1>4
<1>6. \A k \in 1 .. m : SubSeq(file[i].data, 1, m)[k] = file[i].data[k]
  BY <1>2, <1>4
<1>7. m = Size(i) => SubSeq(file[i].data, 1, m) = file[i].data
  BY <1>1, <1>4, <1>5, <1>6, SeqEqual
<1>8. QED
  BY <1>4, <1>5, <1>6, <1>7

(* What power loss leaves of the files.                                    *)
LostFrom(k) ==
  [i \in Inodes |->
     [file[i] EXCEPT !.data = SubSeq(@, 1, Least(Size(i), Greatest(k, file[i].durable)))]]

LEMMA LostIs ==
  ASSUME TypeInv, FileInv, NEW k \in 0 .. N, file' = LostFrom(k), NEW i \in Inodes
  PROVE  /\ file'[i] \in FileType /\ file'[i].durable = file[i].durable
         /\ file'[i].durable <= Size(i)' /\ Size(i)' <= Size(i)
         /\ Prefix(i) => Prefix(i)'
         /\ Size(i) = file[i].durable => file'[i].data = file[i].data
<1> DEFINE m == Least(Size(i), Greatest(k, file[i].durable))
           d == SubSeq(file[i].data, 1, m)
<1>1. file[i] \in FileType /\ file[i].durable \in Nat /\ Size(i) \in Nat /\ file[i].durable <= Size(i)
  BY FileField DEF FileInv
<1>2. /\ m \in 0 .. Size(i) /\ file[i].durable <= m
      /\ Size(i) = file[i].durable => m = Size(i)
  <2>1. k \in Nat /\ Size(i) \in Nat /\ file[i].durable \in Nat
    BY <1>1, Limits
  <2>2. QED
    BY <1>1, <2>1 DEF Least, Greatest
<1> HIDE DEF m
<1>3. /\ d \in Seq(0 .. N) /\ Len(d) = m
      /\ \A j \in 1 .. m : d[j] = file[i].data[j]
      /\ m = Size(i) => d = file[i].data
  BY <1>2, CutIs
<1> HIDE DEF d
<1>4. file'[i] = [file[i] EXCEPT !.data = d]
  BY DEF LostFrom, m, d
<1>5. file'[i] \in FileType /\ file'[i].data = d /\ file'[i].durable = file[i].durable
  BY <1>1, <1>3, <1>4 DEF FileType
<1>6. Size(i)' = m
  BY <1>3, <1>5 DEF Size
<1>7. Prefix(i) => Prefix(i)'
  <2>1. ASSUME Prefix(i)
        PROVE  Prefix(i)'
    <3>1. m <= N /\ \A j \in 1 .. m : j \in 1 .. Size(i)
      BY <1>1, <1>2, <2>1, Limits DEF Prefix
    <3>2. \A j \in 1 .. m : file'[i].data[j] = j
      BY <1>3, <1>5, <2>1, <3>1 DEF Prefix
    <3>3. QED
      BY <1>6, <3>1, <3>2 DEF Prefix
  <2>2. QED
    BY <2>1
<1>8. QED
  BY <1>1, <1>2, <1>3, <1>5, <1>6, <1>7

LEMMA CrashKeeps == ASSUME Alone, IInv, Crash PROVE IInv'
<1>1. PICK t \in Tasks : \A u \in Tasks : u = t
  BY DEF Alone
<1>2. /\ TypeInv /\ FileInv /\ JournalInv /\ StateInv(t) /\ SizeInv(t)
      /\ UNCHANGED <<dst, part, journal>> /\ CrashPoint /\ up' = FALSE /\ handler' = "idle"
      /\ job' = [u \in Tasks |-> NoJob] /\ worker' = [u \in Tasks |-> NoWorker]
  BY Parts DEF Crash
<1>3. file' = file \/ ("power" \in Faults /\ \E k \in 0 .. N : file' = LostFrom(k))
  BY DEF Crash, LostFrom
<1>4. /\ file' \in [Inodes -> FileType]
      /\ \A i \in Inodes : /\ (Prefix(i) => Prefix(i)') /\ (Stranger(i) => Stranger(i)')
                           /\ file'[i].durable <= Size(i)' /\ file'[i].durable = file[i].durable
  <2>1. CASE file' = file
    BY <1>2, <2>1 DEF TypeInv, FileInv, Prefix, Stranger, Size
  <2>2. ASSUME NEW k \in 0 .. N, file' = LostFrom(k)
        PROVE  /\ file' \in [Inodes -> FileType]
               /\ \A i \in Inodes : /\ (Prefix(i) => Prefix(i)') /\ (Stranger(i) => Stranger(i)')
                                    /\ file'[i].durable <= Size(i)'
                                    /\ file'[i].durable = file[i].durable
    <3>1. \A i \in Inodes : /\ file'[i] \in FileType /\ file'[i].durable = file[i].durable
                            /\ file'[i].durable <= Size(i)' /\ (Prefix(i) => Prefix(i)')
                            /\ (Size(i) = file[i].durable => file'[i].data = file[i].data)
      BY <1>2, <2>2, LostIs
    <3>2. \A i \in Inodes : Stranger(i) => Size(i) = file[i].durable
      BY StrangerIs DEF Stranger
    <3>3. \A i \in Inodes : Stranger(i) => Stranger(i)'
      BY <3>1, <3>2 DEF Stranger
    <3>4. file' = [i \in Inodes |-> file'[i]]
      BY <2>2 DEF LostFrom
    <3>5. file' \in [Inodes -> FileType]
      BY <3>1, <3>4
    <3>6. QED
      BY <3>1, <3>3, <3>5
  <2>3. QED
    BY <1>3, <2>1, <2>2
<1>5. job'[t] = NoJob /\ worker'[t] = NoWorker
  BY <1>2
<1>6. TypeInv'
  BY <1>2, <1>4, NoJobIs, NoWorkerIs DEF TypeInv
<1>7. FileInv'
  <2>1. \A i \in Inodes : (Prefix(i)' \/ Stranger(i)') /\ file'[i].durable <= Size(i)'
    BY <1>2, <1>4 DEF FileInv
  <2>2. part # NoFile => part \in Inodes /\ Prefix(part)
    BY <1>2 DEF FileInv, TypeInv, Names
  <2>3. part' # NoFile => Prefix(part)'
    BY <1>2, <1>4, <2>2 DEF Prefix, Size
  <2>4. dst # NoFile => dst \in Inodes
    BY <1>2 DEF TypeInv, Names
  <2>5. Counted /\ dst # NoFile => Stranger(dst)' \/ (Prefix(dst)' /\ file'[dst].durable = N)
    BY <1>2, <1>4, <2>4 DEF FileInv, Prefix, Stranger, Size
  <2>6. QED
    BY <1>2, <2>1, <2>3, <2>5 DEF FileInv
<1>8. JournalInv'
  BY <1>5, NoJobIs, NoWorkerIs, JournalOne DEF Secured, Fetching
<1>9. StateInv(t)'
  BY <1>2, <1>5, NoJobIs, NoWorkerIs DEF StateInv, Early, Held
<1>10. SizeInv(t)'
  BY <1>2, <1>5, NoJobIs, NoWorkerIs DEF SizeInv
<1>11. CountInv(t)' /\ WholeInv(t)'
  BY <1>5, NoJobIs, NoWorkerIs DEF CountInv, WholeInv, Early
<1>12. QED
  BY <1>6, <1>7, <1>8, <1>9, <1>10, <1>11, FromOne

LEMMA RestartKeeps == ASSUME Alone, IInv, Restart PROVE IInv'
<1>1. PICK t \in Tasks : \A u \in Tasks : u = t
  BY DEF Alone
<1>2. /\ TypeInv /\ FileInv /\ JournalInv
      /\ StateInv(t) /\ SizeInv(t) /\ CountInv(t) /\ WholeInv(t)
      /\ ~up /\ up' = TRUE /\ UNCHANGED <<dst, part, journal, handler>>
  BY Parts DEF Restart
<1>3. worker[t].pc = "idle" /\ worker[t].fd = NoFile /\ job[t] = NoJob /\ handler = "idle"
  BY <1>2 DEF StateInv, Held, Early
<1>4. ASSUME Restorable,
             job' = [job EXCEPT ![t] = [NoJob EXCEPT !.state = "QUEUED", !.done = journal.done,
                                          !.total = journal.total, !.ckpt = journal.done]],
             Goto(t, "start"),
             file' = IF Size(part) > journal.done
                     THEN [file EXCEPT ![part] = [data |-> SubSeq(@.data, 1, journal.done),
                                                  durable |-> journal.done]]
                     ELSE file
      PROVE  IInv'
  <2>1. /\ journal \in [done : 0 .. MaxDone, total : {0, N}] /\ dst = NoFile
        /\ part \in Inodes /\ part # NoFile /\ Prefix(part)
        /\ Size(part) \in Nat /\ journal.done \in 0 .. Size(part)
        /\ file[part].durable <= Size(part)
    <3>1. /\ journal \in [done : 0 .. MaxDone, total : {0, N}] /\ dst = NoFile
          /\ part \in Inodes /\ part # NoFile /\ Size(part) >= journal.done
      BY <1>2, <1>4 DEF Restorable, TypeInv, Names
    <3>2. Prefix(part) /\ file[part].durable <= Size(part) /\ Size(part) \in Nat
      BY <1>2, <3>1, FileField DEF FileInv
    <3>3. journal.done \in Nat
      BY <3>1
    <3>4. QED
      BY <3>1, <3>2, <3>3
  <2> DEFINE n == journal.done
             d == SubSeq(file[part].data, 1, n)
             f == [data |-> d, durable |-> n]
             y == [NoJob EXCEPT !.state = "QUEUED", !.done = n, !.total = journal.total, !.ckpt = n]
  <2>2. /\ d \in Seq(0 .. N) /\ Len(d) = n
        /\ \A k \in 1 .. n : d[k] = file[part].data[k]
    BY <1>2, <2>1, CutIs
  <2>3. y \in JobType /\ y.state = "QUEUED" /\ y.done = n /\ y.total = journal.total
    BY <2>1, NoJobIs DEF JobType
  <2>4. f \in FileType /\ f.data = d /\ f.durable = n
    BY <2>1, <2>2 DEF FileType
  <2>5. job' = [job EXCEPT ![t] = y]
    BY <1>4
  <2>6. file' = IF Size(part) > n THEN [file EXCEPT ![part] = f] ELSE file
    BY <1>4
  <2> HIDE DEF d, f, y
  <2>7. job' \in [Tasks -> JobType] /\ job'[t] = y
    BY <1>2, <2>3, <2>5, JobTo
  <2>8. /\ worker' \in [Tasks -> WorkerType] /\ worker'[t].pc = "start"
        /\ worker'[t].fd = worker[t].fd
    BY <1>2, <1>4, GotoIs DEF Points
  <2>9. /\ file' \in [Inodes -> FileType] /\ Size(part)' = n /\ Prefix(part)'
        /\ file'[part].durable <= n
        /\ \A k \in Inodes \ {part} : file'[k] = file[k]
    <3>1. part' = part
      BY <1>2
    <3>2. CASE Size(part) > n
      <4>1. /\ file' \in [Inodes -> FileType] /\ file'[part] = f
            /\ \A k \in Inodes \ {part} : file'[k] = file[k]
        BY <1>2, <2>1, <2>4, <2>6, <3>2, FileTo
      <4>2. Size(part)' = n /\ file'[part].durable = n
        BY <2>2, <2>4, <3>1, <4>1 DEF Size
      <4>3. n \in Nat /\ n <= N /\ \A k \in 1 .. n : k \in 1 .. Size(part)
        BY <2>1, Limits DEF Prefix
      <4>4. \A k \in 1 .. n : file'[part].data[k] = k
        BY <2>1, <2>2, <2>4, <4>1, <4>3 DEF Prefix
      <4>5. Prefix(part)'
        BY <3>1, <4>2, <4>3, <4>4 DEF Prefix
      <4>6. QED
        BY <4>1, <4>2, <4>3, <4>5
    <3>3. CASE ~(Size(part) > n)
      <4>1. file' = file /\ Size(part) = n
        BY <2>1, <2>6, <3>3
      <4>2. QED
        BY <1>2, <2>1, <3>1, <4>1 DEF TypeInv, Prefix, Size
    <3>4. QED
      BY <3>2, <3>3
  <2>10. TypeInv'
    BY <1>2, <2>7, <2>8, <2>9 DEF TypeInv
  <2>11. FileInv'
    <3>1. \A k \in Inodes \ {part} : /\ Size(k)' = Size(k) /\ Prefix(k)' = Prefix(k)
                                     /\ Stranger(k)' = Stranger(k)
      BY <2>9 DEF Size, Prefix, Stranger
    <3>2. ASSUME NEW k \in Inodes
          PROVE  (Prefix(k)' \/ Stranger(k)') /\ file'[k].durable <= Size(k)'
      <4>1. CASE k = part
        <5>1. Prefix(k)' /\ Size(k)' = n /\ file'[k].durable <= n
          BY <1>2, <2>9, <4>1 DEF Prefix, Size
        <5>2. QED
          BY <5>1
      <4>2. CASE k # part
        BY <1>2, <2>9, <3>1, <4>2 DEF FileInv
      <4>3. QED
        BY <4>1, <4>2
    <3>3. QED
      BY <1>2, <2>1, <2>9, <3>2 DEF FileInv
  <2>12. JournalInv'
    BY <2>3, <2>7, <2>8, JournalOne DEF Secured, Fetching
  <2>13. StateInv(t)'
    BY <1>2, <1>3, <2>3, <2>7, <2>8 DEF StateInv, Early, Held
  <2>14. SizeInv(t)'
    <3>1. journal # NoJournal
      BY <1>4 DEF Restorable
    <3>2. QED
      BY <1>2, <2>3, <2>7, <2>8, <3>1 DEF SizeInv
  <2>15. CountInv(t)'
    <3>1. Size(part)' = job'[t].done
      BY <2>3, <2>7, <2>9
    <3>2. QED
      BY <1>2, <2>1, <2>3, <2>7, <2>8, <3>1 DEF CountInv, Early
  <2>16. WholeInv(t)'
    BY <2>8 DEF WholeInv
  <2>17. QED
    BY <2>10, <2>11, <2>12, <2>13, <2>14, <2>15, <2>16, FromOne
<1>5. ASSUME UNCHANGED <<job, worker, file>>
      PROVE  IInv'
  <2>1. TypeInv' /\ FileInv'
    BY <1>2, <1>5, FileFrame DEF TypeInv
  <2>2. JournalInv'
    BY <1>2, <1>5, JournalFrame DEF disk, Secured
  <2>3. StateInv(t)'
    BY <1>2, <1>5 DEF StateInv
  <2>4. SizeInv(t)'
    BY <1>2, <1>5 DEF SizeInv, Size
  <2>5. CountInv(t)'
    BY <1>2, <1>5 DEF CountInv, Size
  <2>6. WholeInv(t)'
    BY <1>2, <1>3, <1>5 DEF WholeInv
  <2>7. QED
    BY <2>1, <2>2, <2>3, <2>4, <2>5, <2>6, FromOne
<1>6. QED
  BY <1>1, <1>4, <1>5 DEF Restart

-----------------------------------------------------------------------------
(* Every step keeps the invariant.                                         *)
LEMMA WorkKeeps == ASSUME Alone, IInv, NEW t \in Tasks, Work(t) PROVE IInv'
BY StartKeeps, OpenPartKeeps, FirstJournalKeeps, RequestKeeps, RejournalKeeps, SetTotalKeeps,
   ReadChunkKeeps, LeaveLoopKeeps, CheckpointKeeps, JudgeKeeps, SyncKeeps, PublishKeeps,
   UnlinkPartKeeps, RenameKeeps, SyncParentKeeps, FinishKeeps, RemovePartKeeps,
   RemoveJournalKeeps, SettleKeeps DEF Work

LEMMA StutterKeeps == ASSUME IInv, UNCHANGED vars PROVE IInv'
<1>1. /\ dst' = dst /\ part' = part /\ file' = file /\ journal' = journal
      /\ job' = job /\ worker' = worker /\ handler' = handler /\ up' = up
  BY DEF vars
<1>2. TypeInv /\ FileInv /\ JournalInv /\ \A t \in Tasks : JobInv(t)
  BY DEF IInv
<1>3. TypeInv' /\ FileInv'
  BY <1>1, <1>2, FileFrame DEF TypeInv
<1>4. JournalInv'
  BY <1>1, <1>2 DEF JournalInv, Secured, Backed, Size
<1>5. ASSUME NEW t \in Tasks
      PROVE  JobInv(t)'
  <2>1. StateInv(t) /\ SizeInv(t) /\ CountInv(t) /\ WholeInv(t)
    BY <1>2 DEF JobInv
  <2>2. StateInv(t)' /\ SizeInv(t)' /\ CountInv(t)'
    BY <1>1, <2>1 DEF StateInv, SizeInv, CountInv, Size
  <2>3. WholeInv(t)'
    BY <1>1, <2>1 DEF WholeInv, Complete, Size, Stranger
  <2>4. QED
    BY <2>2, <2>3 DEF JobInv
<1>6. QED
  BY <1>3, <1>4, <1>5 DEF IInv

LEMMA NextKeeps == ASSUME Alone, IInv, [Next]_vars PROVE IInv'
<1>1. ASSUME NEW t \in Tasks, User(t)
      PROVE  IInv'
  BY <1>1, AskKeeps, CancelKeeps, PauseKeeps, ResumeOrRetryKeeps, ForgetKeeps DEF User
<1>2. QED
  BY <1>1, WorkKeeps, DiscardKeeps, TakeNameKeeps, CrashKeeps, RestartKeeps, StutterKeeps DEF Next

LEMMA Invariance == ASSUME Alone PROVE Spec => []IInv
<1>1. Init => IInv
  BY InitHolds
<1>2. IInv /\ [Next]_vars => IInv'
  BY NextKeeps
<1>3. QED
  BY <1>1, <1>2, PTL DEF Spec

-----------------------------------------------------------------------------
(* The invariants.                                                         *)

(* A beginning of the remote file as long as the file is the whole file.   *)
LEMMA WholeIs ==
  ASSUME TypeInv, NEW i \in Inodes, Prefix(i), Size(i) = N
  PROVE  file[i].data = Whole
<1>1. file[i].data \in Seq(0 .. N) /\ Len(file[i].data) = N /\ N \in Nat
  BY FileField, Limits DEF Size
<1>2. Whole \in Seq(0 .. N) /\ Len(Whole) = N /\ \A k \in 1 .. N : Whole[k] = k
  <2>1. Whole \in [1 .. N -> 0 .. N]
    BY <1>1 DEF Whole
  <2>2. QED
    BY <1>1, <2>1 DEF Whole
<1>3. \A k \in 1 .. Len(file[i].data) : file[i].data[k] = Whole[k]
  BY <1>1, <1>2 DEF Prefix
<1>4. QED
  BY <1>1, <1>2, <1>3, SeqEqual

LEMMA DestinationIs ==
  ASSUME IInv, Counted, dst # NoFile, ~Stranger(dst)
  PROVE  file[dst].data = Whole /\ file[dst].durable = N
<1>1. TypeInv /\ FileInv /\ dst \in Inodes
  BY DEF IInv, TypeInv, Names
<1>2. Prefix(dst) /\ file[dst].durable = N /\ file[dst].durable <= Size(dst)
  BY <1>1 DEF FileInv
<1>3. Size(dst) = N
  BY <1>1, <1>2, FileField, Limits DEF Prefix
<1>4. QED
  BY <1>1, <1>2, <1>3, WholeIs

(* The final name never stands for a partial file, and once it is used the *)
(* whole file is on the medium: for one job at a time, and a server whose  *)
(* answers have a length that is compared with all of the file whenever    *)
(* the network may cut them short.                                         *)
THEOREM NameIsWhole == ASSUME Alone, Counted PROVE Spec => []PublishedIsWhole
<1>1. ASSUME IInv
      PROVE  PublishedIsWhole
  BY <1>1, DestinationIs DEF PublishedIsWhole, Published, Stranger
<1>2. QED
  BY <1>1, Invariance, PTL

LEMMA Typing == ASSUME IInv PROVE TypeOK
<1>1. TypeInv /\ FileInv
  BY DEF IInv
<1>2. {dst, part} \subseteq Inodes \union {NoFile}
  BY <1>1 DEF TypeInv, Names
<1>3. \A i \in Inodes : file[i].data \in Seq(0 .. N) /\ file[i].durable \in 0 .. Len(file[i].data)
  <2>1. ASSUME NEW i \in Inodes
        PROVE  file[i].data \in Seq(0 .. N) /\ file[i].durable \in 0 .. Len(file[i].data)
    <3>1. file[i].data \in Seq(0 .. N) /\ file[i].durable \in Nat
          /\ file[i].durable <= Len(file[i].data) /\ Len(file[i].data) \in Nat
      BY <1>1, FileField DEF FileInv, Size
    <3>2. QED
      BY <3>1
  <2>2. QED
    BY <2>1
<1>4. /\ {0, N} \subseteq 0 .. MaxDone /\ 0 .. N \subseteq 0 .. MaxDone
      /\ 0 .. MaxDone \subseteq 0 .. MaxDone + 1 /\ MaxDone + 1 \in 0 .. MaxDone + 1
      /\ 0 \in 0 .. MaxDone
  BY Limits
<1>5. journal \in [done : 0 .. MaxDone, total : 0 .. MaxDone + 1]
  BY <1>1, <1>4 DEF TypeInv, NoJournal
<1>6. job \in [Tasks -> [state : {"NONE", "QUEUED", "RUNNING", "PAUSED", "DONE", "FAILED",
                                  "CANCELED"},
                         cancel : BOOLEAN, pause : BOOLEAN, done : 0 .. MaxDone,
                         total : 0 .. MaxDone, ckpt : 0 .. MaxDone]]
  BY <1>1, <1>4 DEF TypeInv, JobType
<1>7. worker \in [Tasks -> [pc : Points, fd : Inodes \union {NoFile}, append : BOOLEAN,
                            pos : 0 .. MaxDone, resume : 0 .. MaxDone, clen : 0 .. MaxDone,
                            next : 1 .. N + 1,
                            result : {"none", "ok", "error", "canceled", "paused"}]]
  BY <1>1, <1>4 DEF TypeInv, WorkerType, Names
<1>8. QED
  BY <1>1, <1>2, <1>3, <1>5, <1>6, <1>7 DEF TypeOK, TypeInv

(* The progress of a download towards an unused name is the size of its    *)
(* private file, and every variable has its type.                          *)
THEOREM ProgressHolds == ASSUME Alone PROVE Spec => []ProgressIsTrue
<1>1. ASSUME IInv
      PROVE  ProgressIsTrue
  <2>1. ASSUME NEW t \in Tasks, dst = NoFile,
               worker[t].pc \in {"body", "checkpoint", "ended", "sync", "publish"}
        PROVE  job[t].done = Size(worker[t].fd)
    BY <1>1, <2>1, Parts DEF CountInv, Early
  <2>2. QED
    BY <1>1, <2>1, Typing DEF ProgressIsTrue
<1>2. QED
  BY <1>1, Invariance, PTL

(* While a download fetches (past its first journal, and but for the gap   *)
(* between the truncation of a file whose range was ignored and the        *)
(* journal that says so) and while it is paused, there are a journal and a *)
(* private file that holds what it counts, whatever fails and whenever the *)
(* payload dies (download_url_to_file, write_download_journal).            *)
THEOREM FetchedIsKept == ASSUME Alone PROVE Spec => []ProgressIsKept
<1>1. ASSUME IInv
      PROVE  ProgressIsKept
  BY <1>1 DEF IInv, JournalInv, Secured, Backed, ProgressIsKept, Restorable
<1>2. QED
  BY <1>1, Invariance, PTL

-----------------------------------------------------------------------------
(* A download implements AtomicPublish.                                    *)
Answers == [t \in Tasks |-> Asked(job[t].state)]
Promise == <<Out, Answers>>

LEMMA AskedIs ==
  /\ Asked("NONE") = "none" /\ Asked("QUEUED") = "open" /\ Asked("RUNNING") = "open"
  /\ Asked("PAUSED") = "stopped" /\ Asked("FAILED") = "stopped" /\ Asked("CANCELED") = "stopped"
  /\ Asked("DONE") = "done"
BY DEF Asked

LEMMA OutIs ==
  ASSUME IInv, Counted
  PROVE  /\ dst = NoFile => Out = "absent"
         /\ dst # NoFile /\ Stranger(dst) => Out = "taken"
         /\ dst # NoFile /\ ~Stranger(dst) => Out = "whole"
<1>1. Whole # Foreign
  <2>1. Whole[1] = 1 /\ Foreign[1] = 0
    BY Limits DEF Whole, Foreign
  <2>2. QED
    BY <2>1
<1>2. QED
  BY <1>1, DestinationIs DEF Out, Stranger

LEMMA OutNext ==
  ASSUME Counted
  PROVE  (IInv => /\ dst # NoFile /\ Stranger(dst) => Out = "taken"
                  /\ dst # NoFile /\ ~Stranger(dst) => Out = "whole")'
<1>1. IInv => /\ dst # NoFile /\ Stranger(dst) => Out = "taken"
              /\ dst # NoFile /\ ~Stranger(dst) => Out = "whole"
  BY OutIs
<1>2. QED
  BY <1>1, PTL

LEMMA OutStays ==
  ASSUME dst' = dst, dst # NoFile => file'[dst].data = file[dst].data PROVE Out' = Out
BY DEF Out

LEMMA AnswersTo ==
  ASSUME NEW t \in Tasks, \A u \in Tasks : u = t
  PROVE  /\ Answers[t] = Asked(job[t].state)
         /\ Answers' = [Answers EXCEPT ![t] = Asked(job'[t].state)]
<1>1. Answers' = [u \in Tasks |-> Asked(job'[u].state)]
  BY DEF Answers
<1>2. Answers' = [u \in Tasks |-> Asked(job'[t].state)]
  BY <1>1
<1>3. [Answers EXCEPT ![t] = Asked(job'[t].state)] = [u \in Tasks |-> Asked(job'[t].state)]
  BY DEF Answers
<1>4. QED
  BY <1>2, <1>3 DEF Answers

LEMMA PromiseStays ==
  ASSUME NEW t \in Tasks, \A u \in Tasks : u = t, Out' = Out,
         Asked(job'[t].state) = Asked(job[t].state)
  PROVE  UNCHANGED Promise
<1>1. Answers' = Answers
  <2>1. Answers' = [u \in Tasks |-> Asked(job'[u].state)]
    BY DEF Answers
  <2>2. \A u \in Tasks : Asked(job'[u].state) = Asked(job[u].state)
    OBVIOUS
  <2>3. QED
    BY <2>1, <2>2 DEF Answers
<1>2. QED
  BY <1>1 DEF Promise

LEMMA PromiseMoves ==
  ASSUME NEW t \in Tasks, \A u \in Tasks : u = t, Out' = Out,
         \/ /\ Asked(job[t].state) = "none" /\ Out = "absent"
            /\ Asked(job'[t].state) = "open"
         \/ Asked(job[t].state) = "open" /\ Out = "whole" /\ Asked(job'[t].state) = "done"
         \/ Asked(job[t].state) = "open" /\ Asked(job'[t].state) = "stopped"
         \/ Asked(job[t].state) = "stopped" /\ Asked(job'[t].state) = "open"
         \/ Asked(job[t].state) \in {"stopped", "done"} /\ Asked(job'[t].state) = "none"
  PROVE  Publication!Next
<1>1. Answers[t] = Asked(job[t].state) /\ Answers' = [Answers EXCEPT ![t] = Asked(job'[t].state)]
  BY AnswersTo
<1>2. \/ Publication!Begin(t) \/ Publication!Complete(t) \/ Publication!Stop(t)
      \/ Publication!Again(t) \/ Publication!Forget(t)
  BY <1>1 DEF Answers, Publication!Begin, Publication!Complete, Publication!Stop,
              Publication!Again, Publication!Forget
<1>3. QED
  BY <1>2 DEF Publication!Next

(* A worker that has its file open writes to no published file.            *)
LEMMA WritesKeepOut ==
  ASSUME IInv, NEW t \in Tasks,
         OpenPart(t) \/ Request(t) \/ ReadChunk(t) \/ Sync(t)
  PROVE  Out' = Out
<1>1. TypeInv /\ dst' = dst /\ (dst # NoFile => dst \in Inodes)
      /\ file \in [Inodes -> FileType]
  BY DEF IInv, TypeInv, Names, OpenPart, Request, ReadChunk, Sync
<1>2. ASSUME NEW i \in Inodes, NEW x, i # dst, file' = [file EXCEPT ![i] = x]
      PROVE  Out' = Out
  <2>1. dst # NoFile => file'[dst].data = file[dst].data
    BY <1>1, <1>2
  <2>2. QED
    BY <1>1, <2>1, OutStays
<1>3. CASE file' = file
  BY <1>1, <1>3, OutStays
<1>4. CASE OpenPart(t)
  BY <1>2, <1>3, <1>4 DEF OpenPart, Unused
<1>5. worker[t].pc \in Early => worker[t].fd \in Inodes /\ worker[t].fd # dst
  BY PrivateIs
<1>6. CASE Request(t)
  <2>1. worker[t].pc \in Early
    BY <1>6 DEF Request, At, Early
  <2>2. QED
    BY <1>2, <1>3, <1>5, <1>6, <2>1 DEF Request
<1>7. CASE ReadChunk(t)
  <2>1. worker[t].pc \in Early
    BY <1>7 DEF ReadChunk, At, Early
  <2> DEFINE pos == IF worker[t].append THEN Size(worker[t].fd) ELSE worker[t].pos
             x == [file[worker[t].fd] EXCEPT
                     !.data = WriteAt(file[worker[t].fd].data, pos, worker[t].next)]
  <2>2. file' = [file EXCEPT ![worker[t].fd] = x]
    BY <1>7 DEF ReadChunk
  <2> HIDE DEF x
  <2>3. QED
    BY <1>2, <1>5, <2>1, <2>2
<1>8. CASE Sync(t)
  <2>1. worker[t].pc \in Early
    BY <1>8 DEF Sync, At, Early
  <2>2. QED
    BY <1>2, <1>3, <1>5, <1>8, <2>1 DEF Sync
<1>9. QED
  BY <1>4, <1>6, <1>7, <1>8

(* A worker changes the state of its job when it starts and when it ends.  *)
LEMMA WorkKeepsState ==
  ASSUME IInv, NEW t \in Tasks, Work(t), ~Start(t), ~Settle(t)
  PROVE  job'[t].state = job[t].state
<1>1. TypeInv /\ job \in [Tasks -> JobType] /\ job[t] \in JobType
  BY JobField DEF IInv
<1>2. ASSUME NEW x, x.state = job[t].state, job' = [job EXCEPT ![t] = x]
      PROVE  job'[t].state = job[t].state
  BY <1>1, <1>2
<1>3. CASE UNCHANGED job
  BY <1>3
<1>4. CASE OpenPart(t)
  <2>1. CASE job' = job
    BY <2>1
  <2>2. CASE job' = [job EXCEPT ![t] = Restarted(job[t], Size(part))]
    <3>1. Restarted(job[t], Size(part)).state = job[t].state
      BY <1>1 DEF Restarted, JobType
    <3>2. QED
      BY <1>2, <2>2, <3>1
  <2>3. QED
    BY <1>4, <2>1, <2>2 DEF OpenPart
<1>5. CASE Rejournal(t)
  <2>1. job' = [job EXCEPT ![t] = Restarted(job[t], 0)]
    BY <1>5 DEF Rejournal
  <2>2. Restarted(job[t], 0).state = job[t].state
    BY <1>1 DEF Restarted, JobType
  <2>3. QED
    BY <1>2, <2>1, <2>2
<1>6. CASE SetTotal(t)
  BY <1>1, <1>6 DEF SetTotal, JobType
<1>7. CASE ReadChunk(t)
  <2>1. job' = [job EXCEPT ![t] = Added(job[t])]
    BY <1>7 DEF ReadChunk
  <2>2. Added(job[t]).state = job[t].state
    BY <1>1 DEF Added, JobType
  <2>3. QED
    BY <1>2, <2>1, <2>2
<1>8. CASE Checkpoint(t)
  BY <1>1, <1>8 DEF Checkpoint, JobType
<1>9. \/ UNCHANGED job \/ Start(t) \/ Settle(t)
      \/ OpenPart(t) \/ Rejournal(t) \/ SetTotal(t) \/ ReadChunk(t) \/ Checkpoint(t)
  BY DEF Work, FirstJournal, Request, LeaveLoop, Judge, Sync, Publish, UnlinkPart, Rename,
     SyncParent, Finish, RemovePart, RemoveJournal
<1>10. QED
  BY <1>3, <1>4, <1>5, <1>6, <1>7, <1>8, <1>9

(* A name that gets the private file gets the whole of it.                 *)
LEMMA LandingIsPromised ==
  ASSUME IInv, IInv', Counted, NEW t \in Tasks, \A u \in Tasks : u = t,
         worker[t].pc \in Early, dst = NoFile, dst' = part, file' = file, job' = job
  PROVE  Publication!Next
<1>1. TypeInv /\ StateInv(t) /\ part # NoFile /\ ~Stranger(part)
  BY Parts, PrivateIs
<1>2. Out = "absent" /\ Out' = "whole"
  <2>1. ~Stranger(dst)'
    BY <1>1 DEF Stranger
  <2>2. QED
    BY <1>1, <2>1, OutIs, OutNext
<1>3. Answers[t] = "open" /\ Answers' = Answers
  <2>1. job[t].state \in {"QUEUED", "RUNNING"}
    BY <1>1, JobField DEF StateInv, Early
  <2>2. QED
    BY <2>1, AnswersTo, AskedIs DEF Answers
<1>4. Publication!Publish
  BY <1>2, <1>3 DEF Publication!Publish, Answers
<1>5. QED
  BY <1>4 DEF Publication!Next

LEMMA WorkIsPromised ==
  ASSUME IInv, IInv', Counted, Kept, NEW t \in Tasks, \A u \in Tasks : u = t, Work(t)
  PROVE  [Publication!Next]_Promise
<1>0. /\ TypeInv /\ StateInv(t) /\ WholeInv(t)
      /\ job[t].state \in {"NONE", "QUEUED", "RUNNING", "PAUSED", "DONE", "FAILED", "CANCELED"}
  BY Parts, JobField
<1>1. CASE Start(t)
  <2>1. UNCHANGED <<dst, file>> /\ job[t].state \in {"QUEUED", "RUNNING"}
    BY <1>0, <1>1 DEF Start, At, StateInv, disk
  <2>2. job'[t].state \in {"RUNNING", "CANCELED"}
    BY <1>0, <1>1, StateIs DEF Start
  <2>3. Out' = Out
    BY <2>1, OutStays
  <2>4. CASE job'[t].state = "RUNNING"
    BY <2>1, <2>3, <2>4, AskedIs, PromiseStays
  <2>5. CASE job'[t].state = "CANCELED"
    BY <2>1, <2>3, <2>5, AskedIs, PromiseMoves
  <2>6. QED
    BY <2>2, <2>4, <2>5
<1>2. CASE Settle(t)
  <2>1. UNCHANGED <<dst, file>> /\ worker[t].pc = "settle"
    BY <1>2 DEF Settle, At, disk
  <2>2. worker[t].result # "none" /\ job[t].state \in {"QUEUED", "RUNNING"}
    BY <1>0, <2>1 DEF StateInv
  <2>3. /\ job'[t].state \in {"DONE", "PAUSED", "FAILED", "CANCELED"}
        /\ job'[t].state = "DONE" => worker[t].result = "ok"
    BY <1>0, <1>2, <2>2, SettleIs
  <2>4. Out' = Out
    BY <2>1, OutStays
  <2>5. worker[t].result = "ok" => Out = "whole"
    BY <1>0, <2>1, OutIs DEF WholeInv
  <2>6. Asked(job[t].state) = "open"
    BY <2>2, AskedIs
  <2>7. CASE job'[t].state = "DONE"
    BY <2>3, <2>4, <2>5, <2>6, <2>7, AskedIs, PromiseMoves
  <2>8. CASE job'[t].state \in {"PAUSED", "FAILED", "CANCELED"}
    <3>1. Asked(job'[t].state) = "stopped"
      BY <2>8, AskedIs
    <3>2. QED
      BY <2>4, <2>6, <3>1, PromiseMoves
  <2>9. QED
    BY <2>3, <2>7, <2>8
<1>3. CASE Publish(t) \/ Rename(t)
  <2>1. /\ file' = file /\ job' = job /\ worker[t].pc \in Early /\ dst' \in {dst, part}
        /\ Publish(t) /\ dst' # dst => dst = NoFile
        /\ Rename(t) => worker[t].pc = "rename" /\ "nolink" \in Faults
    BY <1>0, <1>3 DEF Publish, Rename, At, Early, Linkable, StateInv
  <2>2. dst' # dst => dst = NoFile
    BY <1>0, <1>3, <2>1 DEF StateInv
  <2>3. CASE dst' = dst
    <3>1. Out' = Out
      BY <2>1, <2>3, OutStays
    <3>2. QED
      BY <2>1, <3>1, PromiseStays
  <2>4. CASE dst' # dst
    BY <2>1, <2>2, <2>4, LandingIsPromised
  <2>5. QED
    BY <2>3, <2>4
<1>4. CASE ~Start(t) /\ ~Settle(t) /\ ~Publish(t) /\ ~Rename(t)
  <2>1. job'[t].state = job[t].state
    BY <1>4, WorkKeepsState
  <2>2. Out' = Out
    <3>1. CASE OpenPart(t) \/ Request(t) \/ ReadChunk(t) \/ Sync(t)
      BY <3>1, WritesKeepOut
    <3>2. CASE UNCHANGED <<dst, file>>
      BY <3>2, OutStays
    <3>3. \/ OpenPart(t) \/ Request(t) \/ ReadChunk(t) \/ Sync(t)
          \/ UNCHANGED <<dst, file>>
      BY <1>4 DEF Work, FirstJournal, Rejournal, SetTotal, LeaveLoop, Checkpoint, Judge,
         UnlinkPart, SyncParent, Finish, RemovePart, RemoveJournal, disk
    <3>4. QED
      BY <3>1, <3>2, <3>3
  <2>3. QED
    BY <2>1, <2>2, PromiseStays
<1>5. QED
  BY <1>1, <1>2, <1>3, <1>4

LEMMA UserIsPromised ==
  ASSUME IInv, Counted, NEW t \in Tasks, \A u \in Tasks : u = t, User(t)
  PROVE  [Publication!Next]_Promise
<1>0. TypeInv /\ job \in [Tasks -> JobType] /\ job[t] \in JobType
  BY JobField DEF IInv
<1>1. Out' = Out
  <2>1. UNCHANGED <<dst, file>>
    BY DEF User, Ask, Cancel, Pause, ResumeOrRetry, Forget, disk
  <2>2. QED
    BY <2>1, OutStays
<1>2. CASE Ask(t)
  <2>1. job'[t].state = "QUEUED" /\ job[t].state = "NONE" /\ dst = NoFile
    BY <1>0, <1>2, StateIs DEF Ask
  <2>2. QED
    BY <1>1, <2>1, AskedIs, OutIs, PromiseMoves
<1>3. CASE Cancel(t)
  <2>1. \/ job'[t].state = job[t].state
        \/ job[t].state \in {"PAUSED", "FAILED"} /\ job'[t].state = "CANCELED"
    BY <1>0, <1>3 DEF Cancel, JobType
  <2>2. Asked(job'[t].state) = Asked(job[t].state)
    BY <2>1, AskedIs
  <2>3. QED
    BY <1>1, <2>2, PromiseStays
<1>4. CASE Pause(t)
  <2>1. job'[t].state = job[t].state
    BY <1>0, <1>4 DEF Pause, JobType
  <2>2. QED
    BY <1>1, <2>1, PromiseStays
<1>5. CASE ResumeOrRetry(t)
  <2>1. job'[t].state = "QUEUED" /\ job[t].state \in {"PAUSED", "FAILED"}
    BY <1>0, <1>5 DEF ResumeOrRetry, JobType
  <2>2. Asked(job[t].state) = "stopped" /\ Asked(job'[t].state) = "open"
    BY <2>1, AskedIs
  <2>3. QED
    BY <1>1, <2>2, PromiseMoves
<1>6. CASE Forget(t)
  <2>1. job'[t].state = "NONE" /\ job[t].state \in {"DONE", "FAILED", "CANCELED"}
    BY <1>0, <1>6, JobTo, NoJobIs DEF Forget
  <2>2. Asked(job[t].state) \in {"stopped", "done"} /\ Asked(job'[t].state) = "none"
    BY <2>1, AskedIs
  <2>3. QED
    BY <1>1, <2>2, PromiseMoves
<1>7. QED
  BY <1>2, <1>3, <1>4, <1>5, <1>6 DEF User

(* What power loss takes from the published file: nothing.                 *)
LEMMA CrashKeepsOut == ASSUME IInv, Counted, Crash PROVE Out' = Out
<1>1. TypeInv /\ FileInv /\ dst' = dst
  BY DEF IInv, Crash
<1>2. CASE file' = file
  BY <1>1, <1>2, OutStays
<1>3. ASSUME NEW k \in 0 .. N, file' = LostFrom(k)
      PROVE  Out' = Out
  <2>1. ASSUME dst # NoFile
        PROVE  dst \in Inodes /\ Size(dst) = file[dst].durable
    <3>1. dst \in Inodes
      BY <1>1, <2>1 DEF TypeInv, Names
    <3>2. CASE Stranger(dst)
      BY <3>1, <3>2, StrangerIs DEF Stranger
    <3>3. CASE ~Stranger(dst)
      <4>1. Prefix(dst) /\ file[dst].durable = N /\ file[dst].durable <= Size(dst)
        BY <1>1, <2>1, <3>1, <3>3 DEF FileInv
      <4>2. QED
        BY <1>1, <3>1, <4>1, FileField, Limits DEF Prefix
    <3>4. QED
      BY <3>1, <3>2, <3>3
  <2>2. dst # NoFile => file'[dst].data = file[dst].data
    BY <1>1, <1>3, <2>1, LostIs
  <2>3. QED
    BY <1>1, <2>2, OutStays
<1>4. QED
  BY <1>2, <1>3 DEF Crash, LostFrom

LEMMA StepIsPromised ==
  ASSUME Alone, Counted, Kept, IInv, IInv', [Next]_vars
  PROVE  [Publication!Next]_Promise
<1>1. PICK t \in Tasks : \A u \in Tasks : u = t
  BY DEF Alone
<1>2. TypeInv /\ StateInv(t)
  BY Parts
<1>3. CASE Work(t) \/ User(t)
  BY <1>1, <1>3, WorkIsPromised, UserIsPromised
<1>4. CASE Discard \/ UNCHANGED vars
  <2>1. UNCHANGED <<dst, file, job>>
    BY <1>4 DEF Discard, vars
  <2>2. Out' = Out
    BY <2>1, OutStays
  <2>3. QED
    BY <1>1, <2>1, <2>2, PromiseStays
<1>5. CASE TakeName
  <2>1. PICK i \in Inodes : /\ dst' = i /\ file' = [file EXCEPT ![i] = [data |-> Foreign, durable |-> 1]]
    BY <1>5 DEF TakeName
  <2>2. dst = NoFile /\ job' = job /\ file \in [Inodes -> FileType]
    BY <1>2, <1>5 DEF TakeName, TypeInv
  <2>3. Stranger(dst)' /\ dst' # NoFile
    BY <2>1, <2>2, Limits DEF Stranger
  <2>4. Out = "absent" /\ Out' = "taken"
    BY <2>2, <2>3, OutIs, OutNext
  <2>5. Answers' = Answers
    BY <2>2 DEF Answers
  <2>6. Publication!Take
    BY <2>4, <2>5 DEF Publication!Take, Answers
  <2>7. QED
    BY <2>6 DEF Publication!Next
<1>6. CASE Crash
  <2>1. Out' = Out
    BY <1>6, CrashKeepsOut
  <2>2. Answers' = [u \in Tasks |-> "none"]
    <3>1. job' = [u \in Tasks |-> NoJob]
      BY <1>6 DEF Crash
    <3>2. QED
      BY <3>1, NoJobIs, AskedIs DEF Answers
  <2>3. Publication!Crash
    BY <2>1, <2>2 DEF Publication!Crash, Answers
  <2>4. QED
    BY <2>3 DEF Publication!Next
<1>7. CASE Restart
  <2>1. /\ dst' = dst /\ job[t].state = "NONE"
        /\ file \in [Inodes -> FileType]
    BY <1>2, <1>7, NoJobIs DEF Restart, StateInv, TypeInv
  <2>2. CASE UNCHANGED <<job, file>>
    <3>1. Out' = Out
      BY <2>1, <2>2, OutStays
    <3>2. QED
      BY <1>1, <2>2, <3>1, PromiseStays
  <2>3. CASE /\ Restorable
             /\ job' = [job EXCEPT ![t] = [NoJob EXCEPT !.state = "QUEUED", !.done = journal.done,
                                             !.total = journal.total, !.ckpt = journal.done]]
    <3>1. dst = NoFile
      BY <2>3 DEF Restorable
    <3>2. Out' = Out /\ Out = "absent"
      BY <2>1, <3>1, OutIs DEF Out
    <3>3. job'[t].state = "QUEUED"
      <4>1. job \in [Tasks -> JobType] /\ NoJob \in JobType
        BY <1>2, JobField, NoJobIs
      <4>2. QED
        BY <2>3, <4>1 DEF JobType
    <3>4. QED
      BY <1>1, <2>1, <3>2, <3>3, AskedIs, PromiseMoves
  <2>4. QED
    BY <1>1, <1>7, <2>2, <2>3 DEF Restart
<1>8. QED
  BY <1>1, <1>3, <1>4, <1>5, <1>6, <1>7 DEF Next

(* A download implements AtomicPublish: the name is unused, stands for the *)
(* whole file or was taken by another program, is never replaced, and the  *)
(* job is done only when the name stands for the whole file, through       *)
(* pauses, retries, cancellation, crashes, power loss and restarts.        *)
THEOREM DownloadPublishesAtomically ==
  ASSUME Alone, Counted, Kept PROVE Spec => ImplementsAtomicPublish
<1>1. Init => Publication!Init
  <2>1. Init => Out = "absent"
    BY DEF Init, Out
  <2>2. Init => Answers = [t \in Tasks |-> "none"]
    BY NoJobIs, AskedIs DEF Init, Answers
  <2>3. QED
    BY <2>1, <2>2 DEF Publication!Init, Answers
<1>2. IInv /\ IInv' /\ [Next]_vars => [Publication!Next]_Promise
  BY StepIsPromised
<1>3. QED
  BY <1>1, <1>2, Invariance, PTL
     DEF Spec, ImplementsAtomicPublish, Publication!Spec, Promise, Answers
=============================================================================
