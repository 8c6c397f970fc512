---------------------------- MODULE UrlDownload ----------------------------
(***************************************************************************)
(* One destination of URL downloads: its job, the worker that fetches it,  *)
(* the private .part file, the journal and the published name, with        *)
(* pause, resume, retry, cancel, crash and restart.  Files are inodes, so  *)
(* that a second link and a file that is written after its name is gone    *)
(* are what they are in the program.  The transfer is in chunks.           *)
(*                                                                         *)
(* The waiting for a transfer slot, the admission of jobs and their list   *)
(* are TaskRegistry's.                                                     *)
(***************************************************************************)
EXTENDS Naturals, Sequences

CONSTANTS
  Tasks,      \* the jobs for this destination
  Inodes,     \* files
  NoFile,     \* a name that is not used
  N,          \* chunks in the remote file
  Platform,   \* "SCE", the console build, or "HOST", the regression build
  HasLength,  \* whether the server sends Content-Length
  RangeModes, \* how the server may answer a Range request: 206, 200
  Faults,     \* what may go wrong
  CrashAt,    \* the points of a worker at which the payload may die
  Interval,   \* URL_DOWNLOAD_CHECKPOINT_BYTES, in chunks
  MaxDone     \* bound on the byte counter

AllFaults == {"net", "journal", "write", "sync", "nolink", "unlink", "dirsync",
              "power", "foreign", "conversion"}
Points == {"idle", "start", "open", "journal", "request", "rejournal", "total", "body",
           "checkpoint", "ended", "sync", "publish", "unlink", "rename",
           "dirsync", "finish", "rmpart", "rmjournal", "settle"}

ASSUME DownloadAssumption ==
  /\ NoFile \notin Inodes
  /\ N \in Nat \ {0}
  /\ Platform \in {"SCE", "HOST"}
  /\ HasLength \in BOOLEAN
  /\ RangeModes \subseteq {200, 206} /\ RangeModes # {}
  /\ Faults \subseteq AllFaults
  /\ CrashAt \subseteq Points
  /\ Interval \in Nat \ {0}
  /\ MaxDone \in Nat /\ N <= MaxDone

VARIABLES
  dst,     \* the file the destination name stands for
  part,    \* the file the .part name stands for
  file,    \* the contents of each file and how much of it is on the medium
  journal, \* the journal on disk
  job,     \* file_task_t of each job
  worker,  \* url_download_task_run of each job
  handler, \* the files api_cancel still has to remove
  up       \* the payload runs

vars == <<dst, part, file, journal, job, worker, handler, up>>
disk == <<dst, part, file, journal>>

NoJournal == [done |-> 0, total |-> MaxDone + 1]
Empty     == [data |-> <<>>, durable |-> 0]
Whole     == [i \in 1 .. N |-> i]
Foreign   == <<0>>
NoJob     == [state |-> "NONE", cancel |-> FALSE, pause |-> FALSE,
              done |-> 0, total |-> 0, ckpt |-> 0]
NoWorker  == [pc |-> "idle", fd |-> NoFile, append |-> FALSE, pos |-> 0,
              resume |-> 0, clen |-> 0, next |-> 1, result |-> "none"]

Least(a, b) == IF a < b THEN a ELSE b
Greatest(a, b) == IF a < b THEN b ELSE a

(* Bytes written past the end of a file leave a hole.                      *)
WriteAt(s, pos, chunk) ==
  [i \in 1 .. Greatest(Len(s), pos + 1) |->
     IF i = pos + 1 THEN chunk ELSE IF i <= Len(s) THEN s[i] ELSE 0]

Size(i) == Len(file[i].data)
Unused(i) == i \notin {dst, part} /\ \A t \in Tasks : worker[t].fd # i
At(t, point) == up /\ worker[t].pc = point
Goto(t, point) == worker' = [worker EXCEPT ![t].pc = point]
End(t, point, r) == worker' = [worker EXCEPT ![t].pc = point, ![t].result = r]

-----------------------------------------------------------------------------
Init ==
  /\ dst = NoFile /\ part = NoFile
  /\ file = [i \in Inodes |-> Empty]
  /\ journal = NoJournal
  /\ job = [t \in Tasks |-> NoJob]
  /\ worker = [t \in Tasks |-> NoWorker]
  /\ handler = "idle"
  /\ up = TRUE

(***************************************************************************)
(* url_download_task_run.                                                  *)
(***************************************************************************)

(* task_worker before the operation: a job canceled in the queue ends.     *)
Start(t) ==
  /\ At(t, "start")
  /\ \/ /\ ~job[t].cancel
        /\ job' = [job EXCEPT ![t].state = "RUNNING"]
        /\ Goto(t, "open")
     \/ /\ job[t].cancel
        /\ job' = [job EXCEPT ![t].state = "CANCELED"]
        /\ worker' = [worker EXCEPT ![t] = NoWorker]
  /\ UNCHANGED <<disk, handler, up>>

(* Mutant: the counters are not set to the size of the file.               *)
RestartedKept(j, size) == j

(* url_download_reset_progress_locked.                                     *)
Restarted(j, size) == [j EXCEPT !.done = size, !.ckpt = size]

OpenPart(t) ==
  /\ At(t, "open")
  /\ \/ /\ part = NoFile
        /\ \E i \in Inodes :
             /\ Unused(i)
             /\ part' = i
             /\ file' = [file EXCEPT ![i] = Empty]
             /\ worker' = [worker EXCEPT ![t] = [NoWorker EXCEPT !.pc = "journal", !.fd = i]]
        /\ UNCHANGED job
     \/ /\ part # NoFile /\ part # dst
        /\ worker' = [worker EXCEPT ![t] = [NoWorker EXCEPT
                        !.pc = "journal", !.fd = part, !.append = TRUE, !.resume = Size(part)]]
        /\ job' = IF Size(part) > 0
                  THEN [job EXCEPT ![t] = Restarted(@, Size(part))] ELSE job
        /\ UNCHANGED <<part, file>>
     \/ /\ part # NoFile /\ part = dst
        /\ End(t, "settle", "error")
        /\ UNCHANGED <<part, file, job>>
  /\ UNCHANGED <<dst, journal, handler, up>>

(* What write_download_journal stores.                                     *)
Snapshot(t) == [done |-> job[t].done, total |-> job[t].total]

(* The journal is replaced as a whole, or the transfer ends in an error.   *)
Journal(t, point, next) ==
  /\ At(t, point)
  /\ \/ /\ journal' = Snapshot(t)
        /\ Goto(t, next)
     \/ /\ "journal" \in Faults
        /\ End(t, "finish", "error")
        /\ UNCHANGED journal

FirstJournal(t) ==
  /\ Journal(t, "journal", "request")
  /\ UNCHANGED <<dst, part, file, job, handler, up>>

Respond(t, from) ==
  worker' = [worker EXCEPT ![t].pc = "total", ![t].next = from + 1,
               ![t].clen = IF ~HasLength THEN 0
                           ELSE IF Platform = "HOST" THEN N ELSE N - from]

(* A request, its answer, and the truncation when the range is ignored.    *)
Request(t) ==
  /\ At(t, "request")
  /\ \/ /\ worker[t].resume = 0
        /\ Respond(t, 0)
        /\ UNCHANGED file
     \/ /\ worker[t].resume > 0 /\ worker[t].resume < N /\ 206 \in RangeModes
        /\ Respond(t, worker[t].resume)
        /\ UNCHANGED file
     \/ /\ worker[t].resume > 0 /\ 200 \in RangeModes
        /\ file' = [file EXCEPT ![worker[t].fd] = Empty]
        /\ worker' = [worker EXCEPT ![t].pc = "rejournal", ![t].resume = 0, ![t].pos = 0]
     \/ /\ \/ "net" \in Faults
           \/ worker[t].resume >= N /\ 206 \in RangeModes
        /\ End(t, "finish", "error")
        /\ UNCHANGED file
  /\ UNCHANGED <<dst, part, journal, job, handler, up>>

(* The counters of a transfer that starts again, and then its journal.     *)
Rejournal(t) ==
  /\ At(t, "rejournal")
  /\ job' = [job EXCEPT ![t] = Restarted(@, 0)]
  /\ \/ /\ journal' = [done |-> job'[t].done, total |-> job[t].total]
        /\ Respond(t, 0)
     \/ /\ "journal" \in Faults
        /\ End(t, "finish", "error")
        /\ UNCHANGED journal
  /\ UNCHANGED <<dst, part, file, handler, up>>

SetTotal(t) ==
  /\ At(t, "total")
  /\ job' = [job EXCEPT ![t].total =
               IF worker[t].clen = 0 THEN @
               ELSE IF Platform = "HOST" THEN worker[t].clen
               ELSE worker[t].clen + worker[t].resume]
  /\ Goto(t, "body")
  /\ UNCHANGED <<disk, handler, up>>

Stopping(t) == job[t].cancel \/ job[t].pause
Added(j) == [j EXCEPT !.done = IF j.total # 0 THEN Least(j.done + 1, j.total) ELSE j.done + 1]

(* One turn of the read loop: a chunk is read, written and counted.        *)
ReadChunk(t) ==
  /\ At(t, "body") /\ ~Stopping(t)
  /\ worker[t].next <= N /\ job[t].done < MaxDone
  /\ LET w == worker[t]
         pos == IF w.append THEN Size(w.fd) ELSE w.pos IN
     /\ file' = [file EXCEPT ![w.fd].data = WriteAt(@, pos, w.next)]
     /\ job' = [job EXCEPT ![t] = Added(@)]
     /\ worker' = [worker EXCEPT ![t].next = @ + 1, ![t].pos = pos + 1, ![t].pc =
                     IF job'[t].done >= job[t].ckpt + Interval THEN "checkpoint" ELSE "body"]
  /\ UNCHANGED <<dst, part, journal, handler, up>>

(* The read loop is left: a flag is up, the body is over or is cut short,  *)
(* a read or a write fails.  A read error on the console build and a write *)
(* error leave the function without another look at the flags.             *)
LeaveLoop(t) ==
  /\ At(t, "body")
  /\ \/ /\ Stopping(t)
        /\ End(t, "ended", "error")
     \/ /\ ~Stopping(t)
        /\ worker[t].next > N \/ "net" \in Faults
        /\ End(t, "ended", "ok")
     \/ /\ ~Stopping(t) /\ "net" \in Faults /\ Platform = "HOST"
        /\ End(t, "ended", "error")
     \/ /\ "net" \in Faults /\ Platform = "SCE"
        /\ End(t, "finish", IF job[t].cancel THEN "canceled" ELSE "error")
     \/ /\ ~Stopping(t) /\ "write" \in Faults
        /\ End(t, "finish", "error")
  /\ UNCHANGED <<disk, job, handler, up>>

Checkpoint(t) ==
  /\ Journal(t, "checkpoint", "body")
  /\ job' = IF worker'[t].pc = "body"
            THEN [job EXCEPT ![t].ckpt = job[t].done] ELSE job
  /\ UNCHANGED <<dst, part, file, handler, up>>

(* Mutant: a body that ends early is taken for a complete one.             *)
CompleteAlways(t) == TRUE

(* The byte counter is compared with the length the client computed.       *)
Complete(t) == worker[t].clen # 0 => job[t].done = worker[t].clen

(* After the loop: cancel, pause, error, and the comparison of lengths.    *)
Judge(t) ==
  /\ At(t, "ended")
  /\ \/ /\ job[t].cancel
        /\ End(t, "finish", "canceled")
     \/ /\ ~job[t].cancel /\ job[t].pause
        /\ End(t, "finish", "paused")
     \/ /\ ~Stopping(t) /\ worker[t].result = "ok" /\ Complete(t)
        /\ Goto(t, "sync")
     \/ /\ ~Stopping(t) /\ ~(worker[t].result = "ok" /\ Complete(t))
        /\ End(t, "finish", "error")
  /\ UNCHANGED <<disk, job, handler, up>>

Synced(f) == [f EXCEPT !.durable = Len(f.data)]

(* sync_download_output, then the last look at the cancel flag.            *)
Sync(t) ==
  /\ At(t, "sync")
  /\ \/ /\ file' = [file EXCEPT ![worker[t].fd] = Synced(@)]
        /\ IF job[t].cancel THEN End(t, "finish", "canceled") ELSE Goto(t, "publish")
     \/ /\ "sync" \in Faults
        /\ End(t, "finish", "error")
        /\ UNCHANGED file
  /\ UNCHANGED <<dst, part, journal, job, handler, up>>

(* Mutant: publication replaces whatever has the name.                     *)
LinkableAlways == part # NoFile

Linkable == part # NoFile /\ dst = NoFile

(* publish_download_file up to its first change: link, or on FAT the check *)
(* that the name is free.                                                  *)
Publish(t) ==
  /\ At(t, "publish")
  /\ \/ /\ Linkable
        /\ dst' = part
        /\ Goto(t, "unlink")
     \/ /\ "nolink" \in Faults /\ dst = NoFile
        /\ Goto(t, "rename")
        /\ UNCHANGED dst
     \/ /\ ~Linkable
        /\ End(t, "finish", "error")
        /\ UNCHANGED dst
  /\ UNCHANGED <<part, file, journal, job, handler, up>>

UnlinkPart(t) ==
  /\ At(t, "unlink")
  /\ \/ /\ part # NoFile
        /\ part' = NoFile
        /\ Goto(t, "dirsync")
     \/ /\ part = NoFile \/ "unlink" \in Faults
        /\ End(t, "finish", "error")
        /\ UNCHANGED part
  /\ UNCHANGED <<dst, file, journal, job, handler, up>>

Rename(t) ==
  /\ At(t, "rename")
  /\ \/ /\ part # NoFile
        /\ dst' = part /\ part' = NoFile
        /\ Goto(t, "dirsync")
     \/ /\ part = NoFile
        /\ End(t, "finish", "error")
        /\ UNCHANGED <<dst, part>>
  /\ UNCHANGED <<file, journal, job, handler, up>>

SyncParent(t) ==
  /\ At(t, "dirsync")
  /\ \/ End(t, "finish", "ok")
     \/ "dirsync" \in Faults /\ End(t, "finish", "error")
  /\ UNCHANGED <<disk, job, handler, up>>

(* The output is closed; what is kept depends on the result.               *)
Finish(t) ==
  /\ At(t, "finish")
  /\ LET r == worker[t].result
         Leave(point, e) == worker' = [worker EXCEPT ![t].fd = NoFile, ![t].pc = point, ![t].result = e] IN
     \/ /\ r \in {"ok", "canceled"}
        /\ Leave("rmpart", r)
        /\ UNCHANGED journal
     \/ /\ r \in {"paused", "error"}
        /\ journal' = Snapshot(t)
        /\ Leave("settle", r)
     \/ /\ r \in {"paused", "error"} /\ "journal" \in Faults
        /\ Leave("settle", "error")
        /\ UNCHANGED journal
  /\ UNCHANGED <<dst, part, file, job, handler, up>>

(* url_download_discard_state, in two steps.                               *)
RemovePart(t) ==
  /\ At(t, "rmpart")
  /\ part' = NoFile
  /\ Goto(t, "rmjournal")
  /\ UNCHANGED <<dst, file, journal, job, handler, up>>

RemoveJournal(t) ==
  /\ At(t, "rmjournal")
  /\ journal' = NoJournal
  /\ Goto(t, "settle")
  /\ UNCHANGED <<dst, part, file, job, handler, up>>

(* Mutant: an error leaves the job running.                                *)
OutcomeOpen(t) ==
  CASE worker[t].result = "ok" -> "DONE"
    [] worker[t].result = "paused" -> "PAUSED"
    [] worker[t].result \in {"canceled", "error"} ->
         IF worker[t].result = "canceled" \/ job[t].cancel THEN "CANCELED" ELSE "RUNNING"

(* The end of task_worker for a download.                                  *)
Outcome(t) ==
  CASE worker[t].result = "ok" -> "DONE"
    [] worker[t].result = "paused" -> "PAUSED"
    [] worker[t].result \in {"canceled", "error"} ->
         IF worker[t].result = "canceled" \/ job[t].cancel THEN "CANCELED" ELSE "FAILED"

Settle(t) ==
  /\ At(t, "settle")
  /\ job' = [job EXCEPT ![t].state = Outcome(t),
                        ![t].done = IF worker[t].result = "ok" /\ job[t].total # 0
                                    THEN job[t].total ELSE @]
  /\ worker' = [worker EXCEPT ![t] = NoWorker]
  /\ UNCHANGED <<disk, handler, up>>

-----------------------------------------------------------------------------
(***************************************************************************)
(* Request handlers, one at a time.                                        *)
(***************************************************************************)

HandlerFree == up /\ handler = "idle"

(* api_url_download: the name and the journal must not exist.              *)
Ask(t) ==
  /\ HandlerFree
  /\ dst = NoFile /\ journal = NoJournal
  /\ job[t].state = "NONE"
  /\ job' = [job EXCEPT ![t].state = "QUEUED"]
  /\ Goto(t, "start")
  /\ UNCHANGED <<disk, handler, up>>

(* api_cancel: a paused or failed job is canceled here, the rest is asked  *)
(* to stop.                                                                *)
Cancel(t) ==
  /\ HandlerFree
  /\ \/ /\ job[t].state \in {"QUEUED", "RUNNING"}
        /\ job' = [job EXCEPT ![t].cancel = TRUE]
        /\ UNCHANGED handler
     \/ /\ job[t].state \in {"PAUSED", "FAILED"}
        /\ job' = [job EXCEPT ![t].cancel = TRUE, ![t].state = "CANCELED"]
        /\ handler' = "rmpart"
  /\ UNCHANGED <<disk, worker, up>>

Discard ==
  /\ up
  /\ \/ /\ handler = "rmpart"
        /\ part' = NoFile
        /\ handler' = "rmjournal"
        /\ UNCHANGED journal
     \/ /\ handler = "rmjournal"
        /\ journal' = NoJournal
        /\ handler' = "idle"
        /\ UNCHANGED part
  /\ UNCHANGED <<dst, file, job, worker, up>>

(* api_download_pause.                                                     *)
Pause(t) ==
  /\ HandlerFree
  /\ job[t].state = "RUNNING" /\ ~job[t].pause
  /\ job' = [job EXCEPT ![t].pause = TRUE]
  /\ UNCHANGED <<disk, worker, handler, up>>

(* api_download_resume_or_retry.                                           *)
ResumeOrRetry(t) ==
  /\ HandlerFree
  /\ job[t].state \in {"PAUSED", "FAILED"}
  /\ job' = [job EXCEPT ![t].state = "QUEUED", ![t].cancel = FALSE, ![t].pause = FALSE]
  /\ Goto(t, "start")
  /\ UNCHANGED <<disk, handler, up>>

(* remove_finished_tasks_locked.                                           *)
Forget(t) ==
  /\ HandlerFree
  /\ job[t].state \in {"DONE", "FAILED", "CANCELED"}
  /\ job' = [job EXCEPT ![t] = NoJob]
  /\ UNCHANGED <<disk, worker, handler, up>>

(* Another program takes the destination name.                             *)
TakeName ==
  /\ "foreign" \in Faults /\ dst = NoFile
  /\ \E i \in Inodes :
       /\ Unused(i)
       /\ dst' = i
       /\ file' = [file EXCEPT ![i] = [data |-> Foreign, durable |-> 1]]
  /\ UNCHANGED <<part, journal, job, worker, handler, up>>

-----------------------------------------------------------------------------
CrashPoint ==
  /\ \A t \in Tasks : worker[t].pc \in CrashAt
  /\ handler = "idle" \/ handler \in CrashAt

(* The payload dies; when power is lost, so is what was not synchronized.  *)
Crash ==
  /\ up /\ CrashPoint
  /\ up' = FALSE
  /\ file' \in {file} \union
       IF "power" \in Faults
       THEN {[i \in Inodes |->
                [file[i] EXCEPT !.data = SubSeq(@, 1, Least(Size(i), Greatest(k, file[i].durable)))]] :
             k \in 0 .. N}
       ELSE {}
  /\ job' = [t \in Tasks |-> NoJob]
  /\ worker' = [t \in Tasks |-> NoWorker]
  /\ handler' = "idle"
  /\ UNCHANGED <<dst, part, journal>>

(* What url_download_resume_interrupted and restore_download_part demand.  *)
Restorable ==
  /\ journal # NoJournal
  /\ dst = NoFile /\ part # NoFile
  /\ Size(part) >= journal.done

Restart ==
  /\ ~up /\ up' = TRUE
  /\ \/ /\ Restorable
        /\ \E t \in Tasks :
             /\ job' = [job EXCEPT ![t] = [NoJob EXCEPT !.state = "QUEUED", !.done = journal.done,
                                             !.total = journal.total, !.ckpt = journal.done]]
             /\ Goto(t, "start")
        /\ file' = IF Size(part) > journal.done
                   THEN [file EXCEPT ![part] = [data |-> SubSeq(@.data, 1, journal.done),
                                                durable |-> journal.done]]
                   ELSE file
     \/ /\ ~Restorable \/ "conversion" \in Faults
        /\ UNCHANGED <<job, worker, file>>
  /\ UNCHANGED <<dst, part, journal, handler>>

-----------------------------------------------------------------------------
Work(t) == \/ Start(t) \/ OpenPart(t) \/ FirstJournal(t) \/ Request(t) \/ Rejournal(t)
           \/ SetTotal(t) \/ ReadChunk(t) \/ LeaveLoop(t) \/ Checkpoint(t) \/ Judge(t)
           \/ Sync(t) \/ Publish(t) \/ UnlinkPart(t) \/ Rename(t) \/ SyncParent(t)
           \/ Finish(t) \/ RemovePart(t) \/ RemoveJournal(t) \/ Settle(t)

User(t) == Ask(t) \/ Cancel(t) \/ Pause(t) \/ ResumeOrRetry(t) \/ Forget(t)

Next == \/ \E t \in Tasks : Work(t) \/ User(t)
        \/ Discard \/ TakeName \/ Crash \/ Restart

Spec == Init /\ [][Next]_vars

(* Threads are scheduled, reads end by data, an error or their timeout,    *)
(* and the payload is started again.                                       *)
FairSpec == Spec /\ WF_vars(Discard) /\ WF_vars(Restart)
                 /\ \A t \in Tasks : WF_vars(Work(t))

-----------------------------------------------------------------------------
TypeOK ==
  /\ {dst, part} \subseteq Inodes \union {NoFile}
  /\ \A i \in Inodes : /\ file[i].data \in Seq(0 .. N)
                       /\ file[i].durable \in 0 .. Len(file[i].data)
  /\ journal \in [done : 0 .. MaxDone, total : 0 .. MaxDone + 1]
  /\ job \in [Tasks -> [state : {"NONE", "QUEUED", "RUNNING", "PAUSED", "DONE", "FAILED", "CANCELED"},
                        cancel : BOOLEAN, pause : BOOLEAN, done : 0 .. MaxDone,
                        total : 0 .. MaxDone, ckpt : 0 .. MaxDone]]
  /\ worker \in [Tasks -> [pc : Points, fd : Inodes \union {NoFile}, append : BOOLEAN,
                           pos : 0 .. MaxDone, resume : 0 .. MaxDone, clen : 0 .. MaxDone,
                           next : 1 .. N + 1,
                           result : {"none", "ok", "error", "canceled", "paused"}]]
  /\ handler \in {"idle", "rmpart", "rmjournal"}
  /\ up \in BOOLEAN

Published == dst # NoFile /\ file[dst].data # Foreign

(* The final name never stands for a partial file, and once it is used the *)
(* whole file is on the medium, whatever the network, the disk, the user   *)
(* and crashes do.                                                         *)
PublishedIsWhole ==
  Published => file[dst].data = Whole /\ file[dst].durable = N

(* Every variable has its type, and                                        *)
(* while a download runs towards an unused name, the progress it shows is  *)
(* the size of its private file, also after it was paused, retried,        *)
(* restored, or restarted from the beginning by the server.                *)
ProgressIsTrue ==
  /\ TypeOK
  /\ \A t \in Tasks :
       worker[t].pc \in {"body", "checkpoint", "ended", "sync", "publish"} /\ dst = NoFile =>
         job[t].done = Size(worker[t].fd)

Fetching == {"request", "total", "body", "checkpoint", "ended", "sync", "publish", "rename"}

(* What is fetched, and what a pause keeps, is never at risk: while a      *)
(* transfer is past its first journal, and as long as it is paused, there  *)
(* are a journal and a private file that holds at least what the journal   *)
(* counts, whatever the server answers and whichever journal could not be  *)
(* written.  The one gap is between the truncation of a file whose range   *)
(* was ignored and the journal that says so (see RestartResumes).          *)
ProgressIsKept ==
  \A t \in Tasks :
    dst = NoFile /\ (worker[t].pc \in Fetching \/ job[t].state = "PAUSED") => Restorable

(* The destination name and the jobs, as AtomicPublish sees them.            *)
Out == IF dst = NoFile THEN "absent"
       ELSE IF file[dst].data = Foreign THEN "taken"
       ELSE IF file[dst].data = Whole THEN "whole" ELSE "broken"

Asked(s) == CASE s = "NONE" -> "none"
              [] s \in {"QUEUED", "RUNNING"} -> "open"
              [] s \in {"PAUSED", "FAILED", "CANCELED"} -> "stopped"
              [] s = "DONE" -> "done"

Publication == INSTANCE AtomicPublish
                 WITH Jobs <- Tasks, MayRetract <- FALSE, out <- Out,
                      ask <- [t \in Tasks |-> Asked(job[t].state)]

(* The download implements AtomicPublish.                                    *)
ImplementsAtomicPublish == Publication!Spec

(* A download that is queued or runs reaches a resting state or is caught  *)
(* by a crash.                                                             *)
DownloadSettles ==
  \A t \in Tasks : job[t].state \in {"QUEUED", "RUNNING"} ~>
                   job[t].state \notin {"QUEUED", "RUNNING"} \/ ~up

-----------------------------------------------------------------------------
(* What the payload leaves when it dies is taken up by the next start: as  *)
(* long as a journal exists for a name that is not used, a private file    *)
(* exists that holds all that the journal counts.                          *)
RestartResumes == ~up /\ journal # NoJournal /\ dst = NoFile => Restorable

(* A download whose file has been fetched to its end is not refused for    *)
(* its length.                                                             *)
WholeIsAccepted ==
  \A t \in Tasks :
    /\ At(t, "ended") /\ ~Stopping(t) /\ worker[t].result = "ok"
    /\ dst = NoFile /\ Size(worker[t].fd) = N
    => Complete(t)

(* With a healthy server and disk, a download that is paused and resumed   *)
(* any number of times does not fail: the range requests are safe.         *)
HealthyNeverFails == \A t \in Tasks : job[t].state # "FAILED"
=============================================================================
