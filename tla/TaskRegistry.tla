---------------------------- MODULE TaskRegistry ----------------------------
(***************************************************************************)
(* The job list of the payload: g_tasks and the threads that work on it.   *)
(*                                                                         *)
(* One polling thread of the HTTP daemon runs every request handler, so    *)
(* handlers are atomic with respect to each other; they interleave with    *)
(* the detached task_worker threads (one per job, a new one for each       *)
(* resume or retry), with the single package installer thread and with the *)
(* thread that api_exit starts.  Uploads and downloads of the browser have *)
(* no thread: only requests of the browser move them on.  What a job does  *)
(* to the file system is left to the other modules: here it only ends in   *)
(* some result.                                                            *)
(***************************************************************************)
EXTENDS Naturals, FiniteSets

CONSTANTS
  Ops,         \* the kinds of request the user sends, a subset of OpKinds
  MaxTasks,    \* bound: how many jobs are ever created in a behaviour
  Threads,     \* bound: how many task_worker threads exist at one time
  Paths,       \* the packages a user may ask to install
  WorkerLimit, \* URL_DOWNLOAD_WORKER_LIMIT
  QueueLimit,  \* URL_DOWNLOAD_QUEUE_LIMIT
  MaxAgain     \* bound: how many resume and retry requests are accepted

OpKinds == {"fs", "url", "pkg", "upload", "download"}
TaskIds == 1 .. MaxTasks
NoTask  == 0
NoPath  == "none"

ASSUME RegistryAssumption ==
  /\ Ops \subseteq OpKinds
  /\ MaxTasks \in Nat
  /\ IsFiniteSet(Threads)
  /\ NoPath \notin Paths
  /\ WorkerLimit \in Nat \ {0}
  /\ QueueLimit \in Nat
  /\ MaxAgain \in Nat

VARIABLES
  task,       \* g_tasks: the jobs by id
  nextId,     \* g_next_task_id
  thread,     \* the task_worker threads
  waiting,    \* the threads blocked on g_url_download_slot
  urlWorkers, \* g_url_download_workers
  pkgWorker,  \* the package installer thread
  handler,    \* what the request handler in progress still has to do
  stopper,    \* the thread started by api_exit
  again       \* resume and retry requests accepted so far

vars == <<task, nextId, thread, waiting, urlWorkers, pkgWorker, handler,
          stopper, again>>

Active   == {"QUEUED", "RUNNING"}
Terminal == {"DONE", "FAILED", "CANCELED"}
States   == Active \union Terminal \union {"PAUSED", "NONE", "FREED"}

Task == [op : OpKinds, state : States, path : Paths \union {NoPath},
         cancel : BOOLEAN, pause : BOOLEAN, workerActive : BOOLEAN,
         reported : BOOLEAN]

(* A worker between the attach and the settle step is in the job's body.   *)
Body    == {"attach", "slot", "prepare", "run", "giveback", "settle"}
Results == {"none", "ok", "error", "canceled", "paused", "early"}
Worker  == [pc : Body \union {"idle", "detach"}, task : TaskIds \union {NoTask},
            slot : BOOLEAN, result : Results]

Blank == [op |-> "fs", state |-> "NONE", path |-> NoPath, cancel |-> FALSE,
          pause |-> FALSE, workerActive |-> FALSE, reported |-> FALSE]
Idle  == [pc |-> "idle", task |-> NoTask, slot |-> FALSE, result |-> "none"]
Fresh(op, path) == [Blank EXCEPT !.op = op, !.path = path, !.state = "QUEUED"]

IsActive(tasks, t) == tasks[t].state \in Active

(* An active job with a task_worker thread.                                *)
Working(tasks, t) == tasks[t].op \in {"fs", "url"} /\ IsActive(tasks, t)

(* Mutant: a job that has not started yet does not count.                  *)
HasRunning(tasks) == \E t \in TaskIds : tasks[t].op # "pkg" /\ tasks[t].state = "RUNNING"

(* has_active_task_locked: package installs do not count.                  *)
HasActive(tasks) == \E t \in TaskIds : tasks[t].op # "pkg" /\ IsActive(tasks, t)

(* What remove_finished_tasks_locked may free.  Whether the 60 seconds a   *)
(* terminal job is kept have passed is left open.                          *)
Removable ==
  {t \in TaskIds : /\ task[t].state \in Terminal
                   /\ ~task[t].workerActive
                   /\ task[t].op = "pkg" => task[t].reported}

(* The job list without the jobs in gone.                                  *)
Sweep(gone) ==
  [t \in TaskIds |->
     IF t \in gone THEN [Blank EXCEPT !.state = "FREED"] ELSE task[t]]

(* Mutant: the threads that sleep on the slot condition are never woken.   *)
NoneWoken == waiting

(* The threads that still sleep after pthread_cond_broadcast.              *)
AfterBroadcast == {}

HandlerFree == handler = "idle" /\ stopper # "stopped"

-----------------------------------------------------------------------------
Init ==
  /\ task = [t \in TaskIds |-> Blank]
  /\ nextId = 1
  /\ thread = [w \in Threads |-> Idle]
  /\ waiting = {}
  /\ urlWorkers = 0
  /\ pkgWorker = [pc |-> "absent", task |-> NoTask]
  /\ handler = "idle"
  /\ stopper = "absent"
  /\ again = 0

(***************************************************************************)
(* Request handlers.                                                       *)
(***************************************************************************)

(* Mutant: a job whose thread could not be created stays queued.           *)
SpawnIgnored(t, tasks) == tasks

(* The job list after pthread_create failed for job t.                     *)
SpawnFailed(t, tasks) == [tasks EXCEPT ![t].state = "FAILED"]

(* pthread_create for job t of the list tasks.                             *)
Spawn(t, tasks) ==
  \/ \E w \in Threads :
       /\ thread[w].pc = "idle"
       /\ thread' = [thread EXCEPT ![w] = [Idle EXCEPT !.pc = "attach", !.task = t]]
       /\ task' = tasks
  \/ /\ task' = SpawnFailed(t, tasks)
     /\ UNCHANGED thread

(* A request that is refused has still swept the list.                     *)
Create(op, kept, admitted) ==
  \/ /\ admitted
     /\ nextId \in TaskIds
     /\ nextId' = nextId + 1
     /\ Spawn(nextId, [kept EXCEPT ![nextId] = Fresh(op, NoPath)])
  \/ /\ ~admitted
     /\ task' = kept
     /\ UNCHANGED <<nextId, thread>>

(* api_copy, api_move, api_delete, api_chmod, api_convert, api_extract.    *)
CreateFs ==
  /\ "fs" \in Ops /\ HandlerFree
  /\ \E gone \in SUBSET Removable :
       Create("fs", Sweep(gone), ~HasActive(Sweep(gone)))
  /\ UNCHANGED <<waiting, urlWorkers, pkgWorker, handler, stopper, again>>

UrlTasks(tasks) ==
  {t \in TaskIds : tasks[t].op = "url" /\ tasks[t].state \in Active \union {"PAUSED"}}

UrlAdmitted(tasks) ==
  /\ ~ \E t \in TaskIds : tasks[t].op # "url" /\ IsActive(tasks, t)
  /\ Cardinality(UrlTasks(tasks)) < QueueLimit

(* api_url_download.                                                       *)
CreateUrl ==
  /\ "url" \in Ops /\ HandlerFree
  /\ \E gone \in SUBSET Removable :
       Create("url", Sweep(gone), UrlAdmitted(Sweep(gone)))
  /\ UNCHANGED <<waiting, urlWorkers, pkgWorker, handler, stopper, again>>

(* api_upload_prepare and api_download_prepare: a job without a thread.    *)
(* An upload is also refused when the space does not suffice.              *)
CreateTransfer ==
  /\ HandlerFree
  /\ \E op \in Ops \cap {"upload", "download"}, gone \in SUBSET Removable :
       \/ /\ ~HasActive(Sweep(gone)) /\ nextId \in TaskIds
          /\ task' = [Sweep(gone) EXCEPT ![nextId] = [Fresh(op, NoPath) EXCEPT
                        !.state = IF op = "upload" THEN "RUNNING" ELSE "QUEUED"]]
          /\ nextId' = nextId + 1
       \/ /\ HasActive(Sweep(gone)) \/ op = "upload"
          /\ task' = Sweep(gone)
          /\ UNCHANGED nextId
  /\ UNCHANGED <<thread, waiting, urlWorkers, pkgWorker, handler, stopper, again>>

(* api_download: the browser opens the download that was prepared for it.  *)
OpenDownload(t) ==
  /\ HandlerFree
  /\ task[t].op = "download" /\ task[t].state = "QUEUED"
  /\ task' = [task EXCEPT ![t].state = "RUNNING"]
  /\ UNCHANGED <<nextId, thread, waiting, urlWorkers, pkgWorker, handler,
                 stopper, again>>

(* The request that ends an upload or download, its connection or its tab. *)
EndTransfer(t) ==
  /\ HandlerFree
  /\ task[t].op \in {"upload", "download"} /\ task[t].state = "RUNNING"
  /\ \E end \in Terminal : /\ end = "CANCELED" => task[t].cancel
                           /\ task' = [task EXCEPT ![t].state = end]
  /\ UNCHANGED <<nextId, thread, waiting, urlWorkers, pkgWorker, handler,
                 stopper, again>>

(* enqueue_pkg_tasks for one path: the installer thread is started once,   *)
(* an active install of the same path is reused, the installer is woken.   *)
EnqueuePkg ==
  /\ "pkg" \in Ops /\ HandlerFree
  /\ \E p \in Paths :
       \/ /\ \E t \in TaskIds : task[t].path = p /\ IsActive(task, t)
          /\ UNCHANGED <<task, nextId>>
       \/ /\ ~ \E t \in TaskIds : task[t].path = p /\ IsActive(task, t)
          /\ nextId \in TaskIds
          /\ task' = [task EXCEPT ![nextId] = Fresh("pkg", p)]
          /\ nextId' = nextId + 1
  /\ pkgWorker' = IF pkgWorker.pc \in {"absent", "waiting"}
                  THEN [pkgWorker EXCEPT !.pc = "scan"] ELSE pkgWorker
  /\ UNCHANGED <<thread, waiting, urlWorkers, handler, stopper, again>>

(* api_tasks.  The mark is only ever read for package installs, and only   *)
(* they carry it here.                                                     *)
ListTasks ==
  /\ HandlerFree
  /\ \E gone \in SUBSET Removable :
       LET kept == Sweep(gone) IN
       task' = [t \in TaskIds |->
                  [kept[t] EXCEPT
                     !.reported = @ \/ (kept[t].op = "pkg" /\ kept[t].state \in Terminal)]]
  /\ UNCHANGED <<nextId, thread, waiting, urlWorkers, pkgWorker, handler,
                 stopper, again>>

(* What api_cancel ends by itself, because no thread will.                 *)
Settled(t) == \/ task[t].op = "url" /\ task[t].state \in {"PAUSED", "FAILED"}
              \/ task[t].op = "download" /\ task[t].state = "QUEUED"

(* api_cancel, up to the release of g_tasks_lock.  The broadcast on        *)
(* g_url_download_slot follows in a step of its own.                       *)
Cancel(t) ==
  /\ HandlerFree
  /\ task[t].op # "pkg"
  /\ task[t].state \in Active \union {"PAUSED", "FAILED"}
  /\ task' = [task EXCEPT ![t].cancel = TRUE,
                          ![t].state = IF Settled(t) THEN "CANCELED" ELSE @]
  /\ handler' = "broadcast"
  /\ UNCHANGED <<nextId, thread, waiting, urlWorkers, pkgWorker, stopper, again>>

CancelBroadcast ==
  /\ handler = "broadcast"
  /\ handler' = "idle"
  /\ waiting' = AfterBroadcast
  /\ UNCHANGED <<task, nextId, thread, urlWorkers, pkgWorker, stopper, again>>

(* api_download_pause.                                                     *)
Pause(t) ==
  /\ HandlerFree
  /\ task[t].op = "url" /\ task[t].state = "RUNNING"
  /\ task' = [task EXCEPT ![t].pause = TRUE]
  /\ UNCHANGED <<nextId, thread, waiting, urlWorkers, pkgWorker, handler,
                 stopper, again>>

(* Mutant: a job that still runs may be retried.                           *)
ResumableRunning(t) == task[t].op = "url" /\ task[t].state \in {"PAUSED", "FAILED", "RUNNING"}

Resumable(t) == task[t].op = "url" /\ task[t].state \in {"PAUSED", "FAILED"}

(* api_download_resume_or_retry: no admission check, a new worker thread.  *)
ResumeOrRetry(t) ==
  /\ HandlerFree
  /\ again < MaxAgain
  /\ Resumable(t)
  /\ Spawn(t, [task EXCEPT ![t].state = "QUEUED", ![t].cancel = FALSE,
                           ![t].pause = FALSE])
  /\ again' = again + 1
  /\ UNCHANGED <<nextId, waiting, urlWorkers, pkgWorker, handler, stopper>>

(* api_exit.                                                               *)
Exit ==
  /\ HandlerFree
  /\ stopper = "absent"
  /\ stopper' = "scan"
  /\ UNCHANGED <<task, nextId, thread, waiting, urlWorkers, pkgWorker,
                 handler, again>>

-----------------------------------------------------------------------------
(***************************************************************************)
(* The thread of api_exit: filemgr_cancel_and_wait_for_tasks.              *)
(***************************************************************************)

Drained(t) == task[t].op = "pkg" /\ task[t].state = "QUEUED"

StopScan ==
  /\ stopper = "scan"
  /\ task' = [t \in TaskIds |->
                IF IsActive(task, t)
                THEN [task[t] EXCEPT !.cancel = TRUE,
                                     !.state = IF Drained(t) THEN "CANCELED" ELSE @]
                ELSE task[t]]
  /\ stopper' = IF \E t \in TaskIds : IsActive(task, t) /\ ~Drained(t)
                THEN "rescan" ELSE "stop"
  /\ UNCHANGED <<nextId, thread, waiting, urlWorkers, pkgWorker, handler, again>>

StopBroadcast ==
  /\ stopper \in {"rescan", "stop"}
  /\ waiting' = AfterBroadcast
  /\ stopper' = IF stopper = "rescan" THEN "scan" ELSE "stopped"
  /\ UNCHANGED <<task, nextId, thread, urlWorkers, pkgWorker, handler, again>>

-----------------------------------------------------------------------------
(***************************************************************************)
(* The package installer thread.                                           *)
(***************************************************************************)

(* Mutant: the head of the list, which is the newest request, goes first.  *)
NewestPkg(t) == \A u \in TaskIds : task[u].op = "pkg" /\ task[u].state = "QUEUED" => u <= t

QueuedPkgs == {t \in TaskIds : task[t].op = "pkg" /\ task[t].state = "QUEUED"}

(* next_pkg_task_locked.                                                   *)
NextPkg(t) == \A u \in QueuedPkgs : t <= u

PkgTake ==
  /\ pkgWorker.pc = "scan"
  /\ \/ /\ QueuedPkgs = {}
        /\ pkgWorker' = [pkgWorker EXCEPT !.pc = "waiting"]
        /\ UNCHANGED task
     \/ \E t \in QueuedPkgs :
          /\ NextPkg(t)
          /\ task' = [task EXCEPT ![t].state = "RUNNING"]
          /\ pkgWorker' = [pc |-> "install", task |-> t]
  /\ UNCHANGED <<nextId, thread, waiting, urlWorkers, handler, stopper, again>>

PkgFinish ==
  /\ pkgWorker.pc = "install"
  /\ \E end \in {"DONE", "FAILED"} :
       task' = [task EXCEPT ![pkgWorker.task].state = end]
  /\ pkgWorker' = [pc |-> "scan", task |-> NoTask]
  /\ UNCHANGED <<nextId, thread, waiting, urlWorkers, handler, stopper, again>>

-----------------------------------------------------------------------------
(***************************************************************************)
(* task_worker.                                                            *)
(***************************************************************************)

Attach(w) ==
  /\ thread[w].pc = "attach"
  /\ task' = [task EXCEPT ![thread[w].task].workerActive = TRUE]
  /\ thread' = [thread EXCEPT ![w].pc =
                  IF task[thread[w].task].op = "url" THEN "slot" ELSE "prepare"]
  /\ UNCHANGED <<nextId, waiting, urlWorkers, pkgWorker, handler, stopper, again>>

(* Mutant: the limit is off by one.                                        *)
SlotFreeLate == urlWorkers <= WorkerLimit

SlotFree == urlWorkers < WorkerLimit

(* One turn of the wait loop on g_url_download_slot.                       *)
TakeSlot(w) ==
  /\ thread[w].pc = "slot"
  /\ w \notin waiting
  /\ \/ /\ task[thread[w].task].cancel
        /\ thread' = [thread EXCEPT ![w].pc = "prepare"]
        /\ UNCHANGED <<waiting, urlWorkers>>
     \/ /\ ~task[thread[w].task].cancel
        /\ SlotFree
        /\ urlWorkers' = urlWorkers + 1
        /\ thread' = [thread EXCEPT ![w].pc = "prepare", ![w].slot = TRUE]
        /\ UNCHANGED waiting
     \/ /\ ~task[thread[w].task].cancel
        /\ ~SlotFree
        /\ waiting' = waiting \union {w}
        /\ UNCHANGED <<thread, urlWorkers>>
  /\ UNCHANGED <<task, nextId, pkgWorker, handler, stopper, again>>

(* The job becomes RUNNING; one canceled by then ends at once.             *)
Prepare(w) ==
  /\ thread[w].pc = "prepare"
  /\ \/ /\ ~task[thread[w].task].cancel
        /\ task' = [task EXCEPT ![thread[w].task].state = "RUNNING"]
        /\ thread' = [thread EXCEPT ![w].pc = "run"]
     \/ /\ task[thread[w].task].cancel
        /\ task' = [task EXCEPT ![thread[w].task].state = "CANCELED"]
        /\ thread' = [thread EXCEPT ![w].pc = "giveback", ![w].result = "early"]
  /\ UNCHANGED <<nextId, waiting, urlWorkers, pkgWorker, handler, stopper, again>>

(* The operation itself, seen from the job list: it ends in a result.      *)
Run(w) ==
  /\ thread[w].pc = "run"
  /\ \E r \in {"ok", "error", "canceled", "paused"} :
       /\ r = "canceled" => task[thread[w].task].cancel
       /\ r = "paused" => task[thread[w].task].op = "url" /\ task[thread[w].task].pause
       /\ thread' = [thread EXCEPT ![w].pc = "giveback", ![w].result = r]
  /\ UNCHANGED <<task, nextId, waiting, urlWorkers, pkgWorker, handler, stopper, again>>

GiveBack(w) ==
  /\ thread[w].pc = "giveback"
  /\ thread' = [thread EXCEPT ![w].slot = FALSE,
                              ![w].pc = IF thread[w].result = "early"
                                        THEN "detach" ELSE "settle"]
  /\ \/ /\ thread[w].slot
        /\ urlWorkers' = urlWorkers - 1
        /\ waiting' = AfterBroadcast
     \/ /\ ~thread[w].slot
        /\ UNCHANGED <<urlWorkers, waiting>>
  /\ UNCHANGED <<task, nextId, pkgWorker, handler, stopper, again>>

(* The last transition of the job.                                         *)
Outcome(w) ==
  CASE thread[w].result = "ok" -> "DONE"
    [] thread[w].result = "paused" -> "PAUSED"
    [] thread[w].result \in {"error", "canceled"} ->
         IF thread[w].result = "canceled" \/ task[thread[w].task].cancel
         THEN "CANCELED" ELSE "FAILED"

Settle(w) ==
  /\ thread[w].pc = "settle"
  /\ task' = [task EXCEPT ![thread[w].task].state = Outcome(w)]
  /\ thread' = [thread EXCEPT ![w].pc = "detach"]
  /\ UNCHANGED <<nextId, waiting, urlWorkers, pkgWorker, handler, stopper, again>>

(* task_worker_release, the last access of a worker to its job.            *)
Detach(w) ==
  /\ thread[w].pc = "detach"
  /\ task' = [task EXCEPT ![thread[w].task].workerActive = FALSE]
  /\ thread' = [thread EXCEPT ![w] = Idle]
  /\ UNCHANGED <<nextId, waiting, urlWorkers, pkgWorker, handler, stopper, again>>

-----------------------------------------------------------------------------
Handler == \/ CreateFs \/ CreateUrl \/ CreateTransfer \/ EnqueuePkg \/ ListTasks \/ Exit
           \/ CancelBroadcast
           \/ \E t \in TaskIds : \/ Cancel(t) \/ Pause(t) \/ ResumeOrRetry(t)
                               \/ OpenDownload(t) \/ EndTransfer(t)

Step(w) == \/ Attach(w) \/ TakeSlot(w) \/ Prepare(w) \/ Run(w)
           \/ GiveBack(w) \/ Settle(w) \/ Detach(w)

Next == \/ Handler
        \/ StopScan \/ StopBroadcast
        \/ PkgTake \/ PkgFinish
        \/ \E w \in Threads : Step(w)

Spec == Init /\ [][Next]_vars

(* Threads are scheduled and operations end; users owe nothing.            *)
Fairness ==
  /\ WF_vars(CancelBroadcast)
  /\ WF_vars(StopScan \/ StopBroadcast)
  /\ WF_vars(PkgTake \/ PkgFinish)
  /\ \A w \in Threads : WF_vars(Step(w))

FairSpec == Spec /\ Fairness

-----------------------------------------------------------------------------
(* Every variable has its type.                                            *)
TypeOK ==
  /\ task \in [TaskIds -> Task]
  /\ nextId \in 1 .. MaxTasks + 1
  /\ thread \in [Threads -> Worker]
  /\ waiting \subseteq Threads
  /\ urlWorkers \in Nat
  /\ pkgWorker \in [pc : {"absent", "scan", "waiting", "install"},
                    task : TaskIds \union {NoTask}]
  /\ handler \in {"idle", "broadcast"}
  /\ stopper \in {"absent", "scan", "rescan", "stop", "stopped"}
  /\ again \in 0 .. MaxAgain

(* g_url_download_workers counts the worker threads that own a transfer    *)
(* slot, whatever order they were canceled, paused and retried in, and     *)
(* never exceeds URL_DOWNLOAD_WORKER_LIMIT.                                *)
SlotAccounting ==
  /\ urlWorkers = Cardinality({w \in Threads : thread[w].slot})
  /\ urlWorkers <= WorkerLimit

(* At most one copy, move, delete, chmod, conversion or extraction is      *)
(* queued or running.                                                      *)
FsExclusive ==
  \A t, u \in TaskIds :
    /\ task[t].op = "fs" /\ IsActive(task, t)
    /\ task[u].op = "fs" /\ IsActive(task, u)
    => t = u

(* Two worker threads are never both in the body of one job: a resumed or  *)
(* retried job is given a second thread only after the first has made its  *)
(* last transition, even if that thread has not returned yet.              *)
OneWorkerRuns ==
  \A v, w \in Threads :
    /\ v # w /\ thread[v].task = thread[w].task
    /\ thread[v].pc \in Body /\ thread[w].pc \in Body
    => thread[v].result = "early" \/ thread[w].result = "early"

(* A job that is not finished is somebody's work: an active download from  *)
(* a URL or file system job always has a worker thread that will settle it.*)
ActiveHasWorker ==
  \A t \in TaskIds :
    Working(task, t) => \E w \in Threads : thread[w].task = t /\ thread[w].pc \in Body

(***************************************************************************)
(* The inductive invariant behind the theorems of TaskRegistryProofs.      *)
(***************************************************************************)

(* Worker w is between its creation and its job's last transition.         *)
Busy(w) == thread[w].pc \in Body /\ thread[w].result # "early"

Holders == {w \in Threads : thread[w].slot}

SlotInv ==
  /\ urlWorkers = Cardinality(Holders)
  /\ urlWorkers <= WorkerLimit
  /\ \A w \in Threads : thread[w].slot => thread[w].pc \in {"prepare", "run", "giveback"}

(* The result a worker carries at each point.                              *)
ResultInv ==
  \A w \in Threads :
    /\ thread[w].pc \in {"idle", "attach", "slot", "prepare", "run"} => thread[w].result = "none"
    /\ thread[w].pc = "giveback" => thread[w].result # "none"
    /\ thread[w].pc = "settle" => thread[w].result \in {"ok", "error", "canceled", "paused"}

(* A busy worker's job is active and has no other busy worker, and every   *)
(* active job with a worker thread has a busy one.                         *)
BusyInv ==
  /\ \A w \in Threads : thread[w].pc # "idle" => thread[w].task \in 1 .. nextId - 1
  /\ \A w \in Threads : Busy(w) => Working(task, thread[w].task)
  /\ \A v, w \in Threads :
       Busy(v) /\ Busy(w) /\ thread[v].task = thread[w].task => v = w

OwnedInv ==
  \A t \in TaskIds : Working(task, t) => \E w \in Threads : Busy(w) /\ thread[w].task = t

(* The only package install that runs is the one the installer has.        *)
PkgInv ==
  /\ pkgWorker.pc = "install" =>
       /\ pkgWorker.task \in 1 .. nextId - 1
       /\ task[pkgWorker.task].op = "pkg" /\ task[pkgWorker.task].state = "RUNNING"
  /\ \A t \in TaskIds :
       task[t].op = "pkg" /\ task[t].state = "RUNNING" =>
         pkgWorker.pc = "install" /\ pkgWorker.task = t

UncreatedInv == \A t \in TaskIds : t >= nextId => task[t].state = "NONE"

IInv == /\ TypeOK /\ SlotInv /\ ResultInv /\ BusyInv /\ OwnedInv /\ PkgInv
        /\ UncreatedInv /\ FsExclusive

-----------------------------------------------------------------------------
(* A thread sleeps on g_url_download_slot only while every slot is taken   *)
(* and its job is not canceled, unless a broadcast is on its way.          *)
NoLostWakeup ==
  \/ \A w \in waiting : urlWorkers = WorkerLimit /\ ~task[thread[w].task].cancel
  \/ handler = "broadcast"
  \/ stopper \in {"rescan", "stop"}

(* A package starts to install only when no other install is running, and  *)
(* in the order the requests came.                                         *)
PkgInOrder ==
  [][\A t \in TaskIds :
       task[t].op = "pkg" /\ task[t].state = "QUEUED" /\ task'[t].state = "RUNNING" =>
         \A u \in TaskIds : task[u].op = "pkg" =>
           /\ task[u].state # "RUNNING"
           /\ task[u].state = "QUEUED" => t <= u]_vars

(* A queued job eventually gets its turn, or is canceled.  (A download the *)
(* browser has prepared waits for the browser.)                            *)
QueueDrains ==
  \A t \in TaskIds : task[t].state = "QUEUED" /\ task[t].op # "download"
                   ~> task[t].state # "QUEUED"

(* Once asked to stop, the server stops, unless a browser still has an     *)
(* upload or download open: nothing but that browser can end it.           *)
ShutdownCompletes ==
  stopper = "scan" ~>
    stopper = "stopped" \/ \E t \in TaskIds : task[t].op \in {"upload", "download"} /\ IsActive(task, t)
=============================================================================
