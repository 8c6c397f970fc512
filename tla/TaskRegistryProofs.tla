------------------------- MODULE TaskRegistryProofs -------------------------
(***************************************************************************)
(* Theorems about the job list, for every number of jobs and threads.      *)
(***************************************************************************)
EXTENDS TaskRegistry, FiniteSetTheorems, TLAPS

USE DEF TaskIds, NoTask

-----------------------------------------------------------------------------
(* Changing one field of a job keeps it a job.                             *)
LEMMA JobUpdate ==
  ASSUME NEW r \in Task
  PROVE  /\ \A s \in States : [r EXCEPT !.state = s] \in Task
         /\ \A s \in States : [r EXCEPT !.cancel = TRUE, !.state = s] \in Task
         /\ [r EXCEPT !.state = "QUEUED", !.cancel = FALSE, !.pause = FALSE] \in Task
         /\ [r EXCEPT !.pause = TRUE] \in Task
         /\ \A b \in BOOLEAN : [r EXCEPT !.workerActive = b] \in Task
         /\ \A b \in BOOLEAN : [r EXCEPT !.reported = b] \in Task
  BY DEF Task, States, Active

LEMMA WorkerUpdate ==
  ASSUME NEW r \in Worker
  PROVE  /\ \A p \in Body \union {"idle", "detach"} : [r EXCEPT !.pc = p] \in Worker
         /\ \A p \in Body \union {"idle", "detach"}, b \in BOOLEAN :
              [r EXCEPT !.pc = p, !.slot = b] \in Worker /\ [r EXCEPT !.slot = b, !.pc = p] \in Worker
         /\ \A p \in Body \union {"idle", "detach"}, e \in Results :
              [r EXCEPT !.pc = p, !.result = e] \in Worker
         /\ \A t \in TaskIds : [Idle EXCEPT !.pc = "attach", !.task = t] \in Worker
         /\ Idle \in Worker
  BY DEF Worker, Idle, Body, Results

(* Sweeping keeps the type of the list.                                    *)
LEMMA SweepType ==
  ASSUME TypeOK, NEW gone \in SUBSET Removable
  PROVE  Sweep(gone) \in [TaskIds -> Task]
  BY RegistryAssumption DEF TypeOK, Sweep, Removable, Blank, Task, States, OpKinds

(* A created or resumed job and its thread have their types.               *)
LEMMA SpawnType ==
  ASSUME TypeOK, NEW t \in TaskIds, NEW tasks \in [TaskIds -> Task], Spawn(t, tasks)
  PROVE  task' \in [TaskIds -> Task] /\ thread' \in [Threads -> Worker]
<1>1. ASSUME NEW w \in Threads,
             thread' = [thread EXCEPT ![w] = [Idle EXCEPT !.pc = "attach", !.task = t]],
             task' = tasks
      PROVE  task' \in [TaskIds -> Task] /\ thread' \in [Threads -> Worker]
  BY <1>1 DEF TypeOK, Worker, Idle, Body, Results
<1>2. ASSUME task' = SpawnFailed(t, tasks), UNCHANGED thread
      PROVE  task' \in [TaskIds -> Task] /\ thread' \in [Threads -> Worker]
  BY <1>2 DEF TypeOK, SpawnFailed, Task, States, Terminal
<1>3. QED  BY <1>1, <1>2 DEF Spawn

(* A fresh job has the type of a job.                                      *)
LEMMA FreshType ==
  ASSUME NEW op \in OpKinds, NEW path \in Paths \union {NoPath}
  PROVE  Fresh(op, path) \in Task
  BY DEF Fresh, Blank, Task, States, Active, OpKinds

LEMMA CreateType ==
  ASSUME TypeOK, NEW op \in OpKinds, NEW kept \in [TaskIds -> Task],
         NEW admitted \in BOOLEAN, Create(op, kept, admitted)
  PROVE  /\ task' \in [TaskIds -> Task] /\ thread' \in [Threads -> Worker]
         /\ nextId' \in 1 .. MaxTasks + 1
<1>1. CASE admitted
  <2>1. /\ nextId \in TaskIds /\ nextId' = nextId + 1
        /\ Spawn(nextId, [kept EXCEPT ![nextId] = Fresh(op, NoPath)])
    BY <1>1 DEF Create
  <2>2. [kept EXCEPT ![nextId] = Fresh(op, NoPath)] \in [TaskIds -> Task]
    BY <2>1, FreshType
  <2>3. nextId' \in 1 .. MaxTasks + 1
    BY <2>1, RegistryAssumption
  <2>4. QED  BY <2>1, <2>2, <2>3, SpawnType
<1>2. CASE ~admitted
  BY <1>2 DEF Create, TypeOK
<1>3. QED  BY <1>1, <1>2

(* A thread that is not idle has a job of the list.                        *)
LEMMA WorkerHasJob ==
  ASSUME TypeOK, BusyInv, NEW w \in Threads, thread[w].pc # "idle"
  PROVE  thread[w].task \in TaskIds /\ thread[w].task < nextId
  BY RegistryAssumption DEF TypeOK, BusyInv

LEMMA TypeStep == IInv /\ [Next]_vars => TypeOK'
<1> SUFFICES ASSUME TypeOK, SlotInv, ResultInv, [Next]_vars PROVE TypeOK'
  BY DEF IInv
<1> USE RegistryAssumption
<1>1. CASE CreateFs
  <2>1. PICK gone \in SUBSET Removable :
          Create("fs", Sweep(gone), ~HasActive(Sweep(gone)))
    BY <1>1 DEF CreateFs
  <2>2. QED  BY <1>1, <2>1, SweepType, CreateType DEF CreateFs, TypeOK, OpKinds
<1>2. CASE CreateUrl
  <2>1. PICK gone \in SUBSET Removable :
          Create("url", Sweep(gone), UrlAdmitted(Sweep(gone)))
    BY <1>2 DEF CreateUrl
  <2>2. UrlAdmitted(Sweep(gone)) \in BOOLEAN
    BY DEF UrlAdmitted
  <2>3. QED  BY <1>2, <2>1, <2>2, SweepType, CreateType DEF CreateUrl, TypeOK, OpKinds
<1>3. CASE EnqueuePkg
  <2>1. task' \in [TaskIds -> Task] /\ nextId' \in 1 .. MaxTasks + 1
    <3>1. \A path \in Paths : Fresh("pkg", path) \in Task
      BY FreshType DEF OpKinds
    <3>2. QED  BY <1>3, <3>1 DEF EnqueuePkg, TypeOK
  <2>2. QED  BY <1>3, <2>1 DEF EnqueuePkg, TypeOK
<1>4. CASE ListTasks
  <2>1. PICK gone \in SUBSET Removable :
          task' = [t \in TaskIds |->
                  [Sweep(gone)[t] EXCEPT
                     !.reported = @ \/ (Sweep(gone)[t].op = "pkg" /\ Sweep(gone)[t].state \in Terminal)]]
    BY <1>4 DEF ListTasks
  <2>2. Sweep(gone) \in [TaskIds -> Task]
    BY SweepType
  <2>3. task' \in [TaskIds -> Task]
    BY <2>1, <2>2 DEF Task
  <2>4. QED  BY <1>4, <2>3 DEF ListTasks, TypeOK
<1>5. ASSUME NEW t \in TaskIds, Cancel(t) PROVE TypeOK'
  <2>1. PICK s \in States : task' = [task EXCEPT ![t] = [task[t] EXCEPT !.cancel = TRUE, !.state = s]]
    <3>1. task[t] \in Task
      BY DEF TypeOK
    <3>2. task[t].state \in States /\ "CANCELED" \in States
      BY <3>1 DEF Task, States, Terminal
    <3>3. task' = [task EXCEPT ![t] = [task[t] EXCEPT !.cancel = TRUE,
                     !.state = IF Settled(t) THEN "CANCELED" ELSE task[t].state]]
      BY <1>5, <3>1 DEF Cancel, TypeOK, Task
    <3>4. QED  BY <3>2, <3>3
  <2>2. task' \in [TaskIds -> Task]
    BY <2>1, JobUpdate DEF TypeOK
  <2>3. QED  BY <1>5, <2>2 DEF Cancel, TypeOK
<1>6. CASE CancelBroadcast
  BY <1>6 DEF CancelBroadcast, AfterBroadcast, TypeOK
<1>7. ASSUME NEW t \in TaskIds, Pause(t) PROVE TypeOK'
  BY <1>7, JobUpdate DEF Pause, TypeOK
<1>8. ASSUME NEW t \in TaskIds, ResumeOrRetry(t) PROVE TypeOK'
  <2>1. [task EXCEPT ![t].state = "QUEUED", ![t].cancel = FALSE, ![t].pause = FALSE]
          \in [TaskIds -> Task]
    BY JobUpdate DEF TypeOK
  <2>2. task' \in [TaskIds -> Task] /\ thread' \in [Threads -> Worker]
    BY <1>8, <2>1, SpawnType DEF ResumeOrRetry
  <2>3. QED  BY <1>8, <2>2 DEF ResumeOrRetry, TypeOK
<1>9. CASE Exit
  BY <1>9 DEF Exit, TypeOK
<1>10. CASE StopScan
  <2>1. ASSUME NEW t \in TaskIds PROVE task'[t] \in Task
    <3>1. task[t] \in Task /\ task[t].state \in States /\ "CANCELED" \in States
      BY DEF TypeOK, Task, States, Terminal
    <3>2. QED  BY <1>10, <3>1, JobUpdate DEF StopScan
  <2>2. task' \in [TaskIds -> Task]
    BY <1>10, <2>1 DEF StopScan
  <2>3. QED  BY <1>10, <2>2 DEF StopScan, TypeOK
<1>11. CASE StopBroadcast
  BY <1>11 DEF StopBroadcast, AfterBroadcast, TypeOK
<1>12. CASE PkgTake
  <2>1. CASE UNCHANGED task /\ pkgWorker' = [pkgWorker EXCEPT !.pc = "waiting"]
    BY <1>12, <2>1 DEF PkgTake, TypeOK
  <2>2. ASSUME NEW t \in QueuedPkgs, task' = [task EXCEPT ![t].state = "RUNNING"],
               pkgWorker' = [pc |-> "install", task |-> t]
        PROVE  TypeOK'
    <3>1. t \in TaskIds /\ "RUNNING" \in States
      BY DEF QueuedPkgs, States, Active
    <3>2. task' \in [TaskIds -> Task]
      BY <2>2, <3>1, JobUpdate DEF TypeOK
    <3>3. QED  BY <1>12, <2>2, <3>1, <3>2 DEF PkgTake, TypeOK
  <2>3. QED  BY <1>12, <2>1, <2>2 DEF PkgTake
<1>13. CASE PkgFinish
  <2>1. PICK end \in {"DONE", "FAILED"} :
          task' = [task EXCEPT ![pkgWorker.task].state = end]
    BY <1>13 DEF PkgFinish
  <2>2. task' \in [TaskIds -> Task]
    BY <2>1, JobUpdate DEF TypeOK, States, Terminal
  <2>3. QED  BY <1>13, <2>2 DEF PkgFinish, TypeOK
<1>14. ASSUME NEW w \in Threads, Step(w) PROVE TypeOK'
  <2>1. thread[w] \in Worker
    BY DEF TypeOK
  <2>0. /\ {"prepare", "run", "giveback", "settle", "detach"} \subseteq Body \union {"idle", "detach"}
        /\ {"early", "ok", "error", "canceled", "paused"} \subseteq Results
    BY DEF Body, Results
  <2>2. CASE Attach(w)
    <3>1. task' \in [TaskIds -> Task]
      BY <2>2, JobUpdate DEF Attach, TypeOK
    <3>2. thread' \in [Threads -> Worker]
      BY <2>1, <2>2, WorkerUpdate DEF Attach, TypeOK, Body
    <3>3. QED  BY <2>2, <3>1, <3>2 DEF Attach, TypeOK
  <2>3. CASE TakeSlot(w)
    <3>1. thread' \in [Threads -> Worker]
      <4>1. [thread EXCEPT ![w].pc = "prepare"] \in [Threads -> Worker]
        BY <2>1, <2>0, WorkerUpdate DEF TypeOK
      <4>2. [thread EXCEPT ![w].pc = "prepare", ![w].slot = TRUE] \in [Threads -> Worker]
        BY <2>1, <2>0, WorkerUpdate DEF TypeOK
      <4>3. QED  BY <2>3, <4>1, <4>2 DEF TakeSlot, TypeOK
    <3>2. QED  BY <2>3, <3>1 DEF TakeSlot, TypeOK
  <2>4. CASE Prepare(w)
    <3>1. task' \in [TaskIds -> Task]
      <4>1. \A s \in {"RUNNING", "CANCELED"} :
              [task EXCEPT ![thread[w].task].state = s] \in [TaskIds -> Task]
        BY JobUpdate DEF TypeOK, States, Active, Terminal
      <4>2. QED  BY <2>4, <4>1 DEF Prepare
    <3>2. thread' \in [Threads -> Worker]
      <4>1. [thread EXCEPT ![w].pc = "run"] \in [Threads -> Worker]
        BY <2>1, <2>0, WorkerUpdate DEF TypeOK
      <4>2. [thread EXCEPT ![w].pc = "giveback", ![w].result = "early"] \in [Threads -> Worker]
        BY <2>1, <2>0, WorkerUpdate DEF TypeOK
      <4>3. QED  BY <2>4, <4>1, <4>2 DEF Prepare
    <3>3. QED  BY <2>4, <3>1, <3>2 DEF Prepare, TypeOK
  <2>5. CASE Run(w)
    <3>1. thread' \in [Threads -> Worker]
      <4>1. \A r \in Results :
              [thread EXCEPT ![w].pc = "giveback", ![w].result = r] \in [Threads -> Worker]
        BY <2>1, <2>0, WorkerUpdate DEF TypeOK
      <4>2. QED  BY <2>0, <2>5, <4>1 DEF Run
    <3>2. QED  BY <2>5, <3>1 DEF Run, TypeOK
  <2>6. CASE GiveBack(w)
    <3>1. thread' \in [Threads -> Worker]
      BY <2>1, <2>6, WorkerUpdate DEF GiveBack, TypeOK, Body
    <3>2. urlWorkers' \in Nat
      <4>1. CASE thread[w].slot
        <5>1. w \in Holders /\ IsFiniteSet(Holders)
          BY <4>1, FS_Subset DEF Holders
        <5>2. urlWorkers # 0
          BY <5>1, FS_EmptySet DEF SlotInv
        <5>3. QED  BY <2>6, <4>1, <5>2 DEF GiveBack, TypeOK
      <4>2. QED  BY <2>6, <4>1 DEF GiveBack, TypeOK
    <3>3. QED  BY <2>6, <3>1, <3>2 DEF GiveBack, AfterBroadcast, TypeOK
  <2>7. CASE Settle(w)
    <3>1. Outcome(w) \in States
      BY <2>7 DEF Settle, ResultInv, Outcome, States, Terminal
    <3>2. task' \in [TaskIds -> Task]
      BY <2>7, <3>1, JobUpdate DEF Settle, TypeOK
    <3>3. thread' \in [Threads -> Worker]
      BY <2>1, <2>7, WorkerUpdate DEF Settle, TypeOK
    <3>4. QED  BY <2>7, <3>2, <3>3 DEF Settle, TypeOK
  <2>8. CASE Detach(w)
    <3>1. task' \in [TaskIds -> Task]
      BY <2>8, JobUpdate DEF Detach, TypeOK
    <3>2. thread' \in [Threads -> Worker]
      BY <2>1, <2>8, WorkerUpdate DEF Detach, TypeOK
    <3>3. QED  BY <2>8, <3>1, <3>2 DEF Detach, TypeOK
  <2>9. QED  BY <1>14, <2>2, <2>3, <2>4, <2>5, <2>6, <2>7, <2>8 DEF Step
<1>15. CASE CreateTransfer
  <2>1. PICK op \in Ops \cap {"upload", "download"}, gone \in SUBSET Removable :
          \/ /\ nextId \in TaskIds /\ nextId' = nextId + 1
             /\ task' = [Sweep(gone) EXCEPT ![nextId] = [Fresh(op, NoPath) EXCEPT
                           !.state = IF op = "upload" THEN "RUNNING" ELSE "QUEUED"]]
          \/ task' = Sweep(gone) /\ UNCHANGED nextId
    BY <1>15 DEF CreateTransfer
  <2>2. Sweep(gone) \in [TaskIds -> Task]
    BY SweepType
  <2>3. Fresh(op, NoPath) \in Task /\ {"RUNNING", "QUEUED"} \subseteq States
    BY FreshType DEF States, Active
  <2> DEFINE job == [Fresh(op, NoPath) EXCEPT !.state = IF op = "upload" THEN "RUNNING" ELSE "QUEUED"]
  <2>4. job \in Task
    BY <2>3, JobUpdate
  <2>5. \/ nextId \in TaskIds /\ nextId' = nextId + 1 /\ task' = [Sweep(gone) EXCEPT ![nextId] = job]
        \/ task' = Sweep(gone) /\ UNCHANGED nextId
    BY <2>1
  <2> HIDE DEF job
  <2>6. task' \in [TaskIds -> Task]
    BY <2>2, <2>4, <2>5
  <2>7. nextId' \in 1 .. MaxTasks + 1
    BY <2>5 DEF TypeOK
  <2>8. QED  BY <1>15, <2>6, <2>7 DEF CreateTransfer, TypeOK
<1>16. ASSUME NEW t \in TaskIds, OpenDownload(t) \/ EndTransfer(t) PROVE TypeOK'
  <2>0. {"RUNNING"} \union Terminal \subseteq States
    BY DEF States, Active
  <2>1. PICK s \in States : task' = [task EXCEPT ![t].state = s]
    <3>1. CASE OpenDownload(t)
      BY <2>0, <3>1 DEF OpenDownload
    <3>2. CASE EndTransfer(t)
      BY <2>0, <3>2 DEF EndTransfer
    <3>3. QED  BY <1>16, <3>1, <3>2
  <2>2. task' \in [TaskIds -> Task]
    BY <2>1, JobUpdate DEF TypeOK
  <2>3. QED  BY <1>16, <2>2 DEF OpenDownload, EndTransfer, TypeOK
<1>17. CASE UNCHANGED vars
  BY <1>17 DEF vars, TypeOK
<1>18. QED
  BY <1>1, <1>2, <1>3, <1>4, <1>5, <1>6, <1>7, <1>8, <1>9, <1>10, <1>11, <1>12,
     <1>13, <1>14, <1>15, <1>16, <1>17 DEF Next, Handler
-----------------------------------------------------------------------------
(* A step that moves no thread into or out of a transfer slot.             *)
LEMMA SlotKept ==
  ASSUME SlotInv, TypeOK, TypeOK', urlWorkers' = urlWorkers,
         \A w \in Threads : /\ thread'[w].slot = thread[w].slot
                            /\ thread'[w].slot => thread'[w].pc \in {"prepare", "run", "giveback"}
  PROVE  SlotInv'
<1>1. Holders' = Holders
  BY DEF Holders
<1>2. QED  BY <1>1 DEF SlotInv

(* A new thread holds no slot.                                             *)
LEMMA SlotSpawn ==
  ASSUME SlotInv, TypeOK, TypeOK', urlWorkers' = urlWorkers,
         NEW t, NEW tasks, Spawn(t, tasks)
  PROVE  SlotInv'
<1>1. ASSUME NEW v \in Threads, thread[v].pc = "idle",
             thread' = [thread EXCEPT ![v] = [Idle EXCEPT !.pc = "attach", !.task = t]]
      PROVE  SlotInv'
  <2>1. ASSUME NEW w \in Threads
        PROVE  /\ thread'[w].slot = thread[w].slot
               /\ thread'[w].slot => thread'[w].pc \in {"prepare", "run", "giveback"}
    <3>1. CASE w = v
      <4>1. thread'[w].slot = FALSE
        BY <1>1, <3>1 DEF TypeOK, Idle
      <4>2. thread[v] \in Worker /\ ~thread[v].slot
        BY <1>1 DEF TypeOK, SlotInv
      <4>3. QED  BY <3>1, <4>1, <4>2 DEF Worker
    <3>2. CASE w # v
      BY <1>1, <3>2 DEF TypeOK, SlotInv
    <3>3. QED  BY <3>1, <3>2
  <2>2. QED  BY <2>1, SlotKept
<1>2. CASE UNCHANGED thread
  BY <1>2, SlotKept DEF SlotInv
<1>3. QED  BY <1>1, <1>2 DEF Spawn

(* Slots are counted exactly and never exceed the limit.                   *)
LEMMA SlotStep == IInv /\ [Next]_vars /\ TypeOK' => SlotInv'
<1> SUFFICES ASSUME TypeOK, SlotInv, ResultInv, TypeOK', [Next]_vars PROVE SlotInv'
  BY DEF IInv
<1>1. ASSUME UNCHANGED <<thread, urlWorkers>> PROVE SlotInv'
  BY <1>1, SlotKept DEF SlotInv
<1>2. CASE CreateFs \/ CreateUrl
  <2>1. urlWorkers' = urlWorkers
    BY <1>2 DEF CreateFs, CreateUrl
  <2>2. ASSUME NEW t, NEW tasks, Spawn(t, tasks) PROVE SlotInv'
    BY <2>1, <2>2, SlotSpawn
  <2>3. QED  BY <1>1, <1>2, <2>1, <2>2 DEF CreateFs, CreateUrl, Create
<1>3. ASSUME NEW t \in TaskIds, ResumeOrRetry(t) PROVE SlotInv'
  <2>1. urlWorkers' = urlWorkers
    BY <1>3 DEF ResumeOrRetry
  <2>2. QED  BY <1>3, <2>1, SlotSpawn DEF ResumeOrRetry
<1>4. ASSUME NEW w \in Threads, Step(w) PROVE SlotInv'
  <2>0. ASSUME NEW v \in Threads PROVE thread[v] \in Worker /\ thread[v].slot \in BOOLEAN
    BY DEF TypeOK, Worker
  <2>1. CASE \/ Attach(w) \/ Settle(w) \/ Detach(w) \/ Run(w) \/ Prepare(w)
             \/ (TakeSlot(w) /\ urlWorkers' = urlWorkers)
             \/ (GiveBack(w) /\ ~thread[w].slot)
    <3>1. urlWorkers' = urlWorkers
      BY <2>1 DEF Attach, Settle, Detach, Run, Prepare, GiveBack
    <3>2. ASSUME NEW v \in Threads, v # w
          PROVE  thread'[v] = thread[v]
      BY <2>1, <3>2 DEF Attach, Settle, Detach, Run, Prepare, TakeSlot, GiveBack, TypeOK
    <3>3. /\ thread'[w].slot = thread[w].slot
          /\ thread'[w].slot => thread'[w].pc \in {"prepare", "run", "giveback"}
      <4>1. CASE Attach(w) \/ Settle(w) \/ Detach(w)
        <5>1. ~thread[w].slot /\ thread[w].slot = FALSE
          BY <2>0, <4>1 DEF Attach, Settle, Detach, SlotInv
        <5>2. QED  BY <2>0, <4>1, <5>1 DEF Attach, Settle, Detach, TypeOK, Worker, Idle
      <4>2. CASE Run(w) \/ Prepare(w)
        BY <2>0, <4>2 DEF Run, Prepare, TypeOK, Worker
      <4>3. CASE TakeSlot(w) /\ urlWorkers' = urlWorkers
        BY <2>0, <4>3 DEF TakeSlot, TypeOK, SlotInv, Worker
      <4>4. CASE GiveBack(w) /\ ~thread[w].slot
        BY <2>0, <4>4 DEF GiveBack, TypeOK, Worker
      <4>5. QED  BY <2>1, <4>1, <4>2, <4>3, <4>4
    <3>4. QED  BY <3>1, <3>2, <3>3, SlotKept DEF SlotInv
  <2>2. CASE TakeSlot(w) /\ urlWorkers' # urlWorkers
    <3>1. /\ urlWorkers' = urlWorkers + 1 /\ urlWorkers < WorkerLimit
          /\ thread' = [thread EXCEPT ![w].pc = "prepare", ![w].slot = TRUE]
          /\ thread[w].pc = "slot"
      BY <2>2 DEF TakeSlot, SlotFree
    <3>2. w \notin Holders /\ Holders' = Holders \union {w}
      BY <3>1 DEF Holders, SlotInv, TypeOK
    <3>3. IsFiniteSet(Holders)
      BY FS_Subset, RegistryAssumption DEF Holders
    <3>4. Cardinality(Holders') = Cardinality(Holders) + 1
      BY <3>2, <3>3, FS_AddElement
    <3>5. \A v \in Threads : thread'[v].slot => thread'[v].pc \in {"prepare", "run", "giveback"}
      BY <3>1 DEF SlotInv, TypeOK
    <3>6. QED  BY <3>1, <3>4, <3>5, RegistryAssumption DEF SlotInv, TypeOK
  <2>3. CASE GiveBack(w) /\ thread[w].slot
    <3>1. /\ urlWorkers' = urlWorkers - 1
          /\ thread[w].pc = "giveback"
          /\ \A v \in Threads \ {w} : thread'[v] = thread[v]
          /\ ~thread'[w].slot
      BY <2>3 DEF GiveBack, TypeOK
    <3>2. w \in Holders /\ Holders' = Holders \ {w}
      BY <2>3, <3>1 DEF Holders
    <3>3. IsFiniteSet(Holders)
      BY FS_Subset, RegistryAssumption DEF Holders
    <3>4. Cardinality(Holders') = Cardinality(Holders) - 1
      BY <3>2, <3>3, FS_RemoveElement
    <3>5. \A v \in Threads : thread'[v].slot => thread'[v].pc \in {"prepare", "run", "giveback"}
      BY <3>1 DEF SlotInv
    <3>6. QED  BY <3>1, <3>4, <3>5, RegistryAssumption DEF SlotInv, TypeOK
  <2>4. QED  BY <1>4, <2>1, <2>2, <2>3 DEF Step
<1>5. CASE \/ EnqueuePkg \/ ListTasks \/ Exit \/ CancelBroadcast \/ StopScan \/ StopBroadcast
           \/ PkgTake \/ PkgFinish \/ CreateTransfer
           \/ \E t \in TaskIds : Cancel(t) \/ Pause(t) \/ OpenDownload(t) \/ EndTransfer(t)
           \/ UNCHANGED vars
  BY <1>1, <1>5 DEF EnqueuePkg, ListTasks, Exit, CancelBroadcast, StopScan, StopBroadcast,
     PkgTake, PkgFinish, CreateTransfer, Cancel, Pause, OpenDownload, EndTransfer, vars
<1>6. QED  BY <1>2, <1>3, <1>4, <1>5 DEF Next, Handler

-----------------------------------------------------------------------------
(* What one step of worker thread w may change.                            *)
StepFacts(w) ==
  LET j == thread[w].task IN
  /\ UNCHANGED <<nextId, pkgWorker>>
  /\ j \in TaskIds /\ j < nextId
  /\ \A t \in TaskIds \ {j} : task'[t] = task[t]
  /\ \A v \in Threads \ {w} : thread'[v] = thread[v]
  /\ task'[j].op = task[j].op
  /\ task'[j].state # task[j].state => Busy(w)
  /\ thread'[w].pc # "idle" => thread'[w].task = j
  /\ Busy(w)' => Busy(w) /\ IsActive(task', j)
  /\ Busy(w) /\ ~Busy(w)' => ~IsActive(task', j)

(* Setting the state of a job leaves its kind and the other jobs alone.    *)
LEMMA FieldsOfJob ==
  ASSUME NEW tasks \in [TaskIds -> Task], NEW j \in TaskIds, NEW s
  PROVE  /\ [tasks EXCEPT ![j].state = s][j].state = s
         /\ [tasks EXCEPT ![j].state = s][j].op = tasks[j].op
         /\ \A t \in TaskIds \ {j} : [tasks EXCEPT ![j].state = s][t] = tasks[t]
  BY DEF Task

(* One step of a worker touches only its own job and its own record.       *)
LEMMA StepEffect ==
  ASSUME TypeOK, ResultInv, BusyInv, NEW w \in Threads, Step(w)
  PROVE  StepFacts(w) /\ ResultInv'
<1> DEFINE j == thread[w].task
<1>1. thread[w].pc # "idle"
  BY DEF Step, Attach, TakeSlot, Prepare, Run, GiveBack, Settle, Detach
<1>2. j \in TaskIds /\ j < nextId
  BY <1>1, WorkerHasJob
<1>3. Busy(w) => IsActive(task, j)
  BY DEF BusyInv, Working
<1> HIDE DEF j
<1>4. thread \in [Threads -> Worker] /\ task \in [TaskIds -> Task]
      /\ thread[w] \in Worker /\ task[j] \in Task
  BY <1>2 DEF TypeOK
<1>5. CASE Attach(w)
  <2>1. CASE task[j].op = "url"
    BY <1>2, <1>3, <1>4, <1>5, <2>1
    DEF j, Attach, StepFacts, ResultInv, Busy, Body, IsActive, Active, Task, Worker
  <2>2. CASE task[j].op # "url"
    BY <1>2, <1>3, <1>4, <1>5, <2>2
    DEF j, Attach, StepFacts, ResultInv, Busy, Body, IsActive, Active, Task, Worker
  <2>3. QED  BY <2>1, <2>2
<1>6. CASE TakeSlot(w)
  BY <1>2, <1>3, <1>4, <1>6
  DEF j, TakeSlot, StepFacts, ResultInv, Busy, Body, IsActive, Worker
<1>7. CASE Prepare(w)
  <2>1. Busy(w) /\ thread[w].pc = "prepare" /\ thread[w].result = "none"
    BY <1>7 DEF Prepare, Busy, Body, ResultInv
  <2>2. UNCHANGED <<nextId, pkgWorker>>
    BY <1>7 DEF Prepare
  <2>3. CASE ~task[j].cancel
    <3>1. /\ task' = [task EXCEPT ![j].state = "RUNNING"]
          /\ thread' = [thread EXCEPT ![w].pc = "run"]
      BY <1>7, <2>3 DEF j, Prepare
    <3>2. /\ task'[j].state = "RUNNING" /\ task'[j].op = task[j].op
          /\ \A t \in TaskIds \ {j} : task'[t] = task[t]
      BY <1>2, <1>4, <3>1, FieldsOfJob
    <3>3. /\ thread'[w].pc = "run" /\ thread'[w].result = "none" /\ thread'[w].task = j
          /\ \A v \in Threads \ {w} : thread'[v] = thread[v]
      BY <1>4, <2>1, <3>1 DEF j, Worker
    <3>4. IsActive(task', j) /\ ResultInv'
      BY <3>2, <3>3 DEF IsActive, Active, ResultInv
    <3>5. QED  BY <1>2, <2>1, <2>2, <3>2, <3>3, <3>4 DEF j, StepFacts, Busy, Body
  <2>4. CASE task[j].cancel
    <3>1. /\ task' = [task EXCEPT ![j].state = "CANCELED"]
          /\ thread' = [thread EXCEPT ![w].pc = "giveback", ![w].result = "early"]
      BY <1>7, <2>4 DEF j, Prepare
    <3>2. /\ task'[j].state = "CANCELED" /\ task'[j].op = task[j].op
          /\ \A t \in TaskIds \ {j} : task'[t] = task[t]
      BY <1>2, <1>4, <3>1, FieldsOfJob
    <3>3. /\ thread'[w].pc = "giveback" /\ thread'[w].result = "early" /\ thread'[w].task = j
          /\ \A v \in Threads \ {w} : thread'[v] = thread[v]
      BY <1>4, <3>1 DEF j, Worker
    <3>4. ~IsActive(task', j) /\ ResultInv'
      BY <3>2, <3>3 DEF IsActive, Active, ResultInv
    <3>5. QED  BY <1>2, <2>1, <2>2, <3>2, <3>3, <3>4 DEF j, StepFacts, Busy
  <2>5. QED  BY <2>3, <2>4
<1>8. CASE Run(w)
  BY <1>2, <1>3, <1>4, <1>8
  DEF j, Run, StepFacts, ResultInv, Busy, Body, IsActive, Worker
<1>9. CASE GiveBack(w)
  BY <1>2, <1>3, <1>4, <1>9
  DEF j, GiveBack, StepFacts, ResultInv, Busy, Body, IsActive, Worker, Results
<1>10. CASE Settle(w)
  <2>1. Outcome(w) \notin Active /\ Busy(w)
    BY <1>10 DEF Settle, Outcome, ResultInv, Active, Busy, Body
  <2>2. /\ task'[j].state = Outcome(w) /\ task'[j].op = task[j].op
        /\ \A t \in TaskIds \ {j} : task'[t] = task[t]
        /\ UNCHANGED <<nextId, pkgWorker>>
    BY <1>2, <1>4, <1>10 DEF j, Settle, Task
  <2>3. /\ thread'[w].pc = "detach" /\ thread'[w].task = j
        /\ \A v \in Threads \ {w} : thread'[v] = thread[v]
    BY <1>4, <1>10 DEF j, Settle, Worker
  <2>4. ResultInv'
    BY <2>3 DEF ResultInv
  <2>5. ~IsActive(task', j) /\ ~Busy(w)'
    BY <2>1, <2>2, <2>3 DEF IsActive, Busy, Body
  <2>6. QED  BY <1>2, <2>1, <2>2, <2>3, <2>4, <2>5 DEF j, StepFacts
<1>11. CASE Detach(w)
  BY <1>2, <1>4, <1>11
  DEF j, Detach, StepFacts, ResultInv, Busy, Body, Idle, Task, Worker
<1>12. QED  BY <1>5, <1>6, <1>7, <1>8, <1>9, <1>10, <1>11 DEF Step

(* A worker step keeps the binding between busy workers and active jobs.   *)
LEMMA StepInv ==
  ASSUME TypeOK, TypeOK', BusyInv, OwnedInv, PkgInv, UncreatedInv, FsExclusive,
         NEW w \in Threads, StepFacts(w)
  PROVE  BusyInv' /\ OwnedInv' /\ PkgInv' /\ UncreatedInv' /\ FsExclusive'
<1> DEFINE j == thread[w].task
<1>1. /\ UNCHANGED <<nextId, pkgWorker>>
      /\ j \in TaskIds /\ j < nextId
      /\ \A t \in TaskIds \ {j} : task'[t] = task[t]
      /\ \A v \in Threads \ {w} : thread'[v] = thread[v]
      /\ task'[j].op = task[j].op
      /\ task'[j].state # task[j].state => Busy(w)
      /\ thread'[w].pc # "idle" => thread'[w].task = j
      /\ Busy(w)' => Busy(w) /\ IsActive(task', j)
      /\ Busy(w) /\ ~Busy(w)' => ~IsActive(task', j)
  BY DEF StepFacts
<1>2. Busy(w) => Working(task, j)
  BY DEF BusyInv
<1>3. \A v \in Threads \ {w} : (Busy(v)' <=> Busy(v)) /\ (Busy(v) /\ Busy(w) => thread[v].task # j)
  BY <1>1 DEF Busy, BusyInv
<1>4. \A v \in Threads : Busy(v) => thread[v].pc # "idle" /\ thread[v].task \in TaskIds
  BY WorkerHasJob DEF Busy, Body
<1>5. \A v \in Threads : Busy(v)' => thread'[v].pc # "idle"
  BY DEF Busy, Body
<1>6. \A t \in TaskIds :
        /\ task'[t].op = task[t].op
        /\ Working(task', t) => Working(task, t)
  BY <1>1, <1>2 DEF Working, IsActive
<1>7. BusyInv'
  <2>1. ASSUME NEW v \in Threads PROVE thread'[v].pc # "idle" => thread'[v].task \in 1 .. nextId' - 1
    <3>1. CASE v = w
      BY <1>1, <3>1 DEF TypeOK
    <3>2. CASE v # w
      BY <1>1, <3>2 DEF BusyInv
    <3>3. QED  BY <3>1, <3>2
  <2>2. ASSUME NEW v \in Threads, Busy(v)' PROVE Working(task', thread'[v].task)
    <3>1. CASE v = w
      BY <1>1, <1>2, <1>5, <2>2, <3>1 DEF Working
    <3>2. CASE v # w
      <4>1. Busy(v) /\ thread'[v] = thread[v] /\ thread[v].task \in TaskIds
        BY <1>1, <1>3, <1>4, <2>2, <3>2
      <4>2. Working(task, thread[v].task)
        BY <4>1 DEF BusyInv
      <4>3. CASE thread[v].task = j
        BY <1>1, <1>3, <3>2, <4>1, <4>2, <4>3 DEF Working, IsActive
      <4>4. CASE thread[v].task # j
        BY <1>1, <4>1, <4>2, <4>4 DEF Working, IsActive
      <4>5. QED  BY <4>3, <4>4
    <3>3. QED  BY <3>1, <3>2
  <2>3. ASSUME NEW u \in Threads, NEW v \in Threads, Busy(u)', Busy(v)',
               thread'[u].task = thread'[v].task
        PROVE  u = v
    <3>1. /\ Busy(u) /\ Busy(v)
          /\ thread'[u].task = thread[u].task /\ thread'[v].task = thread[v].task
      BY <1>1, <1>3, <1>5, <2>3
    <3>2. QED  BY <2>3, <3>1 DEF BusyInv
  <2>4. QED  BY <2>1, <2>2, <2>3 DEF BusyInv
<1>8. OwnedInv'
  <2>1. ASSUME NEW t \in TaskIds, Working(task', t)
        PROVE  \E v \in Threads : Busy(v)' /\ thread'[v].task = t
    <3>1. PICK v \in Threads : Busy(v) /\ thread[v].task = t
      BY <1>6, <2>1 DEF OwnedInv
    <3>2. Busy(v)'
      BY <1>1, <1>3, <2>1, <3>1 DEF Working
    <3>3. thread'[v].task = t
      BY <1>1, <1>5, <3>1, <3>2
    <3>4. QED  BY <3>2, <3>3
  <2>2. QED  BY <2>1 DEF OwnedInv
<1>9. PkgInv'
  <2>1. \A t \in TaskIds : task[t].op = "pkg" => task'[t].state = task[t].state
    BY <1>1, <1>2 DEF Working
  <2>2. QED  BY <1>1, <1>6, <2>1, RegistryAssumption DEF PkgInv, TypeOK
<1>10. UncreatedInv'
  BY <1>1 DEF UncreatedInv, TypeOK
<1>11. FsExclusive'
  BY <1>6 DEF FsExclusive, Working
<1>12. QED  BY <1>7, <1>8, <1>9, <1>10, <1>11

-----------------------------------------------------------------------------
(* A step of anyone else that neither starts nor ends an operation.        *)
Quiet ==
  /\ UNCHANGED thread
  /\ nextId' >= nextId
  /\ \A t \in TaskIds : Working(task', t) <=> Working(task, t)
  /\ \A t \in TaskIds : Working(task, t) => task'[t].op = task[t].op
  /\ \A t \in TaskIds : t >= nextId' => task'[t].state = "NONE"

LEMMA QuietInv ==
  ASSUME TypeOK, TypeOK', BusyInv, OwnedInv, FsExclusive, Quiet
  PROVE  BusyInv' /\ OwnedInv' /\ UncreatedInv' /\ FsExclusive'
<1>1. \A w \in Threads : (Busy(w)' <=> Busy(w)) /\ thread'[w] = thread[w]
  BY DEF Quiet, Busy
<1>2. \A w \in Threads : Busy(w) => thread[w].task \in TaskIds
  BY WorkerHasJob DEF Busy, Body
<1>3. BusyInv'
  <2>1. \A w \in Threads : thread'[w].pc # "idle" => thread'[w].task \in 1 .. nextId' - 1
    BY <1>1 DEF Quiet, BusyInv, TypeOK
  <2>2. \A w \in Threads : Busy(w)' => Working(task', thread'[w].task)
    BY <1>1, <1>2 DEF Quiet, BusyInv
  <2>3. QED  BY <1>1, <2>1, <2>2 DEF BusyInv
<1>4. OwnedInv'
  BY <1>1 DEF Quiet, OwnedInv
<1>5. FsExclusive'
  <2>1. ASSUME NEW t \in TaskIds, task'[t].op = "fs", IsActive(task', t)
        PROVE  task[t].op = "fs" /\ IsActive(task, t)
    <3>1. Working(task', t)
      BY <2>1 DEF Working
    <3>2. Working(task, t) /\ task'[t].op = task[t].op
      BY <3>1 DEF Quiet
    <3>3. QED  BY <2>1, <3>2 DEF Working
  <2>2. QED  BY <2>1 DEF FsExclusive
<1>6. QED  BY <1>3, <1>4, <1>5 DEF Quiet, UncreatedInv

(* Starting a thread for job t, which is on its way to QUEUED and was not  *)
(* active, keeps busy workers and active jobs matched.                     *)
LEMMA SpawnInv ==
  ASSUME TypeOK, TypeOK', BusyInv, OwnedInv,
         NEW t \in TaskIds, NEW tasks \in [TaskIds -> Task], Spawn(t, tasks),
         tasks[t].state = "QUEUED", tasks[t].op \in {"fs", "url"},
         ~Working(task, t), t < nextId', nextId' >= nextId,
         \A u \in TaskIds \ {t} : Working(tasks, u) <=> Working(task, u)
  PROVE  BusyInv' /\ OwnedInv'
<1>1. Working(tasks, t)
  BY DEF Working, IsActive, Active
<1>2. \A v \in Threads : Busy(v) => thread[v].pc # "idle" /\ thread[v].task \in TaskIds \ {t}
  BY WorkerHasJob DEF Busy, Body, BusyInv
<1>3. ASSUME NEW w \in Threads, thread[w].pc = "idle", task' = tasks,
             thread' = [thread EXCEPT ![w] = [Idle EXCEPT !.pc = "attach", !.task = t]]
      PROVE  BusyInv' /\ OwnedInv'
  <2>1. /\ thread'[w].pc = "attach" /\ thread'[w].task = t /\ thread'[w].result = "none"
        /\ \A v \in Threads \ {w} : thread'[v] = thread[v]
    BY <1>3 DEF TypeOK, Idle
  <2>2. Busy(w)' /\ ~Busy(w) /\ \A v \in Threads \ {w} : Busy(v)' <=> Busy(v)
    BY <1>2, <1>3, <2>1 DEF Busy, Body
  <2>3. \A v \in Threads : thread'[v].pc # "idle" => thread'[v].task \in 1 .. nextId' - 1
    BY <2>1 DEF BusyInv, TypeOK
  <2>4. \A v \in Threads : Busy(v)' => Working(task', thread'[v].task)
    BY <1>1, <1>2, <1>3, <2>1, <2>2 DEF BusyInv
  <2>5. \A u, v \in Threads : Busy(u)' /\ Busy(v)' /\ thread'[u].task = thread'[v].task => u = v
    BY <1>2, <2>1, <2>2 DEF BusyInv
  <2>6. ASSUME NEW u \in TaskIds, Working(task', u)
        PROVE  \E v \in Threads : Busy(v)' /\ thread'[v].task = u
    <3>1. CASE u = t
      BY <2>1, <2>2, <3>1
    <3>2. CASE u # t
      <4>1. PICK v \in Threads : Busy(v) /\ thread[v].task = u
        BY <1>3, <2>6, <3>2 DEF OwnedInv
      <4>2. QED  BY <2>1, <2>2, <4>1
    <3>3. QED  BY <3>1, <3>2
  <2>7. QED  BY <2>3, <2>4, <2>5, <2>6 DEF BusyInv, OwnedInv
<1>4. CASE task' = SpawnFailed(t, tasks) /\ UNCHANGED thread
  <2>1. ~Working(task', t) /\ \A u \in TaskIds \ {t} : Working(task', u) <=> Working(task, u)
    BY <1>4, FieldsOfJob DEF SpawnFailed, Working, IsActive, Active
  <2>2. \A v \in Threads : (Busy(v)' <=> Busy(v)) /\ thread'[v] = thread[v]
    BY <1>4 DEF Busy
  <2>3. \A v \in Threads : thread'[v].pc # "idle" => thread'[v].task \in 1 .. nextId' - 1
    BY <2>2 DEF BusyInv, TypeOK
  <2>4. \A v \in Threads : Busy(v)' => Working(task', thread'[v].task)
    BY <1>2, <2>1, <2>2 DEF BusyInv
  <2>5. OwnedInv'
    BY <2>1, <2>2 DEF OwnedInv
  <2>6. QED  BY <2>2, <2>3, <2>4, <2>5 DEF BusyInv
<1>5. QED  BY <1>3, <1>4 DEF Spawn

(* The sweep frees no active job and no running package install.           *)
LEMMA SweepKeeps ==
  ASSUME TypeOK, UncreatedInv, NEW gone \in SUBSET Removable
  PROVE  /\ \A t \in TaskIds : Working(Sweep(gone), t) <=> Working(task, t)
         /\ \A t \in TaskIds : IsActive(task, t) => Sweep(gone)[t] = task[t]
         /\ \A t \in TaskIds : Sweep(gone)[t].op = "pkg" => Sweep(gone)[t] = task[t]
         /\ \A t \in TaskIds : t >= nextId => Sweep(gone)[t].state = "NONE"
  BY DEF TypeOK, UncreatedInv, Sweep, Removable, Working, IsActive, Active, Terminal, Blank

(* Starting a thread changes no job but the one it is for.                 *)
LEMMA SpawnShape ==
  ASSUME NEW t \in TaskIds, NEW tasks \in [TaskIds -> Task], Spawn(t, tasks)
  PROVE  task'[t].op = tasks[t].op /\ \A u \in TaskIds \ {t} : task'[u] = tasks[u]
<1>1. CASE task' = tasks
  BY <1>1
<1>2. CASE task' = SpawnFailed(t, tasks)
  BY <1>2, FieldsOfJob DEF SpawnFailed
<1>3. QED  BY <1>1, <1>2 DEF Spawn

(* Creating a job: a file system job is admitted only when nothing works.  *)
LEMMA CreateInv ==
  ASSUME TypeOK, BusyInv, OwnedInv, PkgInv, UncreatedInv, FsExclusive, TypeOK',
         NEW gone \in SUBSET Removable, NEW op \in {"fs", "url"},
         NEW admitted \in BOOLEAN, Create(op, Sweep(gone), admitted),
         op = "fs" /\ admitted => ~HasActive(Sweep(gone)),
         UNCHANGED pkgWorker
  PROVE  BusyInv' /\ OwnedInv' /\ PkgInv' /\ UncreatedInv' /\ FsExclusive'
<1> DEFINE kept == Sweep(gone)
<1>1. /\ \A t \in TaskIds : Working(kept, t) <=> Working(task, t)
      /\ \A t \in TaskIds : IsActive(task, t) => kept[t] = task[t]
      /\ \A t \in TaskIds : kept[t].op = "pkg" => kept[t] = task[t]
      /\ \A t \in TaskIds : t >= nextId => kept[t].state = "NONE"
      /\ kept \in [TaskIds -> Task]
  BY SweepKeeps, SweepType
<1> HIDE DEF kept
<1>2. CASE ~admitted
  <2>1. task' = kept /\ UNCHANGED <<nextId, thread>>
    BY <1>2 DEF Create, kept
  <2>2. Quiet
    BY <1>1, <2>1 DEF Quiet, Working, IsActive, TypeOK
  <2>3. PkgInv'
    <3>1. \A t \in TaskIds : task'[t].op = "pkg" => task'[t] = task[t]
      BY <1>1, <2>1
    <3>2. pkgWorker.pc = "install" => task'[pkgWorker.task] = task[pkgWorker.task]
      <4>1. pkgWorker.pc = "install" => pkgWorker.task \in TaskIds /\ IsActive(task, pkgWorker.task)
        BY RegistryAssumption DEF PkgInv, TypeOK, IsActive, Active
      <4>2. QED  BY <1>1, <2>1, <4>1
    <3>3. QED  BY <2>1, <3>1, <3>2 DEF PkgInv
  <2>4. QED  BY <2>2, <2>3, QuietInv
<1>3. CASE admitted
  <2> DEFINE tasks == [kept EXCEPT ![nextId] = Fresh(op, NoPath)]
  <2>1. nextId \in TaskIds /\ nextId' = nextId + 1 /\ Spawn(nextId, tasks)
    BY <1>3 DEF Create, kept
  <2>2. Fresh(op, NoPath) \in Task
    BY FreshType DEF OpKinds
  <2>3. /\ tasks \in [TaskIds -> Task]
        /\ tasks[nextId].op = op /\ tasks[nextId].state = "QUEUED"
        /\ \A u \in TaskIds \ {nextId} : tasks[u] = kept[u]
    BY <1>1, <2>1, <2>2 DEF Fresh, Blank
  <2> HIDE DEF tasks
  <2>4. task'[nextId].op = op /\ \A u \in TaskIds \ {nextId} : task'[u] = kept[u]
    BY <2>1, <2>3, SpawnShape
  <2>5. task[nextId].state = "NONE"
    BY <2>1 DEF UncreatedInv, TypeOK
  <2>6. BusyInv' /\ OwnedInv'
    <3>1. ~Working(task, nextId) /\ \A u \in TaskIds \ {nextId} : Working(tasks, u) <=> Working(task, u)
      BY <1>1, <2>3, <2>5 DEF Working, IsActive, Active
    <3>2. nextId < nextId' /\ nextId' >= nextId
      BY <2>1
    <3>3. QED  BY <2>1, <2>3, <3>1, <3>2, SpawnInv
  <2>7. UncreatedInv'
    BY <1>1, <2>1, <2>4 DEF UncreatedInv, TypeOK
  <2>8. PkgInv'
    <3>1. \A t \in TaskIds : task'[t].op = "pkg" => task'[t] = task[t]
      BY <1>1, <2>4
    <3>2. pkgWorker.pc = "install" => task'[pkgWorker.task] = task[pkgWorker.task]
      <4>1. ASSUME pkgWorker.pc = "install"
            PROVE  pkgWorker.task \in TaskIds \ {nextId} /\ IsActive(task, pkgWorker.task)
        BY <4>1, <2>5, RegistryAssumption DEF PkgInv, TypeOK, IsActive, Active
      <4>2. QED  BY <1>1, <2>4, <4>1
    <3>3. QED  BY <2>1, <3>1, <3>2 DEF PkgInv, TypeOK
  <2>9. FsExclusive'
    <3>1. \A t \in TaskIds \ {nextId} : IsActive(task', t) /\ task'[t].op = "fs" =>
            Working(kept, t) /\ task'[t] = kept[t]
      BY <2>4 DEF Working, IsActive
    <3>2. CASE op = "fs"
      <4>1. \A t \in TaskIds : ~Working(kept, t)
        BY <1>3, <3>2 DEF HasActive, Working, kept
      <4>2. QED  BY <3>1, <4>1 DEF FsExclusive
    <3>3. CASE op = "url"
      <4>1. \A t \in TaskIds : task'[t].op = "fs" /\ IsActive(task', t) =>
              task[t].op = "fs" /\ IsActive(task, t)
        <5>1. ASSUME NEW t \in TaskIds, task'[t].op = "fs", IsActive(task', t)
              PROVE  task[t].op = "fs" /\ IsActive(task, t)
          <6>1. t # nextId
            BY <2>4, <3>3, <5>1
          <6>2. Working(kept, t) /\ task'[t] = kept[t]
            BY <3>1, <5>1, <6>1
          <6>3. IsActive(task, t)
            BY <1>1, <6>2 DEF Working
          <6>4. QED  BY <1>1, <5>1, <6>2, <6>3
        <5>2. QED  BY <5>1
      <4>2. QED  BY <4>1 DEF FsExclusive
    <3>4. QED  BY <3>2, <3>3
  <2>10. QED  BY <2>6, <2>7, <2>8, <2>9
<1>4. QED  BY <1>2, <1>3

(* A step that starts and ends no job with a thread, and no install.       *)
Mild ==
  /\ UNCHANGED <<thread, nextId, pkgWorker>>
  /\ \A t \in TaskIds :
       /\ Working(task, t) => task'[t].op = task[t].op
       /\ Working(task', t) <=> Working(task, t)
       /\ task'[t].op = "pkg" /\ task'[t].state = "RUNNING" <=>
            task[t].op = "pkg" /\ task[t].state = "RUNNING"
       /\ task[t].state = "NONE" => task'[t].state = "NONE"

LEMMA MildInv ==
  ASSUME TypeOK, BusyInv, OwnedInv, PkgInv, UncreatedInv, FsExclusive, TypeOK', Mild
  PROVE  BusyInv' /\ OwnedInv' /\ PkgInv' /\ UncreatedInv' /\ FsExclusive'
<1>1. Quiet
  BY DEF Mild, Quiet, UncreatedInv, TypeOK
<1>2. PkgInv'
  BY RegistryAssumption DEF Mild, PkgInv, TypeOK
<1>3. QED  BY <1>1, <1>2, QuietInv

(* Creating a job of the browser starts no thread and no install.          *)
LEMMA TransferInv ==
  ASSUME TypeOK, BusyInv, OwnedInv, PkgInv, UncreatedInv, FsExclusive, TypeOK', CreateTransfer
  PROVE  BusyInv' /\ OwnedInv' /\ PkgInv' /\ UncreatedInv' /\ FsExclusive'
<1>1. PICK op \in {"upload", "download"}, gone \in SUBSET Removable :
        \/ /\ nextId \in TaskIds /\ nextId' = nextId + 1
           /\ task' = [Sweep(gone) EXCEPT ![nextId] = [Fresh(op, NoPath) EXCEPT
                         !.state = IF op = "upload" THEN "RUNNING" ELSE "QUEUED"]]
        \/ task' = Sweep(gone) /\ UNCHANGED nextId
  BY DEF CreateTransfer
<1> DEFINE kept == Sweep(gone)
           job == [Fresh(op, NoPath) EXCEPT !.state = IF op = "upload" THEN "RUNNING" ELSE "QUEUED"]
<1>2. /\ \A t \in TaskIds : Working(kept, t) <=> Working(task, t)
      /\ \A t \in TaskIds : IsActive(task, t) => kept[t] = task[t]
      /\ \A t \in TaskIds : kept[t].op = "pkg" => kept[t] = task[t]
      /\ \A t \in TaskIds : t >= nextId => kept[t].state = "NONE"
      /\ kept \in [TaskIds -> Task]
  BY SweepKeeps, SweepType
<1>3. job.op = op
  BY DEF Fresh, Blank
<1>4. \/ /\ nextId \in TaskIds /\ nextId' = nextId + 1 /\ task[nextId].state = "NONE"
         /\ task'[nextId] = job /\ \A t \in TaskIds \ {nextId} : task'[t] = kept[t]
      \/ nextId' = nextId /\ \A t \in TaskIds : task'[t] = kept[t]
  BY <1>1, <1>2 DEF UncreatedInv, TypeOK
<1> HIDE DEF kept, job
<1>5. UNCHANGED <<thread, pkgWorker>>
  BY DEF CreateTransfer
<1>6. Quiet
  <2>1. ASSUME NEW t \in TaskIds
        PROVE  /\ Working(task', t) <=> Working(task, t)
               /\ Working(task, t) => task'[t].op = task[t].op
    <3>1. CASE task'[t] = kept[t]
      BY <1>2, <3>1 DEF Working, IsActive
    <3>2. CASE task'[t] # kept[t]
      BY <1>3, <1>4, <3>2 DEF Working, IsActive, Active
    <3>3. QED  BY <3>1, <3>2
  <2>2. \A t \in TaskIds : t >= nextId' => task'[t].state = "NONE"
    BY <1>2, <1>4 DEF TypeOK
  <2>3. nextId' >= nextId
    BY <1>4 DEF TypeOK
  <2>4. QED  BY <1>5, <2>1, <2>2, <2>3 DEF Quiet
<1>7. PkgInv'
  <2>1. \A t \in TaskIds : task'[t].op = "pkg" => task'[t] = task[t]
    BY <1>2, <1>3, <1>4
  <2>2. ASSUME pkgWorker.pc = "install"
        PROVE  pkgWorker.task \in TaskIds /\ task'[pkgWorker.task] = task[pkgWorker.task]
    <3>1. pkgWorker.task \in TaskIds /\ task[pkgWorker.task].state = "RUNNING"
      BY <2>2, RegistryAssumption DEF PkgInv, TypeOK
    <3>2. QED  BY <1>2, <1>4, <3>1 DEF IsActive, Active
  <2>3. nextId' >= nextId
    BY <1>4 DEF TypeOK
  <2>4. QED  BY <1>5, <2>1, <2>2, <2>3, RegistryAssumption DEF PkgInv, TypeOK
<1>8. QED  BY <1>6, <1>7, QuietInv

(* Every step of a handler, of the stopper or of the installer.            *)
LEMMA OtherStep ==
  ASSUME TypeOK, BusyInv, OwnedInv, PkgInv, UncreatedInv, FsExclusive, TypeOK',
         Handler \/ StopScan \/ StopBroadcast \/ PkgTake \/ PkgFinish \/ UNCHANGED vars
  PROVE  BusyInv' /\ OwnedInv' /\ PkgInv' /\ UncreatedInv' /\ FsExclusive'
<1> DEFINE Goal == BusyInv' /\ OwnedInv' /\ PkgInv' /\ UncreatedInv' /\ FsExclusive'
<1> HIDE DEF Goal
<1>1. CASE CreateFs
  <2>1. PICK gone \in SUBSET Removable :
          Create("fs", Sweep(gone), ~HasActive(Sweep(gone)))
    BY <1>1 DEF CreateFs
  <2>2. QED  BY <1>1, <2>1, CreateInv DEF CreateFs, Goal
<1>2. CASE CreateUrl
  <2>1. PICK gone \in SUBSET Removable :
          Create("url", Sweep(gone), UrlAdmitted(Sweep(gone)))
    BY <1>2 DEF CreateUrl
  <2>2. UrlAdmitted(Sweep(gone)) \in BOOLEAN
    BY DEF UrlAdmitted
  <2>3. QED  BY <1>2, <2>1, <2>2, CreateInv DEF CreateUrl, Goal
<1>3. CASE EnqueuePkg
  <2>1. CASE UNCHANGED <<task, nextId>>
    <3>1. UNCHANGED thread /\ pkgWorker'.task = pkgWorker.task
          /\ (pkgWorker'.pc = "install" <=> pkgWorker.pc = "install")
      BY <1>3 DEF EnqueuePkg, TypeOK
    <3>2. Quiet /\ PkgInv'
      BY <2>1, <3>1 DEF Quiet, Working, IsActive, PkgInv, UncreatedInv, TypeOK
    <3>3. QED  BY <3>2, QuietInv DEF Goal
  <2>2. CASE ~UNCHANGED <<task, nextId>>
    <3>1. PICK p \in Paths : /\ task' = [task EXCEPT ![nextId] = Fresh("pkg", p)]
                             /\ nextId \in TaskIds /\ nextId' = nextId + 1
      BY <1>3, <2>2 DEF EnqueuePkg
    <3>2. /\ UNCHANGED thread /\ pkgWorker'.task = pkgWorker.task
          /\ (pkgWorker'.pc = "install" <=> pkgWorker.pc = "install")
      BY <1>3 DEF EnqueuePkg, TypeOK
    <3>3. /\ task'[nextId].op = "pkg" /\ task'[nextId].state = "QUEUED"
          /\ \A t \in TaskIds \ {nextId} : task'[t] = task[t]
          /\ task[nextId].state = "NONE"
      BY <3>1 DEF Fresh, Blank, TypeOK, UncreatedInv
    <3>4. Quiet
      BY <3>1, <3>2, <3>3 DEF Quiet, Working, IsActive, Active, UncreatedInv, TypeOK
    <3>5. PkgInv'
      BY <3>1, <3>2, <3>3, RegistryAssumption DEF PkgInv, TypeOK
    <3>6. QED  BY <3>4, <3>5, QuietInv DEF Goal
  <2>3. QED  BY <2>1, <2>2
<1>4. CASE ListTasks
  <2>1. PICK gone \in SUBSET Removable :
          task' = [t \in TaskIds |->
                  [Sweep(gone)[t] EXCEPT
                     !.reported = @ \/ (Sweep(gone)[t].op = "pkg" /\ Sweep(gone)[t].state \in Terminal)]]
    BY <1>4 DEF ListTasks
  <2>2. \A t \in TaskIds : task'[t].op = Sweep(gone)[t].op /\ task'[t].state = Sweep(gone)[t].state
    <3>1. Sweep(gone) \in [TaskIds -> Task]
      BY SweepType
    <3>2. \A r \in Task : \A b : [r EXCEPT !.reported = b].op = r.op /\ [r EXCEPT !.reported = b].state = r.state
      BY DEF Task
    <3>3. QED  BY <2>1, <3>1, <3>2
  <2>3. \A t \in TaskIds : t \in Removable => task[t].state \in Terminal
    BY DEF Removable
  <2>4. \A t \in TaskIds :
          \/ task'[t].op = task[t].op /\ task'[t].state = task[t].state
          \/ task[t].state \in Terminal /\ task'[t].op = "fs" /\ task'[t].state = "FREED"
    BY <2>2, <2>3 DEF Sweep, Blank
  <2>5. UNCHANGED <<thread, nextId, pkgWorker>>
    BY <1>4 DEF ListTasks
  <2>6. Mild
    BY <2>4, <2>5 DEF Mild, Working, IsActive, Active, Terminal
  <2>7. QED  BY <2>6, MildInv DEF Goal
<1>5. ASSUME NEW t \in TaskIds, Cancel(t) PROVE Goal
  <2>1. task[t] \in Task /\ task[t].op # "pkg"
    BY <1>5 DEF Cancel, TypeOK
  <2>2. /\ \A u \in TaskIds \ {t} : task'[u] = task[u]
        /\ task'[t].op = task[t].op
        /\ \/ task'[t].state = task[t].state
           \/ Settled(t) /\ task'[t].state = "CANCELED"
    <3>1. CASE Settled(t)
      BY <1>5, <2>1, <3>1 DEF Cancel, TypeOK, Task
    <3>2. CASE ~Settled(t)
      BY <1>5, <2>1, <3>2 DEF Cancel, TypeOK, Task
    <3>3. QED  BY <3>1, <3>2
  <2>3. UNCHANGED <<thread, nextId, pkgWorker>>
    BY <1>5 DEF Cancel
  <2>4. Mild
    BY <2>1, <2>2, <2>3 DEF Mild, Working, IsActive, Active, Settled
  <2>5. QED  BY <2>4, MildInv DEF Goal
<1>6. CASE CancelBroadcast \/ Exit \/ StopBroadcast \/ UNCHANGED vars
  <2>1. UNCHANGED <<task, thread, nextId, pkgWorker>>
    BY <1>6 DEF CancelBroadcast, Exit, StopBroadcast, vars
  <2>2. Mild
    BY <2>1 DEF Mild, Working, IsActive
  <2>3. QED  BY <2>2, MildInv DEF Goal
<1>7. ASSUME NEW t \in TaskIds, Pause(t) PROVE Goal
  <2>1. /\ \A u \in TaskIds : task'[u].op = task[u].op /\ task'[u].state = task[u].state
        /\ UNCHANGED <<thread, nextId, pkgWorker>>
    BY <1>7 DEF Pause, TypeOK, Task
  <2>2. Mild
    BY <2>1 DEF Mild, Working, IsActive
  <2>3. QED  BY <2>2, MildInv DEF Goal
<1>8. ASSUME NEW t \in TaskIds, ResumeOrRetry(t) PROVE Goal
  <2> DEFINE tasks == [task EXCEPT ![t].state = "QUEUED", ![t].cancel = FALSE, ![t].pause = FALSE]
  <2>1. /\ task[t].op = "url" /\ task[t].state \in {"PAUSED", "FAILED"}
        /\ Spawn(t, tasks) /\ UNCHANGED <<nextId, pkgWorker>>
    BY <1>8 DEF ResumeOrRetry, Resumable
  <2>2. /\ tasks \in [TaskIds -> Task]
        /\ tasks[t].op = "url" /\ tasks[t].state = "QUEUED"
        /\ \A u \in TaskIds \ {t} : tasks[u] = task[u]
    <3>1. tasks \in [TaskIds -> Task]
      BY JobUpdate DEF TypeOK
    <3>2. task[t] \in Task
      BY DEF TypeOK
    <3>3. QED  BY <2>1, <3>1, <3>2 DEF TypeOK, Task
  <2> HIDE DEF tasks
  <2>3. task'[t].op = "url" /\ \A u \in TaskIds \ {t} : task'[u] = task[u]
    BY <2>1, <2>2, SpawnShape
  <2>4. t < nextId
    BY <2>1 DEF UncreatedInv, TypeOK
  <2>5. BusyInv' /\ OwnedInv'
    <3>1. ~Working(task, t) /\ \A u \in TaskIds \ {t} : Working(tasks, u) <=> Working(task, u)
      BY <2>1, <2>2 DEF Working, IsActive, Active
    <3>2. t < nextId' /\ nextId' >= nextId
      BY <2>1, <2>4 DEF TypeOK
    <3>3. QED  BY <2>1, <2>2, <3>1, <3>2, SpawnInv
  <2>6. PkgInv' /\ UncreatedInv' /\ FsExclusive'
    <3>1. PkgInv'
      BY <2>1, <2>3, RegistryAssumption DEF PkgInv, TypeOK
    <3>2. UncreatedInv'
      BY <2>1, <2>3, <2>4 DEF UncreatedInv, TypeOK
    <3>3. FsExclusive'
      BY <2>3 DEF FsExclusive, IsActive
    <3>4. QED  BY <3>1, <3>2, <3>3
  <2>7. QED  BY <2>5, <2>6 DEF Goal
<1>9. CASE StopScan
  <2>1. UNCHANGED <<thread, nextId, pkgWorker>>
    BY <1>9 DEF StopScan
  <2>2. ASSUME NEW t \in TaskIds
        PROVE  /\ task'[t].op = task[t].op
               /\ Working(task', t) <=> Working(task, t)
               /\ \/ task'[t].state = task[t].state
                  \/ task[t].op = "pkg" /\ task[t].state = "QUEUED" /\ task'[t].state = "CANCELED"
    <3>1. task[t] \in Task
      BY DEF TypeOK
    <3>2. CASE IsActive(task, t) /\ Drained(t)
      BY <1>9, <3>1, <3>2 DEF StopScan, Drained, Working, IsActive, Task
    <3>3. CASE ~(IsActive(task, t) /\ Drained(t))
      BY <1>9, <3>1, <3>3 DEF StopScan, Working, IsActive, Task
    <3>4. QED  BY <3>2, <3>3
  <2>3. Quiet
    BY <2>1, <2>2 DEF Quiet, UncreatedInv, TypeOK
  <2>4. PkgInv'
    <3>1. ASSUME pkgWorker.pc = "install"
          PROVE  /\ pkgWorker.task \in TaskIds /\ pkgWorker.task \in 1 .. nextId' - 1
                 /\ task'[pkgWorker.task].op = "pkg" /\ task'[pkgWorker.task].state = "RUNNING"
      <4>1. /\ pkgWorker.task \in 1 .. nextId - 1 /\ pkgWorker.task \in TaskIds
            /\ task[pkgWorker.task].op = "pkg" /\ task[pkgWorker.task].state = "RUNNING"
        BY <3>1, RegistryAssumption DEF PkgInv, TypeOK
      <4>2. QED  BY <2>1, <2>2, <4>1
    <3>2. \A t \in TaskIds : task'[t].op = "pkg" /\ task'[t].state = "RUNNING" =>
            task[t].op = "pkg" /\ task[t].state = "RUNNING"
      BY <2>2
    <3>3. QED  BY <2>1, <3>1, <3>2 DEF PkgInv
  <2>5. QED  BY <2>3, <2>4, QuietInv DEF Goal
<1>10. CASE PkgTake
  <2>1. UNCHANGED <<thread, nextId>> /\ pkgWorker.pc = "scan"
    BY <1>10 DEF PkgTake
  <2>2. CASE UNCHANGED task /\ pkgWorker' = [pkgWorker EXCEPT !.pc = "waiting"]
    <3>1. pkgWorker'.pc # "install"
      BY <2>2 DEF TypeOK
    <3>2. Quiet /\ PkgInv'
      BY <2>1, <2>2, <3>1 DEF Quiet, Working, IsActive, PkgInv, UncreatedInv, TypeOK
    <3>3. QED  BY <3>2, QuietInv DEF Goal
  <2>3. CASE ~UNCHANGED task
    <3>1. PICK t \in QueuedPkgs : /\ task' = [task EXCEPT ![t].state = "RUNNING"]
                                  /\ pkgWorker' = [pc |-> "install", task |-> t]
      BY <1>10, <2>3 DEF PkgTake
    <3>2. t \in TaskIds /\ task[t].op = "pkg" /\ task[t].state = "QUEUED" /\ t < nextId
      BY DEF QueuedPkgs, UncreatedInv, TypeOK
    <3>3. /\ task'[t].op = "pkg" /\ task'[t].state = "RUNNING"
          /\ \A u \in TaskIds \ {t} : task'[u] = task[u]
      BY <3>1, <3>2, FieldsOfJob DEF TypeOK
    <3>4. Quiet
      BY <2>1, <3>2, <3>3 DEF Quiet, Working, IsActive, UncreatedInv, TypeOK
    <3>5. PkgInv'
      BY <2>1, <3>1, <3>2, <3>3 DEF PkgInv, TypeOK
    <3>6. QED  BY <3>4, <3>5, QuietInv DEF Goal
  <2>4. CASE UNCHANGED task /\ pkgWorker' # [pkgWorker EXCEPT !.pc = "waiting"]
    <3>1. PICK t \in QueuedPkgs : task' = [task EXCEPT ![t].state = "RUNNING"]
      BY <1>10, <2>4 DEF PkgTake
    <3>2. task'[t].state = "RUNNING" /\ task[t].state = "QUEUED"
      BY <3>1, FieldsOfJob DEF QueuedPkgs, TypeOK
    <3>3. QED  BY <2>4, <3>2
  <2>5. QED  BY <2>2, <2>3, <2>4
<1>11. CASE PkgFinish
  <2>1. PICK end \in {"DONE", "FAILED"} :
          task' = [task EXCEPT ![pkgWorker.task].state = end]
    BY <1>11 DEF PkgFinish
  <2>2. /\ pkgWorker.task \in TaskIds /\ pkgWorker.task < nextId
        /\ task[pkgWorker.task].op = "pkg" /\ task[pkgWorker.task].state = "RUNNING"
        /\ UNCHANGED <<thread, nextId>> /\ pkgWorker'.pc = "scan"
    BY <1>11, RegistryAssumption DEF PkgFinish, PkgInv, TypeOK
  <2>3. /\ task'[pkgWorker.task].op = "pkg" /\ task'[pkgWorker.task].state = end
        /\ \A u \in TaskIds \ {pkgWorker.task} : task'[u] = task[u]
    BY <2>1, <2>2, FieldsOfJob DEF TypeOK
  <2>4. Quiet
    BY <2>1, <2>2, <2>3 DEF Quiet, Working, IsActive, UncreatedInv, TypeOK
  <2>5. PkgInv'
    BY <2>1, <2>2, <2>3 DEF PkgInv, TypeOK
  <2>6. QED  BY <2>4, <2>5, QuietInv DEF Goal
<1>12. CASE CreateTransfer
  BY <1>12, TransferInv DEF Goal
<1>13. ASSUME NEW t \in TaskIds, OpenDownload(t) \/ EndTransfer(t) PROVE Goal
  <2>1. PICK s \in {"RUNNING"} \union Terminal : task' = [task EXCEPT ![t].state = s]
    <3>1. CASE OpenDownload(t)
      BY <3>1 DEF OpenDownload
    <3>2. CASE EndTransfer(t)
      BY <3>2 DEF EndTransfer
    <3>3. QED  BY <1>13, <3>1, <3>2
  <2>2. /\ task[t].op \in {"upload", "download"} /\ task[t].state # "NONE"
        /\ UNCHANGED <<thread, nextId, pkgWorker>>
    BY <1>13 DEF OpenDownload, EndTransfer
  <2>3. task'[t].op = task[t].op /\ \A u \in TaskIds \ {t} : task'[u] = task[u]
    BY <2>1, FieldsOfJob DEF TypeOK
  <2>4. Mild
    BY <2>2, <2>3 DEF Mild, Working, IsActive
  <2>5. QED  BY <2>4, MildInv DEF Goal
<1>14. QED
  BY <1>1, <1>2, <1>3, <1>4, <1>5, <1>6, <1>7, <1>8, <1>9, <1>10, <1>11, <1>12, <1>13
     DEF Handler, Goal

(* A thread that starts carries no result; nobody else touches results.    *)
LEMMA ResultOther ==
  ASSUME TypeOK, TypeOK', ResultInv,
         Handler \/ StopScan \/ StopBroadcast \/ PkgTake \/ PkgFinish \/ UNCHANGED vars
  PROVE  ResultInv'
<1>1. CASE UNCHANGED thread
  BY <1>1 DEF ResultInv
<1>2. ASSUME NEW w \in Threads, NEW t,
             thread' = [thread EXCEPT ![w] = [Idle EXCEPT !.pc = "attach", !.task = t]]
      PROVE  ResultInv'
  <2>1. /\ thread'[w].pc = "attach" /\ thread'[w].result = "none"
        /\ \A v \in Threads \ {w} : thread'[v] = thread[v]
    BY <1>2 DEF Idle, TypeOK
  <2>2. QED  BY <2>1 DEF ResultInv
<1>3. CASE CreateFs \/ CreateUrl \/ \E t \in TaskIds : ResumeOrRetry(t)
  BY <1>1, <1>2, <1>3 DEF CreateFs, CreateUrl, ResumeOrRetry, Create, Spawn
<1>4. CASE \/ EnqueuePkg \/ ListTasks \/ Exit \/ CancelBroadcast \/ StopScan \/ StopBroadcast
           \/ PkgTake \/ PkgFinish \/ UNCHANGED vars
           \/ CreateTransfer
           \/ \E t \in TaskIds : Cancel(t) \/ Pause(t) \/ OpenDownload(t) \/ EndTransfer(t)
  BY <1>1, <1>4 DEF EnqueuePkg, ListTasks, Exit, CancelBroadcast, StopScan, StopBroadcast,
     PkgTake, PkgFinish, CreateTransfer, Cancel, Pause, OpenDownload, EndTransfer, vars
<1>5. QED  BY <1>3, <1>4 DEF Handler

LEMMA InitInv == Init => IInv
<1> SUFFICES ASSUME Init PROVE IInv
  OBVIOUS
<1> USE RegistryAssumption DEF Init
<1>1. TypeOK
  BY DEF TypeOK, Task, Worker, Blank, Idle, OpKinds, States, Body, Results
<1>2. \A w \in Threads : ~Busy(w) /\ ~thread[w].slot /\ thread[w].pc = "idle" /\ thread[w].result = "none"
  BY DEF Busy, Body, Idle
<1>3. \A t \in TaskIds : task[t].state = "NONE" /\ task[t].op = "fs" /\ ~IsActive(task, t)
  BY DEF Blank, IsActive, Active
<1>4. SlotInv
  <2>1. Holders = {}
    BY <1>2 DEF Holders
  <2>2. QED  BY <1>2, <2>1, FS_EmptySet DEF SlotInv
<1>5. ResultInv /\ BusyInv /\ OwnedInv /\ PkgInv /\ UncreatedInv /\ FsExclusive
  BY <1>2, <1>3 DEF ResultInv, BusyInv, OwnedInv, PkgInv, UncreatedInv, FsExclusive, Working
<1>6. QED  BY <1>1, <1>4, <1>5 DEF IInv

LEMMA NextInv == IInv /\ [Next]_vars => IInv'
<1> SUFFICES ASSUME IInv, [Next]_vars PROVE IInv'
  OBVIOUS
<1>1. TypeOK'
  BY TypeStep
<1>2. SlotInv'
  BY <1>1, SlotStep
<1>3. TypeOK /\ ResultInv /\ BusyInv /\ OwnedInv /\ PkgInv /\ UncreatedInv /\ FsExclusive
  BY DEF IInv
<1>4. ASSUME NEW w \in Threads, Step(w)
      PROVE  ResultInv' /\ BusyInv' /\ OwnedInv' /\ PkgInv' /\ UncreatedInv' /\ FsExclusive'
  <2>1. StepFacts(w) /\ ResultInv'
    BY <1>3, <1>4, StepEffect
  <2>2. QED  BY <1>1, <1>3, <2>1, StepInv
<1>5. ASSUME Handler \/ StopScan \/ StopBroadcast \/ PkgTake \/ PkgFinish \/ UNCHANGED vars
      PROVE  ResultInv' /\ BusyInv' /\ OwnedInv' /\ PkgInv' /\ UncreatedInv' /\ FsExclusive'
  <2>1. ResultInv'
    BY <1>1, <1>3, <1>5, ResultOther
  <2>2. BusyInv' /\ OwnedInv' /\ PkgInv' /\ UncreatedInv' /\ FsExclusive'
    BY <1>1, <1>3, <1>5, OtherStep
  <2>3. QED  BY <2>1, <2>2
<1>6. ResultInv' /\ BusyInv' /\ OwnedInv' /\ PkgInv' /\ UncreatedInv' /\ FsExclusive'
  BY <1>4, <1>5 DEF Next
<1>7. QED  BY <1>1, <1>2, <1>6 DEF IInv

(* The inductive invariant holds in every reachable state.                 *)
THEOREM Inductive == Spec => []IInv
<1>1. Init => IInv
  BY InitInv
<1>2. IInv /\ [Next]_vars => IInv'
  BY NextInv
<1>3. QED  BY <1>1, <1>2, PTL DEF Spec

(* Every variable keeps its type; in particular g_url_download_workers     *)
(* never goes below zero and no worker settles a job without a result.     *)
THEOREM Typed == Spec => []TypeOK
<1>1. IInv => TypeOK
  BY DEF IInv
<1>2. QED  BY <1>1, Inductive, PTL

(* The count of transfer slots is exact and within the limit, for every    *)
(* number of downloads and threads and every limit.                        *)
THEOREM SlotsCounted == Spec => []SlotAccounting
<1>1. IInv => SlotAccounting
  BY DEF IInv, SlotInv, SlotAccounting, Holders
<1>2. QED  BY <1>1, Inductive, PTL

(* Two file system jobs are never active together, for any number of jobs. *)
THEOREM OneFileSystemJob == Spec => []FsExclusive
<1>1. IInv => FsExclusive
  BY DEF IInv
<1>2. QED  BY <1>1, Inductive, PTL

(* No job is ever in the hands of two workers at once, however it was      *)
(* paused, resumed and retried.                                            *)
THEOREM OneWorkerPerJob == Spec => []OneWorkerRuns
<1>1. IInv => OneWorkerRuns
  BY DEF IInv, BusyInv, OneWorkerRuns, Busy
<1>2. QED  BY <1>1, Inductive, PTL

(* No active job is forgotten: each has a thread that will settle it.      *)
THEOREM NoOrphanJob == Spec => []ActiveHasWorker
<1>1. IInv => ActiveHasWorker
  BY DEF IInv, OwnedInv, ActiveHasWorker, Busy
<1>2. QED  BY <1>1, Inductive, PTL

(* Packages are installed one at a time and in the order of the requests,  *)
(* for any number of requests.                                             *)
THEOREM InstallsInOrder == Spec => PkgInOrder
<1> DEFINE Starts(t) == task[t].op = "pkg" /\ task[t].state = "QUEUED" /\ task'[t].state = "RUNNING"
           First(t) == \A u \in TaskIds : task[u].op = "pkg" =>
                         /\ task[u].state # "RUNNING"
                         /\ task[u].state = "QUEUED" => t <= u
<1>1. ASSUME IInv, [Next]_vars, NEW t \in TaskIds, Starts(t) PROVE First(t)
  <2>1. /\ TypeOK /\ ResultInv /\ BusyInv /\ UncreatedInv /\ PkgInv
        /\ task[t] \in Task /\ task[t].op = "pkg" /\ task[t].state = "QUEUED"
        /\ task'[t].state = "RUNNING" /\ t < nextId
    BY <1>1 DEF IInv, TypeOK, UncreatedInv
  <2>2. ASSUME PkgTake PROVE First(t)
    <3>1. PICK u \in QueuedPkgs : NextPkg(u) /\ task' = [task EXCEPT ![u].state = "RUNNING"]
      BY <2>1, <2>2 DEF PkgTake
    <3>2. u = t
      BY <2>1, <3>1, FieldsOfJob DEF QueuedPkgs, TypeOK
    <3>3. \A v \in TaskIds : task[v].op = "pkg" => task[v].state # "RUNNING"
      BY <2>1, <2>2 DEF PkgTake, PkgInv
    <3>4. QED  BY <3>1, <3>2, <3>3 DEF NextPkg, QueuedPkgs
  <2>3. ASSUME CreateFs \/ CreateUrl PROVE FALSE
    <3>1. PICK gone \in SUBSET Removable, op \in OpKinds, admitted \in BOOLEAN :
            Create(op, Sweep(gone), admitted)
      <4>1. CASE CreateFs
        BY <4>1 DEF CreateFs, OpKinds
      <4>2. CASE CreateUrl
        <5>1. PICK gone \in SUBSET Removable : Create("url", Sweep(gone), UrlAdmitted(Sweep(gone)))
          BY <4>2 DEF CreateUrl
        <5>2. UrlAdmitted(Sweep(gone)) \in BOOLEAN
          BY DEF UrlAdmitted
        <5>3. QED  BY <5>1, <5>2 DEF OpKinds
      <4>3. QED  BY <2>3, <4>1, <4>2
    <3>2. Sweep(gone) \in [TaskIds -> Task] /\ Sweep(gone)[t] = task[t]
      BY <2>1, SweepType, SweepKeeps DEF IsActive, Active
    <3>3. CASE admitted
      <4> DEFINE tasks == [Sweep(gone) EXCEPT ![nextId] = Fresh(op, NoPath)]
      <4>1. nextId \in TaskIds /\ Spawn(nextId, tasks)
        BY <3>1, <3>3 DEF Create
      <4>2. tasks \in [TaskIds -> Task]
        BY <3>2, <4>1, FreshType
      <4>3. t # nextId /\ tasks[t] = task[t]
        BY <2>1, <3>2 DEF TypeOK
      <4> HIDE DEF tasks
      <4>4. task'[t] = tasks[t]
        BY <4>1, <4>2, <4>3, SpawnShape
      <4>5. QED  BY <2>1, <4>3, <4>4
    <3>4. CASE ~admitted
      BY <2>1, <3>1, <3>2, <3>4 DEF Create
    <3>5. QED  BY <3>3, <3>4
  <2>4. ASSUME EnqueuePkg PROVE FALSE
    BY <2>1, <2>4 DEF EnqueuePkg, Fresh, Blank, TypeOK
  <2>5. ASSUME ListTasks PROVE FALSE
    <3>1. PICK gone \in SUBSET Removable :
            task' = [u \in TaskIds |->
                  [Sweep(gone)[u] EXCEPT
                     !.reported = @ \/ (Sweep(gone)[u].op = "pkg" /\ Sweep(gone)[u].state \in Terminal)]]
      BY <2>5 DEF ListTasks
    <3>2. Sweep(gone)[t] = task[t]
      BY <2>1, SweepKeeps DEF IsActive, Active
    <3>3. \A r \in Task : \A b : [r EXCEPT !.reported = b].state = r.state
      BY DEF Task
    <3>4. QED  BY <2>1, <3>1, <3>2, <3>3
  <2>6. ASSUME NEW u \in TaskIds, Cancel(u) \/ Pause(u) PROVE FALSE
    BY <2>1, <2>6 DEF Cancel, Pause, TypeOK, Task
  <2>7. ASSUME NEW u \in TaskIds, ResumeOrRetry(u) PROVE FALSE
    <3>1. u # t
      BY <2>1, <2>7 DEF ResumeOrRetry, Resumable
    <3>2. [task EXCEPT ![u].state = "QUEUED", ![u].cancel = FALSE, ![u].pause = FALSE]
            \in [TaskIds -> Task]
      BY <2>1, JobUpdate DEF TypeOK
    <3>3. task'[t] = task[t]
      BY <2>1, <2>7, <3>1, <3>2, SpawnShape DEF ResumeOrRetry, TypeOK
    <3>4. QED  BY <2>1, <3>3
  <2>8. ASSUME StopScan PROVE FALSE
    BY <2>1, <2>8 DEF StopScan, Task
  <2>9. ASSUME PkgFinish PROVE FALSE
    BY <2>1, <2>9 DEF PkgFinish, TypeOK, Task
  <2>10. ASSUME NEW w \in Threads, Step(w) PROVE FALSE
    <3>1. StepFacts(w)
      BY <2>1, <2>10, StepEffect
    <3>2. Busy(w) => thread[w].task # t
      BY <2>1 DEF BusyInv, Working
    <3>3. QED  BY <2>1, <3>1, <3>2 DEF StepFacts
  <2>11. ASSUME CancelBroadcast \/ Exit \/ StopBroadcast \/ UNCHANGED vars PROVE FALSE
    BY <2>1, <2>11 DEF CancelBroadcast, Exit, StopBroadcast, vars
  <2>12. ASSUME CreateTransfer PROVE FALSE
    <3>1. PICK op \in {"upload", "download"}, gone \in SUBSET Removable :
            \/ /\ nextId \in TaskIds
               /\ task' = [Sweep(gone) EXCEPT ![nextId] = [Fresh(op, NoPath) EXCEPT
                             !.state = IF op = "upload" THEN "RUNNING" ELSE "QUEUED"]]
            \/ task' = Sweep(gone)
      BY <2>12 DEF CreateTransfer
    <3>2. Sweep(gone) \in [TaskIds -> Task] /\ Sweep(gone)[t] = task[t]
      BY <2>1, SweepType, SweepKeeps DEF IsActive, Active
    <3>3. t # nextId
      BY <2>1 DEF TypeOK
    <3>4. QED  BY <2>1, <3>1, <3>2, <3>3
  <2>13. ASSUME NEW u \in TaskIds, OpenDownload(u) \/ EndTransfer(u) PROVE FALSE
    BY <2>1, <2>13 DEF OpenDownload, EndTransfer, TypeOK
  <2>14. QED
    BY <1>1, <2>2, <2>3, <2>4, <2>5, <2>6, <2>7, <2>8, <2>9, <2>10, <2>11, <2>12, <2>13
       DEF Next, Handler
<1>2. IInv /\ [Next]_vars => [\A t \in TaskIds : Starts(t) => First(t)]_vars
  BY <1>1
<1>3. QED  BY <1>2, Inductive, PTL DEF Spec, PkgInOrder

-----------------------------------------------------------------------------
(* Only threads at the slot sleep, and none that nobody will wake.         *)
Asleep  == \A w \in waiting : thread[w].pc = "slot"
WakeInv == Asleep /\ NoLostWakeup

(* The job of a sleeping thread is active, so no handler frees it.         *)
LEMMA Sleeper ==
  ASSUME IInv, Asleep, NEW w \in waiting
  PROVE  /\ w \in Threads /\ thread[w].pc = "slot"
         /\ thread[w].task \in TaskIds /\ thread[w].task < nextId
         /\ IsActive(task, thread[w].task)
         /\ task[thread[w].task].op \in {"fs", "url"}
<1>1. TypeOK /\ ResultInv /\ BusyInv
  BY DEF IInv
<1>2. w \in Threads /\ thread[w].pc = "slot" /\ thread[w].result = "none"
  BY <1>1 DEF Asleep, TypeOK, ResultInv
<1>3. Busy(w)
  BY <1>2 DEF Busy, Body
<1>4. QED  BY <1>1, <1>2, <1>3, WorkerHasJob DEF BusyInv, Working

(* Setting another field of a job does not cancel it.                      *)
LEMMA CancelOfJob ==
  ASSUME TypeOK, NEW j \in TaskIds, NEW b,
         \/ task' = [task EXCEPT ![j].state = b]
         \/ task' = [task EXCEPT ![j].pause = b]
         \/ task' = [task EXCEPT ![j].workerActive = b]
  PROVE  \A t \in TaskIds : task'[t].cancel = task[t].cancel
<1>1. task \in [TaskIds -> Task]
  BY DEF TypeOK
<1>2. CASE task' = [task EXCEPT ![j].state = b]
  BY <1>1, <1>2 DEF Task
<1>3. CASE task' = [task EXCEPT ![j].pause = b]
  BY <1>1, <1>3 DEF Task
<1>4. CASE task' = [task EXCEPT ![j].workerActive = b]
  BY <1>1, <1>4 DEF Task
<1>5. QED  BY <1>2, <1>3, <1>4

(* A step that wakes nobody, takes and returns no slot, and cancels none   *)
(* of the jobs that wait.                                                  *)
LEMMA WakeKept ==
  ASSUME WakeInv, UNCHANGED <<waiting, urlWorkers, handler>>,
         stopper' = stopper \/ stopper = "absent",
         \A w \in waiting : /\ thread'[w].pc = "slot" /\ thread'[w].task = thread[w].task
                            /\ task'[thread[w].task].cancel => task[thread[w].task].cancel
  PROVE  WakeInv'
  BY DEF WakeInv, Asleep, NoLostWakeup

(* The same for a step that starts a thread or none.                       *)
LEMMA SpawnWake ==
  ASSUME IInv, WakeInv, NEW u \in TaskIds, NEW tasks \in [TaskIds -> Task], Spawn(u, tasks),
         UNCHANGED <<waiting, urlWorkers, handler, stopper>>,
         \A w \in waiting : thread[w].task # u /\ tasks[thread[w].task] = task[thread[w].task]
  PROVE  WakeInv'
<1>1. \A w \in waiting : w \in Threads /\ thread[w].pc = "slot" /\ thread[w].task \in TaskIds
  BY Sleeper DEF WakeInv
<1>2. \A w \in waiting : task'[thread[w].task] = task[thread[w].task]
  BY <1>1, SpawnShape
<1>3. \A w \in waiting : thread'[w] = thread[w]
  BY <1>1 DEF Spawn, IInv, TypeOK
<1>4. QED  BY <1>1, <1>2, <1>3, WakeKept

LEMMA CreateWake ==
  ASSUME IInv, WakeInv, NEW gone \in SUBSET Removable, NEW op \in {"fs", "url"},
         NEW admitted \in BOOLEAN, Create(op, Sweep(gone), admitted),
         UNCHANGED <<waiting, urlWorkers, handler, stopper>>
  PROVE  WakeInv'
<1> DEFINE kept == Sweep(gone)
           tasks == [kept EXCEPT ![nextId] = Fresh(op, NoPath)]
<1>1. kept \in [TaskIds -> Task] /\ \A t \in TaskIds : IsActive(task, t) => kept[t] = task[t]
  BY SweepType, SweepKeeps DEF IInv
<1>2. \A w \in waiting : /\ w \in Threads /\ thread[w].pc = "slot" /\ thread[w].task \in TaskIds
                         /\ thread[w].task < nextId /\ kept[thread[w].task] = task[thread[w].task]
  BY <1>1, Sleeper DEF WakeInv
<1> HIDE DEF kept
<1>3. CASE admitted
  <2>1. nextId \in TaskIds /\ Spawn(nextId, tasks)
    BY <1>3 DEF Create, kept
  <2>2. tasks \in [TaskIds -> Task]
    BY <1>1, <2>1, FreshType DEF OpKinds
  <2>3. \A w \in waiting : thread[w].task # nextId /\ tasks[thread[w].task] = task[thread[w].task]
    BY <1>1, <1>2, <2>1
  <2> HIDE DEF tasks
  <2>4. QED  BY <2>1, <2>2, <2>3, SpawnWake
<1>4. CASE ~admitted
  <2>1. task' = kept /\ UNCHANGED thread
    BY <1>4 DEF Create, kept
  <2>2. QED  BY <1>2, <2>1, WakeKept
<1>5. QED  BY <1>3, <1>4

(* One step of a worker thread: it takes the last slot only when nobody    *)
(* sleeps unless a broadcast is due, sleeps only when all slots are taken, *)
(* and wakes everybody when it returns one.                                *)
LEMMA StepWake ==
  ASSUME IInv, IInv', WakeInv, NEW v \in Threads, Step(v)
  PROVE  WakeInv'
<1>1. TypeOK /\ ResultInv /\ BusyInv /\ SlotInv /\ Asleep
  BY DEF IInv, WakeInv
<1>2. \A w \in waiting : w \in Threads /\ thread[w].pc = "slot" /\ thread[w].task \in TaskIds
  BY Sleeper DEF WakeInv
<1>3. thread[v].pc # "idle"
  BY DEF Step, Attach, TakeSlot, Prepare, Run, GiveBack, Settle, Detach
<1>4. thread[v].task \in TaskIds
  BY <1>1, <1>3, WorkerHasJob
<1>5. UNCHANGED <<handler, stopper>>
  BY DEF Step, Attach, TakeSlot, Prepare, Run, GiveBack, Settle, Detach
<1>6. CASE Attach(v) \/ Prepare(v) \/ Run(v) \/ Settle(v) \/ Detach(v)
  <2>1. \A t \in TaskIds : task'[t].cancel = task[t].cancel
    <3>1. \/ UNCHANGED task
          \/ \E b : \/ task' = [task EXCEPT ![thread[v].task].state = b]
                   \/ task' = [task EXCEPT ![thread[v].task].workerActive = b]
      BY <1>6 DEF Attach, Prepare, Run, Settle, Detach
    <3>2. QED  BY <1>1, <1>4, <3>1, CancelOfJob
  <2>2. thread[v].pc # "slot" /\ \A w \in Threads \ {v} : thread'[w] = thread[w]
    BY <1>1, <1>6 DEF Attach, Prepare, Run, Settle, Detach, TypeOK
  <2>3. UNCHANGED <<waiting, urlWorkers>>
    BY <1>6 DEF Attach, Prepare, Run, Settle, Detach
  <2>4. QED  BY <1>2, <1>5, <2>1, <2>2, <2>3, WakeKept
<1>7. CASE TakeSlot(v)
  <2>1. thread[v].pc = "slot" /\ v \notin waiting /\ UNCHANGED task
    BY <1>7 DEF TakeSlot
  <2>2. CASE task[thread[v].task].cancel
    <3>1. UNCHANGED <<waiting, urlWorkers>> /\ \A w \in waiting : thread'[w] = thread[w]
      BY <1>1, <1>2, <1>7, <2>1, <2>2 DEF TakeSlot, TypeOK
    <3>2. QED  BY <1>2, <1>5, <2>1, <3>1, WakeKept
  <2>3. CASE ~task[thread[v].task].cancel /\ SlotFree
    <3>1. waiting' = waiting /\ \A w \in waiting : thread'[w] = thread[w]
      BY <1>1, <1>2, <1>7, <2>1, <2>3 DEF TakeSlot, TypeOK
    <3>2. urlWorkers # WorkerLimit
      BY <1>1, <2>3, RegistryAssumption DEF SlotFree, TypeOK
    <3>3. QED  BY <1>2, <1>5, <3>1, <3>2 DEF WakeInv, Asleep, NoLostWakeup
  <2>4. CASE ~task[thread[v].task].cancel /\ ~SlotFree
    <3>1. waiting' = waiting \union {v} /\ UNCHANGED <<thread, urlWorkers, task>>
      BY <1>7, <2>1, <2>4 DEF TakeSlot
    <3>2. urlWorkers = WorkerLimit
      BY <1>1, <2>4, RegistryAssumption DEF SlotFree, SlotInv, TypeOK
    <3>3. QED  BY <1>5, <2>1, <2>4, <3>1, <3>2 DEF WakeInv, Asleep, NoLostWakeup
  <2>5. QED  BY <2>2, <2>3, <2>4
<1>8. CASE GiveBack(v)
  <2>1. CASE thread[v].slot
    BY <1>8, <2>1 DEF GiveBack, AfterBroadcast, WakeInv, Asleep, NoLostWakeup
  <2>2. CASE ~thread[v].slot
    <3>1. UNCHANGED <<waiting, urlWorkers, task>> /\ \A w \in waiting : thread'[w] = thread[w]
      BY <1>1, <1>2, <1>8, <2>2 DEF GiveBack, TypeOK
    <3>2. QED  BY <1>2, <1>5, <3>1, WakeKept
  <2>3. QED  BY <2>1, <2>2
<1>9. QED  BY <1>6, <1>7, <1>8 DEF Step

LEMMA WakeStep == IInv /\ IInv' /\ WakeInv /\ [Next]_vars => WakeInv'
<1> SUFFICES ASSUME IInv, IInv', WakeInv, [Next]_vars PROVE WakeInv'
  OBVIOUS
<1>1. TypeOK /\ UncreatedInv
  BY DEF IInv
<1>2. \A w \in waiting : /\ w \in Threads /\ thread[w].pc = "slot"
                         /\ thread[w].task \in TaskIds /\ thread[w].task < nextId
                         /\ IsActive(task, thread[w].task)
                         /\ task[thread[w].task].op \in {"fs", "url"}
  BY Sleeper DEF WakeInv
<1>3. CASE CreateFs
  <2>1. PICK gone \in SUBSET Removable : Create("fs", Sweep(gone), ~HasActive(Sweep(gone)))
    BY <1>3 DEF CreateFs
  <2>2. HasActive(Sweep(gone)) \in BOOLEAN
    BY DEF HasActive
  <2>3. QED  BY <1>3, <2>1, <2>2, CreateWake DEF CreateFs
<1>4. CASE CreateUrl
  <2>1. PICK gone \in SUBSET Removable : Create("url", Sweep(gone), UrlAdmitted(Sweep(gone)))
    BY <1>4 DEF CreateUrl
  <2>2. UrlAdmitted(Sweep(gone)) \in BOOLEAN
    BY DEF UrlAdmitted
  <2>3. QED  BY <1>4, <2>1, <2>2, CreateWake DEF CreateUrl
<1>5. CASE CreateTransfer
  <2>1. PICK op \in {"upload", "download"}, gone \in SUBSET Removable :
          \/ /\ nextId \in TaskIds
             /\ task' = [Sweep(gone) EXCEPT ![nextId] = [Fresh(op, NoPath) EXCEPT
                           !.state = IF op = "upload" THEN "RUNNING" ELSE "QUEUED"]]
          \/ task' = Sweep(gone)
    BY <1>5 DEF CreateTransfer
  <2>2. Sweep(gone) \in [TaskIds -> Task] /\ \A t \in TaskIds : IsActive(task, t) => Sweep(gone)[t] = task[t]
    BY <1>1, SweepType, SweepKeeps
  <2>3. \A w \in waiting : /\ thread[w].task \in TaskIds \ {nextId}
                          /\ Sweep(gone)[thread[w].task] = task[thread[w].task]
    BY <1>1, <1>2, <2>2 DEF TypeOK
  <2>4. \A t \in TaskIds \ {nextId} : task'[t] = Sweep(gone)[t]
    <3> DEFINE job == [Fresh(op, NoPath) EXCEPT !.state = IF op = "upload" THEN "RUNNING" ELSE "QUEUED"]
    <3>1. \/ nextId \in TaskIds /\ task' = [Sweep(gone) EXCEPT ![nextId] = job]
          \/ task' = Sweep(gone)
      BY <2>1
    <3> HIDE DEF job
    <3>2. QED  BY <2>2, <3>1
  <2>5. UNCHANGED <<waiting, urlWorkers, handler, stopper, thread>>
    BY <1>5 DEF CreateTransfer
  <2>6. \A w \in waiting : task'[thread[w].task] = task[thread[w].task]
    BY <2>3, <2>4
  <2>7. QED  BY <1>2, <2>5, <2>6, WakeKept
<1>6. CASE ListTasks
  <2>1. PICK gone \in SUBSET Removable :
          task' = [t \in TaskIds |->
                  [Sweep(gone)[t] EXCEPT
                     !.reported = @ \/ (Sweep(gone)[t].op = "pkg" /\ Sweep(gone)[t].state \in Terminal)]]
    BY <1>6 DEF ListTasks
  <2>2. \A t \in TaskIds : IsActive(task, t) => Sweep(gone)[t] = task[t]
    BY <1>1, SweepKeeps
  <2>3. \A r \in Task : \A b : [r EXCEPT !.reported = b].cancel = r.cancel
    BY DEF Task
  <2>4. \A w \in waiting : task'[thread[w].task].cancel = task[thread[w].task].cancel
    BY <1>1, <1>2, <2>1, <2>2, <2>3 DEF TypeOK
  <2>5. UNCHANGED <<waiting, urlWorkers, handler, stopper, thread>>
    BY <1>6 DEF ListTasks
  <2>6. QED  BY <1>2, <2>4, <2>5, WakeKept
<1>7. CASE EnqueuePkg
  <2>1. \A w \in waiting : task'[thread[w].task] = task[thread[w].task]
    <3>1. \A w \in waiting : thread[w].task \in TaskIds \ {nextId}
      BY <1>1, <1>2 DEF TypeOK
    <3>2. \/ UNCHANGED task
          \/ \E job : nextId \in TaskIds /\ task' = [task EXCEPT ![nextId] = job]
      BY <1>7 DEF EnqueuePkg
    <3>3. QED  BY <1>1, <3>1, <3>2 DEF TypeOK
  <2>2. UNCHANGED <<waiting, urlWorkers, handler, stopper, thread>>
    BY <1>7 DEF EnqueuePkg
  <2>3. QED  BY <1>2, <2>1, <2>2, WakeKept
<1>8. ASSUME NEW u \in TaskIds, Pause(u) \/ OpenDownload(u) \/ EndTransfer(u) PROVE WakeInv'
  <2>1. \A t \in TaskIds : task'[t].cancel = task[t].cancel
    <3>1. \E b : \/ task' = [task EXCEPT ![u].pause = b]
               \/ task' = [task EXCEPT ![u].state = b]
      BY <1>8 DEF Pause, OpenDownload, EndTransfer
    <3>2. QED  BY <1>1, <3>1, CancelOfJob
  <2>2. UNCHANGED <<waiting, urlWorkers, handler, stopper, thread>>
    BY <1>8 DEF Pause, OpenDownload, EndTransfer
  <2>3. QED  BY <1>2, <2>1, <2>2, WakeKept
<1>9. ASSUME NEW u \in TaskIds, ResumeOrRetry(u) PROVE WakeInv'
  <2> DEFINE tasks == [task EXCEPT ![u].state = "QUEUED", ![u].cancel = FALSE, ![u].pause = FALSE]
  <2>1. tasks \in [TaskIds -> Task]
    BY <1>1, JobUpdate DEF TypeOK
  <2>2. \A w \in waiting : thread[w].task # u
    BY <1>2, <1>9 DEF ResumeOrRetry, Resumable, IsActive, Active
  <2>3. \A w \in waiting : tasks[thread[w].task] = task[thread[w].task]
    BY <1>1, <1>2, <2>2 DEF TypeOK
  <2>4. Spawn(u, tasks) /\ UNCHANGED <<waiting, urlWorkers, handler, stopper>>
    BY <1>9 DEF ResumeOrRetry
  <2> HIDE DEF tasks
  <2>5. QED  BY <2>1, <2>2, <2>3, <2>4, SpawnWake
<1>10. CASE Exit
  BY <1>2, <1>10, WakeKept DEF Exit
<1>11. CASE PkgTake \/ PkgFinish
  <2>1. \A w \in waiting : task'[thread[w].task].cancel = task[thread[w].task].cancel
    <3>1. UNCHANGED task \/ \E u \in TaskIds : \E b : task' = [task EXCEPT ![u].state = b]
      <4>1. CASE PkgTake
        BY <4>1 DEF PkgTake, QueuedPkgs
      <4>2. CASE PkgFinish
        <5>1. pkgWorker.pc = "install" /\ \E b : task' = [task EXCEPT ![pkgWorker.task].state = b]
          BY <4>2 DEF PkgFinish
        <5>2. pkgWorker.task \in TaskIds
          BY <1>1, <5>1, RegistryAssumption DEF IInv, PkgInv, TypeOK
        <5>3. QED  BY <5>1, <5>2
      <4>3. QED  BY <1>11, <4>1, <4>2
    <3>2. QED  BY <1>1, <1>2, <3>1, CancelOfJob
  <2>2. UNCHANGED <<waiting, urlWorkers, handler, stopper, thread>>
    BY <1>11 DEF PkgTake, PkgFinish
  <2>3. QED  BY <1>2, <2>1, <2>2, WakeKept
<1>12. ASSUME StopScan \/ \E u \in TaskIds : Cancel(u) PROVE WakeInv'
  <2>1. UNCHANGED <<waiting, thread>> /\ (handler' = "broadcast" \/ stopper' \in {"rescan", "stop"})
    BY <1>12 DEF StopScan, Cancel
  <2>2. QED  BY <1>2, <2>1 DEF WakeInv, Asleep, NoLostWakeup
<1>13. CASE CancelBroadcast \/ StopBroadcast
  BY <1>13 DEF CancelBroadcast, StopBroadcast, AfterBroadcast, WakeInv, Asleep, NoLostWakeup
<1>14. CASE UNCHANGED vars
  BY <1>2, <1>14, WakeKept DEF vars
<1>15. QED
  BY <1>3, <1>4, <1>5, <1>6, <1>7, <1>8, <1>9, <1>10, <1>11, <1>12, <1>13, <1>14, StepWake
     DEF Next, Handler

(* No thread sleeps on g_url_download_slot while a slot is free or its job *)
(* is canceled, unless the broadcast is still to come.                     *)
THEOREM NobodyOversleeps == Spec => []NoLostWakeup
<1>1. Init => WakeInv
  BY DEF Init, WakeInv, Asleep, NoLostWakeup
<1>2. IInv /\ IInv' /\ WakeInv /\ [Next]_vars => WakeInv'
  BY WakeStep
<1>3. WakeInv => NoLostWakeup
  BY DEF WakeInv
<1>4. QED  BY <1>1, <1>2, <1>3, Inductive, PTL DEF Spec

=============================================================================
