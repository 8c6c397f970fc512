--------------------------- MODULE BrowserTransfer ---------------------------
(***************************************************************************)
(* Uploads from and downloads to a browser: main.js, the callbacks of the  *)
(* one web server thread (websrv.c), upload.c and download.c.  A callback  *)
(* is one step, as no other callback runs meanwhile; but the publication   *)
(* of an upload on a file system without links is two, since another       *)
(* program may take the name between the look at it and the rename.        *)
(* Connections end, and answers are lost, at any time.  The server notices *)
(* later than the browser, or not before it has read what was on its way.  *)
(***************************************************************************)
EXTENDS Naturals, FiniteSets

CONSTANTS
  Jobs,   \* browser tabs, each with one transfer
  Offer,  \* what each tab may ask for
  Files,  \* how many files an upload has
  Size,   \* the length of a file, in chunks
  Faults  \* what may go wrong

AllFaults == {"disk", "foreign", "short", "closed", "nolink", "unlink"}

ASSUME BrowserTransferAssumption ==
  /\ IsFiniteSet(Jobs)
  /\ Offer \in [Jobs -> SUBSET {"upload", "bare", "download"}]
  /\ Files \in Nat \ {0} /\ Size \in Nat \ {0}
  /\ Faults \subseteq AllFaults

VARIABLES
  task,    \* file_task_t of each job
  tab,     \* the browser's side of each job
  request, \* the request a tab waits for
  context, \* upload_context_t, or the stream of a download
  temps,   \* the temporary files of uploads
  target   \* the names uploads write to

vars == <<task, tab, request, context, temps, target>>

File   == 1 .. Files
Active == {"QUEUED", "RUNNING"}
Ended  == {"DONE", "FAILED", "CANCELED"}

NoTask == [state |-> "NONE", cancel |-> FALSE, count |-> 0, streams |-> 0]
NoTab  == [pc |-> "idle", op |-> "upload", overwrite |-> FALSE, index |-> 1]
NoContext == [on |-> FALSE, task |-> FALSE, open |-> FALSE, replace |-> FALSE, got |-> 0,
              held |-> 0, failed |-> FALSE, over |-> FALSE, look |-> FALSE, late |-> FALSE]

Init ==
  /\ task = [j \in Jobs |-> NoTask] /\ tab = [j \in Jobs |-> NoTab]
  /\ request = [j \in Jobs |-> [at |-> "none", file |-> 1]]
  /\ context = [j \in Jobs |-> [i \in File |-> NoContext]]
  /\ temps = {} /\ target = [i \in File |-> "absent"]

(* has_active_task_locked.                                                 *)
Busy == \E j \in Jobs : task[j].state \in Active
Broken == "disk" \in Faults

(* The web server thread is not between the two steps of a publication.    *)
Serving == \A j \in Jobs, i \in File : ~context[j][i].look
TabAt(j, point) == tab[j].pc = point
TabTo(j, point) == tab' = [tab EXCEPT ![j].pc = point]
Answer(j, i, what) == request' = IF request[j] = [at |-> "open", file |-> i]
                                 THEN [request EXCEPT ![j].at = what] ELSE request

(* Mutant: a cancel leaves the job open.                                   *)
EndingOpen(canceled) == IF canceled THEN "RUNNING" ELSE "FAILED"

Ending(canceled) == IF canceled THEN "CANCELED" ELSE "FAILED"

(* finish_upload_task: an ended task keeps its state.                      *)
Settled(t, state) == IF t.state \in Active THEN [t EXCEPT !.state = state] ELSE t

(* finish_upload_context_error, once for a context.                        *)
Reported(t, c, canceled) == IF c.task /\ ~c.failed THEN Settled(t, Ending(canceled)) ELSE t

-----------------------------------------------------------------------------
(***************************************************************************)
(* The browser.                                                            *)
(***************************************************************************)

(* uploadFiles with api_upload_prepare, or actionDownload with             *)
(* api_download_prepare.  An upload without a task has no prepare; here it *)
(* overwrites nothing.                                                     *)
Prepare(j) ==
  /\ Serving
  /\ TabAt(j, "idle")
  /\ \E op \in Offer[j], overwrite \in BOOLEAN :
       /\ op # "upload" => ~overwrite
       /\ tab' = [tab EXCEPT ![j] = [NoTab EXCEPT !.pc = "send", !.op = op,
                                                  !.overwrite = overwrite]]
       /\ \/ op = "bare" /\ UNCHANGED task
          \/ op # "bare" /\ ~Busy
               /\ task' = [task EXCEPT ![j].state =
                             IF op = "upload" THEN "RUNNING" ELSE "QUEUED"]
  /\ UNCHANGED <<request, context, temps, target>>

Send(j) ==
  /\ TabAt(j, "send")
  /\ request' = [request EXCEPT ![j] = [at |-> "sent", file |-> tab[j].index]]
  /\ TabTo(j, "wait")
  /\ UNCHANGED <<task, context, temps, target>>

(* The next file, or the end of the list.                                  *)
GoOn(j) ==
  tab' = IF tab[j].op # "upload" THEN [tab EXCEPT ![j].pc = "over"]
         ELSE IF tab[j].index < Files
           THEN [tab EXCEPT ![j].pc = "send", ![j].index = @ + 1]
           ELSE [tab EXCEPT ![j].pc = "finish"]

GiveUp(j) == TabTo(j, IF tab[j].op = "upload" THEN "cancel" ELSE "over")

(* onload with success, onerror, and an error or onabort.                  *)
Receive(j) ==
  /\ TabAt(j, "wait")
  /\ \/ request[j].at = "ok" /\ GoOn(j)
     \/ TabTo(j, IF tab[j].op = "upload" THEN "poll" ELSE "over")
     \/ GiveUp(j)
  /\ request' = IF request[j].at = "sent" THEN request ELSE [request EXCEPT ![j].at = "none"]
  /\ UNCHANGED <<task, context, temps, target>>

(* Mutant: any complete file will do.                                      *)
ArrivedSome(j) == task[j].count > 0

Arrived(j) == task[j].count >= tab[j].index

(* The answer is lost: the tab asks how many files are complete.           *)
Poll(j) ==
  /\ Serving
  /\ TabAt(j, "poll")
  /\ \/ task[j].state # "FREED" /\ Arrived(j) /\ GoOn(j)
     \/ (task[j].state = "FREED" \/ ~Arrived(j)) /\ GiveUp(j)
  /\ UNCHANGED <<task, request, context, temps, target>>

Refused(j) == TabTo(j, IF TabAt(j, "finish") THEN "cancel" ELSE "over")

(* api_upload_finish; what it refuses leads to api_cancel.                 *)
ApiFinish(j) ==
  /\ Serving
  /\ TabAt(j, "finish") \/ TabAt(j, "close")
  /\ LET t == task[j] IN
     \/ t.state \notin Active /\ Refused(j) /\ UNCHANGED task
     \/ t.state \in Active /\ t.cancel /\ Refused(j)
          /\ task' = [task EXCEPT ![j] = Settled(t, Ending(TRUE))]
     \/ t.state \in Active /\ ~t.cancel /\ TabTo(j, "over")
          /\ task' = [task EXCEPT ![j] = Settled(t, "DONE")]
  /\ UNCHANGED <<request, context, temps, target>>

Canceled(t, op) ==
  [t EXCEPT !.cancel = TRUE,
            !.state = IF op = "download" /\ @ = "QUEUED" THEN "CANCELED" ELSE @]

Cancelable(j) == task[j].state \in Active \union {"FAILED"}

(* The tab's own cancel after an error.                                    *)
TabCancel(j) ==
  /\ Serving
  /\ TabAt(j, "cancel")
  /\ \/ Cancelable(j) /\ TabTo(j, "close")
          /\ task' = [task EXCEPT ![j] = Canceled(@, tab[j].op)]
     \/ ~Cancelable(j) /\ TabTo(j, "over") /\ UNCHANGED task
  /\ UNCHANGED <<request, context, temps, target>>

(* A cancel from the list of jobs.                                         *)
Cancel(j) ==
  /\ Serving
  /\ Cancelable(j) /\ ~task[j].cancel
  /\ task' = [task EXCEPT ![j] = Canceled(@, tab[j].op)]
  /\ UNCHANGED <<tab, request, context, temps, target>>

Close(j) ==
  /\ "closed" \in Faults
  /\ tab[j].op = "upload" /\ tab[j].pc \notin {"idle", "over", "closed"}
  /\ TabTo(j, "closed")
  /\ UNCHANGED <<task, request, context, temps, target>>

-----------------------------------------------------------------------------
(***************************************************************************)
(* Uploads on the server.                                                  *)
(***************************************************************************)

Put(j, i, c) == context' = [context EXCEPT ![j][i] = c]
Failed(c) == [c EXCEPT !.failed = TRUE]

(* What a request finds when it begins: its task, counted as one that has  *)
(* a stream, and whether it may go on.                                     *)
Known(j)    == tab[j].op = "upload" /\ task[j].state \in Active
Counted(j)  == IF Known(j) THEN [task[j] EXCEPT !.streams = @ + 1] ELSE task[j]
There(j)    == target[request[j].file] # "absent"
Admitted(j) == /\ IF Known(j) THEN ~task[j].cancel ELSE ~Busy
               /\ There(j) => tab[j].overwrite

(* filemgr_upload_begin.                                                   *)
Begin(j) ==
  /\ Serving
  /\ request[j].at = "sent" /\ tab[j].op # "download"
  /\ LET i == request[j].file
         new == [NoContext EXCEPT !.on = TRUE, !.task = Known(j)] IN
     \/ /\ ~Admitted(j) \/ Broken
        /\ Put(j, i, Failed(new))
        /\ task' = [task EXCEPT ![j] = Reported(Counted(j), new, Known(j) /\ task[j].cancel)]
        /\ UNCHANGED temps
     \/ /\ Admitted(j)
        /\ Put(j, i, [new EXCEPT !.open = TRUE, !.replace = There(j)])
        /\ task' = [task EXCEPT ![j] = Counted(j)]
        /\ temps' = temps \union {<<j, i>>}
  /\ request' = [request EXCEPT ![j].at = "open"]
  /\ UNCHANGED <<tab, target>>

(* Mutant: a cancel is not looked at before writing.                       *)
StoppedNever(j, c) == FALSE

Stopped(j, c) == c.task /\ task[j].cancel

(* upload_flush when it does not stop: the task runs.                      *)
Flushed(j, c) == IF c.task /\ c.held > 0 THEN [task[j] EXCEPT !.state = "RUNNING"] ELSE task[j]

(* The body on the wire: shorter than announced when the file shrank.      *)
Lengths == IF "short" \in Faults THEN {Size - 1, Size} ELSE {Size}

(* filemgr_upload_data: a chunk, after which the buffer is full or not.    *)
Data(j, i) ==
  /\ Serving
  /\ LET c == context[j][i]
         more == [c EXCEPT !.got = @ + 1, !.held = @ + 1] IN
     /\ tab[j].op # "download" /\ c.open /\ ~c.failed /\ c.got < Size
     /\ \/ /\ Stopped(j, c)
           /\ Put(j, i, Failed(c))
           /\ task' = [task EXCEPT ![j] = Reported(@, c, TRUE)]
        \/ /\ ~Stopped(j, c)
           /\ Put(j, i, more)
           /\ UNCHANGED task
        \/ /\ ~Stopped(j, c)
           /\ Put(j, i, [more EXCEPT !.held = 0])
           /\ task' = [task EXCEPT ![j] = Flushed(j, more)]
        \/ /\ ~Stopped(j, c) /\ Broken
           /\ Put(j, i, Failed(c))
           /\ task' = [task EXCEPT ![j] = Reported(@, c, FALSE)]
  /\ UNCHANGED <<tab, request, temps, target>>

(* Mutant: the number of bytes is not compared.                            *)
CompleteAlways(c) == TRUE

Complete(c) == c.got = Size

(* Mutant: a file is replaced that was not there when the request came.    *)
ReplacesAlways(c) == TRUE

Replaces(c) == c.replace

FinishStopped(j, c) == c.held > 0 /\ Stopped(j, c)

(* The final name stands for the file that has arrived.                    *)
Named(c, i) == target' = [target EXCEPT ![i] = IF c.got = Size THEN "whole" ELSE "broken"]

(* The end of a publication: the answer is a success, or an error, with    *)
(* the temporary file removed, or not if that fails.                       *)
Succeed(j, i, c) ==
  /\ Put(j, i, [c EXCEPT !.open = FALSE, !.look = FALSE, !.over = TRUE, !.held = 0])
  /\ temps' = temps \ {<<j, i>>}
  /\ task' = [task EXCEPT ![j] = IF c.task THEN [Flushed(j, c) EXCEPT !.count = @ + 1] ELSE @]
  /\ Answer(j, i, "ok")

GoWrong(j, i, c, canceled) ==
  /\ Put(j, i, [Failed(c) EXCEPT !.open = FALSE, !.look = FALSE, !.over = TRUE])
  /\ temps' \in {temps \ {<<j, i>>}} \union (IF "unlink" \in Faults THEN {temps} ELSE {})
  /\ task' = [task EXCEPT ![j] = Reported(@, c, canceled)]
  /\ Answer(j, i, "none")

(* The body is what was announced, and the buffer is written.              *)
Ready(j, c) == ~FinishStopped(j, c) /\ Complete(c)

(* filemgr_upload_finish when the body has been read: rename, or link and  *)
(* unlink, or without links a look at the name before RenameInto.          *)
Finish(j, i) ==
  /\ Serving
  /\ LET c == context[j][i]
         free == target[i] = "absent" IN
     /\ tab[j].op # "download" /\ c.on /\ ~c.over
     /\ c.failed \/ c.got \in Lengths
     /\ \/ /\ c.failed
           /\ Put(j, i, [c EXCEPT !.over = TRUE])
           /\ Answer(j, i, "none")
           /\ UNCHANGED <<task, temps, target>>
        \/ /\ ~c.failed
           /\ ~Ready(j, c) \/ Broken \/ (~Replaces(c) /\ ~free)
           /\ GoWrong(j, i, c, FinishStopped(j, c))
           /\ UNCHANGED target
        \/ /\ ~c.failed /\ Ready(j, c) /\ (Replaces(c) \/ free)
           /\ Named(c, i)
           /\ Succeed(j, i, c)
        \/ /\ ~c.failed /\ Ready(j, c) /\ ~Replaces(c) /\ free /\ "unlink" \in Faults
           /\ Named(c, i)
           /\ GoWrong(j, i, c, FALSE)
        \/ /\ ~c.failed /\ Ready(j, c) /\ ~Replaces(c) /\ free /\ "nolink" \in Faults
           /\ Put(j, i, [c EXCEPT !.look = TRUE])
           /\ UNCHANGED <<task, request, temps, target>>
  /\ UNCHANGED tab

(* The rename that follows the look at the name.                           *)
RenameInto(j, i) ==
  /\ LET c == context[j][i] IN
     /\ c.look
     /\ \/ Named(c, i) /\ Succeed(j, i, c)
        \/ Broken /\ GoWrong(j, i, c, FALSE) /\ UNCHANGED target
  /\ UNCHANGED tab

Freed(j, i) == IF context[j][i].open THEN temps \ {<<j, i>>} ELSE temps

(* filemgr_upload_free, when the connection is gone or the answer sent.    *)
Free(j, i) ==
  /\ Serving
  /\ LET c == context[j][i]
         t == IF c.open THEN Reported(task[j], c, task[j].cancel)
              ELSE task[j] IN
     /\ c.on /\ tab[j].op # "download"
     /\ Put(j, i, NoContext)
     /\ temps' = Freed(j, i)
     /\ task' = [task EXCEPT ![j] =
          IF c.task THEN [t EXCEPT !.streams = @ - 1] ELSE @]
     /\ Answer(j, i, "none")
  /\ UNCHANGED <<tab, target>>

(* A request that never reached a handler.                                 *)
Lose(j) ==
  /\ Serving
  /\ request[j].at = "sent"
  /\ request' = [request EXCEPT ![j].at = "none"]
  /\ UNCHANGED <<task, tab, context, temps, target>>

-----------------------------------------------------------------------------
(***************************************************************************)
(* Downloads on the server.                                                *)
(***************************************************************************)

(* Pieces of the answer: the file, or the files of an archive and the      *)
(* blocks that end it.                                                     *)
Parts == Size + 1

(* api_download with prepare_download_task.                                *)
Open(j) ==
  /\ Serving
  /\ request[j].at = "sent" /\ tab[j].op = "download"
  /\ LET t == task[j] IN
     \/ /\ t.state # "QUEUED"
        /\ request' = [request EXCEPT ![j].at = "none"]
        /\ UNCHANGED <<task, context>>
     \/ /\ t.state = "QUEUED" /\ (t.cancel \/ Broken)
        /\ task' = [task EXCEPT ![j].state = Ending(t.cancel)]
        /\ request' = [request EXCEPT ![j].at = "none"]
        /\ UNCHANGED context
     \/ /\ t.state = "QUEUED" /\ ~t.cancel
        /\ task' = [task EXCEPT ![j].state = "RUNNING"]
        /\ Put(j, 1, [NoContext EXCEPT !.on = TRUE, !.task = TRUE, !.open = TRUE])
        /\ request' = [request EXCEPT ![j].at = "open"]
  /\ UNCHANGED <<tab, temps, target>>

(* download_file_read, or tar_read.                                        *)
Read(j) ==
  /\ Serving
  /\ LET c == context[j][1] IN
     /\ c.on /\ tab[j].op = "download" /\ ~c.failed /\ c.got < Parts
     /\ \/ task[j].cancel /\ Put(j, 1, Failed(c)) /\ UNCHANGED task
        \/ Broken /\ Put(j, 1, Failed(c)) /\ UNCHANGED task
        \/ ~task[j].cancel /\ Put(j, 1, [c EXCEPT !.got = @ + 1])
             /\ task' = [task EXCEPT ![j].state = "RUNNING"]
  /\ UNCHANGED <<tab, request, temps, target>>

Sent(c) == c.got = Parts

(* download_file_close, or tar_close.                                      *)
Finished(j) ==
  /\ Serving
  /\ LET c == context[j][1] IN
     /\ c.on /\ tab[j].op = "download"
     /\ Put(j, 1, [c EXCEPT !.on = FALSE])
     /\ task' = [task EXCEPT ![j].state =
          IF ~task[j].cancel /\ ~c.failed /\ Sent(c) THEN "DONE" ELSE Ending(task[j].cancel)]
  /\ UNCHANGED <<tab, request, temps, target>>

-----------------------------------------------------------------------------
(* Mutant: streams are not looked at.                                      *)
ForgettableAnyway(j) == task[j].state \in Ended

Forgettable(j) == task[j].state \in Ended /\ task[j].streams = 0

(* remove_finished_tasks_locked, after the time an ended job is kept.      *)
Forget(j) ==
  /\ Serving
  /\ Forgettable(j)
  /\ task' = [task EXCEPT ![j] = [NoTask EXCEPT !.state = "FREED"]]
  /\ UNCHANGED <<tab, request, context, temps, target>>

(* Another program makes a file with the name.  late: it does so while an  *)
(* upload is between its look at the name and the rename.                  *)
TakeName ==
  /\ "foreign" \in Faults
  /\ \E i \in File :
       /\ target[i] = "absent"
       /\ target' = [target EXCEPT ![i] = "foreign"]
       /\ context' = [j \in Jobs |->
            [context[j] EXCEPT ![i].late = @ \/ context[j][i].look]]
  /\ UNCHANGED <<task, tab, request, temps>>

Browse(j) == Send(j) \/ Receive(j) \/ Poll(j) \/ ApiFinish(j) \/ TabCancel(j)
Serve(j)  == Begin(j) \/ (\E i \in File : Data(j, i) \/ Finish(j, i)) \/ Open(j) \/ Read(j)
Publish(j) == \E i \in File : RenameInto(j, i)
End(j)    == (\E i \in File : Free(j, i)) \/ Finished(j) \/ Lose(j)

Next == \/ \E j \in Jobs : \/ Prepare(j) \/ Browse(j) \/ Serve(j) \/ Publish(j) \/ End(j)
                           \/ Cancel(j) \/ Close(j) \/ Forget(j)
        \/ TakeName

Spec == Init /\ [][Next]_vars

(* Scripts run, the web server thread goes on with what it has begun, and  *)
(* a connection ends: MHD closes an idle one after 120 s.                  *)
FairSpec == Spec /\ \A j \in Jobs : WF_vars(Browse(j)) /\ WF_vars(Publish(j)) /\ WF_vars(End(j))

-----------------------------------------------------------------------------
TypeOK ==
  /\ \A j \in Jobs : /\ task[j].state \in Active \union Ended \union {"NONE", "FREED"}
                     /\ task[j].count \in 0 .. Files /\ task[j].streams \in 0 .. Files
                     /\ tab[j].index \in File
                     /\ \A i \in File : context[j][i].got \in 0 .. Size + 1
  /\ temps \subseteq Jobs \X File
  /\ \A i \in File : target[i] \in {"absent", "foreign", "whole", "broken"}

(* Nothing but whole files gets a final name, whatever connection is lost  *)
(* when and whatever length the body has.                                  *)
PublishedIsWhole == \A i \in File : target[i] # "broken"

(* An upload that is done has published every file of it, also when        *)
(* answers were lost and the browser went by the count.                    *)
DoneMeansPublished ==
  \A j \in Jobs : task[j].state = "DONE" /\ tab[j].op = "upload" =>
    \A i \in File : target[i] = "whole"

(* Every variable has its type, and a task is not freed while a connection *)
(* refers to it: for uploads the count of streams sees to that, for        *)
(* downloads the state.                                                    *)
ReferredIsKept ==
  TypeOK /\ \A j \in Jobs, i \in File : context[j][i].on /\ context[j][i].task => task[j].state # "FREED"

(* A file of another program is replaced only by an upload that found it   *)
(* when its request came and has leave, or, on a file system without       *)
(* links, if it appeared between the look at the name and the rename.      *)
NoClobber ==
  [][\A i \in File : target[i] = "foreign" /\ target'[i] # "foreign" =>
       \E j \in Jobs : \/ context[j][i].replace /\ tab[j].overwrite
                       \/ context[j][i].look /\ context[j][i].late]_vars

(* A job that ended stays as it ended: late data of a connection does not  *)
(* make it run again.                                                      *)
EndedStaysEnded ==
  [][\A j \in Jobs : task[j].state \in Ended =>
       task'[j].state \in {task[j].state, "FREED"}]_vars

(* A transfer that runs ends, unless the tab of an upload was closed.  (A  *)
(* prepared download whose request got lost stays queued, see the README.) *)
TransferSettles ==
  \A j \in Jobs : task[j].state = "RUNNING" ~>
    task[j].state # "RUNNING" \/ (tab[j].op = "upload" /\ TabAt(j, "closed"))
=============================================================================
