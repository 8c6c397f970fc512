------------------------ MODULE BrowserTransferProofs ------------------------
(***************************************************************************)
(* Theorems about BrowserTransfer, for every number of tabs, whatever they *)
(* ask for, every number and size of files and every set of faults.        *)
(***************************************************************************)
EXTENDS BrowserTransfer, FiniteSetTheorems, Integers, TLAPS

States == Active \union Ended \union {"NONE", "FREED"}
Points == {"idle", "send", "wait", "poll", "finish", "cancel", "close", "over", "closed"}

TaskType    == [state : States, cancel : BOOLEAN, count : Nat, streams : Nat]
TabType     == [pc : Points, op : {"upload", "bare", "download"}, overwrite : BOOLEAN, index : File]
RequestType == [at : {"none", "sent", "open", "ok"}, file : File]
ContextType == [on : BOOLEAN, task : BOOLEAN, open : BOOLEAN, replace : BOOLEAN,
                got : 0 .. Size + 1, held : Nat, failed : BOOLEAN, over : BOOLEAN,
                look : BOOLEAN, late : BOOLEAN]

TypeInv ==
  /\ task \in [Jobs -> TaskType]
  /\ tab \in [Jobs -> TabType]
  /\ request \in [Jobs -> RequestType]
  /\ context \in [Jobs -> [File -> ContextType]]
  /\ temps \subseteq Jobs \X File
  /\ target \in [File -> {"absent", "foreign", "whole", "broken"}]

(* File i of tab j may still get its name from the server.                 *)
Pending(j, i) ==
  \/ request[j].at = "sent" /\ request[j].file = i
  \/ context[j][i].on /\ ~context[j][i].over
  \/ tab[j].pc \in {"idle", "send"} /\ tab[j].index = i

(* The files of tab j that have arrived, and will not arrive again.        *)
Landed(j) == {i \in 1 .. tab[j].index : target[i] = "whole" /\ ~Pending(j, i)}

(* The connections of tab j that refer to its task.                        *)
Streams(j) == {i \in File : context[j][i].on /\ context[j][i].task}

(* What a tab has done tells what the server can know of it.               *)
TabInv(j) ==
  /\ tab[j].pc = "idle" => /\ task[j] = NoTask /\ request[j].at = "none" /\ tab[j].index = 1
                           /\ \A i \in File : context[j][i] = NoContext
  /\ tab[j].pc = "send" => request[j].at # "sent" /\ ~context[j][tab[j].index].on
  /\ tab[j].pc = "wait" \/ request[j].at = "sent" => request[j].file = tab[j].index
  /\ tab[j].pc \in {"poll", "finish", "cancel", "close"} => tab[j].op = "upload"
  /\ tab[j].pc = "close" => task[j].cancel \/ task[j].state \notin Active
  /\ request[j].at = "sent" => ~context[j][request[j].file].on
  /\ \A i \in File : /\ i > tab[j].index => ~context[j][i].on
                     /\ context[j][i].replace => tab[j].overwrite
                     /\ tab[j].op # "download" /\ context[j][i].open =>
                          context[j][i].on /\ (context[j][i].over => context[j][i].failed)

(* Downloads: nothing is counted, and a stream has a task that runs.       *)
DownInv(j) ==
  tab[j].op = "download" =>
    /\ task[j].count = 0 /\ task[j].streams = 0
    /\ \A i \in File : context[j][i].on => i = 1 /\ task[j].state = "RUNNING"

(* The two counts of a task.                                               *)
CountInv(j) ==
  tab[j].op # "download" =>
    /\ task[j].streams = Cardinality(Streams(j))
    /\ task[j].count <= Cardinality(Landed(j))
    /\ task[j].state \in {"NONE", "FREED"} => Streams(j) = {}

(* Files arrive one after the other.                                       *)
LandedInv(j) ==
  tab[j].op # "download" =>
    /\ 1 .. tab[j].index - 1 \subseteq Landed(j)
    /\ request[j].at = "ok" => request[j].file \in Landed(j)
    /\ tab[j].pc = "finish" => tab[j].index = Files /\ Files \in Landed(j)

(* A connection whose task has ended has failed or is over, but for a      *)
(* cancel, which it will see.                                              *)
LiveInv(j) ==
  tab[j].op # "download" /\ task[j].state \in Ended /\ ~task[j].cancel =>
    \A i \in Streams(j) : context[j][i].over \/ context[j][i].failed

DoneInv(j) ==
  task[j].state = "DONE" /\ tab[j].op = "upload" => \A i \in File : target[i] = "whole"

JobInv(j) == /\ TabInv(j) /\ DownInv(j) /\ CountInv(j)
             /\ LandedInv(j) /\ LiveInv(j) /\ DoneInv(j)

JobsInv == TypeInv /\ PublishedIsWhole /\ \A j \in Jobs : JobInv(j)

(* A connection between its look at the name and the rename has the whole  *)
(* file and no reason to stop, and a file that has the name came late.     *)
Looking(j, i) ==
  context[j][i].look =>
    /\ tab[j].op # "download" /\ context[j][i].on /\ context[j][i].got = Size
    /\ ~context[j][i].over /\ ~context[j][i].failed
    /\ ~FinishStopped(j, context[j][i])
    /\ target[i] = "foreign" => context[j][i].late

LookInv == \A j \in Jobs, i \in File : Looking(j, i)

IInv == JobsInv /\ LookInv

-----------------------------------------------------------------------------
(* What is known of the constants, and of the variables, of one tab.       *)
LEMMA Limits == Files \in Nat \ {0} /\ Size \in Nat \ {0}
BY BrowserTransferAssumption

LEMMA TaskField ==
  ASSUME TypeInv, NEW j \in Jobs
  PROVE  /\ task[j] \in TaskType
         /\ task[j].state \in States /\ task[j].cancel \in BOOLEAN
         /\ task[j].count \in Nat /\ task[j].streams \in Nat
<1>1. task[j] \in TaskType
  BY DEF TypeInv
<1>2. QED
  BY <1>1 DEF TaskType

LEMMA TabField ==
  ASSUME TypeInv, NEW j \in Jobs
  PROVE  /\ tab[j] \in TabType
         /\ tab[j].pc \in Points /\ tab[j].op \in {"upload", "bare", "download"}
         /\ tab[j].overwrite \in BOOLEAN /\ tab[j].index \in 1 .. Files
<1>1. tab[j] \in TabType
  BY DEF TypeInv
<1>2. QED
  BY <1>1 DEF TabType, File

LEMMA RequestField ==
  ASSUME TypeInv, NEW j \in Jobs
  PROVE  /\ request[j] \in RequestType
         /\ request[j].at \in {"none", "sent", "open", "ok"} /\ request[j].file \in File
<1>1. request[j] \in RequestType
  BY DEF TypeInv
<1>2. QED
  BY <1>1 DEF RequestType

LEMMA ContextField ==
  ASSUME TypeInv, NEW j \in Jobs, NEW i \in File
  PROVE  /\ context[j] \in [File -> ContextType] /\ context[j][i] \in ContextType
         /\ context[j][i].on \in BOOLEAN /\ context[j][i].task \in BOOLEAN
         /\ context[j][i].failed \in BOOLEAN /\ context[j][i].over \in BOOLEAN
         /\ context[j][i].replace \in BOOLEAN /\ context[j][i].open \in BOOLEAN
         /\ context[j][i].got \in 0 .. Size + 1 /\ context[j][i].held \in Nat
         /\ context[j][i].look \in BOOLEAN /\ context[j][i].late \in BOOLEAN
<1>1. context[j] \in [File -> ContextType]
  BY DEF TypeInv
<1>2. context[j][i] \in ContextType
  BY <1>1
<1>3. QED
  BY <1>1, <1>2 DEF ContextType

LEMMA TargetField ==
  ASSUME TypeInv
  PROVE  \A i \in File : target[i] \in {"absent", "foreign", "whole", "broken"}
BY DEF TypeInv

LEMMA FileIs == File = 1 .. Files /\ IsFiniteSet(File) /\ Cardinality(File) = Files
BY Limits, FS_Interval DEF File

LEMMA FirstFiles ==
  ASSUME NEW n \in 1 .. Files
  PROVE  IsFiniteSet(1 .. n) /\ Cardinality(1 .. n) = n
<1>1. n \in Int /\ 1 \in Int /\ n >= 1
  BY Limits
<1>2. IsFiniteSet(1 .. n) /\ Cardinality(1 .. n) = IF 1 > n THEN 0 ELSE n - 1 + 1
  BY <1>1, FS_Interval
<1>3. QED
  BY <1>1, <1>2

(* The two sets that are counted are finite.                               *)
LEMMA CountsAreSmall ==
  ASSUME TypeInv, NEW j \in Jobs
  PROVE  /\ IsFiniteSet(Landed(j)) /\ Cardinality(Landed(j)) \in 0 .. tab[j].index
         /\ IsFiniteSet(Streams(j)) /\ Cardinality(Streams(j)) \in 0 .. Files
         /\ Landed(j) \subseteq 1 .. tab[j].index /\ Streams(j) \subseteq File
<1>1. tab[j].index \in 1 .. Files
  BY TabField
<1>2. /\ IsFiniteSet(1 .. tab[j].index) /\ Cardinality(1 .. tab[j].index) = tab[j].index
  BY <1>1, FirstFiles
<1>3. Landed(j) \subseteq 1 .. tab[j].index
  BY Zenon DEF Landed
<1>4. Streams(j) \subseteq File
  BY Zenon DEF Streams
<1>5. /\ IsFiniteSet(Landed(j)) /\ Cardinality(Landed(j)) <= tab[j].index
  BY <1>2, <1>3, FS_Subset
<1>6. /\ IsFiniteSet(Streams(j)) /\ Cardinality(Streams(j)) <= Files
  BY <1>4, FileIs, FS_Subset
<1>7. Cardinality(Landed(j)) \in Nat /\ Cardinality(Streams(j)) \in Nat
  BY <1>5, <1>6, FS_CardinalityType
<1>8. QED
  BY <1>1, <1>3, <1>4, <1>5, <1>6, <1>7, Limits

(* All of the first files have landed when as many have.                   *)
LEMMA AllLanded ==
  ASSUME TypeInv, NEW j \in Jobs, Cardinality(Landed(j)) >= tab[j].index
  PROVE  Landed(j) = 1 .. tab[j].index
<1>1. tab[j].index \in 1 .. Files
  BY TabField
<1>2. /\ IsFiniteSet(1 .. tab[j].index) /\ Cardinality(1 .. tab[j].index) = tab[j].index
  BY <1>1, FirstFiles
<1>3. /\ Landed(j) \subseteq 1 .. tab[j].index
      /\ Cardinality(Landed(j)) \in 0 .. tab[j].index
  BY CountsAreSmall
<1>4. Cardinality(Landed(j)) = Cardinality(1 .. tab[j].index)
  BY <1>1, <1>2, <1>3
<1>5. QED
  BY <1>2, <1>3, <1>4, FS_Subset

(* Whole files stay.                                                       *)
Kept == \A i \in File : target[i] = "whole" => target'[i] = "whole"

(* A step that makes no file pending of those that have landed.            *)
LEMMA LandedGrows ==
  ASSUME TypeInv, TypeInv', NEW j \in Jobs, Kept, tab[j].index <= tab'[j].index,
         \A i \in Landed(j) : Pending(j, i)' => Pending(j, i)
  PROVE  /\ Landed(j) \subseteq Landed(j)'
         /\ Cardinality(Landed(j)) <= Cardinality(Landed(j)')
<1>0. tab'[j] \in TabType
  BY DEF TypeInv
<1>1. tab[j].index \in 1 .. Files /\ tab'[j].index \in 1 .. Files
  BY <1>0, TabField DEF TabType, File
<1>2. ASSUME NEW i \in Landed(j)
      PROVE  i \in Landed(j)'
  <2>1. i \in 1 .. tab[j].index /\ target[i] = "whole" /\ ~Pending(j, i)
    BY <1>2, Zenon DEF Landed
  <2>2. i \in File /\ i \in 1 .. tab'[j].index
    BY <1>1, <2>1, FileIs, Limits
  <2>3. target'[i] = "whole" /\ ~Pending(j, i)'
    BY <2>1, <2>2 DEF Kept
  <2>4. QED
    BY <2>2, <2>3, Zenon DEF Landed
<1>3. IsFiniteSet(Landed(j)')
  <2>1. Landed(j)' \subseteq 1 .. tab'[j].index
    BY Zenon DEF Landed
  <2>2. QED
    BY <1>1, <2>1, FirstFiles, FS_Subset
<1>4. QED
  BY <1>2, <1>3, FS_Subset

LEMMA LandedFinite ==
  ASSUME TypeInv, TypeInv', NEW j \in Jobs
  PROVE  IsFiniteSet(Landed(j)) /\ IsFiniteSet(Landed(j)')
<1>1. IsFiniteSet(Landed(j))
  BY CountsAreSmall
<1>2. tab'[j] \in TabType
  BY DEF TypeInv
<1>3. tab'[j].index \in 1 .. Files
  BY <1>2 DEF TabType, File
<1>4. Landed(j)' \subseteq 1 .. tab'[j].index
  BY Zenon DEF Landed
<1>5. QED
  BY <1>1, <1>3, <1>4, FirstFiles, FS_Subset

LEMMA LandedCounts ==
  ASSUME TypeInv, TypeInv', NEW j \in Jobs
  PROVE  Cardinality(Landed(j)) \in Nat /\ Cardinality(Landed(j)') \in Nat
BY LandedFinite, FS_CardinalityType

-----------------------------------------------------------------------------
(* What the steps of the model do to a task, field by field.               *)
LEMMA SettledIs ==
  ASSUME NEW t \in TaskType, NEW s \in States
  PROVE  /\ Settled(t, s) \in TaskType
         /\ Settled(t, s).state = IF t.state \in Active THEN s ELSE t.state
         /\ Settled(t, s).cancel = t.cancel /\ Settled(t, s).count = t.count
         /\ Settled(t, s).streams = t.streams
BY DEF Settled, TaskType

LEMMA EndingIs == \A b \in BOOLEAN : Ending(b) \in Ended /\ Ending(b) \in States
                                     /\ Ending(b) # "DONE" /\ Ending(b) \notin Active
BY DEF Ending, Ended, States, Active

LEMMA ReportedIs ==
  ASSUME NEW t \in TaskType, NEW c \in ContextType, NEW x \in BOOLEAN
  PROVE  /\ Reported(t, c, x) \in TaskType
         /\ Reported(t, c, x).state =
              IF c.task /\ ~c.failed /\ t.state \in Active THEN Ending(x) ELSE t.state
         /\ Reported(t, c, x).cancel = t.cancel /\ Reported(t, c, x).count = t.count
         /\ Reported(t, c, x).streams = t.streams
<1>1. Ending(x) \in States
  BY EndingIs
<1>2. CASE c.task /\ ~c.failed
  BY <1>1, <1>2, SettledIs DEF Reported
<1>3. CASE ~(c.task /\ ~c.failed)
  BY <1>3 DEF Reported
<1>4. QED
  BY <1>2, <1>3

LEMMA CanceledIs ==
  ASSUME NEW t \in TaskType, NEW op
  PROVE  /\ Canceled(t, op) \in TaskType /\ Canceled(t, op).cancel
         /\ Canceled(t, op).state =
              IF op = "download" /\ t.state = "QUEUED" THEN "CANCELED" ELSE t.state
         /\ Canceled(t, op).count = t.count /\ Canceled(t, op).streams = t.streams
BY DEF Canceled, TaskType, States, Ended

LEMMA NoContextIs ==
  /\ NoContext \in ContextType /\ ~NoContext.on /\ ~NoContext.over /\ ~NoContext.failed
  /\ ~NoContext.replace /\ ~NoContext.open /\ ~NoContext.look
<1>1. 0 \in 0 .. Size + 1
  BY Limits
<1>2. QED
  BY <1>1 DEF NoContext, ContextType

LEMMA FlushedIs ==
  ASSUME TypeInv, NEW j \in Jobs, NEW c \in ContextType
  PROVE  /\ Flushed(j, c) \in TaskType
         /\ Flushed(j, c).state \in {task[j].state, "RUNNING"}
         /\ ~c.task => Flushed(j, c) = task[j]
         /\ Flushed(j, c).cancel = task[j].cancel /\ Flushed(j, c).count = task[j].count
         /\ Flushed(j, c).streams = task[j].streams
<1>1. task[j] \in TaskType
  BY TaskField
<1>2. QED
  BY <1>1 DEF Flushed, TaskType, States, Active

-----------------------------------------------------------------------------
(* What a step of one tab leaves as it is.                                 *)
Only(j) == /\ \A k \in Jobs \ {j} : /\ task'[k] = task[k] /\ tab'[k] = tab[k]
                                    /\ request'[k] = request[k] /\ context'[k] = context[k]
           /\ Kept

LEMMA SameStreams ==
  ASSUME NEW j, \A i \in File : /\ context'[j][i].on = context[j][i].on
                                /\ context'[j][i].task = context[j][i].task
  PROVE  Streams(j)' = Streams(j)
BY Zenon DEF Streams

LEMMA CountFrame ==
  ASSUME TypeInv, TypeInv', NEW j \in Jobs, CountInv(j), tab'[j].op = tab[j].op,
         tab[j].op # "download" =>
           /\ Streams(j)' = Streams(j)
           /\ Cardinality(Landed(j)) <= Cardinality(Landed(j)')
           /\ task'[j].streams = task[j].streams /\ task'[j].count = task[j].count
           /\ task'[j].state \in {"NONE", "FREED"} => task[j].state \in {"NONE", "FREED"}
  PROVE  CountInv(j)'
<1>1. Cardinality(Landed(j)) \in Nat /\ Cardinality(Landed(j)') \in Nat
  BY LandedCounts
<1>2. task[j].count \in Nat
  BY TaskField
<1>3. QED
  BY <1>1, <1>2 DEF CountInv

LEMMA LandedFrame ==
  ASSUME NEW j \in Jobs, LandedInv(j), tab'[j].op = tab[j].op,
         tab[j].op # "download" =>
           /\ tab'[j].index = tab[j].index
           /\ Landed(j) \subseteq Landed(j)'
           /\ request'[j].at = "ok" => request'[j].file \in Landed(j)'
           /\ tab'[j].pc = "finish" => tab[j].pc = "finish"
  PROVE  LandedInv(j)'
BY DEF LandedInv

(* Contexts that differ in "late" only, and none that is new.              *)
Resembles(j) ==
  \A i \in File : /\ context'[j][i].on = context[j][i].on
                  /\ context'[j][i].task = context[j][i].task
                  /\ context'[j][i].open = context[j][i].open
                  /\ context'[j][i].replace = context[j][i].replace
                  /\ context'[j][i].over = context[j][i].over
                  /\ context'[j][i].failed = context[j][i].failed
                  /\ context[j][i] = NoContext => context'[j][i] = NoContext

LEMMA OthersKeep ==
  ASSUME TypeInv, TypeInv', NEW j \in Jobs, JobInv(j), Kept,
         task'[j] = task[j], tab'[j] = tab[j], request'[j] = request[j],
         Resembles(j)
  PROVE  JobInv(j)'
<1>1. tab[j].index \in 1 .. Files
  BY TabField
<1>2. Landed(j) \subseteq Landed(j)' /\ Cardinality(Landed(j)) <= Cardinality(Landed(j)')
  <2>1. \A i \in Landed(j) : Pending(j, i)' => Pending(j, i)
    <3>1. \A i \in Landed(j) : i \in File
      BY <1>1, CountsAreSmall, FileIs, Limits
    <3>2. QED
      BY <3>1 DEF Pending, Resembles
  <2>2. QED
    BY <1>1, <2>1, LandedGrows
<1>3. Streams(j)' = Streams(j)
  BY SameStreams DEF Resembles
<1>4. TabInv(j)'
  <2>1. tab[j].index \in File /\ request[j].file \in File
    BY <1>1, RequestField, FileIs
  <2>2. QED
    BY <2>1 DEF TabInv, JobInv, Resembles
<1>5. DownInv(j)'
  BY DEF DownInv, JobInv, Resembles
<1>6. CountInv(j)'
  BY <1>2, <1>3, CountFrame DEF JobInv
<1>7. LandedInv(j)'
  BY <1>2, LandedFrame DEF JobInv, LandedInv
<1>8. LiveInv(j)'
  <2>1. \A i \in Streams(j) : i \in File
    BY Zenon DEF Streams
  <2>2. QED
    BY <1>3, <2>1 DEF LiveInv, JobInv, Resembles
<1>9. DoneInv(j)'
  BY DEF DoneInv, JobInv, Kept
<1>10. QED
  BY <1>4, <1>5, <1>6, <1>7, <1>8, <1>9 DEF JobInv

-----------------------------------------------------------------------------
(* What the assignments of the steps do.                                   *)
LEMMA TabToIs ==
  ASSUME TypeInv, NEW j \in Jobs, NEW p \in Points, TabTo(j, p)
  PROVE  /\ tab' \in [Jobs -> TabType] /\ tab'[j].pc = p /\ tab'[j].op = tab[j].op
         /\ tab'[j].overwrite = tab[j].overwrite /\ tab'[j].index = tab[j].index
         /\ \A k \in Jobs \ {j} : tab'[k] = tab[k]
<1>1. tab \in [Jobs -> TabType] /\ tab[j] \in TabType
  BY DEF TypeInv
<1>2. tab' = [tab EXCEPT ![j].pc = p]
  BY DEF TabTo
<1>3. QED
  BY <1>1, <1>2 DEF TabType

LEMMA TaskTo ==
  ASSUME TypeInv, NEW j \in Jobs, NEW t \in TaskType, task' = [task EXCEPT ![j] = t]
  PROVE  /\ task' \in [Jobs -> TaskType] /\ task'[j] = t
         /\ \A k \in Jobs \ {j} : task'[k] = task[k]
BY DEF TypeInv

LEMMA PutIs ==
  ASSUME TypeInv, NEW j \in Jobs, NEW i \in File, NEW c \in ContextType, Put(j, i, c)
  PROVE  /\ context' \in [Jobs -> [File -> ContextType]] /\ context'[j][i] = c
         /\ \A n \in File \ {i} : context'[j][n] = context[j][n]
         /\ \A k \in Jobs \ {j} : context'[k] = context[k]
<1>1. context \in [Jobs -> [File -> ContextType]] /\ context[j] \in [File -> ContextType]
  BY DEF TypeInv
<1>2. QED
  BY <1>1 DEF Put

LEMMA AnswerIs ==
  ASSUME TypeInv, NEW j \in Jobs, NEW i \in File, NEW a \in {"none", "ok"}, Answer(j, i, a)
  PROVE  /\ request' \in [Jobs -> RequestType] /\ request'[j].file = request[j].file
         /\ request'[j].at \in {request[j].at, a}
         /\ request'[j].at # request[j].at =>
              request[j].at = "open" /\ request[j].file = i /\ request'[j].at = a
         /\ \A k \in Jobs \ {j} : request'[k] = request[k]
<1>1. request \in [Jobs -> RequestType] /\ request[j] \in RequestType
  BY DEF TypeInv
<1>2. CASE request[j] = [at |-> "open", file |-> i]
  BY <1>1, <1>2 DEF Answer, RequestType
<1>3. CASE request[j] # [at |-> "open", file |-> i]
  BY <1>1, <1>3 DEF Answer
<1>4. QED
  BY <1>2, <1>3

LEMMA RequestTo ==
  ASSUME TypeInv, NEW j \in Jobs, NEW a \in {"none", "open"}, request' = [request EXCEPT ![j].at = a]
  PROVE  /\ request' \in [Jobs -> RequestType] /\ request'[j].file = request[j].file
         /\ request'[j].at = a
         /\ \A k \in Jobs \ {j} : request'[k] = request[k]
<1>1. request \in [Jobs -> RequestType] /\ request[j] \in RequestType
  BY DEF TypeInv
<1>2. QED
  BY <1>1 DEF RequestType

LEMMA GoOnIs ==
  ASSUME TypeInv, NEW j \in Jobs, GoOn(j)
  PROVE  /\ tab' \in [Jobs -> TabType] /\ tab'[j].op = tab[j].op
         /\ tab'[j].overwrite = tab[j].overwrite
         /\ \A k \in Jobs \ {j} : tab'[k] = tab[k]
         /\ \/ tab[j].op # "upload" /\ tab'[j].pc = "over" /\ tab'[j].index = tab[j].index
            \/ tab[j].op = "upload" /\ tab[j].index < Files /\ tab'[j].pc = "send"
                 /\ tab'[j].index = tab[j].index + 1
            \/ tab[j].op = "upload" /\ tab[j].index = Files /\ tab'[j].pc = "finish"
                 /\ tab'[j].index = tab[j].index
<1>1. tab \in [Jobs -> TabType] /\ tab[j] \in TabType /\ tab[j].index \in 1 .. Files
  BY TabField DEF TypeInv
<1>2. CASE tab[j].op # "upload"
  BY <1>1, <1>2 DEF GoOn, TabType, Points
<1>3. CASE tab[j].op = "upload" /\ tab[j].index < Files
  <2>1. tab[j].index + 1 \in File
    BY <1>1, <1>3, FileIs, Limits
  <2>2. QED
    BY <1>1, <1>3, <2>1 DEF GoOn, TabType, Points
<1>4. CASE tab[j].op = "upload" /\ ~(tab[j].index < Files)
  <2>1. tab[j].index = Files
    BY <1>1, <1>4, Limits
  <2>2. QED
    BY <1>1, <1>4, <2>1 DEF GoOn, TabType, Points
<1>5. QED
  BY <1>2, <1>3, <1>4

-----------------------------------------------------------------------------
(* The steps of a tab, one lemma each.                                     *)
Final(j) == task[j].state \in Ended => task'[j].state \in {task[j].state, "FREED"}
Good(j)  == TypeInv' /\ Only(j) /\ PublishedIsWhole' /\ JobInv(j)' /\ Final(j)

(* A step that opens no connection and publishes nothing.                  *)
LEMMA Calm ==
  ASSUME TypeInv, TypeInv', NEW j \in Jobs, context' = context, target' = target,
         tab[j].index <= tab'[j].index,
         tab'[j].pc \in {"idle", "send"} =>
           tab'[j].index = tab[j].index + 1 \/ Pending(j, tab'[j].index),
         request'[j].at = "sent" => Pending(j, request'[j].file)
  PROVE  /\ Landed(j) \subseteq Landed(j)'
         /\ Cardinality(Landed(j)) <= Cardinality(Landed(j)')
         /\ Streams(j)' = Streams(j)
<1>1. Landed(j) \subseteq 1 .. tab[j].index /\ tab[j].index \in 1 .. Files
  BY CountsAreSmall, TabField
<1>2. ASSUME NEW i \in Landed(j), Pending(j, i)'
      PROVE  Pending(j, i)
  <2>1. CASE request'[j].at = "sent" /\ request'[j].file = i
    BY <2>1
  <2>2. CASE context'[j][i].on /\ ~context'[j][i].over
    BY <2>2 DEF Pending
  <2>3. CASE tab'[j].pc \in {"idle", "send"} /\ tab'[j].index = i
    BY <1>1, <2>3, Limits
  <2>4. QED
    BY <1>2, <2>1, <2>2, <2>3, Zenon DEF Pending
<1>3. Kept
  BY DEF Kept
<1>4. Streams(j)' = Streams(j)
  BY SameStreams
<1>5. QED
  BY <1>2, <1>3, <1>4, LandedGrows

LEMMA StillWhole ==
  ASSUME PublishedIsWhole, target' = target
  PROVE  PublishedIsWhole' /\ Kept
BY DEF PublishedIsWhole, Kept

LEMMA SendKeeps ==
  ASSUME JobsInv, NEW j \in Jobs, Send(j)
  PROVE  Good(j)
<1>0. TypeInv /\ PublishedIsWhole /\ JobInv(j) /\ tab[j].pc = "send"
  BY DEF JobsInv, Send, TabAt
<1>1. tab[j].index \in File /\ tab[j].index \in 1 .. Files
  BY <1>0, TabField, FileIs
<1>2. /\ request' \in [Jobs -> RequestType]
      /\ request'[j].at = "sent" /\ request'[j].file = tab[j].index
      /\ \A k \in Jobs \ {j} : request'[k] = request[k]
  <2>1. request \in [Jobs -> RequestType]
    BY <1>0 DEF TypeInv
  <2>2. request' = [request EXCEPT ![j] = [at |-> "sent", file |-> tab[j].index]]
    BY DEF Send
  <2>3. QED
    BY <1>1, <2>1, <2>2 DEF RequestType
<1>3. /\ tab' \in [Jobs -> TabType] /\ tab'[j].pc = "wait" /\ tab'[j].op = tab[j].op
      /\ tab'[j].overwrite = tab[j].overwrite /\ tab'[j].index = tab[j].index
      /\ \A k \in Jobs \ {j} : tab'[k] = tab[k]
  BY <1>0, TabToIs DEF Send, Points
<1>4. task' = task /\ context' = context /\ temps' = temps /\ target' = target
  BY DEF Send
<1>5. TypeInv'
  BY <1>0, <1>2, <1>3, <1>4 DEF TypeInv
<1>6. /\ Landed(j) \subseteq Landed(j)'
      /\ Cardinality(Landed(j)) <= Cardinality(Landed(j)')
      /\ Streams(j)' = Streams(j)
  <2>1. Pending(j, tab[j].index)
    BY <1>0 DEF Pending
  <2>2. QED
    BY <1>0, <1>1, <1>2, <1>3, <1>4, <1>5, <2>1, Calm
<1>7. TabInv(j)'
  BY <1>0, <1>2, <1>3, <1>4 DEF JobInv, TabInv
<1>8. DownInv(j)'
  BY <1>0, <1>3, <1>4 DEF JobInv, DownInv
<1>9. CountInv(j)'
  BY <1>0, <1>3, <1>4, <1>5, <1>6, CountFrame DEF JobInv
<1>10. LandedInv(j)'
  BY <1>0, <1>2, <1>3, <1>6, LandedFrame DEF JobInv
<1>11. LiveInv(j)' /\ DoneInv(j)'
  BY <1>0, <1>3, <1>4, <1>6 DEF JobInv, LiveInv, DoneInv
<1>12. PublishedIsWhole' /\ Kept
  BY <1>0, <1>4, StillWhole
<1>13. QED
  BY <1>2, <1>3, <1>4, <1>5, <1>7, <1>8, <1>9, <1>10, <1>11, <1>12 DEF Good, JobInv, Only, Final

(* A step of the browser or the network that sends nothing and goes on to  *)
(* no other file.                                                          *)
Quiet(j) ==
  /\ context' = context /\ temps' = temps /\ target' = target
  /\ tab'[j].op = tab[j].op /\ tab'[j].overwrite = tab[j].overwrite
  /\ tab'[j].index = tab[j].index
  /\ tab'[j].pc # tab[j].pc => /\ tab[j].pc # "idle"
                               /\ tab'[j].pc \in {"poll", "cancel", "close", "over", "closed"}
                               /\ tab'[j].pc \in {"poll", "cancel", "close"} => tab[j].op = "upload"
  /\ request'[j].file = request[j].file
  /\ request'[j].at \in {request[j].at, "none"}
  /\ \A k \in Jobs \ {j} : task'[k] = task[k] /\ tab'[k] = tab[k] /\ request'[k] = request[k]

LEMMA QuietTab ==
  ASSUME JobsInv, TypeInv', NEW j \in Jobs, Quiet(j),
         tab'[j].pc = "close" => task'[j].cancel \/ task'[j].state \notin Active,
         tab'[j].pc = "idle" => task'[j] = task[j]
  PROVE  /\ TabInv(j)' /\ LandedInv(j)' /\ Only(j) /\ PublishedIsWhole'
         /\ Landed(j) \subseteq Landed(j)'
         /\ Cardinality(Landed(j)) <= Cardinality(Landed(j)')
         /\ Streams(j)' = Streams(j)
<1>1. TypeInv /\ PublishedIsWhole /\ JobInv(j)
  BY DEF JobsInv
<1>2. tab[j].index \in 1 .. Files
  BY <1>1, TabField
<1>3. /\ Landed(j) \subseteq Landed(j)'
      /\ Cardinality(Landed(j)) <= Cardinality(Landed(j)')
      /\ Streams(j)' = Streams(j)
  <2>1. tab'[j].pc \in {"idle", "send"} => Pending(j, tab'[j].index)
    BY DEF Quiet, Pending
  <2>2. request'[j].at = "sent" => Pending(j, request'[j].file)
    BY DEF Quiet, Pending
  <2>3. context' = context /\ target' = target /\ tab[j].index <= tab'[j].index
    BY <1>2 DEF Quiet
  <2>4. QED
    BY <1>1, <2>1, <2>2, <2>3, Calm
<1>4. TabInv(j)'
  BY <1>1 DEF JobInv, TabInv, Quiet
<1>5. LandedInv(j)'
  <2>1. request'[j].at = "ok" => request[j].at = "ok" /\ request'[j].file = request[j].file
    BY DEF Quiet
  <2>2. tab'[j].pc = "finish" => tab[j].pc = "finish"
    BY DEF Quiet
  <2>3. tab'[j].op = tab[j].op /\ tab'[j].index = tab[j].index
    BY DEF Quiet
  <2>4. QED
    BY <1>1, <1>3, <2>1, <2>2, <2>3 DEF JobInv, LandedInv
<1>6. PublishedIsWhole' /\ Kept
  BY <1>1, StillWhole DEF Quiet
<1>7. QED
  BY <1>3, <1>4, <1>5, <1>6 DEF Only, Quiet

LEMMA QuietKeeps ==
  ASSUME JobsInv, TypeInv', NEW j \in Jobs, Quiet(j), task' = task,
         tab'[j].pc = "close" => tab[j].pc = "close"
  PROVE  Good(j)
<1>1. TypeInv /\ JobInv(j)
  BY DEF JobsInv
<1>2. /\ TabInv(j)' /\ LandedInv(j)' /\ Only(j) /\ PublishedIsWhole'
      /\ Landed(j) \subseteq Landed(j)'
      /\ Cardinality(Landed(j)) <= Cardinality(Landed(j)')
      /\ Streams(j)' = Streams(j)
  BY <1>1, QuietTab DEF JobInv, TabInv
<1>3. tab'[j].op = tab[j].op /\ context' = context /\ target' = target
  BY DEF Quiet
<1>4. DownInv(j)' /\ DoneInv(j)' /\ LiveInv(j)'
  BY <1>1, <1>2, <1>3 DEF JobInv, DownInv, DoneInv, LiveInv
<1>5. CountInv(j)'
  BY <1>1, <1>2, <1>3, CountFrame DEF JobInv
<1>6. QED
  BY <1>2, <1>4, <1>5 DEF Good, JobInv, Final

LEMMA CloseKeeps ==
  ASSUME JobsInv, NEW j \in Jobs, Close(j)
  PROVE  Good(j)
<1>1. TypeInv
  BY DEF JobsInv
<1>2. /\ tab' \in [Jobs -> TabType] /\ tab'[j].pc = "closed" /\ tab'[j].op = tab[j].op
      /\ tab'[j].overwrite = tab[j].overwrite /\ tab'[j].index = tab[j].index
      /\ \A k \in Jobs \ {j} : tab'[k] = tab[k]
  BY <1>1, TabToIs DEF Close, Points
<1>3. /\ task' = task /\ request' = request /\ context' = context
      /\ temps' = temps /\ target' = target /\ tab[j].pc # "idle"
  BY DEF Close
<1>4. TypeInv'
  BY <1>1, <1>2, <1>3 DEF TypeInv
<1>5. Quiet(j)
  BY <1>2, <1>3 DEF Quiet
<1>6. QED
  BY <1>2, <1>3, <1>4, <1>5, QuietKeeps

LEMMA LoseKeeps ==
  ASSUME JobsInv, NEW j \in Jobs, Lose(j)
  PROVE  Good(j)
<1>1. TypeInv
  BY DEF JobsInv
<1>2. /\ request' \in [Jobs -> RequestType] /\ request'[j].file = request[j].file
      /\ request'[j].at = "none" /\ \A k \in Jobs \ {j} : request'[k] = request[k]
  BY <1>1, RequestTo DEF Lose
<1>3. /\ task' = task /\ tab' = tab /\ context' = context
      /\ temps' = temps /\ target' = target
  BY DEF Lose
<1>4. TypeInv'
  BY <1>1, <1>2, <1>3 DEF TypeInv
<1>5. Quiet(j)
  BY <1>2, <1>3 DEF Quiet
<1>6. QED
  BY <1>3, <1>4, <1>5, QuietKeeps

(* What GiveUp makes of a tab.                                             *)
LEMMA GiveUpIs ==
  ASSUME TypeInv, NEW j \in Jobs, GiveUp(j)
  PROVE  /\ tab' \in [Jobs -> TabType] /\ tab'[j].op = tab[j].op
         /\ tab'[j].overwrite = tab[j].overwrite /\ tab'[j].index = tab[j].index
         /\ tab'[j].pc \in {"cancel", "over"}
         /\ tab'[j].pc = "cancel" => tab[j].op = "upload"
         /\ \A k \in Jobs \ {j} : tab'[k] = tab[k]
<1>1. CASE tab[j].op = "upload"
  BY <1>1, TabToIs DEF GiveUp, Points
<1>2. CASE tab[j].op # "upload"
  BY <1>2, TabToIs DEF GiveUp, Points
<1>3. QED
  BY <1>1, <1>2

(* The next file is asked for when those before it have landed.            *)
LEMMA GoOnKeeps ==
  ASSUME JobsInv, NEW j \in Jobs, GoOn(j), tab[j].pc \in {"wait", "poll"},
         tab[j].op = "upload" => tab[j].index \in Landed(j) /\ request[j].at # "sent",
         request' \in [Jobs -> RequestType],
         request'[j].file = request[j].file, request'[j].at \in {request[j].at, "none"},
         \A k \in Jobs \ {j} : request'[k] = request[k],
         UNCHANGED <<task, context, temps, target>>
  PROVE  Good(j)
<1>0. TypeInv /\ PublishedIsWhole /\ JobInv(j)
  BY DEF JobsInv
<1>1. tab[j].index \in 1 .. Files /\ Files \in Nat
  BY <1>0, TabField, Limits
<1>2. /\ tab' \in [Jobs -> TabType] /\ tab'[j].op = tab[j].op
      /\ tab'[j].overwrite = tab[j].overwrite
      /\ \A k \in Jobs \ {j} : tab'[k] = tab[k]
      /\ \/ tab[j].op # "upload" /\ tab'[j].pc = "over" /\ tab'[j].index = tab[j].index
         \/ tab[j].op = "upload" /\ tab[j].index < Files /\ tab'[j].pc = "send"
              /\ tab'[j].index = tab[j].index + 1
         \/ tab[j].op = "upload" /\ tab[j].index = Files /\ tab'[j].pc = "finish"
              /\ tab'[j].index = tab[j].index
  BY <1>0, GoOnIs
<1>3. TypeInv'
  BY <1>0, <1>2 DEF TypeInv
<1>4. CASE tab[j].op # "upload"
  <2>1. Quiet(j)
    BY <1>2, <1>4 DEF Quiet
  <2>2. tab'[j].pc = "over"
    BY <1>2, <1>4
  <2>3. QED
    BY <1>3, <2>1, <2>2, QuietKeeps
<1>5. CASE tab[j].op = "upload"
  <2>1. tab[j].index <= tab'[j].index /\ tab'[j].pc \in {"send", "finish"}
    BY <1>1, <1>2, <1>5
  <2>2. /\ Landed(j) \subseteq Landed(j)'
        /\ Cardinality(Landed(j)) <= Cardinality(Landed(j)')
        /\ Streams(j)' = Streams(j)
    <3>1. tab'[j].pc = "send" => tab'[j].index = tab[j].index + 1
      BY <1>2, <1>5
    <3>2. request'[j].at # "sent"
      BY <1>5
    <3>3. QED
      BY <1>0, <1>3, <2>1, <3>1, <3>2, Calm
  <2>3. LandedInv(j)'
    <3>1. 1 .. tab[j].index - 1 \subseteq Landed(j) /\ tab[j].index \in Landed(j)
      BY <1>0, <1>5 DEF JobInv, LandedInv
    <3>2. 1 .. tab[j].index \subseteq Landed(j)'
      BY <1>1, <2>2, <3>1
    <3>3. 1 .. tab'[j].index - 1 \subseteq 1 .. tab[j].index
      BY <1>1, <1>2, <1>5
    <3>4. tab'[j].pc = "finish" => tab'[j].index = Files /\ Files \in Landed(j)'
      BY <1>1, <1>2, <1>5, <2>2, <3>1
    <3>5. request'[j].at = "ok" => request'[j].file \in Landed(j)'
      BY <1>0, <1>5, <2>2 DEF JobInv, LandedInv
    <3>6. QED
      BY <3>2, <3>3, <3>4, <3>5 DEF LandedInv
  <2>4. TabInv(j)'
    <3>1. request'[j].at # "sent"
      BY <1>5
    <3>2. tab'[j].pc = "send" => ~context[j][tab'[j].index].on
      <4>1. ASSUME tab'[j].pc = "send"
            PROVE  tab'[j].index \in File /\ tab'[j].index > tab[j].index
        BY <1>1, <1>2, <1>5, <4>1, FileIs
      <4>2. QED
        BY <1>0, <4>1 DEF JobInv, TabInv
    <3>3. \A i \in File : i > tab'[j].index => i > tab[j].index
      BY <1>1, <2>1, <1>2, <1>5, FileIs
    <3>4. \A i \in File : i > tab'[j].index => ~context[j][i].on
      BY <1>0, <3>3 DEF JobInv, TabInv
    <3>5. \A i \in File : context[j][i].replace => tab'[j].overwrite
      BY <1>0, <1>2 DEF JobInv, TabInv
    <3>6. \A i \in File : tab'[j].op # "download" /\ context'[j][i].open =>
                          context'[j][i].on /\ (context'[j][i].over => context'[j][i].failed)
      BY <1>0, <1>2 DEF JobInv, TabInv
    <3>7. context' = context /\ tab'[j].pc # "idle" /\ tab'[j].pc # "wait"
      BY <2>1
    <3>8. QED
      BY <1>2, <1>5, <2>1, <3>1, <3>2, <3>4, <3>5, <3>6, <3>7 DEF TabInv
  <2>5. DownInv(j)' /\ DoneInv(j)' /\ LiveInv(j)'
    BY <1>0, <1>2, <2>2 DEF JobInv, DownInv, DoneInv, LiveInv
  <2>6. CountInv(j)'
    BY <1>0, <1>2, <1>3, <2>2, CountFrame DEF JobInv
  <2>7. PublishedIsWhole' /\ Kept
    BY <1>0, StillWhole
  <2>8. QED
    BY <1>2, <1>3, <2>3, <2>4, <2>5, <2>6, <2>7 DEF Good, JobInv, Only, Final
<1>6. QED
  BY <1>4, <1>5

LEMMA ReceiveKeeps ==
  ASSUME JobsInv, NEW j \in Jobs, Receive(j)
  PROVE  Good(j)
<1>0. TypeInv /\ JobInv(j) /\ tab[j].pc = "wait"
  BY DEF JobsInv, Receive, TabAt
<1>1. /\ request' \in [Jobs -> RequestType] /\ request'[j].file = request[j].file
      /\ request'[j].at \in {request[j].at, "none"}
      /\ \A k \in Jobs \ {j} : request'[k] = request[k]
  <2>1. CASE request[j].at = "sent"
    BY <1>0, <2>1 DEF Receive, TypeInv
  <2>2. CASE request[j].at # "sent"
    BY <1>0, <2>2, RequestTo DEF Receive
  <2>3. QED
    BY <2>1, <2>2
<1>2. UNCHANGED <<task, context, temps, target>>
  BY DEF Receive
<1>3. CASE request[j].at = "ok" /\ GoOn(j)
  <2>1. request[j].file = tab[j].index
    BY <1>0 DEF JobInv, TabInv
  <2>2. tab[j].op = "upload" => tab[j].index \in Landed(j)
    BY <1>0, <1>3, <2>1 DEF JobInv, LandedInv
  <2>3. QED
    BY <1>0, <1>1, <1>2, <1>3, <2>2, GoOnKeeps
<1>4. CASE TabTo(j, IF tab[j].op = "upload" THEN "poll" ELSE "over") \/ GiveUp(j)
  <2>1. /\ tab' \in [Jobs -> TabType] /\ tab'[j].op = tab[j].op
        /\ tab'[j].overwrite = tab[j].overwrite /\ tab'[j].index = tab[j].index
        /\ tab'[j].pc \in {"poll", "cancel", "over"}
        /\ tab'[j].pc \in {"poll", "cancel"} => tab[j].op = "upload"
        /\ \A k \in Jobs \ {j} : tab'[k] = tab[k]
    <3>1. CASE GiveUp(j)
      BY <1>0, <3>1, GiveUpIs
    <3>2. CASE tab[j].op = "upload" /\ TabTo(j, "poll")
      BY <1>0, <3>2, TabToIs DEF Points
    <3>3. CASE tab[j].op # "upload" /\ TabTo(j, "over")
      BY <1>0, <3>3, TabToIs DEF Points
    <3>4. QED
      BY <1>4, <3>1, <3>2, <3>3
  <2>2. TypeInv'
    BY <1>0, <1>1, <1>2, <2>1 DEF TypeInv
  <2>3. Quiet(j)
    BY <1>0, <1>1, <1>2, <2>1 DEF Quiet
  <2>4. QED
    BY <1>2, <2>1, <2>2, <2>3, QuietKeeps
<1>5. QED
  BY <1>3, <1>4 DEF Receive

LEMMA PollKeeps ==
  ASSUME JobsInv, NEW j \in Jobs, Poll(j)
  PROVE  Good(j)
<1>0. TypeInv /\ JobInv(j) /\ tab[j].pc = "poll"
  BY DEF JobsInv, Poll, TabAt
<1>1. UNCHANGED <<task, request, context, temps, target>>
  BY DEF Poll
<1>2. tab[j].op = "upload" /\ request \in [Jobs -> RequestType]
  BY <1>0 DEF JobInv, TabInv, TypeInv
<1>3. CASE Arrived(j) /\ GoOn(j)
  <2>1. tab[j].index \in 1 .. Files /\ task[j].count \in Nat /\ Files \in Nat
    BY <1>0, TabField, TaskField, Limits
  <2>2. Cardinality(Landed(j)) \in 0 .. tab[j].index
    BY <1>0, CountsAreSmall
  <2>3. Cardinality(Landed(j)) >= tab[j].index
    BY <1>0, <1>2, <1>3, <2>1, <2>2 DEF Arrived, JobInv, CountInv
  <2>4. tab[j].index \in Landed(j)
    BY <1>0, <2>1, <2>3, AllLanded
  <2>5. ~Pending(j, tab[j].index)
    BY <2>4, Zenon DEF Landed
  <2>6. request[j].at # "sent"
    BY <1>0, <2>5 DEF Pending, JobInv, TabInv
  <2>7. QED
    BY <1>0, <1>1, <1>2, <1>3, <2>4, <2>6, GoOnKeeps
<1>4. CASE GiveUp(j)
  <2>1. /\ tab' \in [Jobs -> TabType] /\ tab'[j].op = tab[j].op
        /\ tab'[j].overwrite = tab[j].overwrite /\ tab'[j].index = tab[j].index
        /\ tab'[j].pc \in {"cancel", "over"}
        /\ \A k \in Jobs \ {j} : tab'[k] = tab[k]
    BY <1>0, <1>4, GiveUpIs
  <2>2. TypeInv'
    BY <1>0, <1>1, <2>1 DEF TypeInv
  <2>3. Quiet(j)
    BY <1>0, <1>1, <1>2, <2>1 DEF Quiet
  <2>4. QED
    BY <1>1, <2>1, <2>2, <2>3, QuietKeeps
<1>5. QED
  BY <1>3, <1>4 DEF Poll

-----------------------------------------------------------------------------
(* A quiet step that changes the state of the task, or its cancel.         *)
LEMMA TaskKeeps ==
  ASSUME JobsInv, TypeInv', NEW j \in Jobs, Quiet(j),
         tab[j].pc # "idle", tab'[j].pc # "idle",
         tab'[j].pc = "close" => task'[j].cancel \/ task'[j].state \notin Active,
         task'[j].count = task[j].count, task'[j].streams = task[j].streams,
         task'[j].state \in {"NONE", "FREED"} => task[j].state \in {"NONE", "FREED"},
         DownInv(j)', LiveInv(j)', DoneInv(j)', Final(j)
  PROVE  Good(j)
<1>1. TypeInv /\ JobInv(j)
  BY DEF JobsInv
<1>2. /\ TabInv(j)' /\ LandedInv(j)' /\ Only(j) /\ PublishedIsWhole'
      /\ Landed(j) \subseteq Landed(j)'
      /\ Cardinality(Landed(j)) <= Cardinality(Landed(j)')
      /\ Streams(j)' = Streams(j)
  BY <1>1, QuietTab
<1>3. tab'[j].op = tab[j].op
  BY DEF Quiet
<1>4. CountInv(j)'
  BY <1>1, <1>2, <1>3, CountFrame DEF JobInv
<1>5. QED
  BY <1>2, <1>4 DEF Good, JobInv

(* A tab that finishes has published all of its files.                     *)
LEMMA FinishHasAll ==
  ASSUME JobsInv, NEW j \in Jobs, tab[j].pc = "finish"
  PROVE  \A i \in File : i \in Landed(j) /\ target[i] = "whole"
                         /\ (context[j][i].on => context[j][i].over)
<1>1. TypeInv /\ JobInv(j)
  BY DEF JobsInv
<1>2. tab[j].op = "upload" /\ tab[j].index = Files
  BY <1>1 DEF JobInv, TabInv, LandedInv
<1>3. 1 .. Files - 1 \subseteq Landed(j) /\ Files \in Landed(j)
  BY <1>1, <1>2 DEF JobInv, LandedInv
<1>4. \A i \in File : i \in Landed(j)
  BY <1>3, FileIs, Limits
<1>5. \A i \in Landed(j) : target[i] = "whole" /\ ~Pending(j, i)
  BY Zenon DEF Landed
<1>6. QED
  BY <1>4, <1>5 DEF Pending

LEMMA ApiFinishKeeps ==
  ASSUME JobsInv, NEW j \in Jobs, ApiFinish(j)
  PROVE  Good(j)
<1>0. TypeInv /\ JobInv(j) /\ tab[j].pc \in {"finish", "close"}
  BY DEF JobsInv, ApiFinish, TabAt
<1>1. UNCHANGED <<request, context, temps, target>>
  BY DEF ApiFinish
<1>2. tab[j].op = "upload" /\ task[j] \in TaskType
  BY <1>0, TaskField DEF JobInv, TabInv
<1>3. /\ tab' \in [Jobs -> TabType] /\ tab'[j].op = tab[j].op
      /\ tab'[j].overwrite = tab[j].overwrite /\ tab'[j].index = tab[j].index
      /\ tab'[j].pc \in {"cancel", "over"}
      /\ \A k \in Jobs \ {j} : tab'[k] = tab[k]
  <2>1. CASE TabTo(j, "over")
    BY <1>0, <2>1, TabToIs DEF Points
  <2>2. CASE Refused(j)
    BY <1>0, <2>2, TabToIs DEF Points, Refused
  <2>3. QED
    BY <2>1, <2>2 DEF ApiFinish
<1>4. CASE task' = task
  <2>1. TypeInv'
    BY <1>0, <1>1, <1>3, <1>4 DEF TypeInv
  <2>2. Quiet(j)
    BY <1>0, <1>1, <1>2, <1>3, <1>4 DEF Quiet
  <2>3. QED
    BY <1>3, <1>4, <2>1, <2>2, QuietKeeps
<1>5. ASSUME NEW s \in Ended, task[j].state \in Active,
             task' = [task EXCEPT ![j] = Settled(task[j], s)],
             (s = "CANCELED" /\ task[j].cancel) \/ (s = "DONE" /\ ~task[j].cancel)
      PROVE  Good(j)
  <2>1. /\ task' \in [Jobs -> TaskType] /\ task'[j].state = s
        /\ task'[j].cancel = task[j].cancel /\ task'[j].count = task[j].count
        /\ task'[j].streams = task[j].streams
        /\ \A k \in Jobs \ {j} : task'[k] = task[k]
    <3>1. s \in States
      BY <1>5 DEF States
    <3>2. /\ Settled(task[j], s) \in TaskType
          /\ Settled(task[j], s).state = s
          /\ Settled(task[j], s).cancel = task[j].cancel
          /\ Settled(task[j], s).count = task[j].count
          /\ Settled(task[j], s).streams = task[j].streams
      BY <1>2, <1>5, <3>1, SettledIs
    <3>3. QED
      BY <1>0, <1>5, <3>2, TaskTo
  <2>2. TypeInv'
    BY <1>0, <1>1, <1>3, <2>1 DEF TypeInv
  <2>3. Quiet(j)
    BY <1>0, <1>1, <1>2, <1>3, <2>1 DEF Quiet
  <2>4. task[j].cancel \/ tab[j].pc = "finish"
    BY <1>0, <1>5 DEF JobInv, TabInv
  <2>5. LiveInv(j)'
    <3>1. CASE task[j].cancel
      BY <2>1, <3>1 DEF LiveInv
    <3>2. CASE tab[j].pc = "finish"
      <4>1. \A i \in File : context'[j][i].on => context'[j][i].over
        BY <1>1, <3>2, FinishHasAll
      <4>2. \A i \in Streams(j)' : i \in File /\ context'[j][i].on
        BY Zenon DEF Streams
      <4>3. QED
        BY <4>1, <4>2 DEF LiveInv
    <3>3. QED
      BY <2>4, <3>1, <3>2
  <2>6. DoneInv(j)'
    BY <1>1, <1>5, <2>1, <2>4, FinishHasAll DEF DoneInv
  <2>7. DownInv(j)'
    BY <1>2, <1>3 DEF DownInv
  <2>8. task'[j].state \notin {"NONE", "FREED"} /\ task'[j].state \notin Active
    BY <1>5, <2>1 DEF Ended, Active
  <2>9. Final(j)
    BY <1>5 DEF Final, Active, Ended
  <2>10. QED
    BY <1>0, <1>3, <2>1, <2>2, <2>3, <2>5, <2>6, <2>7, <2>8, <2>9, TaskKeeps
<1>6. QED
  <2>1. CASE task[j].state \in Active /\ task[j].cancel
             /\ task' = [task EXCEPT ![j] = Settled(task[j], Ending(TRUE))]
    <3>1. Ending(TRUE) = "CANCELED" /\ "CANCELED" \in Ended
      BY DEF Ending, Ended
    <3>2. QED
      BY <1>5, <2>1, <3>1
  <2>2. CASE task[j].state \in Active /\ ~task[j].cancel
             /\ task' = [task EXCEPT ![j] = Settled(task[j], "DONE")]
    BY <1>5, <2>2 DEF Ended
  <2>3. QED
    BY <1>4, <2>1, <2>2 DEF ApiFinish

(* A cancel of a task that has not ended, or has failed.                   *)
LEMMA CancelsKeep ==
  ASSUME JobsInv, NEW j \in Jobs, Cancelable(j),
         task' = [task EXCEPT ![j] = Canceled(@, tab[j].op)],
         UNCHANGED <<request, context, temps, target>>,
         tab' = tab \/ (tab[j].op = "upload" /\ TabTo(j, "close"))
  PROVE  Good(j)
<1>0. TypeInv /\ JobInv(j)
  BY DEF JobsInv
<1>1. tab[j].pc # "idle" /\ task[j] \in TaskType
  BY <1>0, TaskField DEF JobInv, TabInv, Cancelable, NoTask, Active
<1>2. /\ tab' \in [Jobs -> TabType] /\ tab'[j].op = tab[j].op
      /\ tab'[j].overwrite = tab[j].overwrite /\ tab'[j].index = tab[j].index
      /\ tab'[j].pc = tab[j].pc \/ (tab[j].op = "upload" /\ tab'[j].pc = "close")
      /\ \A k \in Jobs \ {j} : tab'[k] = tab[k]
  <2>1. CASE tab' = tab
    BY <1>0, <2>1 DEF TypeInv
  <2>2. CASE tab[j].op = "upload" /\ TabTo(j, "close")
    BY <1>0, <2>2, TabToIs DEF Points
  <2>3. QED
    BY <2>1, <2>2
<1>3. /\ task' \in [Jobs -> TaskType] /\ task'[j].cancel
      /\ task'[j].state = IF tab[j].op = "download" /\ task[j].state = "QUEUED"
                          THEN "CANCELED" ELSE task[j].state
      /\ task'[j].count = task[j].count /\ task'[j].streams = task[j].streams
      /\ \A k \in Jobs \ {j} : task'[k] = task[k]
  <2>1. task' = [task EXCEPT ![j] = Canceled(task[j], tab[j].op)]
    OBVIOUS
  <2>2. /\ Canceled(task[j], tab[j].op) \in TaskType
        /\ Canceled(task[j], tab[j].op).cancel
        /\ Canceled(task[j], tab[j].op).state =
             IF tab[j].op = "download" /\ task[j].state = "QUEUED"
               THEN "CANCELED" ELSE task[j].state
        /\ Canceled(task[j], tab[j].op).count = task[j].count
        /\ Canceled(task[j], tab[j].op).streams = task[j].streams
    BY <1>1, CanceledIs
  <2>3. QED
    BY <1>0, <2>1, <2>2, TaskTo
<1>4. TypeInv'
  BY <1>0, <1>2, <1>3 DEF TypeInv
<1>5. Quiet(j)
  BY <1>0, <1>1, <1>2, <1>3 DEF Quiet, TypeInv
<1>6. LiveInv(j)'
  BY <1>3 DEF LiveInv
<1>7. DownInv(j)' /\ DoneInv(j)'
  BY <1>0, <1>2, <1>3 DEF JobInv, DownInv, DoneInv
<1>8. Final(j)
  BY <1>3 DEF Final, Ended
<1>9. QED
  BY <1>1, <1>2, <1>3, <1>4, <1>5, <1>6, <1>7, <1>8, TaskKeeps

LEMMA CancelKeeps ==
  ASSUME JobsInv, NEW j \in Jobs, Cancel(j)
  PROVE  Good(j)
BY CancelsKeep DEF Cancel

LEMMA TabCancelKeeps ==
  ASSUME JobsInv, NEW j \in Jobs, TabCancel(j)
  PROVE  Good(j)
<1>0. TypeInv /\ JobInv(j) /\ tab[j].pc = "cancel"
  BY DEF JobsInv, TabCancel, TabAt
<1>1. tab[j].op = "upload"
  BY <1>0 DEF JobInv, TabInv
<1>2. UNCHANGED <<request, context, temps, target>>
  BY DEF TabCancel
<1>3. CASE TabTo(j, "over") /\ UNCHANGED task
  <2>1. /\ tab' \in [Jobs -> TabType] /\ tab'[j].op = tab[j].op
        /\ tab'[j].overwrite = tab[j].overwrite /\ tab'[j].index = tab[j].index
        /\ tab'[j].pc = "over" /\ \A k \in Jobs \ {j} : tab'[k] = tab[k]
    BY <1>0, <1>3, TabToIs DEF Points
  <2>2. TypeInv'
    BY <1>0, <1>2, <1>3, <2>1 DEF TypeInv
  <2>3. Quiet(j)
    BY <1>0, <1>2, <1>3, <2>1 DEF Quiet
  <2>4. QED
    BY <1>3, <2>1, <2>2, <2>3, QuietKeeps
<1>4. CASE /\ Cancelable(j) /\ TabTo(j, "close")
           /\ task' = [task EXCEPT ![j] = Canceled(@, tab[j].op)]
  BY <1>1, <1>2, <1>4, CancelsKeep
<1>5. QED
  BY <1>3, <1>4 DEF TabCancel

LEMMA ForgetKeeps ==
  ASSUME JobsInv, NEW j \in Jobs, Forget(j)
  PROVE  Good(j)
<1>0. TypeInv /\ JobInv(j) /\ task[j].state \in Ended /\ task[j].streams = 0
  BY DEF JobsInv, Forget, Forgettable
<1>1. UNCHANGED <<tab, request, context, temps, target>>
  BY DEF Forget
<1>2. tab[j].pc # "idle"
  BY <1>0 DEF JobInv, TabInv, NoTask, Ended
<1>3. /\ task' \in [Jobs -> TaskType] /\ task'[j].state = "FREED" /\ ~task'[j].cancel
      /\ task'[j].count = 0 /\ task'[j].streams = 0
      /\ \A k \in Jobs \ {j} : task'[k] = task[k]
  <2>1. [NoTask EXCEPT !.state = "FREED"] \in TaskType
    BY DEF NoTask, TaskType, States
  <2>2. QED
    BY <1>0, <2>1, TaskTo DEF Forget, NoTask
<1>4. TypeInv'
  BY <1>0, <1>1, <1>3 DEF TypeInv
<1>5. Quiet(j)
  BY <1>0, <1>1, <1>3 DEF Quiet, TypeInv
<1>6. /\ TabInv(j)' /\ LandedInv(j)' /\ Only(j) /\ PublishedIsWhole'
      /\ Streams(j)' = Streams(j)
  BY <1>1, <1>2, <1>3, <1>4, <1>5, QuietTab DEF Active
<1>7. LiveInv(j)' /\ DoneInv(j)'
  BY <1>3 DEF LiveInv, DoneInv, Ended
<1>8. DownInv(j)'
  BY <1>0, <1>1, <1>3 DEF JobInv, DownInv, Ended
<1>9. CountInv(j)'
  <2>1. ASSUME tab[j].op # "download"
        PROVE  Streams(j) = {}
    <3>1. Cardinality(Streams(j)) = 0 /\ IsFiniteSet(Streams(j))
      BY <1>0, <2>1, CountsAreSmall DEF JobInv, CountInv
    <3>2. QED
      BY <3>1, FS_EmptySet
  <2>2. Cardinality(Landed(j)') \in Nat
    BY <1>0, <1>4, LandedCounts
  <2>3. Cardinality({}) = 0
    BY FS_EmptySet
  <2>4. QED
    BY <1>1, <1>3, <1>6, <2>1, <2>2, <2>3 DEF CountInv
<1>10. QED
  BY <1>3, <1>4, <1>6, <1>7, <1>8, <1>9 DEF Good, JobInv, Final

-----------------------------------------------------------------------------
(* The steps of the server: what a change of one context does to the sets. *)
OneContext(j, i) == /\ \A n \in File \ {i} : context'[j][n] = context[j][n]
                    /\ tab' = tab

LEMMA ServerLanded ==
  ASSUME TypeInv, TypeInv', NEW j \in Jobs, NEW i \in File, OneContext(j, i), Kept,
         request'[j].file = request[j].file,
         request'[j].at = "sent" => request[j].at = "sent",
         i \notin Landed(j) \/ ~(context'[j][i].on /\ ~context'[j][i].over)
  PROVE  /\ Landed(j) \subseteq Landed(j)'
         /\ Cardinality(Landed(j)) <= Cardinality(Landed(j)')
<1>1. tab[j].index \in 1 .. Files /\ tab'[j].index = tab[j].index
  BY TabField DEF OneContext
<1>2. \A n \in Landed(j) : n \in File
  BY <1>1, CountsAreSmall, FileIs, Limits
<1>3. \A n \in Landed(j) : Pending(j, n)' => Pending(j, n)
  BY <1>2 DEF Pending, OneContext
<1>4. QED
  BY <1>1, <1>3, LandedGrows

LEMMA SameServed ==
  ASSUME TypeInv, TypeInv', NEW j \in Jobs, NEW i \in File, OneContext(j, i),
         context'[j][i].on /\ context'[j][i].task <=> context[j][i].on /\ context[j][i].task
  PROVE  Streams(j)' = Streams(j)
<1>1. \A n \in File : (context'[j][n].on /\ context'[j][n].task)
                        <=> (context[j][n].on /\ context[j][n].task)
  BY DEF OneContext
<1>2. QED
  BY <1>1 DEF Streams

LEMMA StreamAdded ==
  ASSUME TypeInv, NEW j \in Jobs, NEW i \in File, OneContext(j, i),
         ~context[j][i].on, context'[j][i].on /\ context'[j][i].task
  PROVE  /\ Streams(j)' = Streams(j) \union {i}
         /\ Cardinality(Streams(j)') = Cardinality(Streams(j)) + 1
<1>1. Streams(j)' = Streams(j) \union {i} /\ i \notin Streams(j)
  BY DEF Streams, OneContext
<1>2. IsFiniteSet(Streams(j))
  BY CountsAreSmall
<1>3. QED
  BY <1>1, <1>2, FS_AddElement

LEMMA StreamRemoved ==
  ASSUME TypeInv, NEW j \in Jobs, NEW i \in File, OneContext(j, i),
         context[j][i].on /\ context[j][i].task, ~context'[j][i].on
  PROVE  /\ Streams(j)' = Streams(j) \ {i}
         /\ Cardinality(Streams(j)') = Cardinality(Streams(j)) - 1
<1>1. Streams(j)' = Streams(j) \ {i} /\ i \in Streams(j)
  BY DEF Streams, OneContext
<1>2. IsFiniteSet(Streams(j))
  BY CountsAreSmall
<1>3. QED
  BY <1>1, <1>2, FS_RemoveElement

(* Uploads: connections of other files than the last asked for are over.   *)
LEMMA OthersOver ==
  ASSUME JobsInv, NEW j \in Jobs, tab[j].op # "download", NEW n \in File, context[j][n].on
  PROVE  n <= tab[j].index /\ (n # tab[j].index => context[j][n].over)
<1>1. TypeInv /\ JobInv(j)
  BY DEF JobsInv
<1>2. tab[j].index \in 1 .. Files /\ n \in 1 .. Files
  BY <1>1, TabField, FileIs
<1>3. n <= tab[j].index
  BY <1>1, <1>2, Limits DEF JobInv, TabInv
<1>4. ASSUME n # tab[j].index
      PROVE  context[j][n].over
  <2>1. n \in 1 .. tab[j].index - 1
    BY <1>2, <1>3, <1>4, Limits
  <2>2. n \in Landed(j)
    BY <1>1, <2>1 DEF JobInv, LandedInv
  <2>3. ~Pending(j, n)
    BY <2>2, Zenon DEF Landed
  <2>4. QED
    BY <2>3 DEF Pending
<1>5. QED
  BY <1>3, <1>4

(* A connection that works has a task that may run.                        *)
LEMMA WorksForRunning ==
  ASSUME JobsInv, NEW j \in Jobs, tab[j].op # "download", NEW i \in File,
         context[j][i].on, context[j][i].task, ~context[j][i].over, ~context[j][i].failed,
         ~task[j].cancel
  PROVE  task[j].state \in Active
<1>1. TypeInv /\ JobInv(j) /\ i \in Streams(j)
  BY DEF JobsInv, Streams
<1>2. task[j].state \in States
  BY <1>1, TaskField
<1>3. task[j].state \notin {"NONE", "FREED"}
  BY <1>1 DEF JobInv, CountInv
<1>4. task[j].state \notin Ended
  BY <1>1 DEF JobInv, LiveInv
<1>5. QED
  BY <1>2, <1>3, <1>4 DEF States

LEMMA PrepareKeeps ==
  ASSUME JobsInv, NEW j \in Jobs, Prepare(j)
  PROVE  Good(j)
<1>0. TypeInv /\ JobInv(j) /\ PublishedIsWhole /\ tab[j].pc = "idle"
  BY DEF JobsInv, Prepare, TabAt
<1>1. UNCHANGED <<request, context, temps, target>>
  BY DEF Prepare
<1>2. /\ task[j] = NoTask /\ request[j].at = "none" /\ tab[j].index = 1
      /\ \A i \in File : context[j][i] = NoContext
  BY <1>0 DEF JobInv, TabInv
<1>3. PICK op \in Offer[j], overwrite \in BOOLEAN :
        /\ tab' = [tab EXCEPT ![j] = [NoTab EXCEPT !.pc = "send", !.op = op,
                                                   !.overwrite = overwrite]]
        /\ \/ op = "bare" /\ UNCHANGED task
           \/ op # "bare" /\ ~Busy
                /\ task' = [task EXCEPT ![j].state =
                              IF op = "upload" THEN "RUNNING" ELSE "QUEUED"]
  BY Zenon DEF Prepare
<1>4. op \in {"upload", "bare", "download"} /\ 1 \in File
  BY BrowserTransferAssumption, FileIs, Limits
<1>5. /\ tab' \in [Jobs -> TabType] /\ tab'[j].pc = "send" /\ tab'[j].op = op
      /\ tab'[j].index = 1 /\ \A k \in Jobs \ {j} : tab'[k] = tab[k]
  <2>1. [NoTab EXCEPT !.pc = "send", !.op = op, !.overwrite = overwrite] \in TabType
    BY <1>4 DEF NoTab, TabType, Points
  <2>2. tab \in [Jobs -> TabType]
    BY <1>0 DEF TypeInv
  <2>3. QED
    BY <1>3, <2>1, <2>2 DEF NoTab
<1>6. /\ task' \in [Jobs -> TaskType]
      /\ task'[j].state \in {"NONE", "RUNNING", "QUEUED"}
      /\ task'[j].count = 0 /\ task'[j].streams = 0
      /\ \A k \in Jobs \ {j} : task'[k] = task[k]
  <2>1. task \in [Jobs -> TaskType]
    BY <1>0 DEF TypeInv
  <2>2. task[j].state = "NONE" /\ task[j].count = 0 /\ task[j].streams = 0
    BY <1>2 DEF NoTask
  <2>3. ASSUME NEW s \in {"RUNNING", "QUEUED"}, task' = [task EXCEPT ![j].state = s]
        PROVE  /\ task' \in [Jobs -> TaskType] /\ task'[j].state = s
               /\ task'[j].count = 0 /\ task'[j].streams = 0
               /\ \A k \in Jobs \ {j} : task'[k] = task[k]
    BY <2>1, <2>2, <2>3 DEF TaskType, States, Active
  <2>4. CASE op = "bare" /\ UNCHANGED task
    BY <2>1, <2>2, <2>4
  <2>5. QED
    BY <1>3, <2>3, <2>4
<1>7. TypeInv'
  BY <1>0, <1>1, <1>5, <1>6 DEF TypeInv
<1>8. \A i \in File : /\ ~context'[j][i].on /\ ~context'[j][i].replace
                      /\ ~context'[j][i].open
  BY <1>1, <1>2 DEF NoContext
<1>9. Streams(j)' = {} /\ Cardinality({}) = 0
  BY <1>8, FS_EmptySet DEF Streams
<1>10. Cardinality(Landed(j)') \in Nat
  BY <1>0, <1>7, LandedCounts
<1>11. TabInv(j)'
  BY <1>1, <1>2, <1>4, <1>5, <1>8 DEF TabInv
<1>12. DownInv(j)'
  BY <1>6, <1>8 DEF DownInv
<1>13. CountInv(j)'
  BY <1>6, <1>9, <1>10 DEF CountInv
<1>14. LandedInv(j)'
  BY <1>1, <1>2, <1>5 DEF LandedInv
<1>15. LiveInv(j)' /\ DoneInv(j)'
  BY <1>6 DEF LiveInv, DoneInv, Ended
<1>16. PublishedIsWhole' /\ Kept
  BY <1>0, <1>1, StillWhole
<1>17. Final(j)
  BY <1>2 DEF Final, NoTask, Ended
<1>18. QED
  BY <1>17, <1>1, <1>5, <1>6, <1>7, <1>11, <1>12, <1>13, <1>14, <1>15, <1>16
     DEF Good, JobInv, Only

(* What a request finds when it begins.                                    *)
LEMMA CountedIs ==
  ASSUME TypeInv, NEW j \in Jobs
  PROVE  /\ Counted(j) \in TaskType
         /\ Counted(j).state = task[j].state /\ Counted(j).cancel = task[j].cancel
         /\ Counted(j).count = task[j].count
         /\ Counted(j).streams = IF Known(j) THEN task[j].streams + 1 ELSE task[j].streams
<1>1. task[j] \in TaskType
  BY TaskField
<1>2. CASE Known(j)
  BY <1>1, <1>2 DEF Counted, TaskType
<1>3. CASE ~Known(j)
  BY <1>1, <1>3 DEF Counted
<1>4. QED
  BY <1>2, <1>3

LEMMA BeginIs ==
  ASSUME TypeInv, NEW j \in Jobs, Begin(j)
  PROVE  /\ task' \in [Jobs -> TaskType] /\ context' \in [Jobs -> [File -> ContextType]]
         /\ request' \in [Jobs -> RequestType] /\ temps' \subseteq Jobs \X File
         /\ tab' = tab /\ target' = target
         /\ request'[j].at = "open" /\ request'[j].file = request[j].file
         /\ \A k \in Jobs \ {j} : /\ task'[k] = task[k] /\ request'[k] = request[k]
                                  /\ context'[k] = context[k]
         /\ OneContext(j, request[j].file)
         /\ context'[j][request[j].file].on
         /\ context'[j][request[j].file].task <=> Known(j)
         /\ ~context'[j][request[j].file].over
         /\ context'[j][request[j].file].replace => tab[j].overwrite
         /\ task'[j].cancel = task[j].cancel /\ task'[j].count = task[j].count
         /\ task'[j].streams = IF Known(j) THEN task[j].streams + 1 ELSE task[j].streams
         /\ \/ task'[j].state = task[j].state
            \/ Known(j) /\ context'[j][request[j].file].failed
                 /\ task'[j].state \in Ended \ {"DONE"}
<1> DEFINE i == request[j].file
           new == [NoContext EXCEPT !.on = TRUE, !.task = Known(j)]
<1>1. i \in File /\ Known(j) \in BOOLEAN /\ task[j].cancel \in BOOLEAN
  BY RequestField, TaskField, Zenon DEF Known
<1>2. /\ new \in ContextType /\ new.on /\ (new.task <=> Known(j)) /\ ~new.over
      /\ ~new.failed /\ ~new.replace
  BY <1>1, NoContextIs DEF ContextType
<1>3. /\ request' \in [Jobs -> RequestType] /\ request'[j].at = "open"
      /\ request'[j].file = i /\ \A k \in Jobs \ {j} : request'[k] = request[k]
  BY RequestTo DEF Begin
<1>4. tab' = tab /\ target' = target
  BY DEF Begin
<1>5. CASE /\ Put(j, i, Failed(new))
           /\ task' = [task EXCEPT ![j] =
                         Reported(Counted(j), new, Known(j) /\ task[j].cancel)]
           /\ UNCHANGED temps
  <2> DEFINE t == Reported(Counted(j), new, Known(j) /\ task[j].cancel)
  <2>1. /\ Failed(new) \in ContextType /\ Failed(new).on /\ (Failed(new).task <=> Known(j))
        /\ Failed(new).failed /\ ~Failed(new).over /\ ~Failed(new).replace
    BY <1>2 DEF Failed, ContextType
  <2>2. (Known(j) /\ task[j].cancel) \in BOOLEAN
    BY <1>1
  <2>3. /\ t \in TaskType /\ t.cancel = task[j].cancel /\ t.count = task[j].count
        /\ t.streams = IF Known(j) THEN task[j].streams + 1 ELSE task[j].streams
        /\ t.state = IF new.task /\ ~new.failed /\ task[j].state \in Active
                     THEN Ending(Known(j) /\ task[j].cancel) ELSE task[j].state
    <3>1. /\ Counted(j) \in TaskType /\ Counted(j).state = task[j].state
          /\ Counted(j).cancel = task[j].cancel /\ Counted(j).count = task[j].count
          /\ Counted(j).streams = IF Known(j) THEN task[j].streams + 1 ELSE task[j].streams
      BY CountedIs
    <3> HIDE DEF new
    <3>2. /\ t \in TaskType /\ t.cancel = Counted(j).cancel /\ t.count = Counted(j).count
          /\ t.streams = Counted(j).streams
          /\ t.state = IF new.task /\ ~new.failed /\ Counted(j).state \in Active
                       THEN Ending(Known(j) /\ task[j].cancel) ELSE Counted(j).state
      BY <1>2, <2>2, <3>1, ReportedIs
    <3> HIDE DEF t
    <3>3. QED
      BY <3>1, <3>2
  <2>4. t.state = task[j].state \/ (Known(j) /\ t.state \in Ended \ {"DONE"})
    <3>1. Ending(Known(j) /\ task[j].cancel) \in Ended \ {"DONE"}
      BY <2>2, EndingIs
    <3> HIDE DEF new, t
    <3>2. QED
      BY <1>2, <2>3, <3>1
  <2> HIDE DEF new, t, i
  <2>5. /\ context' \in [Jobs -> [File -> ContextType]] /\ context'[j][i] = Failed(new)
        /\ \A n \in File \ {i} : context'[j][n] = context[j][n]
        /\ \A k \in Jobs \ {j} : context'[k] = context[k]
    BY <1>1, <1>5, <2>1, PutIs
  <2>6. /\ task' \in [Jobs -> TaskType] /\ task'[j] = t
        /\ \A k \in Jobs \ {j} : task'[k] = task[k]
    BY <1>5, <2>3, TaskTo DEF t
  <2>7. temps' \subseteq Jobs \X File
    BY <1>5 DEF TypeInv
  <2>8. OneContext(j, i)
    BY <1>4, <2>5 DEF OneContext
  <2>9. QED
    BY <1>3, <1>4, <2>1, <2>3, <2>4, <2>5, <2>6, <2>7, <2>8 DEF i
<1>6. CASE /\ Admitted(j)
           /\ Put(j, i, [new EXCEPT !.open = TRUE, !.replace = There(j)])
           /\ task' = [task EXCEPT ![j] = Counted(j)]
           /\ temps' = temps \union {<<j, i>>}
  <2> DEFINE c == [new EXCEPT !.open = TRUE, !.replace = There(j)]
  <2>1. /\ c \in ContextType /\ c.on /\ (c.task <=> Known(j)) /\ ~c.over
        /\ c.replace => tab[j].overwrite
    <3>1. There(j) \in BOOLEAN /\ (There(j) => tab[j].overwrite)
      BY <1>6 DEF Admitted, There
    <3> HIDE DEF new
    <3>2. QED
      BY <1>2, <3>1 DEF ContextType
  <2> HIDE DEF new, c, i
  <2>2. /\ context' \in [Jobs -> [File -> ContextType]] /\ context'[j][i] = c
        /\ \A n \in File \ {i} : context'[j][n] = context[j][n]
        /\ \A k \in Jobs \ {j} : context'[k] = context[k]
    BY <1>1, <1>6, <2>1, PutIs DEF c
  <2>3. /\ task' \in [Jobs -> TaskType] /\ task'[j] = Counted(j)
        /\ \A k \in Jobs \ {j} : task'[k] = task[k]
    BY <1>6, CountedIs, TaskTo
  <2>4. temps' \subseteq Jobs \X File
    BY <1>1, <1>6 DEF TypeInv
  <2>5. OneContext(j, i)
    BY <1>4, <2>2 DEF OneContext
  <2>6. QED
    BY <1>3, <1>4, <2>1, <2>2, <2>3, <2>4, <2>5, CountedIs DEF i
<1>7. QED
  BY <1>5, <1>6 DEF Begin

LEMMA BeginKeeps ==
  ASSUME JobsInv, NEW j \in Jobs, Begin(j)
  PROVE  Good(j)
<1> DEFINE i == request[j].file
<1>0. /\ TypeInv /\ JobInv(j) /\ PublishedIsWhole
      /\ request[j].at = "sent" /\ tab[j].op # "download"
  BY DEF JobsInv, Begin
<1>1. /\ i \in File /\ i = tab[j].index /\ ~context[j][i].on /\ tab[j].pc # "idle"
      /\ tab[j].pc # "send"
  BY <1>0, RequestField DEF JobInv, TabInv
<1>2. /\ task' \in [Jobs -> TaskType] /\ context' \in [Jobs -> [File -> ContextType]]
      /\ request' \in [Jobs -> RequestType] /\ temps' \subseteq Jobs \X File
      /\ tab' = tab /\ target' = target
      /\ request'[j].at = "open" /\ request'[j].file = i
      /\ \A k \in Jobs \ {j} : /\ task'[k] = task[k] /\ request'[k] = request[k]
                               /\ context'[k] = context[k]
      /\ OneContext(j, i)
      /\ context'[j][i].on /\ ~context'[j][i].over
      /\ context'[j][i].task <=> Known(j)
      /\ context'[j][i].replace => tab[j].overwrite
      /\ task'[j].cancel = task[j].cancel /\ task'[j].count = task[j].count
      /\ task'[j].streams = IF Known(j) THEN task[j].streams + 1 ELSE task[j].streams
      /\ \/ task'[j].state = task[j].state
         \/ Known(j) /\ context'[j][i].failed /\ task'[j].state \in Ended \ {"DONE"}
  BY <1>0, BeginIs
<1> HIDE DEF i
<1>3. TypeInv'
  BY <1>0, <1>2 DEF TypeInv
<1>4. PublishedIsWhole' /\ Kept
  BY <1>0, <1>2, StillWhole
<1>5. i \notin Landed(j)
  <2>1. Pending(j, i)
    BY <1>0 DEF Pending, i
  <2>2. QED
    BY <2>1, Zenon DEF Landed
<1>6. /\ Landed(j) \subseteq Landed(j)'
      /\ Cardinality(Landed(j)) <= Cardinality(Landed(j)')
  <2>1. request'[j].file = request[j].file
    BY <1>2 DEF i
  <2>2. QED
    BY <1>0, <1>1, <1>2, <1>3, <1>4, <1>5, <2>1, ServerLanded
<1>7. TabInv(j)'
  <2>1. \A n \in File : n > tab[j].index => n # i
    BY <1>1, FileIs, Limits
  <2>2. \A n \in File \ {i} : context'[j][n] = context[j][n]
    BY <1>2 DEF OneContext
  <2>3. tab[j].pc = "wait" => i = tab[j].index
    BY <1>1
  <2>4. \A n \in File : /\ n > tab[j].index => ~context'[j][n].on
                        /\ context'[j][n].replace => tab[j].overwrite
                        /\ tab[j].op # "download" /\ context'[j][n].open =>
                             context'[j][n].on /\ (context'[j][n].over => context'[j][n].failed)
    BY <1>0, <1>2, <2>1, <2>2 DEF JobInv, TabInv
  <2>5. tab[j].pc \in {"poll", "finish", "cancel", "close"} => tab[j].op = "upload"
    BY <1>0 DEF JobInv, TabInv
  <2>6. tab[j].pc = "close" => task'[j].cancel \/ task'[j].state \notin Active
    <3>1. \A s \in Ended : s \notin Active
      BY DEF Ended, Active
    <3>2. QED
      BY <1>0, <1>2, <3>1 DEF JobInv, TabInv
  <2>7. QED
    BY <1>1, <1>2, <2>3, <2>4, <2>5, <2>6 DEF TabInv
<1>8. DownInv(j)'
  BY <1>0, <1>2 DEF DownInv
<1>9. Final(j)
  <2>1. Known(j) => task[j].state \notin Ended
    BY DEF Known, Active, Ended
  <2>2. QED
    BY <1>2, <2>1 DEF Final
<1>10. CASE Known(j)
  <2>1. Streams(j)' = Streams(j) \union {i} /\ Cardinality(Streams(j)') = Cardinality(Streams(j)) + 1
    BY <1>0, <1>1, <1>2, <1>10, StreamAdded
  <2>2. CountInv(j)'
    <3>1. task'[j].state \notin {"NONE", "FREED"}
      BY <1>2, <1>10 DEF Known, Active, Ended
    <3>2. task'[j].streams = Cardinality(Streams(j)')
      BY <1>0, <1>2, <1>10, <2>1 DEF JobInv, CountInv
    <3>3. task[j].count \in Nat /\ task[j].count <= Cardinality(Landed(j))
      BY <1>0, TaskField DEF JobInv, CountInv
    <3>4. Cardinality(Landed(j)) \in Nat /\ Cardinality(Landed(j)') \in Nat
      BY <1>0, <1>3, LandedCounts
    <3>5. QED
      BY <1>2, <1>6, <3>1, <3>2, <3>3, <3>4 DEF CountInv
  <2>3. LiveInv(j)'
    <3>1. CASE task'[j].state = task[j].state
      BY <1>10, <3>1 DEF LiveInv, Known, Active, Ended
    <3>2. CASE context'[j][i].failed
      <4>1. ASSUME NEW n \in Streams(j)', n # i
            PROVE  context'[j][n].over
        <5>1. n \in File /\ context'[j][n] = context[j][n] /\ context'[j][n].on
          BY <1>2, <4>1 DEF Streams, OneContext
        <5>2. QED
          BY <1>0, <1>1, <4>1, <5>1, OthersOver
      <4>2. QED
        BY <3>2, <4>1 DEF LiveInv
    <3>3. QED
      BY <1>2, <3>1, <3>2
  <2>4. DoneInv(j)'
    BY <1>0, <1>2, <1>10 DEF JobInv, DoneInv
  <2>5. LandedInv(j)'
    BY <1>0, <1>2, <1>6, LandedFrame DEF JobInv
  <2>6. QED
    BY <1>2, <1>3, <1>4, <1>7, <1>8, <1>9, <2>2, <2>3, <2>4, <2>5 DEF Good, JobInv, Only
<1>11. CASE ~Known(j)
  <2>1. Streams(j)' = Streams(j)
    BY <1>0, <1>1, <1>2, <1>3, <1>11, SameServed
  <2>2. CountInv(j)'
    BY <1>0, <1>2, <1>3, <1>6, <1>11, <2>1, CountFrame DEF JobInv
  <2>3. LiveInv(j)'
    <3>1. i \notin Streams(j)
      BY <1>1 DEF Streams
    <3>2. \A n \in Streams(j) : context'[j][n] = context[j][n]
      BY <1>2, <3>1 DEF Streams, OneContext
    <3>3. QED
      BY <1>0, <1>2, <1>11, <2>1, <3>2 DEF JobInv, LiveInv
  <2>4. DoneInv(j)'
    BY <1>0, <1>2, <1>11 DEF JobInv, DoneInv
  <2>5. LandedInv(j)'
    BY <1>0, <1>2, <1>6, LandedFrame DEF JobInv
  <2>6. QED
    BY <1>2, <1>3, <1>4, <1>7, <1>8, <1>9, <2>2, <2>3, <2>4, <2>5 DEF Good, JobInv, Only
<1>12. QED
  BY <1>10, <1>11

(* A step of a connection that stays open and publishes nothing.           *)
Served(j, i) ==
  /\ OneContext(j, i) /\ target' = target
  /\ context'[j][i].on = context[j][i].on /\ context'[j][i].task = context[j][i].task
  /\ context'[j][i].replace = context[j][i].replace
  /\ context'[j][i].open => context[j][i].open
  /\ context[j][i].over => context'[j][i].over
  /\ context[j][i].failed => context'[j][i].failed
  /\ context'[j][i].over => context[j][i].over \/ context'[j][i].failed
  /\ request'[j].file = request[j].file /\ request'[j].at \in {request[j].at, "none"}
  /\ \A k \in Jobs \ {j} : /\ task'[k] = task[k] /\ request'[k] = request[k]
                           /\ context'[k] = context[k]
  /\ task'[j].cancel = task[j].cancel /\ task'[j].count = task[j].count
  /\ task'[j].streams = task[j].streams
  /\ \/ task'[j].state = task[j].state
     \/ /\ context[j][i].on /\ ~context[j][i].over /\ context[j][i].task
        /\ \/ task'[j].state = "RUNNING" /\ ~context[j][i].failed /\ ~task[j].cancel
           \/ /\ task[j].state \in Active /\ task'[j].state \in Ended \ {"DONE"}
              /\ context'[j][i].failed

LEMMA ServedKeeps ==
  ASSUME JobsInv, TypeInv', NEW j \in Jobs, NEW i \in File, Served(j, i),
         tab[j].op # "download", tab[j].pc = "idle" => task' = task /\ context' = context
  PROVE  Good(j)
<1>0. TypeInv /\ JobInv(j) /\ PublishedIsWhole
  BY DEF JobsInv
<1>1. tab' = tab /\ target' = target /\ OneContext(j, i)
  BY DEF Served, OneContext
<1>2. PublishedIsWhole' /\ Kept
  BY <1>0, <1>1, StillWhole
<1>3. /\ Landed(j) \subseteq Landed(j)'
      /\ Cardinality(Landed(j)) <= Cardinality(Landed(j)')
  <2>1. ASSUME i \in Landed(j)
        PROVE  ~(context'[j][i].on /\ ~context'[j][i].over)
    <3>1. ~Pending(j, i)
      BY <2>1, Zenon DEF Landed
    <3>2. QED
      BY <3>1 DEF Pending, Served
  <2>2. /\ request'[j].file = request[j].file
        /\ request'[j].at = "sent" => request[j].at = "sent"
    BY DEF Served
  <2>3. QED
    BY <1>0, <1>1, <1>2, <2>1, <2>2, ServerLanded
<1>4. Streams(j)' = Streams(j)
  <2>1. context'[j][i].on = context[j][i].on /\ context'[j][i].task = context[j][i].task
    BY DEF Served
  <2>2. QED
    BY <1>0, <1>1, <2>1, SameServed
<1>5. TabInv(j)'
  <2>1. \A n \in File \ {i} : context'[j][n] = context[j][n]
    BY <1>1 DEF OneContext
  <2>2. \A n \in File : /\ n > tab[j].index => ~context'[j][n].on
                        /\ context'[j][n].replace => tab[j].overwrite
                        /\ tab[j].op # "download" /\ context'[j][n].open =>
                             context'[j][n].on /\ (context'[j][n].over => context'[j][n].failed)
    BY <1>0, <2>1 DEF JobInv, TabInv, Served
  <2>3. tab[j].pc = "close" => task'[j].cancel \/ task'[j].state \notin Active
    <3>1. ASSUME task'[j].state = "RUNNING", context[j][i].on, ~context[j][i].over,
                 context[j][i].task, ~context[j][i].failed, ~task[j].cancel
          PROVE  task[j].state \in Active
      BY <3>1, WorksForRunning
    <3>2. \A s \in Ended : s \notin Active
      BY DEF Ended, Active
    <3>3. QED
      BY <1>0, <3>1, <3>2 DEF JobInv, TabInv, Served
  <2>4. \A n \in File : context'[j][n].on = context[j][n].on
    BY <2>1 DEF Served
  <2>5. request'[j].at = "sent" => ~context'[j][request'[j].file].on
    BY <1>0, <2>4, RequestField DEF JobInv, TabInv, Served
  <2>6. tab[j].pc = "send" => request'[j].at # "sent" /\ ~context'[j][tab[j].index].on
    BY <1>0, <2>4, TabField, FileIs DEF JobInv, TabInv, Served
  <2>7. tab[j].pc = "wait" \/ request'[j].at = "sent" => request'[j].file = tab[j].index
    BY <1>0 DEF JobInv, TabInv, Served
  <2>8. tab[j].pc \in {"poll", "finish", "cancel", "close"} => tab[j].op = "upload"
    BY <1>0 DEF JobInv, TabInv
  <2>9. tab[j].pc = "idle" =>
          /\ task'[j] = NoTask /\ request'[j].at = "none" /\ tab[j].index = 1
          /\ \A n \in File : context'[j][n] = NoContext
    BY <1>0 DEF JobInv, TabInv, Served
  <2>10. QED
    BY <1>1, <2>2, <2>3, <2>5, <2>6, <2>7, <2>8, <2>9 DEF TabInv
<1>6. CountInv(j)'
  <2>1. task'[j].state \in {"NONE", "FREED"} => task[j].state \in {"NONE", "FREED"}
    BY DEF Served, Ended
  <2>2. task'[j].streams = task[j].streams /\ task'[j].count = task[j].count
    BY DEF Served
  <2>3. QED
    BY <1>0, <1>1, <1>3, <1>4, <2>1, <2>2, CountFrame DEF JobInv
<1>7. LandedInv(j)'
  <2>1. request'[j].at = "ok" => request[j].at = "ok" /\ request'[j].file = request[j].file
    BY DEF Served
  <2>2. QED
    BY <1>0, <1>1, <1>3, <2>1 DEF JobInv, LandedInv
<1>8. LiveInv(j)'
  <2>1. \A n \in File : /\ context[j][n].over => context'[j][n].over
                        /\ context[j][n].failed => context'[j][n].failed
    BY <1>1 DEF Served, OneContext
  <2>2. \A n \in Streams(j) : n \in File
    BY Zenon DEF Streams
  <2>3. CASE task'[j].state = task[j].state
    BY <1>0, <1>4, <2>1, <2>2, <2>3 DEF JobInv, LiveInv, Served
  <2>4. CASE task'[j].state = "RUNNING"
    BY <2>4 DEF LiveInv, Ended
  <2>5. CASE context[j][i].on /\ ~context[j][i].over /\ context'[j][i].failed
    <3>1. i = tab[j].index
      BY <2>5, OthersOver
    <3>2. \A n \in Streams(j) : n # i => context[j][n].over
      BY <3>1, OthersOver DEF Streams
    <3>3. QED
      BY <1>4, <2>1, <2>2, <2>5, <3>2 DEF LiveInv
  <2>6. QED
    BY <2>3, <2>4, <2>5 DEF Served
<1>9. DoneInv(j)'
  BY <1>0, <1>1 DEF JobInv, DoneInv, Served
<1>10. DownInv(j)'
  BY <1>1 DEF DownInv
<1>11. Only(j)
  BY <1>1, <1>2 DEF Only, Served
<1>12. Final(j)
  <2>1. \A s \in Ended : s \notin Active
    BY DEF Ended, Active
  <2>2. QED
    BY <2>1, WorksForRunning DEF Served, Final
<1>13. QED
  BY <1>12, <1>2, <1>5, <1>6, <1>7, <1>8, <1>9, <1>10, <1>11 DEF Good, JobInv

(* A context that fails.                                                   *)
LEMMA FailedIs ==
  ASSUME NEW c \in ContextType
  PROVE  /\ Failed(c) \in ContextType /\ Failed(c).failed
         /\ Failed(c).on = c.on /\ Failed(c).task = c.task /\ Failed(c).open = c.open
         /\ Failed(c).replace = c.replace /\ Failed(c).over = c.over
         /\ Failed(c).look = c.look
BY DEF Failed, ContextType

LEMMA DataKeeps ==
  ASSUME JobsInv, NEW j \in Jobs, NEW i \in File, Data(j, i)
  PROVE  Good(j)
<1> DEFINE c == context[j][i]
           more == [c EXCEPT !.got = @ + 1, !.held = @ + 1]
<1>0. /\ TypeInv /\ JobInv(j) /\ tab[j].op # "download"
      /\ c.open /\ ~c.failed /\ c.got < Size
  BY DEF JobsInv, Data
<1>1. c \in ContextType /\ c.on /\ ~c.over /\ task[j] \in TaskType
  BY <1>0, ContextField, TaskField DEF JobInv, TabInv
<1>2. tab[j].pc # "idle"
  BY <1>1 DEF JobInv, TabInv, NoContext, JobsInv
<1>3. UNCHANGED <<tab, request, temps, target>>
  BY DEF Data
<1>4. ASSUME NEW d \in ContextType, Put(j, i, d), NEW t \in TaskType,
             task' = [task EXCEPT ![j] = t],
             d.on, d.task = c.task, d.open = c.open, d.replace = c.replace, ~d.over,
             t.cancel = task[j].cancel, t.count = task[j].count, t.streams = task[j].streams,
             \/ t.state = task[j].state
             \/ c.task /\ t.state = "RUNNING" /\ ~task[j].cancel
             \/ /\ c.task /\ task[j].state \in Active /\ t.state \in Ended \ {"DONE"}
                /\ d.failed
      PROVE  Good(j)
  <2>1. /\ context' \in [Jobs -> [File -> ContextType]] /\ context'[j][i] = d
        /\ \A n \in File \ {i} : context'[j][n] = context[j][n]
        /\ \A k \in Jobs \ {j} : context'[k] = context[k]
    BY <1>0, <1>4, PutIs
  <2>2. /\ task' \in [Jobs -> TaskType] /\ task'[j] = t
        /\ \A k \in Jobs \ {j} : task'[k] = task[k]
    BY <1>0, <1>4, TaskTo
  <2>3. TypeInv'
    BY <1>0, <1>3, <2>1, <2>2 DEF TypeInv
  <2>4. Served(j, i)
    BY <1>0, <1>1, <1>3, <1>4, <2>1, <2>2 DEF Served, OneContext
  <2>5. QED
    BY <1>0, <1>2, <2>3, <2>4, ServedKeeps
<1>5. ASSUME NEW x \in BOOLEAN, Put(j, i, Failed(c)),
             task' = [task EXCEPT ![j] = Reported(task[j], c, x)]
      PROVE  Good(j)
  <2>1. /\ Failed(c) \in ContextType /\ Failed(c).failed
        /\ Failed(c).on /\ Failed(c).task = c.task /\ Failed(c).open = c.open
        /\ Failed(c).replace = c.replace /\ ~Failed(c).over
    BY <1>1, FailedIs
  <2>2. /\ Reported(task[j], c, x) \in TaskType
        /\ Reported(task[j], c, x).state =
             IF c.task /\ ~c.failed /\ task[j].state \in Active THEN Ending(x) ELSE task[j].state
        /\ Reported(task[j], c, x).cancel = task[j].cancel
        /\ Reported(task[j], c, x).count = task[j].count
        /\ Reported(task[j], c, x).streams = task[j].streams
    BY <1>1, ReportedIs
  <2>3. Ending(x) \in Ended \ {"DONE"}
    BY EndingIs
  <2> HIDE DEF c
  <2>4. QED
    BY <1>4, <1>5, <2>1, <2>2, <2>3
<1>6. /\ more \in ContextType /\ more.on /\ more.task = c.task /\ more.open = c.open
      /\ more.replace = c.replace /\ ~more.over
  <2>1. c.got + 1 \in 0 .. Size + 1 /\ c.held + 1 \in Nat
    BY <1>0, ContextField, Limits
  <2>2. QED
    BY <1>1, <2>1 DEF ContextType
<1>7. CASE Put(j, i, more) /\ UNCHANGED task
  <2> HIDE DEF c, more
  <2>1. task' = [task EXCEPT ![j] = task[j]]
    BY <1>0, <1>7 DEF TypeInv
  <2>2. QED
    BY <1>1, <1>4, <1>6, <1>7, <2>1
<1>8. CASE /\ ~Stopped(j, c) /\ Put(j, i, [more EXCEPT !.held = 0])
           /\ task' = [task EXCEPT ![j] = Flushed(j, more)]
  <2> DEFINE d == [more EXCEPT !.held = 0]
             t == Flushed(j, more)
  <2> HIDE DEF more
  <2>1. /\ d \in ContextType /\ d.on /\ d.task = c.task /\ d.open = c.open
        /\ d.replace = c.replace /\ ~d.over
    BY <1>6 DEF ContextType
  <2>2. /\ t \in TaskType /\ t.state \in {task[j].state, "RUNNING"}
        /\ ~more.task => t = task[j]
        /\ t.cancel = task[j].cancel /\ t.count = task[j].count
        /\ t.streams = task[j].streams
    BY <1>0, <1>6, FlushedIs
  <2>3. c.task => ~task[j].cancel
    BY <1>8 DEF Stopped
  <2>4. \/ t.state = task[j].state
        \/ c.task /\ t.state = "RUNNING" /\ ~task[j].cancel
    BY <1>6, <2>2, <2>3
  <2> HIDE DEF c, d, t
  <2>5. Put(j, i, d) /\ task' = [task EXCEPT ![j] = t]
    BY <1>8 DEF d, t
  <2>6. QED
    BY <1>4, <2>1, <2>2, <2>4, <2>5
<1>9. QED
  BY <1>5, <1>7, <1>8 DEF Data

(* The file that works is the one last asked for, and nothing else is      *)
(* under way.                                                              *)
LEMMA WorkingFile ==
  ASSUME JobsInv, NEW j \in Jobs, tab[j].op # "download", NEW i \in File,
         context[j][i].on, ~context[j][i].over
  PROVE  /\ i = tab[j].index /\ i \notin Landed(j)
         /\ tab[j].pc \notin {"idle", "send"} /\ request[j].at # "sent"
<1>1. TypeInv /\ JobInv(j)
  BY DEF JobsInv
<1>2. i = tab[j].index
  BY OthersOver
<1>3. i \notin Landed(j)
  <2>1. Pending(j, i)
    BY DEF Pending
  <2>2. QED
    BY <2>1, Zenon DEF Landed
<1>4. tab[j].pc # "idle"
  BY <1>1, NoContextIs DEF JobInv, TabInv
<1>5. QED
  BY <1>1, <1>2, <1>3, <1>4 DEF JobInv, TabInv

LEMMA OneMore ==
  ASSUME NEW S, NEW T, IsFiniteSet(T), S \subseteq T, NEW x \in T, x \notin S
  PROVE  Cardinality(S) + 1 <= Cardinality(T)
<1>1. IsFiniteSet(S) /\ IsFiniteSet(S \union {x}) /\ S \union {x} \subseteq T
  BY FS_Subset, FS_AddElement
<1>2. Cardinality(S \union {x}) = Cardinality(S) + 1
  BY <1>1, FS_AddElement
<1>3. Cardinality(S \union {x}) <= Cardinality(T)
  BY <1>1, FS_Subset
<1>4. QED
  BY <1>2, <1>3

(* A file gets its name: it has landed.                                    *)
LEMMA NamedKeeps ==
  ASSUME JobsInv, TypeInv', NEW j \in Jobs, NEW i \in File, OneContext(j, i),
         tab[j].op # "download", context[j][i].on, ~context[j][i].over, ~context[j][i].failed,
         context'[j][i].on, context'[j][i].task = context[j][i].task,
         context'[j][i].over, ~context'[j][i].open,
         context'[j][i].replace = context[j][i].replace,
         target'[i] = "whole", \A n \in File \ {i} : target'[n] = target[n],
         request'[j].file = request[j].file, request'[j].at \in {request[j].at, "ok", "none"},
         request'[j].at # request[j].at => request[j].file = i,
         \A k \in Jobs \ {j} : /\ task'[k] = task[k] /\ request'[k] = request[k]
                               /\ context'[k] = context[k],
         task'[j].cancel = task[j].cancel, task'[j].streams = task[j].streams,
         task'[j].count \in {task[j].count, task[j].count + 1},
         \/ task'[j].state = task[j].state
         \/ context[j][i].task /\ task'[j].state = "RUNNING" /\ ~task[j].cancel
         \/ task[j].state \in Active /\ task'[j].state \in Ended \ {"DONE"}
  PROVE  Good(j)
<1>0. TypeInv /\ JobInv(j) /\ PublishedIsWhole /\ tab' = tab
  BY DEF JobsInv, OneContext
<1>1. /\ i = tab[j].index /\ i \notin Landed(j)
      /\ tab[j].pc \notin {"idle", "send"} /\ request[j].at # "sent"
  BY WorkingFile
<1>2. PublishedIsWhole' /\ Kept
  BY <1>0 DEF PublishedIsWhole, Kept
<1>3. /\ Landed(j) \subseteq Landed(j)'
      /\ Cardinality(Landed(j)) <= Cardinality(Landed(j)')
  BY <1>0, <1>1, <1>2, ServerLanded
<1>4. i \in Landed(j)'
  <2>1. i \in 1 .. tab'[j].index
    BY <1>0, <1>1, TabField
  <2>2. ~Pending(j, i)'
    BY <1>0, <1>1 DEF Pending
  <2>3. QED
    BY <2>1, <2>2, Zenon DEF Landed
<1>5. Cardinality(Landed(j)) + 1 <= Cardinality(Landed(j)')
  <2>1. IsFiniteSet(Landed(j)) /\ IsFiniteSet(Landed(j)')
    BY <1>0, LandedFinite
  <2>2. QED
    BY <1>1, <1>3, <1>4, <2>1, OneMore
<1>6. Streams(j)' = Streams(j)
  BY <1>0, SameServed
<1>7. task[j].state \notin Active => task'[j].state = task[j].state
  BY WorksForRunning
<1>8. TabInv(j)'
  <2>1. \A n \in File \ {i} : context'[j][n] = context[j][n]
    BY DEF OneContext
  <2>2. \A n \in File : /\ n > tab[j].index => ~context'[j][n].on
                        /\ context'[j][n].replace => tab[j].overwrite
                        /\ tab[j].op # "download" /\ context'[j][n].open =>
                             context'[j][n].on /\ (context'[j][n].over => context'[j][n].failed)
    BY <1>0, <2>1 DEF JobInv, TabInv
  <2>3. tab[j].pc = "close" => task'[j].cancel \/ task'[j].state \notin Active
    BY <1>0, <1>7 DEF JobInv, TabInv, Active, Ended
  <2>4. QED
    BY <1>0, <1>1, <2>2, <2>3 DEF JobInv, TabInv
<1>9. CountInv(j)'
  <2>1. Cardinality(Landed(j)) \in Nat /\ Cardinality(Landed(j)') \in Nat
    BY <1>0, LandedCounts
  <2>2. /\ task[j].count \in Nat /\ task[j].count <= Cardinality(Landed(j))
        /\ task[j].streams = Cardinality(Streams(j))
        /\ task[j].state \in {"NONE", "FREED"} => Streams(j) = {}
    BY <1>0, TaskField DEF JobInv, CountInv
  <2>3. task'[j].state \in {"NONE", "FREED"} => task'[j].state = task[j].state
    BY DEF Ended
  <2>4. task'[j].count <= Cardinality(Landed(j)')
    BY <1>5, <2>1, <2>2
  <2>5. QED
    BY <1>6, <2>2, <2>3, <2>4 DEF CountInv
<1>10. LandedInv(j)'
  BY <1>0, <1>3, <1>4 DEF JobInv, LandedInv
<1>11. LiveInv(j)'
  <2>1. CASE task'[j].state = task[j].state
    <3>1. \A n \in Streams(j) : n \in File
      BY Zenon DEF Streams
    <3>2. QED
      BY <1>0, <1>6, <2>1, <3>1 DEF JobInv, LiveInv, OneContext
  <2>2. CASE task'[j].state = "RUNNING"
    BY <2>2 DEF LiveInv, Ended
  <2>3. CASE task'[j].state \in Ended
    <3>1. \A n \in Streams(j) : n \in File /\ context[j][n].on
      BY Zenon DEF Streams
    <3>2. \A n \in Streams(j) : n # i => context'[j][n].over
      BY <1>1, <3>1, OthersOver DEF OneContext
    <3>3. QED
      BY <1>6, <3>2 DEF LiveInv
  <2>4. QED
    BY <2>1, <2>2, <2>3
<1>12. DoneInv(j)' /\ DownInv(j)'
  BY <1>0, <1>2 DEF JobInv, DoneInv, DownInv, Kept, Ended
<1>13. Final(j)
  BY <1>7 DEF Final, Active, Ended
<1>14. QED
  BY <1>0, <1>2, <1>8, <1>9, <1>10, <1>11, <1>12, <1>13 DEF Good, JobInv, Only

(* The two ends of a publication.                                          *)
LEMMA SucceedKeeps ==
  ASSUME JobsInv, NEW j \in Jobs, NEW i \in File, tab[j].op # "download", tab' = tab,
         context[j][i].on, ~context[j][i].over, ~context[j][i].failed,
         context[j][i].got = Size, ~FinishStopped(j, context[j][i]),
         Named(context[j][i], i), Succeed(j, i, context[j][i])
  PROVE  Good(j)
<1> DEFINE c == context[j][i]
           d == [c EXCEPT !.open = FALSE, !.look = FALSE, !.over = TRUE, !.held = 0]
           t == IF c.task THEN [Flushed(j, c) EXCEPT !.count = @ + 1] ELSE task[j]
<1>0. TypeInv /\ c \in ContextType /\ task[j] \in TaskType /\ c.task \in BOOLEAN
  BY ContextField, TaskField DEF JobsInv
<1>1. /\ d \in ContextType /\ d.on /\ d.task = c.task /\ ~d.open
      /\ d.replace = c.replace /\ d.over
  BY <1>0 DEF ContextType
<1>2. /\ t \in TaskType /\ t.cancel = task[j].cancel
      /\ t.count \in {task[j].count, task[j].count + 1}
      /\ t.streams = task[j].streams
      /\ \/ t.state = task[j].state
         \/ c.task /\ t.state = "RUNNING" /\ ~task[j].cancel
  <2>1. CASE c.task
    <3>1. /\ Flushed(j, c) \in TaskType /\ Flushed(j, c).cancel = task[j].cancel
          /\ Flushed(j, c).count = task[j].count
          /\ Flushed(j, c).streams = task[j].streams
      BY <1>0, FlushedIs
    <3>2. \/ Flushed(j, c).state = task[j].state
          \/ c.held > 0 /\ Flushed(j, c).state = "RUNNING"
      BY <1>0 DEF Flushed, TaskType
    <3>3. c.held > 0 => ~task[j].cancel
      BY <2>1 DEF FinishStopped, Stopped
    <3>4. t = [Flushed(j, c) EXCEPT !.count = @ + 1]
      BY <2>1
    <3> HIDE DEF t, c
    <3>5. QED
      BY <2>1, <3>1, <3>2, <3>3, <3>4 DEF TaskType
  <2>2. CASE ~c.task
    BY <1>0, <2>2
  <2>3. QED
    BY <1>0, <2>1, <2>2
<1>3. /\ Put(j, i, d) /\ task' = [task EXCEPT ![j] = t] /\ Answer(j, i, "ok")
      /\ temps' = temps \ {<<j, i>>}
  BY DEF Succeed
<1> HIDE DEF d, t
<1>4. /\ context' \in [Jobs -> [File -> ContextType]] /\ context'[j][i] = d
      /\ \A n \in File \ {i} : context'[j][n] = context[j][n]
      /\ \A k \in Jobs \ {j} : context'[k] = context[k]
  BY <1>0, <1>1, <1>3, PutIs
<1>5. /\ task' \in [Jobs -> TaskType] /\ task'[j] = t
      /\ \A k \in Jobs \ {j} : task'[k] = task[k]
  BY <1>0, <1>2, <1>3, TaskTo
<1>6. /\ request' \in [Jobs -> RequestType] /\ request'[j].file = request[j].file
      /\ request'[j].at \in {request[j].at, "ok"}
      /\ request'[j].at # request[j].at => request[j].file = i
      /\ \A k \in Jobs \ {j} : request'[k] = request[k]
  BY <1>0, <1>3, AnswerIs
<1>7. /\ target' \in [File -> {"absent", "foreign", "whole", "broken"}]
      /\ target'[i] = "whole" /\ \A n \in File \ {i} : target'[n] = target[n]
  BY <1>0 DEF Named, TypeInv
<1>8. TypeInv'
  BY <1>0, <1>3, <1>4, <1>5, <1>6, <1>7 DEF TypeInv
<1>9. OneContext(j, i)
  BY <1>4 DEF OneContext
<1>10. /\ context'[j][i].on /\ context'[j][i].task = context[j][i].task
       /\ context'[j][i].over /\ ~context'[j][i].open
       /\ context'[j][i].replace = context[j][i].replace
  BY <1>1, <1>4
<1>11. /\ task'[j].cancel = task[j].cancel /\ task'[j].streams = task[j].streams
       /\ task'[j].count \in {task[j].count, task[j].count + 1}
       /\ \/ task'[j].state = task[j].state
          \/ context[j][i].task /\ task'[j].state = "RUNNING" /\ ~task[j].cancel
  BY <1>2, <1>5
<1>12. \A k \in Jobs \ {j} : /\ task'[k] = task[k] /\ request'[k] = request[k]
                             /\ context'[k] = context[k]
  BY <1>4, <1>5, <1>6
<1> HIDE DEF c
<1>13. QED
  BY <1>6, <1>7, <1>8, <1>9, <1>10, <1>11, <1>12, NamedKeeps

LEMMA GoWrongIs ==
  ASSUME TypeInv, NEW j \in Jobs, NEW i \in File, NEW x \in BOOLEAN,
         context[j][i].on, ~context[j][i].failed, tab' = tab,
         GoWrong(j, i, context[j][i], x)
  PROVE  /\ task' \in [Jobs -> TaskType] /\ context' \in [Jobs -> [File -> ContextType]]
         /\ request' \in [Jobs -> RequestType] /\ temps' \subseteq Jobs \X File
         /\ OneContext(j, i)
         /\ context'[j][i].on /\ context'[j][i].task = context[j][i].task
         /\ context'[j][i].over /\ context'[j][i].failed /\ ~context'[j][i].open
         /\ context'[j][i].replace = context[j][i].replace
         /\ request'[j].file = request[j].file
         /\ request'[j].at \in {request[j].at, "none"}
         /\ request'[j].at # request[j].at => request[j].file = i
         /\ \A k \in Jobs \ {j} : /\ task'[k] = task[k] /\ request'[k] = request[k]
                                  /\ context'[k] = context[k]
         /\ task'[j].cancel = task[j].cancel /\ task'[j].count = task[j].count
         /\ task'[j].streams = task[j].streams
         /\ \/ task'[j].state = task[j].state
            \/ /\ context[j][i].task /\ task[j].state \in Active
               /\ task'[j].state \in Ended \ {"DONE"}
<1> DEFINE c == context[j][i]
           d == [Failed(c) EXCEPT !.open = FALSE, !.look = FALSE, !.over = TRUE]
           t == Reported(task[j], c, x)
<1>0. c \in ContextType /\ task[j] \in TaskType
  BY ContextField, TaskField
<1>1. /\ d \in ContextType /\ d.on /\ d.task = c.task /\ ~d.open
      /\ d.replace = c.replace /\ d.over /\ d.failed
  <2>1. /\ Failed(c) \in ContextType /\ Failed(c).failed
        /\ Failed(c).on /\ Failed(c).task = c.task /\ Failed(c).replace = c.replace
    BY <1>0, FailedIs
  <2>2. QED
    BY <2>1 DEF ContextType
<1>2. /\ t \in TaskType /\ t.cancel = task[j].cancel /\ t.count = task[j].count
      /\ t.streams = task[j].streams
      /\ \/ t.state = task[j].state
         \/ c.task /\ task[j].state \in Active /\ t.state \in Ended \ {"DONE"}
  <2>1. Ending(x) \in Ended \ {"DONE"}
    BY EndingIs
  <2> HIDE DEF c
  <2>2. QED
    BY <1>0, <2>1, ReportedIs
<1>3. /\ Put(j, i, d) /\ task' = [task EXCEPT ![j] = t] /\ Answer(j, i, "none")
      /\ temps' \in {temps \ {<<j, i>>}, temps}
  BY DEF GoWrong
<1> HIDE DEF d, t
<1>4. /\ context' \in [Jobs -> [File -> ContextType]] /\ context'[j][i] = d
      /\ \A n \in File \ {i} : context'[j][n] = context[j][n]
      /\ \A k \in Jobs \ {j} : context'[k] = context[k]
  BY <1>1, <1>3, PutIs
<1>5. /\ task' \in [Jobs -> TaskType] /\ task'[j] = t
      /\ \A k \in Jobs \ {j} : task'[k] = task[k]
  BY <1>2, <1>3, TaskTo
<1>6. /\ request' \in [Jobs -> RequestType] /\ request'[j].file = request[j].file
      /\ request'[j].at \in {request[j].at, "none"}
      /\ request'[j].at # request[j].at => request[j].file = i
      /\ \A k \in Jobs \ {j} : request'[k] = request[k]
  BY <1>3, AnswerIs
<1>7. temps' \subseteq Jobs \X File
  BY <1>3 DEF TypeInv
<1>8. OneContext(j, i)
  BY <1>4 DEF OneContext
<1> HIDE DEF c
<1>9. QED
  BY <1>1, <1>2, <1>4, <1>5, <1>6, <1>7, <1>8 DEF c

LEMMA GoWrongKeeps ==
  ASSUME JobsInv, NEW j \in Jobs, NEW i \in File, NEW x \in BOOLEAN,
         tab[j].op # "download", tab' = tab, target' = target,
         context[j][i].on, ~context[j][i].over, ~context[j][i].failed,
         GoWrong(j, i, context[j][i], x)
  PROVE  Good(j)
<1>0. TypeInv
  BY DEF JobsInv
<1>1. /\ task' \in [Jobs -> TaskType] /\ context' \in [Jobs -> [File -> ContextType]]
      /\ request' \in [Jobs -> RequestType] /\ temps' \subseteq Jobs \X File
      /\ OneContext(j, i)
      /\ context'[j][i].on /\ context'[j][i].task = context[j][i].task
      /\ context'[j][i].over /\ context'[j][i].failed /\ ~context'[j][i].open
      /\ context'[j][i].replace = context[j][i].replace
      /\ request'[j].file = request[j].file
      /\ request'[j].at \in {request[j].at, "none"}
      /\ \A k \in Jobs \ {j} : /\ task'[k] = task[k] /\ request'[k] = request[k]
                               /\ context'[k] = context[k]
      /\ task'[j].cancel = task[j].cancel /\ task'[j].count = task[j].count
      /\ task'[j].streams = task[j].streams
      /\ \/ task'[j].state = task[j].state
         \/ /\ context[j][i].task /\ task[j].state \in Active
            /\ task'[j].state \in Ended \ {"DONE"}
  BY <1>0, GoWrongIs
<1>2. TypeInv'
  BY <1>0, <1>1 DEF TypeInv
<1>3. Served(j, i)
  BY <1>1 DEF Served
<1>4. tab[j].pc # "idle"
  BY WorkingFile
<1>5. QED
  BY <1>2, <1>3, <1>4, ServedKeeps

(* The file has its name, and the upload is told that it failed.           *)
LEMMA NamedWrongKeeps ==
  ASSUME JobsInv, NEW j \in Jobs, NEW i \in File, NEW x \in BOOLEAN,
         tab[j].op # "download", tab' = tab,
         context[j][i].on, ~context[j][i].over, ~context[j][i].failed,
         context[j][i].got = Size,
         Named(context[j][i], i), GoWrong(j, i, context[j][i], x)
  PROVE  Good(j)
<1>0. TypeInv
  BY DEF JobsInv
<1>1. /\ task' \in [Jobs -> TaskType] /\ context' \in [Jobs -> [File -> ContextType]]
      /\ request' \in [Jobs -> RequestType] /\ temps' \subseteq Jobs \X File
      /\ OneContext(j, i)
      /\ context'[j][i].on /\ context'[j][i].task = context[j][i].task
      /\ context'[j][i].over /\ context'[j][i].failed /\ ~context'[j][i].open
      /\ context'[j][i].replace = context[j][i].replace
      /\ request'[j].file = request[j].file
      /\ request'[j].at \in {request[j].at, "none"}
      /\ request'[j].at # request[j].at => request[j].file = i
      /\ \A k \in Jobs \ {j} : /\ task'[k] = task[k] /\ request'[k] = request[k]
                               /\ context'[k] = context[k]
      /\ task'[j].cancel = task[j].cancel /\ task'[j].count = task[j].count
      /\ task'[j].streams = task[j].streams
      /\ \/ task'[j].state = task[j].state
         \/ /\ context[j][i].task /\ task[j].state \in Active
            /\ task'[j].state \in Ended \ {"DONE"}
  BY <1>0, GoWrongIs
<1>2. /\ target' \in [File -> {"absent", "foreign", "whole", "broken"}]
      /\ target'[i] = "whole" /\ \A n \in File \ {i} : target'[n] = target[n]
  BY <1>0 DEF Named, TypeInv
<1>3. TypeInv'
  BY <1>0, <1>1, <1>2 DEF TypeInv
<1>4. request'[j].at \in {request[j].at, "ok", "none"}
  BY <1>1
<1>5. task'[j].count \in {task[j].count, task[j].count + 1}
  BY <1>1
<1>6. \/ task'[j].state = task[j].state
      \/ task[j].state \in Active /\ task'[j].state \in Ended \ {"DONE"}
  BY <1>1
<1>7. QED
  BY <1>1, <1>2, <1>3, <1>4, <1>5, <1>6, NamedKeeps

LEMMA FinishKeeps ==
  ASSUME JobsInv, NEW j \in Jobs, NEW i \in File, Finish(j, i)
  PROVE  Good(j)
<1> DEFINE c == context[j][i]
<1>0. TypeInv /\ JobInv(j) /\ tab[j].op # "download" /\ c.on /\ ~c.over /\ tab' = tab
  BY DEF JobsInv, Finish
<1>1. c \in ContextType /\ task[j] \in TaskType /\ tab[j].pc # "idle"
  BY <1>0, ContextField, TaskField, WorkingFile
<1>2. ASSUME NEW d \in ContextType, Put(j, i, d), d.on, d.task = c.task, d.open = c.open,
             d.replace = c.replace, d.failed = c.failed, d.over => c.failed,
             \/ Answer(j, i, "none")
             \/ UNCHANGED request,
             UNCHANGED <<task, temps, target>>
      PROVE  Good(j)
  <2>1. /\ context' \in [Jobs -> [File -> ContextType]] /\ context'[j][i] = d
        /\ \A n \in File \ {i} : context'[j][n] = context[j][n]
        /\ \A k \in Jobs \ {j} : context'[k] = context[k]
    BY <1>0, <1>2, PutIs
  <2>2. /\ request' \in [Jobs -> RequestType] /\ request'[j].file = request[j].file
        /\ request'[j].at \in {request[j].at, "none"}
        /\ \A k \in Jobs \ {j} : request'[k] = request[k]
    <3>1. CASE Answer(j, i, "none")
      BY <1>0, <3>1, AnswerIs
    <3>2. CASE UNCHANGED request
      BY <1>0, <3>2 DEF TypeInv
    <3>3. QED
      BY <1>2, <3>1, <3>2
  <2>3. TypeInv'
    BY <1>0, <1>2, <2>1, <2>2 DEF TypeInv
  <2>4. Served(j, i)
    BY <1>0, <1>2, <2>1, <2>2 DEF Served, OneContext
  <2>5. QED
    BY <1>0, <1>1, <2>3, <2>4, ServedKeeps
<1>3. CASE /\ c.failed /\ Put(j, i, [c EXCEPT !.over = TRUE]) /\ Answer(j, i, "none")
           /\ UNCHANGED <<task, temps, target>>
  <2> DEFINE d == [c EXCEPT !.over = TRUE]
  <2>1. /\ d \in ContextType /\ d.on /\ d.task = c.task /\ d.open = c.open
        /\ d.replace = c.replace /\ d.over /\ d.failed
    BY <1>0, <1>1, <1>3 DEF ContextType
  <2>2. Put(j, i, d)
    BY <1>3
  <2> HIDE DEF d
  <2>3. d.failed = c.failed
    BY <1>1, <1>3, <2>1 DEF ContextType
  <2> HIDE DEF c
  <2>4. QED
    BY <1>2, <1>3, <2>1, <2>2, <2>3
<1>4. CASE /\ ~c.failed /\ Put(j, i, [c EXCEPT !.look = TRUE])
           /\ UNCHANGED <<task, request, temps, target>>
  <2> DEFINE d == [c EXCEPT !.look = TRUE]
  <2>1. /\ d \in ContextType /\ d.on /\ d.task = c.task /\ d.open = c.open
        /\ d.replace = c.replace /\ ~d.over /\ d.failed = c.failed
    BY <1>0, <1>1, <1>4 DEF ContextType
  <2>2. Put(j, i, d)
    BY <1>4
  <2> HIDE DEF d, c
  <2>3. QED
    BY <1>2, <1>4, <2>1, <2>2
<1>5. CASE ~c.failed /\ GoWrong(j, i, c, FinishStopped(j, c)) /\ UNCHANGED target
  <2>1. FinishStopped(j, c) \in BOOLEAN
    BY DEF FinishStopped
  <2>2. QED
    BY <1>0, <1>5, <2>1, GoWrongKeeps
<1>6. CASE ~c.failed /\ Ready(j, c) /\ Named(c, i) /\ Succeed(j, i, c)
  BY <1>0, <1>6, SucceedKeeps DEF Ready, Complete
<1>7. CASE ~c.failed /\ Ready(j, c) /\ Named(c, i) /\ GoWrong(j, i, c, FALSE)
  BY <1>0, <1>7, NamedWrongKeeps DEF Ready, Complete
<1>8. QED
  BY <1>3, <1>4, <1>5, <1>6, <1>7, Zenon DEF Finish

(* The rename that follows the look.                                       *)
LEMMA RenameIntoKeeps ==
  ASSUME JobsInv, LookInv, NEW j \in Jobs, NEW i \in File, RenameInto(j, i)
  PROVE  Good(j)
<1>1. /\ tab[j].op # "download" /\ tab' = tab /\ context[j][i].on
      /\ ~context[j][i].over /\ ~context[j][i].failed /\ context[j][i].got = Size
      /\ ~FinishStopped(j, context[j][i])
  BY DEF RenameInto, LookInv, Looking
<1>2. CASE Named(context[j][i], i) /\ Succeed(j, i, context[j][i])
  BY <1>1, <1>2, SucceedKeeps
<1>3. CASE GoWrong(j, i, context[j][i], FALSE) /\ UNCHANGED target
  BY <1>1, <1>3, GoWrongKeeps
<1>4. QED
  BY <1>2, <1>3, Zenon DEF RenameInto

LEMMA FreeIs ==
  ASSUME TypeInv, NEW j \in Jobs, NEW i \in File, Free(j, i),
         context[j][i].task => task[j].streams - 1 \in Nat
  PROVE  /\ task' \in [Jobs -> TaskType] /\ context' \in [Jobs -> [File -> ContextType]]
         /\ request' \in [Jobs -> RequestType] /\ temps' \subseteq Jobs \X File
         /\ tab' = tab /\ target' = target /\ OneContext(j, i)
         /\ context'[j][i] = NoContext
         /\ request'[j].file = request[j].file /\ request'[j].at \in {request[j].at, "none"}
         /\ \A k \in Jobs \ {j} : /\ task'[k] = task[k] /\ request'[k] = request[k]
                                  /\ context'[k] = context[k]
         /\ task'[j].cancel = task[j].cancel /\ task'[j].count = task[j].count
         /\ task'[j].streams = IF context[j][i].task THEN task[j].streams - 1
                               ELSE task[j].streams
         /\ \/ task'[j].state = task[j].state
            \/ /\ context[j][i].open /\ ~context[j][i].failed /\ task[j].state \in Active
               /\ task'[j].state \in Ended \ {"DONE"}
<1> DEFINE c == context[j][i]
           t == IF c.open THEN Reported(task[j], c, task[j].cancel) ELSE task[j]
           u == IF c.task THEN [t EXCEPT !.streams = @ - 1] ELSE task[j]
<1>1. c \in ContextType /\ task[j] \in TaskType /\ task[j].cancel \in BOOLEAN
  BY ContextField, TaskField
<1>2. /\ t \in TaskType /\ t.cancel = task[j].cancel /\ t.count = task[j].count
      /\ t.streams = task[j].streams
      /\ \/ t.state = task[j].state
         \/ /\ c.open /\ c.task /\ ~c.failed /\ task[j].state \in Active
            /\ t.state \in Ended \ {"DONE"}
  <2>1. Ending(task[j].cancel) \in Ended \ {"DONE"}
    BY <1>1, EndingIs
  <2>2. /\ Reported(task[j], c, task[j].cancel) \in TaskType
        /\ Reported(task[j], c, task[j].cancel).state =
             IF c.task /\ ~c.failed /\ task[j].state \in Active
               THEN Ending(task[j].cancel) ELSE task[j].state
        /\ Reported(task[j], c, task[j].cancel).cancel = task[j].cancel
        /\ Reported(task[j], c, task[j].cancel).count = task[j].count
        /\ Reported(task[j], c, task[j].cancel).streams = task[j].streams
    BY <1>1, ReportedIs
  <2> HIDE DEF c
  <2>3. CASE c.open
    BY <2>1, <2>2, <2>3
  <2>4. CASE ~c.open
    BY <1>1, <2>4
  <2>5. QED
    BY <2>3, <2>4
<1>3. /\ u \in TaskType /\ u.cancel = task[j].cancel /\ u.count = task[j].count
      /\ u.streams = IF c.task THEN task[j].streams - 1 ELSE task[j].streams
      /\ \/ u.state = task[j].state
         \/ /\ c.open /\ ~c.failed /\ task[j].state \in Active
            /\ u.state \in Ended \ {"DONE"}
  <2>1. CASE c.task
    <3>1. task[j].streams - 1 \in Nat
      BY <2>1
    <3> HIDE DEF t, c
    <3>2. QED
      BY <1>2, <2>1, <3>1 DEF TaskType
  <2>2. CASE ~c.task
    BY <1>1, <2>2
  <2>3. QED
    BY <1>1, <2>1, <2>2 DEF ContextType
<1>4. /\ tab' = tab /\ target' = target /\ Put(j, i, NoContext) /\ Answer(j, i, "none")
      /\ task' = [task EXCEPT ![j] = u] /\ temps' = Freed(j, i)
  BY DEF Free
<1> HIDE DEF u, t
<1>5. /\ context' \in [Jobs -> [File -> ContextType]] /\ context'[j][i] = NoContext
      /\ \A n \in File \ {i} : context'[j][n] = context[j][n]
      /\ \A k \in Jobs \ {j} : context'[k] = context[k]
  BY <1>4, NoContextIs, PutIs
<1>6. /\ task' \in [Jobs -> TaskType] /\ task'[j] = u
      /\ \A k \in Jobs \ {j} : task'[k] = task[k]
  BY <1>3, <1>4, TaskTo
<1>7. /\ request' \in [Jobs -> RequestType] /\ request'[j].file = request[j].file
      /\ request'[j].at \in {request[j].at, "none"}
      /\ \A k \in Jobs \ {j} : request'[k] = request[k]
  BY <1>4, AnswerIs
<1>8. temps' \subseteq Jobs \X File
  BY <1>4 DEF Freed, TypeInv
<1>9. OneContext(j, i)
  BY <1>4, <1>5 DEF OneContext
<1>10. QED
  BY <1>3, <1>4, <1>5, <1>6, <1>7, <1>8, <1>9

LEMMA FreeKeeps ==
  ASSUME JobsInv, NEW j \in Jobs, NEW i \in File, Free(j, i)
  PROVE  Good(j)
<1>0. /\ TypeInv /\ JobInv(j) /\ PublishedIsWhole
      /\ context[j][i].on /\ tab[j].op # "download"
  BY DEF JobsInv, Free
<1>1. /\ task[j].streams = Cardinality(Streams(j)) /\ task[j].count <= Cardinality(Landed(j))
      /\ task[j].state \in {"NONE", "FREED"} => Streams(j) = {}
  BY <1>0 DEF JobInv, CountInv
<1>2. tab[j].pc # "idle"
  BY <1>0, NoContextIs DEF JobInv, TabInv
<1>3. context[j][i].task => task[j].streams - 1 \in Nat
  <2>1. ASSUME context[j][i].task
        PROVE  Cardinality(Streams(j)) - 1 \in Nat
    <3>1. i \in Streams(j)
      BY <1>0, <2>1, Zenon DEF Streams
    <3>2. IsFiniteSet(Streams(j))
      BY <1>0, CountsAreSmall
    <3>3. Cardinality(Streams(j)) \in Nat /\ Cardinality(Streams(j)) # 0
      BY <3>1, <3>2, FS_CardinalityType, FS_EmptySet
    <3>4. QED
      BY <3>3
  <2>2. QED
    BY <1>1, <2>1
<1>4. /\ task' \in [Jobs -> TaskType] /\ context' \in [Jobs -> [File -> ContextType]]
      /\ request' \in [Jobs -> RequestType] /\ temps' \subseteq Jobs \X File
      /\ tab' = tab /\ target' = target /\ OneContext(j, i)
      /\ context'[j][i] = NoContext
      /\ request'[j].file = request[j].file /\ request'[j].at \in {request[j].at, "none"}
      /\ \A k \in Jobs \ {j} : /\ task'[k] = task[k] /\ request'[k] = request[k]
                               /\ context'[k] = context[k]
      /\ task'[j].cancel = task[j].cancel /\ task'[j].count = task[j].count
      /\ task'[j].streams = IF context[j][i].task THEN task[j].streams - 1
                            ELSE task[j].streams
      /\ \/ task'[j].state = task[j].state
         \/ /\ context[j][i].open /\ ~context[j][i].failed /\ task[j].state \in Active
            /\ task'[j].state \in Ended \ {"DONE"}
  BY <1>0, <1>3, FreeIs
<1>5. TypeInv'
  BY <1>0, <1>4 DEF TypeInv
<1>6. PublishedIsWhole' /\ Kept
  BY <1>0, <1>4, StillWhole
<1>7. /\ ~context'[j][i].on /\ ~context'[j][i].replace /\ ~context'[j][i].open
  BY <1>4, NoContextIs
<1>8. /\ Landed(j) \subseteq Landed(j)'
      /\ Cardinality(Landed(j)) <= Cardinality(Landed(j)')
  BY <1>0, <1>4, <1>5, <1>6, <1>7, ServerLanded
<1>9. TabInv(j)'
  <2>1. \A n \in File \ {i} : context'[j][n] = context[j][n]
    BY <1>4 DEF OneContext
  <2>2. \A n \in File : /\ context'[j][n].on => context[j][n].on
                        /\ context'[j][n].replace => tab[j].overwrite
                        /\ tab[j].op # "download" /\ context'[j][n].open =>
                             context'[j][n].on /\ (context'[j][n].over => context'[j][n].failed)
    BY <1>0, <1>7, <2>1 DEF JobInv, TabInv
  <2>3. tab[j].pc = "close" => task'[j].cancel \/ task'[j].state \notin Active
    <3>1. \A s \in Ended : s \notin Active
      BY DEF Ended, Active
    <3>2. QED
      BY <1>0, <1>4, <3>1 DEF JobInv, TabInv
  <2>4. tab[j].index \in File /\ request[j].file \in File
    BY <1>0, TabField, RequestField, FileIs
  <2>5. QED
    BY <1>0, <1>2, <1>4, <2>2, <2>3, <2>4 DEF JobInv, TabInv
<1>10. Streams(j)' \subseteq Streams(j)
  BY <1>4, <1>7 DEF Streams, OneContext
<1>11. CountInv(j)'
  <2>1. task'[j].streams = Cardinality(Streams(j)')
    <3>1. CASE context[j][i].task
      BY <1>0, <1>1, <1>4, <1>7, <3>1, StreamRemoved
    <3>2. CASE ~context[j][i].task
      <4>1. (context'[j][i].on /\ context'[j][i].task)
              <=> (context[j][i].on /\ context[j][i].task)
        BY <1>7, <3>2
      <4>2. Streams(j)' = Streams(j)
        BY <1>0, <1>4, <1>5, <4>1, SameServed
      <4>3. QED
        BY <1>1, <1>4, <3>2, <4>2
    <3>3. QED
      BY <3>1, <3>2
  <2>2. task'[j].state \in {"NONE", "FREED"} => Streams(j)' = {}
    <3>1. task'[j].state \in {"NONE", "FREED"} => task'[j].state = task[j].state
      BY <1>4 DEF Ended
    <3>2. QED
      BY <1>1, <1>10, <3>1
  <2>3. Cardinality(Landed(j)) \in Nat /\ Cardinality(Landed(j)') \in Nat
        /\ task[j].count \in Nat
    BY <1>0, <1>5, LandedCounts, TaskField
  <2>4. task'[j].count <= Cardinality(Landed(j)')
    BY <1>1, <1>4, <1>8, <2>3
  <2>5. QED
    BY <2>1, <2>2, <2>4 DEF CountInv
<1>12. LandedInv(j)'
  <2>1. request'[j].at = "ok" => request[j].at = "ok" /\ request'[j].file = request[j].file
    BY <1>4
  <2>2. QED
    BY <1>0, <1>4, <1>8, <2>1 DEF JobInv, LandedInv
<1>13. LiveInv(j)'
  <2>1. \A n \in Streams(j)' : n \in File /\ n \in Streams(j) /\ context'[j][n] = context[j][n]
    <3>1. \A n \in Streams(j)' : n \in File /\ context'[j][n].on
      BY Zenon DEF Streams
    <3>2. QED
      BY <1>4, <1>7, <1>10, <3>1 DEF OneContext
  <2>2. CASE task'[j].state = task[j].state
    BY <1>0, <1>4, <2>1, <2>2 DEF JobInv, LiveInv
  <2>3. CASE context[j][i].open /\ ~context[j][i].failed
    <3>1. ~context[j][i].over
      BY <1>0, <2>3 DEF JobInv, TabInv
    <3>2. i = tab[j].index
      BY <1>0, <3>1, OthersOver
    <3>3. \A n \in Streams(j) : n # i => context[j][n].over
      BY <1>0, <3>2, OthersOver DEF Streams
    <3>4. \A n \in Streams(j)' : n # i
      BY <1>7 DEF Streams
    <3>5. QED
      BY <2>1, <3>3, <3>4 DEF LiveInv
  <2>4. QED
    BY <1>4, <2>2, <2>3
<1>14. DoneInv(j)' /\ DownInv(j)'
  BY <1>0, <1>4 DEF JobInv, DoneInv, DownInv
<1>15. Final(j)
  BY <1>4 DEF Final, Active, Ended
<1>16. QED
  BY <1>15, <1>4, <1>5, <1>6, <1>9, <1>11, <1>12, <1>13, <1>14 DEF Good, JobInv, Only

-----------------------------------------------------------------------------
(* Downloads: one stream, the first context.                               *)
LEMMA DownKeeps ==
  ASSUME JobsInv, TypeInv', NEW j \in Jobs, tab[j].op = "download", OneContext(j, 1),
         tab[j].pc # "idle", target' = target,
         request'[j].file = request[j].file,
         request'[j].at = "none" \/ request'[j].at = "open"
           \/ (request'[j].at = request[j].at /\ (context'[j][1].on => context[j][1].on)),
         context'[j][1].on => context[j][1].on \/ request[j].at = "sent",
         context'[j][1].replace => tab[j].overwrite,
         \A k \in Jobs \ {j} : /\ task'[k] = task[k] /\ request'[k] = request[k]
                               /\ context'[k] = context[k],
         task'[j].count = task[j].count, task'[j].streams = task[j].streams, Final(j),
         \A n \in File : context'[j][n].on => n = 1 /\ task'[j].state = "RUNNING"
  PROVE  Good(j)
<1>0. TypeInv /\ JobInv(j) /\ PublishedIsWhole /\ tab' = tab
  BY DEF JobsInv, OneContext
<1>1. 1 \in File /\ tab[j].index \in File /\ request[j].file \in File
      /\ tab[j].index \in 1 .. Files
  BY <1>0, TabField, RequestField, FileIs, Limits
<1>2. \A n \in File \ {1} : context'[j][n] = context[j][n]
  BY DEF OneContext
<1>3. TabInv(j)'
  <2>1. \A n \in File : n > tab[j].index => n # 1 /\ ~context[j][n].on
    BY <1>0, <1>1, FileIs, Limits DEF JobInv, TabInv
  <2>2. \A n \in File : /\ n > tab[j].index => ~context'[j][n].on
                        /\ context'[j][n].replace => tab[j].overwrite
    BY <1>0, <1>2, <2>1 DEF JobInv, TabInv
  <2>3. tab[j].pc = "send" => request'[j].at # "sent" /\ ~context'[j][tab[j].index].on
    BY <1>0, <1>1, <1>2 DEF JobInv, TabInv
  <2>4. request'[j].at = "sent" => ~context'[j][request'[j].file].on
    BY <1>0, <1>1, <1>2 DEF JobInv, TabInv
  <2>5. tab[j].pc = "wait" \/ request'[j].at = "sent" => request'[j].file = tab[j].index
    BY <1>0 DEF JobInv, TabInv
  <2>6. tab[j].pc \notin {"poll", "finish", "cancel", "close"}
    BY <1>0 DEF JobInv, TabInv
  <2>7. QED
    BY <1>0, <2>2, <2>3, <2>4, <2>5, <2>6 DEF TabInv
<1>4. DownInv(j)'
  BY <1>0 DEF JobInv, DownInv
<1>5. CountInv(j)' /\ LandedInv(j)' /\ LiveInv(j)' /\ DoneInv(j)'
  BY <1>0 DEF CountInv, LandedInv, LiveInv, DoneInv
<1>6. PublishedIsWhole' /\ Kept
  BY <1>0, StillWhole
<1>7. QED
  BY <1>0, <1>3, <1>4, <1>5, <1>6 DEF Good, JobInv, Only

(* A stream that is on belongs to a task that runs.                        *)
LEMMA DownStream ==
  ASSUME JobsInv, NEW j \in Jobs, tab[j].op = "download", NEW n \in File, context[j][n].on
  PROVE  n = 1 /\ task[j].state = "RUNNING"
BY DEF JobsInv, JobInv, DownInv

LEMMA StateTo ==
  ASSUME TypeInv, NEW j \in Jobs, NEW s \in States, task' = [task EXCEPT ![j].state = s]
  PROVE  /\ task' \in [Jobs -> TaskType] /\ task'[j].state = s
         /\ task'[j].count = task[j].count /\ task'[j].streams = task[j].streams
         /\ \A k \in Jobs \ {j} : task'[k] = task[k]
<1>1. task \in [Jobs -> TaskType] /\ task[j] \in TaskType
  BY DEF TypeInv
<1>2. QED
  BY <1>1 DEF TaskType

LEMMA OpenKeeps ==
  ASSUME JobsInv, NEW j \in Jobs, Open(j)
  PROVE  Good(j)
<1>0. TypeInv /\ JobInv(j) /\ request[j].at = "sent" /\ tab[j].op = "download"
  BY DEF JobsInv, Open
<1>1. tab[j].pc # "idle" /\ 1 \in File
  BY <1>0, FileIs, Limits DEF JobInv, TabInv
<1>2. UNCHANGED <<tab, temps, target>>
  BY DEF Open
<1>3. CASE /\ task[j].state # "QUEUED" /\ request' = [request EXCEPT ![j].at = "none"]
           /\ UNCHANGED <<task, context>>
  <2>1. /\ request' \in [Jobs -> RequestType] /\ request'[j].file = request[j].file
        /\ request'[j].at = "none" /\ \A k \in Jobs \ {j} : request'[k] = request[k]
    BY <1>0, <1>3, RequestTo
  <2>2. TypeInv' /\ OneContext(j, 1)
    BY <1>0, <1>2, <1>3, <2>1 DEF TypeInv, OneContext
  <2>3. context'[j][1].replace => tab[j].overwrite
    BY <1>0, <1>1, <1>3 DEF JobInv, TabInv
  <2>4. QED
    BY <1>0, <1>1, <1>2, <1>3, <2>1, <2>2, <2>3, DownKeeps, DownStream DEF Final
<1>4. CASE /\ task[j].state = "QUEUED" /\ request' = [request EXCEPT ![j].at = "none"]
           /\ task' = [task EXCEPT ![j].state = Ending(task[j].cancel)]
           /\ UNCHANGED context
  <2>1. /\ request' \in [Jobs -> RequestType] /\ request'[j].file = request[j].file
        /\ request'[j].at = "none" /\ \A k \in Jobs \ {j} : request'[k] = request[k]
    BY <1>0, <1>4, RequestTo
  <2>2. Ending(task[j].cancel) \in States
    BY <1>0, TaskField, EndingIs
  <2>3. /\ task' \in [Jobs -> TaskType] /\ \A k \in Jobs \ {j} : task'[k] = task[k]
        /\ task'[j].count = task[j].count /\ task'[j].streams = task[j].streams
    BY <1>0, <1>4, <2>2, StateTo
  <2>4. TypeInv' /\ OneContext(j, 1)
    BY <1>0, <1>2, <1>4, <2>1, <2>3 DEF TypeInv, OneContext
  <2>5. context'[j][1].replace => tab[j].overwrite
    BY <1>0, <1>1, <1>4 DEF JobInv, TabInv
  <2>6. \A n \in File : ~context[j][n].on
    BY <1>0, <1>4, DownStream
  <2>7. Final(j)
    BY <1>4 DEF Final, Ended
  <2>8. QED
    BY <1>0, <1>1, <1>2, <1>4, <2>1, <2>3, <2>4, <2>5, <2>6, <2>7, DownKeeps
<1>5. CASE /\ task[j].state = "QUEUED" /\ request' = [request EXCEPT ![j].at = "open"]
           /\ task' = [task EXCEPT ![j].state = "RUNNING"]
           /\ Put(j, 1, [NoContext EXCEPT !.on = TRUE, !.task = TRUE, !.open = TRUE])
  <2> DEFINE c == [NoContext EXCEPT !.on = TRUE, !.task = TRUE, !.open = TRUE]
  <2>1. /\ request' \in [Jobs -> RequestType] /\ request'[j].file = request[j].file
        /\ request'[j].at = "open" /\ \A k \in Jobs \ {j} : request'[k] = request[k]
    BY <1>0, <1>5, RequestTo
  <2>2. /\ task' \in [Jobs -> TaskType] /\ task'[j].state = "RUNNING"
        /\ task'[j].count = task[j].count /\ task'[j].streams = task[j].streams
        /\ \A k \in Jobs \ {j} : task'[k] = task[k]
    BY <1>0, <1>5, StateTo DEF States, Active
  <2>3. c \in ContextType /\ ~c.replace
    BY NoContextIs DEF ContextType
  <2> HIDE DEF c
  <2>4. /\ context' \in [Jobs -> [File -> ContextType]] /\ context'[j][1] = c
        /\ \A n \in File \ {1} : context'[j][n] = context[j][n]
        /\ \A k \in Jobs \ {j} : context'[k] = context[k]
    BY <1>0, <1>1, <1>5, <2>3, PutIs DEF c
  <2>5. TypeInv' /\ OneContext(j, 1)
    BY <1>0, <1>2, <2>1, <2>2, <2>4 DEF TypeInv, OneContext
  <2>6. \A n \in File : context'[j][n].on => n = 1
    BY <1>0, <2>4, DownStream
  <2>7. Final(j)
    BY <1>5 DEF Final, Ended
  <2>8. QED
    BY <1>0, <1>1, <1>2, <2>1, <2>2, <2>3, <2>4, <2>5, <2>6, <2>7, DownKeeps
<1>6. QED
  BY <1>3, <1>4, <1>5 DEF Open

LEMMA ReadKeeps ==
  ASSUME JobsInv, NEW j \in Jobs, Read(j)
  PROVE  Good(j)
<1> DEFINE c == context[j][1]
           s == task'[j].state
<1>0. TypeInv /\ JobInv(j) /\ c.on /\ c.got < Parts /\ tab[j].op = "download"
  BY DEF JobsInv, Read
<1>1. 1 \in File /\ c \in ContextType /\ task[j].state = "RUNNING"
  BY <1>0, FileIs, Limits, ContextField, DownStream
<1>2. tab[j].pc # "idle" /\ (c.replace => tab[j].overwrite)
  BY <1>0, <1>1, NoContextIs DEF JobInv, TabInv
<1>3. UNCHANGED <<tab, request, temps, target>>
  BY DEF Read
<1>4. ASSUME NEW d \in ContextType, Put(j, 1, d), d.on, d.replace = c.replace,
             task' \in [Jobs -> TaskType], task'[j].state = "RUNNING",
             task'[j].count = task[j].count, task'[j].streams = task[j].streams,
             \A k \in Jobs \ {j} : task'[k] = task[k]
      PROVE  Good(j)
  <2>1. /\ context' \in [Jobs -> [File -> ContextType]] /\ context'[j][1] = d
        /\ \A n \in File \ {1} : context'[j][n] = context[j][n]
        /\ \A k \in Jobs \ {j} : context'[k] = context[k]
    BY <1>0, <1>1, <1>4, PutIs
  <2>2. TypeInv' /\ OneContext(j, 1)
    BY <1>0, <1>3, <1>4, <2>1 DEF TypeInv, OneContext
  <2>3. \A n \in File : context'[j][n].on => n = 1
    BY <1>0, <2>1, DownStream
  <2>4. context'[j][1].on = context[j][1].on /\ context'[j][1].replace = c.replace
    BY <1>0, <1>1, <1>4, <2>1 DEF ContextType
  <2> HIDE DEF c
  <2>5. Final(j)
    BY <1>1 DEF Final, Ended
  <2>6. QED
    BY <1>0, <1>2, <1>3, <1>4, <2>1, <2>2, <2>3, <2>4, <2>5, DownKeeps DEF c
<1>5. CASE Put(j, 1, Failed(c)) /\ UNCHANGED task
  <2>1. Failed(c) \in ContextType /\ Failed(c).on /\ Failed(c).replace = c.replace
    BY <1>0, <1>1, FailedIs
  <2>2. task' \in [Jobs -> TaskType]
    BY <1>0, <1>5 DEF TypeInv
  <2>3. QED
    BY <1>1, <1>4, <1>5, <2>1, <2>2
<1>6. CASE /\ Put(j, 1, [c EXCEPT !.got = @ + 1])
           /\ task' = [task EXCEPT ![j].state = "RUNNING"]
  <2>1. c.got + 1 \in 0 .. Size + 1
    BY <1>0, <1>1, ContextField, Limits DEF Parts
  <2>2. /\ [c EXCEPT !.got = @ + 1] \in ContextType /\ [c EXCEPT !.got = @ + 1].on
        /\ [c EXCEPT !.got = @ + 1].replace = c.replace
    BY <1>0, <1>1, <2>1 DEF ContextType
  <2>3. /\ task' \in [Jobs -> TaskType] /\ task'[j].state = "RUNNING"
        /\ task'[j].count = task[j].count /\ task'[j].streams = task[j].streams
        /\ \A k \in Jobs \ {j} : task'[k] = task[k]
    BY <1>0, <1>6, StateTo DEF States, Active
  <2>4. QED
    BY <1>4, <1>6, <2>2, <2>3
<1>7. QED
  BY <1>5, <1>6 DEF Read

LEMMA FinishedKeeps ==
  ASSUME JobsInv, NEW j \in Jobs, Finished(j)
  PROVE  Good(j)
<1> DEFINE c == context[j][1]
           s == IF ~task[j].cancel /\ ~c.failed /\ Sent(c) THEN "DONE"
                ELSE Ending(task[j].cancel)
           d == [c EXCEPT !.on = FALSE]
<1>0. TypeInv /\ JobInv(j) /\ c.on /\ tab[j].op = "download"
  BY DEF JobsInv, Finished
<1>1. 1 \in File /\ c \in ContextType
  BY <1>0, FileIs, Limits, ContextField
<1>2. tab[j].pc # "idle" /\ (c.replace => tab[j].overwrite)
  BY <1>0, <1>1, NoContextIs DEF JobInv, TabInv
<1>3. /\ UNCHANGED <<tab, request, temps, target>>
      /\ Put(j, 1, d) /\ task' = [task EXCEPT ![j].state = s]
  BY DEF Finished
<1>4. s \in States
  BY <1>0, TaskField, EndingIs DEF States, Ended
<1>5. d \in ContextType /\ ~d.on /\ d.replace = c.replace
  BY <1>1 DEF ContextType
<1> HIDE DEF s, d
<1>6. /\ context' \in [Jobs -> [File -> ContextType]]
      /\ ~context'[j][1].on /\ context'[j][1].replace = c.replace
      /\ \A n \in File \ {1} : context'[j][n] = context[j][n]
      /\ \A k \in Jobs \ {j} : context'[k] = context[k]
  <2>1. /\ context' \in [Jobs -> [File -> ContextType]] /\ context'[j][1] = d
        /\ \A n \in File \ {1} : context'[j][n] = context[j][n]
        /\ \A k \in Jobs \ {j} : context'[k] = context[k]
    BY <1>0, <1>1, <1>3, <1>5, PutIs
  <2>2. QED
    BY <1>5, <2>1
<1>7. /\ task' \in [Jobs -> TaskType] /\ \A k \in Jobs \ {j} : task'[k] = task[k]
      /\ task'[j].count = task[j].count /\ task'[j].streams = task[j].streams
  BY <1>0, <1>3, <1>4, StateTo
<1>8. TypeInv' /\ OneContext(j, 1)
  BY <1>0, <1>3, <1>6, <1>7 DEF TypeInv, OneContext
<1>9. \A n \in File : ~context'[j][n].on
  BY <1>0, <1>6, DownStream
<1>10. Final(j)
  BY <1>0, <1>1, DownStream DEF Final, Ended
<1>11. QED
  BY <1>0, <1>2, <1>3, <1>6, <1>7, <1>8, <1>9, <1>10, DownKeeps

-----------------------------------------------------------------------------
(* The invariant, and what it gives.                                       *)
LEMMA InitHolds == Init => JobsInv
<1> SUFFICES ASSUME Init PROVE JobsInv
  OBVIOUS
<1>1. 1 \in File
  BY FileIs, Limits
<1>2. NoTask \in TaskType /\ NoTab \in TabType
  BY <1>1 DEF NoTask, NoTab, TaskType, TabType, States, Points
<1>3. [at |-> "none", file |-> 1] \in RequestType
  BY <1>1 DEF RequestType
<1>4. TypeInv
  BY <1>2, <1>3, NoContextIs, Zenon DEF Init, TypeInv
<1>5. PublishedIsWhole
  BY DEF Init, PublishedIsWhole
<1>6. ASSUME NEW j \in Jobs
      PROVE  JobInv(j)
  <2>1. /\ task[j] = NoTask /\ tab[j] = NoTab /\ request[j] = [at |-> "none", file |-> 1]
        /\ \A i \in File : context[j][i] = NoContext
    BY DEF Init
  <2>2. /\ task[j].state = "NONE" /\ task[j].count = 0 /\ task[j].streams = 0
        /\ tab[j].pc = "idle" /\ tab[j].op = "upload" /\ tab[j].index = 1
        /\ request[j].at = "none"
    BY <2>1 DEF NoTask, NoTab
  <2>3. \A i \in File : ~context[j][i].on /\ ~context[j][i].replace /\ ~context[j][i].open
    BY <2>1, NoContextIs
  <2>4. TabInv(j)
    BY <2>1, <2>2, <2>3 DEF TabInv
  <2>5. Streams(j) = {} /\ Cardinality({}) = 0
    BY <2>3, FS_EmptySet DEF Streams
  <2>6. Cardinality(Landed(j)) \in Nat
    BY <1>4, CountsAreSmall, FS_CardinalityType
  <2>7. DownInv(j) /\ CountInv(j) /\ LandedInv(j)
    BY <2>2, <2>5, <2>6 DEF DownInv, CountInv, LandedInv
  <2>8. LiveInv(j) /\ DoneInv(j)
    BY <2>2 DEF LiveInv, DoneInv, Ended
  <2>9. QED
    BY <2>4, <2>7, <2>8 DEF JobInv
<1>7. QED
  BY <1>4, <1>5, <1>6 DEF JobsInv

(* What one tab does keeps the invariant of all.                           *)
LEMMA GoodForAll ==
  ASSUME JobsInv, NEW j \in Jobs, Good(j)
  PROVE  JobsInv'
<1>1. TypeInv /\ TypeInv' /\ Kept /\ PublishedIsWhole' /\ JobInv(j)'
  BY DEF JobsInv, Good, Only
<1>2. ASSUME NEW k \in Jobs \ {j}
      PROVE  JobInv(k)'
  <2>1. /\ task'[k] = task[k] /\ tab'[k] = tab[k] /\ request'[k] = request[k]
        /\ context'[k] = context[k] /\ JobInv(k)
    BY DEF Good, Only, JobsInv
  <2>2. Resembles(k)
    BY <2>1 DEF Resembles
  <2>3. QED
    BY <1>1, <2>1, <2>2, OthersKeep
<1>3. QED
  BY <1>1, <1>2 DEF JobsInv

LEMMA TakeNameKeeps ==
  ASSUME JobsInv, TakeName
  PROVE  JobsInv'
<1>1. TypeInv /\ PublishedIsWhole /\ \A j \in Jobs : JobInv(j)
  BY DEF JobsInv
<1>2. UNCHANGED <<task, tab, request, temps>>
  BY DEF TakeName
<1>3. PICK i \in File :
        /\ target[i] = "absent" /\ target' = [target EXCEPT ![i] = "foreign"]
        /\ context' = [j \in Jobs |->
             [context[j] EXCEPT ![i].late = @ \/ context[j][i].look]]
  BY Zenon DEF TakeName
<1>4. ASSUME NEW j \in Jobs
      PROVE  context'[j] \in [File -> ContextType] /\ Resembles(j)
  <2>1. context[j] \in [File -> ContextType] /\ context[j][i].look \in BOOLEAN
    BY <1>1, ContextField
  <2>2. context'[j] = [context[j] EXCEPT ![i] =
                         [context[j][i] EXCEPT !.late = @ \/ context[j][i].look]]
    BY <1>3
  <2>3. \A n \in File \ {i} : context'[j][n] = context[j][n]
    BY <2>1, <2>2
  <2>4. context'[j][i] = [context[j][i] EXCEPT !.late = @ \/ context[j][i].look]
    BY <2>1, <2>2
  <2>5. context[j][i] \in ContextType
    BY <2>1
  <2>6. context'[j][i] \in ContextType
    BY <2>1, <2>4, <2>5 DEF ContextType
  <2>7. context'[j] \in [File -> ContextType]
    BY <2>1, <2>2, <2>4, <2>6
  <2>8. ASSUME context[j][i] = NoContext
        PROVE  context'[j][i] = NoContext
    <3>1. ~NoContext.look /\ ~NoContext.late
      BY DEF NoContext
    <3>2. context'[j][i] = [NoContext EXCEPT !.late = FALSE]
      BY <2>4, <2>8, <3>1
    <3>3. QED
      BY <3>2 DEF NoContext
  <2>9. /\ context'[j][i].on = context[j][i].on /\ context'[j][i].task = context[j][i].task
        /\ context'[j][i].open = context[j][i].open
        /\ context'[j][i].replace = context[j][i].replace
        /\ context'[j][i].over = context[j][i].over
        /\ context'[j][i].failed = context[j][i].failed
    BY <2>4, <2>5 DEF ContextType
  <2>10. QED
    BY <2>3, <2>7, <2>8, <2>9 DEF Resembles
<1>5. TypeInv' /\ Kept /\ PublishedIsWhole'
  <2>1. context' \in [Jobs -> [File -> ContextType]]
    BY <1>3, <1>4
  <2>2. QED
    BY <1>1, <1>2, <1>3, <2>1 DEF TypeInv, Kept, PublishedIsWhole
<1>6. \A j \in Jobs : JobInv(j)'
  BY <1>1, <1>2, <1>4, <1>5, OthersKeep
<1>7. QED
  BY <1>5, <1>6 DEF JobsInv

(* Every step of a tab, of its server side or of its task.                 *)
Step(j) == \/ Browse(j) \/ Serve(j) \/ Publish(j) \/ End(j)
           \/ Prepare(j) \/ Cancel(j) \/ Close(j) \/ Forget(j)

LEMMA StepIsGood ==
  ASSUME IInv, NEW j \in Jobs, Step(j)
  PROVE  Good(j)
<1>0. JobsInv /\ LookInv
  BY DEF IInv
<1>1. CASE Browse(j)
  BY <1>0, <1>1, SendKeeps, ReceiveKeeps, PollKeeps, ApiFinishKeeps, TabCancelKeeps DEF Browse
<1>2. CASE Serve(j)
  BY <1>0, <1>2, BeginKeeps, DataKeeps, FinishKeeps, OpenKeeps, ReadKeeps DEF Serve
<1>3. CASE Publish(j)
  BY <1>0, <1>3, RenameIntoKeeps DEF Publish
<1>4. CASE End(j)
  BY <1>0, <1>4, FreeKeeps, FinishedKeeps, LoseKeeps DEF End
<1>5. QED
  BY <1>0, <1>1, <1>2, <1>3, <1>4, PrepareKeeps, CancelKeeps, CloseKeeps, ForgetKeeps
     DEF Step

-----------------------------------------------------------------------------
(* While a connection is between its look and the rename, the server does  *)
(* nothing but that rename.                                                *)

(* A callback that is not a look: no look before it and none after it.     *)
LEMMA NoLookKept ==
  ASSUME TypeInv, Serving,
         \/ context' = context
         \/ \E k \in Jobs, n \in File, d \in ContextType : Put(k, n, d) /\ ~d.look
  PROVE  LookInv'
<1>1. ASSUME NEW j \in Jobs, NEW i \in File
      PROVE  ~context'[j][i].look
  <2>1. CASE context' = context
    BY <2>1 DEF Serving
  <2>2. ASSUME NEW k \in Jobs, NEW n \in File, NEW d \in ContextType, Put(k, n, d), ~d.look
        PROVE  ~context'[j][i].look
    <3>1. context'[j][i] = d \/ context'[j][i] = context[j][i]
      BY <2>2, PutIs
    <3>2. QED
      BY <2>2, <3>1 DEF Serving
  <2>3. QED
    BY <2>1, <2>2
<1>2. QED
  BY <1>1, Zenon DEF LookInv, Looking

(* A step that leaves connections and names alone, and cancels nothing.    *)
LEMMA LookFrame ==
  ASSUME LookInv, context' = context, task' = task, target' = target,
         \A j \in Jobs : tab'[j].op = tab[j].op
  PROVE  LookInv'
BY DEF LookInv, Looking, FinishStopped, Stopped

LEMMA BrowseLooks ==
  ASSUME TypeInv, LookInv, NEW j \in Jobs, Browse(j) \/ Close(j)
  PROVE  LookInv'
<1>1. ASSUME NEW p \in Points, TabTo(j, p)
      PROVE  \A k \in Jobs : tab'[k].op = tab[k].op
  BY <1>1, TabToIs
<1>2. CASE Send(j) \/ Close(j)
  <2>1. \E p \in Points : TabTo(j, p)
    BY <1>2, Zenon DEF Send, Close, Points
  <2>2. context' = context /\ task' = task /\ target' = target
    BY <1>2 DEF Send, Close
  <2>3. QED
    BY <1>1, <2>1, <2>2, LookFrame
<1>3. CASE Receive(j)
  <2>1. CASE GoOn(j)
    BY <1>3, <2>1, GoOnIs, LookFrame DEF Receive
  <2>2. CASE GiveUp(j)
    BY <1>3, <2>2, GiveUpIs, LookFrame DEF Receive
  <2>3. CASE TabTo(j, IF tab[j].op = "upload" THEN "poll" ELSE "over")
    <3>1. (IF tab[j].op = "upload" THEN "poll" ELSE "over") \in Points
      BY DEF Points
    <3>2. QED
      BY <1>1, <1>3, <2>3, <3>1, LookFrame DEF Receive
  <2>4. QED
    BY <1>3, <2>1, <2>2, <2>3 DEF Receive
<1>4. CASE Poll(j) \/ ApiFinish(j) \/ TabCancel(j)
  <2>1. Serving /\ context' = context
    BY <1>4 DEF Poll, ApiFinish, TabCancel
  <2>2. QED
    BY <2>1, NoLookKept
<1>5. QED
  BY <1>2, <1>3, <1>4 DEF Browse

LEMMA UploadLooks ==
  ASSUME TypeInv, NEW j \in Jobs, NEW i \in File, Begin(j) \/ Data(j, i) \/ Free(j, i)
  PROVE  LookInv'
<1>0. Serving
  BY DEF Begin, Data, Free
<1>1. \E n \in File, d \in ContextType : Put(j, n, d) /\ ~d.look
  <2>1. CASE Begin(j)
    <3> DEFINE n == request[j].file
               new == [NoContext EXCEPT !.on = TRUE, !.task = Known(j)]
               open == [new EXCEPT !.open = TRUE, !.replace = There(j)]
    <3>1. n \in File /\ Known(j) \in BOOLEAN /\ There(j) \in BOOLEAN
      BY RequestField, Zenon DEF Known, There
    <3>2. new \in ContextType /\ ~new.look
      BY <3>1, NoContextIs DEF ContextType
    <3>3. Failed(new) \in ContextType /\ ~Failed(new).look
      BY <3>2, FailedIs
    <3>4. open \in ContextType /\ ~open.look
      <4> HIDE DEF new
      <4>1. QED
        BY <3>1, <3>2 DEF ContextType
    <3>5. Put(j, n, Failed(new)) \/ Put(j, n, open)
      BY <2>1, Zenon DEF Begin
    <3> HIDE DEF n, new, open
    <3>6. QED
      BY <3>1, <3>3, <3>4, <3>5
  <2>2. CASE Data(j, i)
    <3> DEFINE c == context[j][i]
               more == [c EXCEPT !.got = @ + 1, !.held = @ + 1]
               none == [more EXCEPT !.held = 0]
    <3>1. c \in ContextType /\ ~c.look /\ c.got < Size
      BY <1>0, <2>2, ContextField DEF Serving, Data
    <3>2. Failed(c) \in ContextType /\ ~Failed(c).look
      BY <3>1, FailedIs
    <3>3. c.got + 1 \in 0 .. Size + 1 /\ c.held + 1 \in Nat
      BY <3>1, ContextField, Limits
    <3>4. more \in ContextType /\ ~more.look
      BY <3>1, <3>3 DEF ContextType
    <3>5. none \in ContextType /\ ~none.look
      <4> HIDE DEF more
      <4>1. QED
        BY <3>4 DEF ContextType
    <3>6. Put(j, i, Failed(c)) \/ Put(j, i, more) \/ Put(j, i, none)
      BY <2>2, Zenon DEF Data
    <3> HIDE DEF c, more, none
    <3>7. QED
      BY <3>2, <3>4, <3>5, <3>6
  <2>3. CASE Free(j, i)
    <3>1. Put(j, i, NoContext)
      BY <2>3 DEF Free
    <3>2. QED
      BY <3>1, NoContextIs
  <2>4. QED
    BY <2>1, <2>2, <2>3
<1>2. QED
  BY <1>0, <1>1, NoLookKept

LEMMA DownloadLooks ==
  ASSUME TypeInv, NEW j \in Jobs, Open(j) \/ Read(j) \/ Finished(j)
  PROVE  LookInv'
<1> DEFINE c == context[j][1]
           read == [c EXCEPT !.got = @ + 1]
           open == [NoContext EXCEPT !.on = TRUE, !.task = TRUE, !.open = TRUE]
           off == [c EXCEPT !.on = FALSE]
<1>0. Serving /\ 1 \in File
  BY FileIs, Limits DEF Open, Read, Finished
<1>1. c \in ContextType /\ ~c.look
  BY <1>0, ContextField DEF Serving
<1>2. Failed(c) \in ContextType /\ ~Failed(c).look
  BY <1>1, FailedIs
<1>3. open \in ContextType /\ ~open.look
  BY NoContextIs DEF ContextType
<1>4. off \in ContextType /\ ~off.look
  BY <1>1 DEF ContextType
<1>5. c.got < Parts => read \in ContextType /\ ~read.look
  <2>1. c.got < Parts => c.got + 1 \in 0 .. Size + 1
    BY <1>0, ContextField, Limits DEF Parts
  <2>2. QED
    BY <1>1, <2>1 DEF ContextType
<1>6. \/ context' = context \/ Put(j, 1, open) \/ Put(j, 1, Failed(c)) \/ Put(j, 1, off)
      \/ c.got < Parts /\ Put(j, 1, read)
  <2>1. CASE Open(j)
    BY <2>1, Zenon DEF Open
  <2>2. CASE Read(j)
    BY <2>2, Zenon DEF Read
  <2>3. CASE Finished(j)
    BY <2>3, Zenon DEF Finished
  <2>4. QED
    BY <2>1, <2>2, <2>3
<1> HIDE DEF c, read, open, off
<1>7. QED
  BY <1>0, <1>2, <1>3, <1>4, <1>5, <1>6, NoLookKept

(* Finish: a look is made only for a whole file and a free name.           *)
LEMMA FinishLooks ==
  ASSUME TypeInv, NEW j \in Jobs, NEW i \in File, Finish(j, i)
  PROVE  LookInv'
<1> DEFINE c == context[j][i]
<1>0. Serving /\ c \in ContextType /\ ~c.look
  BY ContextField DEF Finish, Serving
<1>1. CASE Put(j, i, [c EXCEPT !.over = TRUE])
  <2>1. [c EXCEPT !.over = TRUE] \in ContextType /\ ~[c EXCEPT !.over = TRUE].look
    BY <1>0 DEF ContextType
  <2>2. QED
    BY <1>0, <1>1, <2>1, NoLookKept
<1>2. CASE Put(j, i, [Failed(c) EXCEPT !.open = FALSE, !.look = FALSE, !.over = TRUE])
  <2> DEFINE d == [Failed(c) EXCEPT !.open = FALSE, !.look = FALSE, !.over = TRUE]
  <2>1. Failed(c) \in ContextType
    BY <1>0, FailedIs
  <2>2. d \in ContextType /\ ~d.look
    BY <2>1 DEF ContextType
  <2>3. QED
    BY <1>0, <1>2, <2>2, NoLookKept
<1>3. CASE Put(j, i, [c EXCEPT !.open = FALSE, !.look = FALSE, !.over = TRUE, !.held = 0])
  <2> DEFINE d == [c EXCEPT !.open = FALSE, !.look = FALSE, !.over = TRUE, !.held = 0]
  <2>1. d \in ContextType /\ ~d.look
    BY <1>0 DEF ContextType
  <2>2. QED
    BY <1>0, <1>3, <2>1, NoLookKept
<1>4. CASE /\ ~c.failed /\ Ready(j, c) /\ target[i] = "absent"
           /\ Put(j, i, [c EXCEPT !.look = TRUE])
           /\ UNCHANGED <<task, request, temps, target>>
  <2> DEFINE d == [c EXCEPT !.look = TRUE]
  <2>1. tab[j].op # "download" /\ c.on /\ ~c.over /\ tab' = tab
    BY DEF Finish
  <2>2. /\ d \in ContextType /\ d.on /\ d.got = Size /\ ~d.over /\ ~d.failed
        /\ ~FinishStopped(j, d)
    BY <1>0, <1>4, <2>1 DEF Ready, Complete, FinishStopped, Stopped, ContextType
  <2>3. Put(j, i, d)
    BY <1>4
  <2> HIDE DEF d
  <2>4. /\ context'[j][i] = d /\ \A n \in File \ {i} : context'[j][n] = context[j][n]
        /\ \A k \in Jobs \ {j} : context'[k] = context[k]
    BY <2>2, <2>3, PutIs
  <2>5. ASSUME NEW k \in Jobs, NEW n \in File
        PROVE  Looking(k, n)'
    <3>1. CASE k = j /\ n = i
      <4>1. ~(d.held > 0 /\ d.task /\ task[j].cancel)
        BY <2>2 DEF FinishStopped, Stopped
      <4>2. QED
        BY <1>4, <2>1, <2>2, <2>4, <3>1, <4>1 DEF Looking, FinishStopped, Stopped
    <3>2. CASE ~(k = j /\ n = i)
      <4>1. ~context'[k][n].look
        BY <1>0, <2>4, <3>2 DEF Serving
      <4>2. QED
        BY <4>1, Zenon DEF Looking
    <3>3. QED
      BY <3>1, <3>2
  <2>6. QED
    BY <2>5, Zenon DEF LookInv
<1>5. QED
  BY <1>1, <1>2, <1>3, <1>4, Zenon DEF Finish, Succeed, GoWrong

(* The rename ends its look, and leaves the others alone.                  *)
LEMMA RenameIntoLooks ==
  ASSUME JobsInv, LookInv, NEW j \in Jobs, NEW i \in File, RenameInto(j, i)
  PROVE  LookInv'
<1> DEFINE c == context[j][i]
<1>0. TypeInv /\ c \in ContextType /\ task[j] \in TaskType /\ c.look /\ tab' = tab
  BY ContextField, TaskField DEF JobsInv, RenameInto
<1>1. /\ ~context'[j][i].look
      /\ \A n \in File \ {i} : context'[j][n] = context[j][n]
      /\ \A k \in Jobs \ {j} : context'[k] = context[k]
  <2>1. CASE Succeed(j, i, c)
    <3> DEFINE d == [c EXCEPT !.open = FALSE, !.look = FALSE, !.over = TRUE, !.held = 0]
    <3>1. d \in ContextType /\ ~d.look
      BY <1>0 DEF ContextType
    <3>2. Put(j, i, d)
      BY <2>1 DEF Succeed
    <3> HIDE DEF d
    <3>3. QED
      BY <1>0, <3>1, <3>2, PutIs
  <2>2. CASE GoWrong(j, i, c, FALSE)
    <3> DEFINE d == [Failed(c) EXCEPT !.open = FALSE, !.look = FALSE, !.over = TRUE]
    <3>0. Failed(c) \in ContextType
      BY <1>0, FailedIs
    <3>1. d \in ContextType /\ ~d.look
      BY <3>0 DEF ContextType
    <3>2. Put(j, i, d)
      BY <2>2 DEF GoWrong
    <3> HIDE DEF d
    <3>3. QED
      BY <1>0, <3>1, <3>2, PutIs
  <2>3. QED
    BY <2>1, <2>2, Zenon DEF RenameInto
<1>2. \A k \in Jobs : task'[k].cancel = task[k].cancel
  <2>1. Good(j)
    BY RenameIntoKeeps
  <2>2. \A k \in Jobs \ {j} : task'[k] = task[k]
    BY <2>1 DEF Good, Only
  <2>3. task'[j].cancel = task[j].cancel
    <3>1. CASE Succeed(j, i, c)
      <4> DEFINE t == IF c.task THEN [Flushed(j, c) EXCEPT !.count = @ + 1] ELSE task[j]
      <4>1. Flushed(j, c) \in TaskType /\ Flushed(j, c).cancel = task[j].cancel
        BY <1>0, FlushedIs
      <4>2. t.cancel = task[j].cancel
        BY <4>1 DEF TaskType
      <4>3. task' = [task EXCEPT ![j] = t]
        BY <3>1 DEF Succeed
      <4> HIDE DEF t
      <4>4. QED
        BY <1>0, <4>2, <4>3 DEF TypeInv
    <3>2. CASE GoWrong(j, i, c, FALSE)
      <4>1. /\ Reported(task[j], c, FALSE) \in TaskType
            /\ Reported(task[j], c, FALSE).cancel = task[j].cancel
        BY <1>0, ReportedIs
      <4>2. task' = [task EXCEPT ![j] = Reported(task[j], c, FALSE)]
        BY <3>2 DEF GoWrong
      <4>3. QED
        BY <1>0, <4>1, <4>2 DEF TypeInv
    <3>3. QED
      BY <3>1, <3>2, Zenon DEF RenameInto
  <2>4. QED
    BY <2>2, <2>3
<1>3. \A n \in File : target'[n] = "foreign" => target[n] = "foreign"
  <2>1. CASE Named(c, i)
    BY <1>0, <2>1 DEF Named, TypeInv
  <2>2. CASE UNCHANGED target
    BY <2>2
  <2>3. QED
    BY <2>1, <2>2, Zenon DEF RenameInto
<1>4. ASSUME NEW k \in Jobs, NEW n \in File
      PROVE  Looking(k, n)'
  <2>1. CASE k = j /\ n = i
    BY <1>1, <2>1, Zenon DEF Looking
  <2>2. CASE ~(k = j /\ n = i)
    <3>1. context'[k][n] = context[k][n] /\ Looking(k, n)
      BY <1>1, <2>2 DEF LookInv
    <3>2. QED
      BY <1>0, <1>2, <1>3, <3>1 DEF Looking, FinishStopped, Stopped
  <2>3. QED
    BY <2>1, <2>2
<1>5. QED
  BY <1>4, Zenon DEF LookInv

(* Whoever looks is told that the file came late.                          *)
LEMMA TakeNameLooks ==
  ASSUME TypeInv, LookInv, TakeName
  PROVE  LookInv'
<1>1. UNCHANGED <<task, tab>>
  BY DEF TakeName
<1>2. PICK i \in File :
        /\ target[i] = "absent" /\ target' = [target EXCEPT ![i] = "foreign"]
        /\ context' = [j \in Jobs |->
             [context[j] EXCEPT ![i].late = @ \/ context[j][i].look]]
  BY Zenon DEF TakeName
<1>3. ASSUME NEW k \in Jobs, NEW n \in File
      PROVE  Looking(k, n)'
  <2>1. context[k] \in [File -> ContextType] /\ context[k][i].look \in BOOLEAN
        /\ context[k][i] \in ContextType /\ Looking(k, n)
    BY ContextField DEF LookInv
  <2>2. context'[k] = [context[k] EXCEPT ![i] =
                         [context[k][i] EXCEPT !.late = @ \/ context[k][i].look]]
    BY <1>2
  <2>3. CASE n = i
    <3>1. context'[k][n] = [context[k][n] EXCEPT !.late = @ \/ context[k][n].look]
      BY <2>1, <2>2, <2>3
    <3>2. /\ context'[k][n].look = context[k][n].look /\ context'[k][n].on = context[k][n].on
          /\ context'[k][n].got = context[k][n].got /\ context'[k][n].over = context[k][n].over
          /\ context'[k][n].failed = context[k][n].failed
          /\ context'[k][n].held = context[k][n].held
          /\ context'[k][n].task = context[k][n].task
          /\ context[k][n].look => context'[k][n].late
      BY <2>1, <2>3, <3>1 DEF ContextType
    <3>3. QED
      BY <1>1, <2>1, <3>2 DEF Looking, FinishStopped, Stopped
  <2>4. CASE n # i
    <3>1. context'[k][n] = context[k][n] /\ target'[n] = target[n]
      BY <1>2, <2>1, <2>2, <2>4 DEF TypeInv
    <3>2. QED
      BY <1>1, <2>1, <3>1 DEF Looking, FinishStopped, Stopped
  <2>5. QED
    BY <2>3, <2>4
<1>4. QED
  BY <1>3, Zenon DEF LookInv

LEMMA StepLooks ==
  ASSUME IInv, NEW j \in Jobs, Step(j)
  PROVE  LookInv'
<1>0. JobsInv /\ LookInv /\ TypeInv
  BY DEF IInv, JobsInv
<1>1. CASE Browse(j) \/ Close(j)
  BY <1>0, <1>1, BrowseLooks
<1>2. CASE Serve(j)
  BY <1>0, <1>2, UploadLooks, FinishLooks, DownloadLooks, FileIs, Limits DEF Serve
<1>3. CASE Publish(j)
  BY <1>0, <1>3, RenameIntoLooks DEF Publish
<1>4. CASE End(j)
  <2>1. CASE Lose(j)
    BY <1>0, <2>1, NoLookKept DEF Lose
  <2>2. QED
    BY <1>0, <1>4, <2>1, UploadLooks, DownloadLooks DEF End
<1>5. CASE Prepare(j) \/ Cancel(j) \/ Forget(j)
  <2>1. Serving /\ context' = context
    BY <1>5 DEF Prepare, Cancel, Forget
  <2>2. QED
    BY <1>0, <2>1, NoLookKept
<1>6. QED
  BY <1>1, <1>2, <1>3, <1>4, <1>5 DEF Step

-----------------------------------------------------------------------------
LEMMA NextHolds == IInv /\ [Next]_vars => IInv'
<1> SUFFICES ASSUME IInv, [Next]_vars PROVE IInv'
  OBVIOUS
<1>0. JobsInv /\ LookInv /\ TypeInv
  BY DEF IInv, JobsInv
<1>1. ASSUME NEW j \in Jobs, Step(j)
      PROVE  IInv'
  <2>1. Good(j) /\ LookInv'
    BY <1>1, StepIsGood, StepLooks
  <2>2. QED
    BY <1>0, <2>1, GoodForAll DEF IInv
<1>2. CASE TakeName
  BY <1>0, <1>2, TakeNameKeeps, TakeNameLooks DEF IInv
<1>3. CASE UNCHANGED vars
  <2>1. TypeInv' /\ Kept /\ PublishedIsWhole'
    BY <1>0, <1>3 DEF vars, JobsInv, TypeInv, PublishedIsWhole, Kept
  <2>2. \A j \in Jobs : JobInv(j)'
    BY <1>0, <1>3, <2>1, OthersKeep DEF vars, JobsInv, Resembles
  <2>3. LookInv'
    BY <1>0, <1>3, LookFrame DEF vars
  <2>4. QED
    BY <2>1, <2>2, <2>3 DEF IInv, JobsInv
<1>4. QED
  BY <1>1, <1>2, <1>3 DEF Next, Step

LEMMA Invariance == Spec => []IInv
<1>1. Init => IInv
  <2>1. Init => LookInv
    BY NoContextIs DEF Init, LookInv, Looking
  <2>2. QED
    BY <2>1, InitHolds DEF IInv
<1>2. QED
  BY <1>1, NextHolds, PTL DEF Spec

LEMMA JobsHold == Spec => []JobsInv
<1>1. IInv => JobsInv
  BY DEF IInv
<1>2. QED
  BY <1>1, Invariance, PTL

(* Nothing but whole files gets a final name, whatever connection is lost, *)
(* whatever length a body has and however many tabs upload at a time       *)
(* (filemgr_upload_finish compares the bytes before it publishes).         *)
THEOREM NamesAreWhole == Spec => []PublishedIsWhole
<1>1. JobsInv => PublishedIsWhole
  BY DEF JobsInv
<1>2. QED
  BY <1>1, JobsHold, PTL

(* An upload that is done has published every file of it: the tab counts   *)
(* on at most what the server has counted, and the server on what landed.  *)
THEOREM DoneIsPublished == Spec => []DoneMeansPublished
<1>1. JobsInv => DoneMeansPublished
  BY DEF JobsInv, JobInv, DoneInv, DoneMeansPublished
<1>2. QED
  BY <1>1, JobsHold, PTL

(* The types, and that no task is freed while a connection refers to it:   *)
(* the count of streams is the number of those connections.                *)
THEOREM ReferencesHold == Spec => []ReferredIsKept
<1>1. ASSUME JobsInv
      PROVE  ReferredIsKept
  <2>1. TypeInv /\ \A j \in Jobs : JobInv(j)
    BY <1>1 DEF JobsInv
  <2>2. ASSUME NEW j \in Jobs, NEW i \in File, context[j][i].on, context[j][i].task
        PROVE  task[j].state # "FREED"
    <3>1. CASE tab[j].op = "download"
      BY <1>1, <2>2, <3>1, DownStream
    <3>2. CASE tab[j].op # "download"
      <4>1. i \in Streams(j)
        BY <2>2, Zenon DEF Streams
      <4>2. QED
        BY <2>1, <3>2, <4>1 DEF JobInv, CountInv
    <3>3. QED
      BY <3>1, <3>2
  <2>3. TypeOK
    <3>1. ASSUME NEW j \in Jobs
          PROVE  task[j].count \in 0 .. Files /\ task[j].streams \in 0 .. Files
      <4>1. /\ Cardinality(Landed(j)) \in 0 .. tab[j].index
            /\ Cardinality(Streams(j)) \in 0 .. Files
        BY <2>1, CountsAreSmall
      <4>2. tab[j].index \in 1 .. Files /\ task[j].count \in Nat /\ Files \in Nat
        BY <2>1, TabField, TaskField, Limits
      <4>3. CASE tab[j].op = "download"
        BY <2>1, <4>2, <4>3 DEF JobInv, DownInv
      <4>4. CASE tab[j].op # "download"
        <5>1. /\ task[j].streams = Cardinality(Streams(j))
              /\ task[j].count <= Cardinality(Landed(j))
          BY <2>1, <4>4 DEF JobInv, CountInv
        <5>2. QED
          BY <4>1, <4>2, <5>1
      <4>5. QED
        BY <4>3, <4>4
    <3>2. \A j \in Jobs : /\ task[j].state \in States /\ tab[j].index \in File
                          /\ \A i \in File : context[j][i].got \in 0 .. Size + 1
      BY <2>1, TaskField, TabField, ContextField, FileIs
    <3>3. QED
      BY <2>1, <3>1, <3>2, TargetField DEF TypeOK, TypeInv, States
  <2>4. QED
    BY <2>2, <2>3 DEF ReferredIsKept
<1>2. QED
  BY <1>1, JobsHold, PTL

(* A file of another program is replaced only by an upload that found it   *)
(* when its request came and has leave, or, on a file system without       *)
(* links, if it appeared between the look at the name and the rename       *)
(* (upload.c: lstat, then rename): then leave is not asked.                *)
THEOREM LeaveIsAsked == Spec => NoClobber
<1> DEFINE Excused(i) == \E j \in Jobs : \/ context[j][i].replace /\ tab[j].overwrite
                                         \/ context[j][i].look /\ context[j][i].late
           A == \A i \in File : target[i] = "foreign" /\ target'[i] # "foreign" => Excused(i)
<1>1. ASSUME IInv, [Next]_vars
      PROVE  A
  <2> SUFFICES ASSUME NEW i \in File, target[i] = "foreign", target'[i] # "foreign"
               PROVE  Excused(i)
    OBVIOUS
  <2>1. TypeInv /\ LookInv /\ \A j \in Jobs : JobInv(j)
    BY <1>1 DEF IInv, JobsInv
  <2>2. ASSUME NEW j \in Jobs, NEW n \in File, Named(context[j][n], n)
        PROVE  n = i
    BY <2>1, <2>2 DEF Named, TypeInv
  <2>3. ASSUME NEW j \in Jobs, NEW n \in File, Finish(j, n)
        PROVE  context[j][i].replace /\ tab[j].overwrite
    <3>1. /\ Named(context[j][n], n)
          /\ Replaces(context[j][n]) \/ target[n] = "absent"
      <4>1. ~(UNCHANGED target)
        OBVIOUS
      <4>2. QED
        BY <2>3, <4>1, Zenon DEF Finish
    <3>2. Replaces(context[j][i])
      BY <2>2, <3>1
    <3>3. QED
      BY <2>1, <3>2 DEF Replaces, JobInv, TabInv
  <2>4. ASSUME NEW j \in Jobs, NEW n \in File, RenameInto(j, n)
        PROVE  context[j][i].look /\ context[j][i].late
    <3>1. Named(context[j][n], n) /\ context[j][n].look
      <4>1. ~(UNCHANGED target)
        OBVIOUS
      <4>2. QED
        BY <2>4, <4>1, Zenon DEF RenameInto
    <3>2. n = i
      BY <2>2, <3>1
    <3>3. QED
      BY <2>1, <3>1, <3>2 DEF LookInv, Looking
  <2>5. ASSUME NEW j \in Jobs, Browse(j) \/ End(j) \/ Cancel(j) \/ Close(j) \/ Forget(j)
                               \/ Prepare(j) \/ Begin(j) \/ Open(j) \/ Read(j)
        PROVE  target' = target
    BY <2>5 DEF Browse, End, Send, Receive, Poll, ApiFinish, TabCancel, Begin, Open, Read,
                Free, Finished, Lose, Cancel, Close, Forget, Prepare
  <2>6. ASSUME NEW j \in Jobs, NEW n \in File, Data(j, n)
        PROVE  target' = target
    BY <2>6 DEF Data
  <2>7. ~TakeName
    BY <2>1 DEF TakeName, TypeInv
  <2>8. ~(UNCHANGED vars)
    BY DEF vars
  <2>9. PICK j \in Jobs : Step(j)
    BY <1>1, <2>7, <2>8 DEF Next, Step
  <2>10. \E n \in File : Finish(j, n) \/ RenameInto(j, n)
    BY <2>5, <2>6, <2>9 DEF Step, Serve, Publish
  <2>11. QED
    BY <2>3, <2>4, <2>10
<1>2. QED
  BY <1>1, Invariance, PTL DEF Spec, NoClobber, A, Excused

(* A job that ended stays as it ended: only a connection that works makes  *)
(* a task run (upload_flush), and its task has not ended.                  *)
THEOREM EndsStay == Spec => EndedStaysEnded
<1> DEFINE A == \A j \in Jobs : task[j].state \in Ended =>
                  task'[j].state \in {task[j].state, "FREED"}
<1>1. ASSUME IInv, [Next]_vars
      PROVE  A
  <2>1. ASSUME NEW j \in Jobs, Good(j)
        PROVE  A
    <3>1. \A k \in Jobs \ {j} : task'[k] = task[k]
      BY <2>1 DEF Good, Only
    <3>2. QED
      BY <2>1, <3>1 DEF Good, Final
  <2>2. ASSUME NEW j \in Jobs, Step(j)
        PROVE  A
    <3> HIDE DEF A
    <3>1. QED
      BY <1>1, <2>1, <2>2, StepIsGood
  <2>3. CASE UNCHANGED vars \/ TakeName
    BY <2>3 DEF vars, TakeName
  <2> HIDE DEF A
  <2>4. QED
    BY <1>1, <2>2, <2>3 DEF Next, Step
<1>2. QED
  BY <1>1, Invariance, PTL DEF Spec, EndedStaysEnded, A
=============================================================================
