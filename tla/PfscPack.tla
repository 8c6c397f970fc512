------------------------------ MODULE PfscPack ------------------------------
(***************************************************************************)
(* pack_pfsc_into_stream and its pool of compression threads: the calling  *)
(* thread reads blocks of the exFAT stage into a ring of slots, the        *)
(* workers compress them in any order, the caller stores them in the order *)
(* of the image, and checkpoints what is stored.  The call is made again   *)
(* after a failure, a cancellation or a crash, with any number of threads. *)
(*                                                                         *)
(* A step between lock and unlock of pool.lock is one action.  A stored    *)
(* block takes one place; what it is compressed to is left out.            *)
(***************************************************************************)
EXTENDS Naturals, Sequences

CONSTANTS
  Blocks,  \* blocks of the image
  Counts,  \* how many threads a call may use
  Hard,    \* the blocks that do not get smaller, and are stored as they are
  Every,   \* blocks between two checkpoints
  Calls,   \* bound: how often the call is made
  Faults   \* what may go wrong

AllFaults == {"read", "write", "compress", "thread", "crash"}

ASSUME PackAssumption ==
  /\ Blocks \in Nat \ {0} /\ Every \in Nat \ {0} /\ Calls \in Nat \ {0}
  /\ Counts \subseteq Nat \ {0} /\ Counts # {}
  /\ Hard \subseteq 0 .. Blocks - 1
  /\ Faults \subseteq AllFaults

VARIABLES
  pool,    \* pfsc_pool_t: count and stopping
  slot,    \* its slots
  thread,  \* the compression threads
  main,    \* the calling thread
  buffer,  \* write_buffer: blocks that are not in the file
  file,    \* the blocks in the file, by their place
  table,   \* the entries of the offset table in the file
  safe,    \* file and table when they were last synchronized
  mark,    \* pack_next_block of the last checkpoint
  cancel,  \* cancel_requested
  calls    \* calls so far

vars == <<pool, slot, thread, main, buffer, file, table, safe, mark, cancel, calls>>
disk == <<buffer, file, table, safe, mark>>

Block   == 0 .. Blocks - 1
Threads == UNION {1 .. n : n \in Counts}
Slots   == UNION {0 .. n - 1 : n \in Counts}
NoBlock == Blocks
Empty   == [p \in Block |-> NoBlock]
Fresh   == [pending |-> FALSE, claimed |-> FALSE, done |-> FALSE, error |-> FALSE,
            raw |-> NoBlock, packed |-> NoBlock]
NoThread == [pc |-> "none", slot |-> 0, got |-> NoBlock]
Ring    == 0 .. pool.count - 1
At(point) == main.pc = point
Place(b) == b % pool.count
Goto(point) == main' = [main EXCEPT !.pc = point]

(* goto failed_pool.                                                       *)
Fail(e) == main' = [main EXCEPT !.pc = "stop", !.rc = e]

Init ==
  /\ pool = [count |-> 1, stopping |-> FALSE]
  /\ slot = [s \in Slots |-> Fresh]
  /\ thread = [t \in Threads |-> NoThread]
  /\ main = [pc |-> "idle", dispatch |-> 0, write |-> 0, from |-> 0, rc |-> "none"]
  /\ buffer = <<>> /\ file = Empty /\ table = {}
  /\ safe = [file |-> Empty, table |-> {}]
  /\ mark = 0 /\ cancel = FALSE /\ calls = 0

-----------------------------------------------------------------------------
(***************************************************************************)
(* The calling thread.                                                     *)
(***************************************************************************)

(* The call up to its loop.                                                *)
Call ==
  /\ At("idle") /\ calls < Calls
  /\ calls' = calls + 1
  /\ \E n \in Counts :
       /\ pool' = [count |-> n, stopping |-> FALSE]
       /\ slot' = [s \in Slots |-> Fresh]
       /\ main' = [pc |-> "create", dispatch |-> mark, write |-> mark, from |-> mark,
                   rc |-> "none"]
  /\ buffer' = <<>>
  /\ IF mark = 0 THEN table' = {} /\ UNCHANGED file
     ELSE /\ file' = [p \in Block |-> IF p < mark THEN file[p] ELSE NoBlock]
          /\ UNCHANGED table
  /\ UNCHANGED <<thread, safe, mark, cancel>>

Started(n) == [t \in Threads |-> IF t <= n THEN [NoThread EXCEPT !.pc = "look"] ELSE NoThread]

(* The threads are created, and a progress callback may end the call.  The *)
(* offsets before mark that are read back are there: CheckpointBacked.     *)
Create ==
  /\ At("create")
  /\ LET all == IF pool.count > 1 THEN pool.count ELSE 0 IN
     \/ /\ thread' = Started(all)
        /\ \/ Goto(IF mark < Blocks THEN "fill" ELSE "stop")
           \/ cancel /\ Fail("canceled")
     \/ /\ "thread" \in Faults
        /\ \E n \in 0 .. all - 1 : thread' = Started(n)
        /\ Fail("error")
  /\ UNCHANGED <<pool, slot, disk, cancel, calls>>

(* Mutant: a slot is missing for the last block dispatched.                *)
WindowOver == main.dispatch < Blocks /\ main.dispatch - main.write <= pool.count

Window == main.dispatch < Blocks /\ main.dispatch - main.write < pool.count

(* The next block is read into its slot, without the lock.                 *)
Fill ==
  /\ At("fill") /\ Window
  /\ \/ /\ slot' = [slot EXCEPT ![Place(main.dispatch)].raw = main.dispatch]
        /\ Goto("post")
     \/ /\ "read" \in Faults
        /\ Fail("error")
        /\ UNCHANGED slot
  /\ UNCHANGED <<pool, thread, disk, cancel, calls>>

(* pthread_cond_signal wakes one of the threads that wait.                 *)
Signal ==
  LET asleep == {t \in Threads : thread[t].pc = "wait"} IN
  IF asleep = {} THEN UNCHANGED thread
  ELSE \E t \in asleep : thread' = [thread EXCEPT ![t].pc = "look"]

Dispatched(s) == [slot[s] EXCEPT !.pending = TRUE, !.claimed = FALSE, !.done = FALSE, !.error = FALSE]

(* The slot is handed to the pool.                                         *)
Post ==
  /\ At("post") /\ pool.count > 1
  /\ slot' = [slot EXCEPT ![Place(main.dispatch)] = Dispatched(Place(main.dispatch))]
  /\ main' = [main EXCEPT !.pc = "fill", !.dispatch = @ + 1]
  /\ Signal
  /\ UNCHANGED <<pool, disk, cancel, calls>>

(* With one thread the block is compressed by the caller.                  *)
Inline ==
  /\ At("post") /\ pool.count = 1
  /\ \/ /\ cancel
        /\ Fail("canceled")
        /\ UNCHANGED slot
     \/ /\ ~cancel
        /\ \E bad \in BOOLEAN :
             /\ bad => "compress" \in Faults
             /\ slot' = [slot EXCEPT ![0].pending = TRUE, ![0].done = TRUE,
                           ![0].error = bad, ![0].packed = slot[0].raw]
        /\ main' = [main EXCEPT !.pc = "fill", !.dispatch = @ + 1]
  /\ UNCHANGED <<pool, thread, disk, cancel, calls>>

Due == Place(main.write)

(* The wait for the block that is to be stored next.                       *)
Await ==
  /\ \/ At("fill") /\ ~Window /\ main.write < Blocks
     \/ At("await")
  /\ \/ cancel /\ Fail("canceled")
     \/ ~cancel /\ slot[Due].done
          /\ IF slot[Due].error THEN Fail("error") ELSE Goto("store")
     \/ ~cancel /\ ~slot[Due].done /\ Goto("asleep")
  /\ UNCHANGED <<pool, slot, thread, disk, cancel, calls>>

(* write_buffer_flush: the buffer's blocks end where the next one starts.  *)
Flushed(f) == [p \in Block |-> IF p < main.write /\ p >= main.write - Len(buffer)
                               THEN buffer[p - (main.write - Len(buffer)) + 1] ELSE f[p]]

(* Mutant: a block that is stored as it is takes the place of the buffer.  *)
StoredHardOver == [file EXCEPT ![main.write - Len(buffer)] = slot[Due].raw]

StoredHard == [Flushed(file) EXCEPT ![main.write] = slot[Due].raw]

(* The block goes to the buffer, which is written out when it is full; one *)
(* that did not get smaller goes to the file, after the buffer.            *)
Store ==
  /\ At("store")
  /\ \/ /\ slot[Due].raw \in Hard
        /\ file' = StoredHard /\ buffer' = <<>>
        /\ Goto("release")
     \/ /\ slot[Due].raw \notin Hard
        /\ \/ buffer' = Append(buffer, slot[Due].packed) /\ UNCHANGED file
           \/ buffer # <<>> /\ buffer' = <<slot[Due].packed>> /\ file' = Flushed(file)
        /\ Goto("release")
     \/ /\ "write" \in Faults
        /\ Fail("error")
        /\ UNCHANGED <<file, buffer>>
  /\ UNCHANGED <<pool, slot, thread, table, safe, mark, cancel, calls>>

(* The slot is free again.  A progress callback may end the call.          *)
Release ==
  /\ At("release")
  /\ slot' = [slot EXCEPT ![Due].pending = FALSE, ![Due].done = FALSE]
  /\ LET n == main.write + 1
         due == n = Blocks \/ n - main.from >= Every IN
     \/ main' = [main EXCEPT !.write = n, !.pc = IF due THEN "flush" ELSE "fill"]
     \/ ~due /\ cancel
          /\ main' = [main EXCEPT !.write = n, !.pc = "stop", !.rc = "canceled"]
  /\ UNCHANGED <<pool, thread, disk, cancel, calls>>

(* A checkpoint: the buffer and the offsets since the last one are written.*)
Flush ==
  /\ At("flush")
  /\ \/ /\ file' = Flushed(file) /\ buffer' = <<>>
        /\ table' = table \union (main.from .. main.write)
        /\ Goto("sync")
     \/ /\ "write" \in Faults
        /\ Fail("error")
        /\ UNCHANGED <<file, buffer, table>>
  /\ UNCHANGED <<pool, slot, thread, safe, mark, cancel, calls>>

(* Mutant: the checkpoint is written without fsync.                        *)
SyncedNot == safe

Synced == [file |-> file, table |-> table]

Sync ==
  /\ At("sync")
  /\ \/ /\ safe' = Synced
        /\ Goto("mark")
     \/ /\ "write" \in Faults
        /\ Fail("error")
        /\ UNCHANGED safe
  /\ UNCHANGED <<pool, slot, thread, buffer, file, table, mark, cancel, calls>>

(* The checkpoint callback, and a progress callback.                       *)
Mark ==
  /\ At("mark")
  /\ \/ /\ mark' = main.write
        /\ \/ main' = [main EXCEPT !.from = main.write,
                                   !.pc = IF main.write = Blocks THEN "stop" ELSE "fill"]
           \/ cancel /\ Fail("canceled")
     \/ /\ "write" \in Faults
        /\ Fail("error")
        /\ UNCHANGED mark
  /\ UNCHANGED <<pool, slot, thread, buffer, file, table, safe, cancel, calls>>

AllWoken == [t \in Threads |-> IF thread[t].pc = "wait" THEN [thread[t] EXCEPT !.pc = "look"]
                               ELSE thread[t]]

(* The pool stops: after the last block, and again when the end fails.     *)
StopPool ==
  /\ At("stop")
  /\ pool' = [pool EXCEPT !.stopping = TRUE]
  /\ thread' = AllWoken
  /\ Goto("join")
  /\ UNCHANGED <<slot, disk, cancel, calls>>

Joined == \A t \in Threads : thread[t].pc \in {"none", "exit"}

(* pthread_join; a call that failed frees the slots and returns.           *)
Join ==
  /\ At("join") /\ Joined
  /\ IF main.rc = "none" THEN Goto("finish") ELSE Goto("end")
  /\ thread' = [t \in Threads |-> IF thread[t].pc = "exit" THEN NoThread ELSE thread[t]]
  /\ UNCHANGED <<pool, slot, disk, cancel, calls>>

(* The whole offset table is written; the conversion goes on to verify.    *)
Finish ==
  /\ At("finish")
  /\ \/ cancel /\ Fail("canceled") /\ UNCHANGED <<table, safe>>
     \/ "write" \in Faults /\ Fail("error") /\ UNCHANGED <<table, safe>>
     \/ /\ table' = 0 .. Blocks
        /\ safe' = [file |-> file, table |-> table']
        /\ main' = [main EXCEPT !.pc = "end", !.rc = "packed"]
  /\ UNCHANGED <<pool, slot, thread, buffer, file, mark, cancel, calls>>

(* The conversion is asked for again.                                      *)
Return ==
  /\ At("end") /\ main.rc # "packed"
  /\ Goto("idle")
  /\ cancel' = FALSE
  /\ UNCHANGED <<pool, slot, thread, disk, calls>>

-----------------------------------------------------------------------------
(***************************************************************************)
(* pfsc_worker.                                                            *)
(***************************************************************************)

Open(s) == slot[s].pending /\ ~slot[s].claimed /\ ~slot[s].done

(* Under the lock: the pool stops, a slot is claimed, or the thread waits. *)
Look(t) ==
  /\ thread[t].pc = "look"
  /\ \/ /\ pool.stopping
        /\ thread' = [thread EXCEPT ![t].pc = "exit"]
        /\ UNCHANGED slot
     \/ /\ ~pool.stopping
        /\ \E s \in Ring :
             /\ Open(s) /\ \A r \in 0 .. s - 1 : ~Open(r)
             /\ slot' = [slot EXCEPT ![s].claimed = TRUE]
             /\ thread' = [thread EXCEPT ![t].pc = "busy", ![t].slot = s]
     \/ /\ ~pool.stopping /\ \A s \in Ring : ~Open(s)
        /\ thread' = [thread EXCEPT ![t].pc = "wait"]
        /\ UNCHANGED slot
  /\ UNCHANGED <<pool, main, disk, cancel, calls>>

(* Without the lock: the raw block is compressed, unless canceled.         *)
Compress(t) ==
  /\ thread[t].pc = "busy"
  /\ \/ /\ ~cancel
        /\ \E bad \in BOOLEAN :
             /\ bad => "compress" \in Faults
             /\ thread' = [thread EXCEPT ![t].pc = "ready",
                             ![t].got = IF bad THEN NoBlock ELSE slot[thread[t].slot].raw]
     \/ /\ cancel
        /\ thread' = [thread EXCEPT ![t].pc = "ready", ![t].got = NoBlock]
  /\ UNCHANGED <<pool, slot, main, disk, cancel, calls>>

(* Mutant: the caller is not woken for a result.                           *)
Unwoken == main

Woken == IF main.pc = "asleep" THEN [main EXCEPT !.pc = "await"] ELSE main

(* The result is delivered and the caller woken.                           *)
Deliver(t) ==
  /\ thread[t].pc = "ready"
  /\ LET s == thread[t].slot IN
     slot' = [slot EXCEPT ![s].claimed = FALSE, ![s].done = TRUE,
                ![s].error = thread[t].got = NoBlock, ![s].packed = thread[t].got]
  /\ thread' = [thread EXCEPT ![t] = [NoThread EXCEPT !.pc = "look"]]
  /\ main' = Woken
  /\ UNCHANGED <<pool, disk, cancel, calls>>

-----------------------------------------------------------------------------
Cancel ==
  /\ ~cancel /\ cancel' = TRUE
  /\ main.pc \notin {"idle", "end"}
  /\ UNCHANGED <<pool, slot, thread, main, disk, calls>>

(* The payload dies; what was not synchronized is lost or not.             *)
Crash ==
  /\ "crash" \in Faults /\ main.pc \notin {"idle", "end"}
  /\ file' \in {file, safe.file} /\ table' \in {table, safe.table}
  /\ buffer' = <<>> /\ cancel' = FALSE
  /\ thread' = [t \in Threads |-> NoThread]
  /\ main' = [main EXCEPT !.pc = "idle"]
  /\ UNCHANGED <<pool, slot, safe, mark, calls>>

Caller == \/ Create \/ Fill \/ Post \/ Inline \/ Await \/ Store \/ Release
          \/ Flush \/ Sync \/ Mark \/ StopPool \/ Join \/ Finish

Worker(t) == Look(t) \/ Compress(t) \/ Deliver(t)

Next == \/ Call \/ Caller \/ Return \/ Cancel \/ Crash
        \/ \E t \in Threads : Worker(t)

Spec == Init /\ [][Next]_vars

(* Threads are scheduled, and a mutex that is free is obtained.            *)
FairSpec == Spec /\ WF_vars(Caller) /\ \A t \in Threads : WF_vars(Worker(t))

-----------------------------------------------------------------------------
Places == 0 .. Blocks

TypeOK ==
  /\ pool \in [count : Counts \union {1}, stopping : BOOLEAN]
  /\ slot \in [Slots -> [pending : BOOLEAN, claimed : BOOLEAN, done : BOOLEAN,
                         error : BOOLEAN, raw : Places, packed : Places]]
  /\ thread \in [Threads -> [pc : {"none", "look", "wait", "busy", "ready", "exit"},
                             slot : Slots, got : Places]]
  /\ main \in [pc : {"idle", "create", "fill", "post", "await", "asleep", "store", "release",
                     "flush", "sync", "mark", "stop", "join", "finish", "end"},
               dispatch : Places, write : Places, from : Places,
               rc : {"none", "error", "canceled", "packed"}]
  /\ buffer \in Seq(Places) /\ file \in [Block -> Places] /\ table \subseteq Places
  /\ mark \in Places /\ cancel \in BOOLEAN /\ calls \in 0 .. Calls

(* The slots are freed only when no thread is left that could use them.    *)
NoThreadOutlives == main.pc \in {"idle", "finish", "end"} => \A t \in Threads : thread[t].pc = "none"

(* Every variable has its type; a slot holds the block that is due in it,  *)
(* the caller never writes a slot a thread works on, no two threads work   *)
(* on one slot, and the slots outlive the threads.                         *)
RingIsSound ==
  /\ TypeOK /\ NoThreadOutlives
  /\ main.write <= main.dispatch /\ main.dispatch - main.write <= pool.count
  /\ \A b \in Block : main.pc \notin {"idle", "create", "end"} /\ main.write <= b /\ b < main.dispatch
       => slot[Place(b)].raw = b
  /\ \A t \in Threads : thread[t].pc \in {"busy", "ready"} =>
       /\ slot[thread[t].slot].claimed /\ slot[thread[t].slot].pending
       /\ \A u \in Threads : thread[u].pc \in {"busy", "ready"} /\ thread[u].slot = thread[t].slot
            => u = t

(* The blocks and the offsets a checkpoint counts are on the medium, so    *)
(* that the next start can go on from it whenever the payload dies.        *)
CheckpointBacked ==
  /\ \A b \in 0 .. mark - 1 : safe.file[b] = b
  /\ mark > 0 => 0 .. mark \subseteq safe.table

(* The buffer with what the file has before it.                            *)
Stored ==
  LET here == IF main.pc = "release" THEN main.write + 1 ELSE main.write IN
  IF main.pc = "idle" THEN [i \in 1 .. mark |-> file[i - 1]]
  ELSE [i \in 1 .. here |->
          LET flushed == here - Len(buffer) IN
          IF i <= flushed THEN file[i - 1] ELSE buffer[i - flushed]]

Called == CASE At("idle") -> "ready"
            [] At("end") -> IF main.rc = "packed" THEN "packed" ELSE "stopped"
            [] OTHER -> "packing"

Serial == INSTANCE SerialPack WITH stored <- Stored, call <- Called

(* The pool stores what a single thread would.                             *)
ImplementsSerialPack == Serial!Spec

(* A call returns, canceled or not, or dies with the payload.              *)
CallReturns == main.pc = "create" ~> main.pc \in {"end", "idle"}
=============================================================================
