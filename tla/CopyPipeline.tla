---------------------------- MODULE CopyPipeline ----------------------------
(***************************************************************************)
(* copy_file_pipeline between the opening of its two files and their       *)
(* publication: a reader thread fills a ring of slots from the source, the *)
(* worker thread of the job, here the writer, empties them into the        *)
(* private file.  FileJobs has the rest of the call and of the job.        *)
(*                                                                         *)
(* A section between lock and unlock of copy_pipeline_t.lock is one step.  *)
(***************************************************************************)
EXTENDS Naturals, Sequences

CONSTANTS
  Slots,  \* COPY_PIPELINE_SLOTS
  Chunks, \* reads of COPY_BUFFER_SIZE that the source takes
  MayFail \* whether a read, a write or fchmod may fail

VARIABLES
  slot,   \* copy_pipeline_t.slots: what a slot holds, and whether it is ready
  ctl,    \* its done and error
  reader, \* copy_pipeline_reader, with read_index and its place in the source
  writer, \* copy_file_pipeline, with write_index
  sink,   \* the chunks in the private file
  cancel  \* cancel_requested of the job

pipe == <<slot, ctl, reader, writer, sink>>

Ring == 0 .. Slots - 1
Next1(i) == (i + 1) % Slots
Clear == [ready |-> FALSE, data |-> 0]
NoReader == [pc |-> "off", at |-> 0, slot |-> 0, pos |-> 0, got |-> "none"]
NoWriter == [pc |-> "off", at |-> 0]
Whole == [i \in 1 .. Chunks |-> i]

Reader(point) == reader.pc = point
Writer(point) == writer.pc = point
WriterTo(point) == writer' = [writer EXCEPT !.pc = point]

(* A thread after a signal or broadcast on the condition it may sleep on.  *)
Woken(t) == IF t.pc = "asleep" THEN [t EXCEPT !.pc = "look"] ELSE t

(* Mutant: the end of the source is not announced.                         *)
Unwoken(t) == t

(* What the writer is after the reader has set done.                       *)
Told(t) == Woken(t)

Off ==
  /\ slot = [s \in Ring |-> Clear]
  /\ ctl = [done |-> FALSE, error |-> FALSE]
  /\ reader = NoReader /\ writer = NoWriter
  /\ sink = <<>>

(* The buffers and the reader thread are there.                            *)
Begin ==
  /\ Writer("off")
  /\ reader' = [NoReader EXCEPT !.pc = "look"]
  /\ writer' = [NoWriter EXCEPT !.pc = "look"]
  /\ UNCHANGED <<slot, ctl, sink>>

Reset ==
  /\ slot' = [s \in Ring |-> Clear]
  /\ ctl' = [done |-> FALSE, error |-> FALSE]
  /\ reader' = NoReader /\ writer' = NoWriter
  /\ sink' = <<>>

(* The call returns.                                                       *)
End == writer.pc \in {"ok", "failed"} /\ Reset

-----------------------------------------------------------------------------
(***************************************************************************)
(* copy_pipeline_reader.                                                   *)
(***************************************************************************)

Over == ctl.error \/ ctl.done

(* Mutant: the reader does not wait for the slot to be emptied.            *)
FullNever == FALSE

Full == slot[reader.at].ready

(* The next slot, which must be empty, or the end.  A cancel is not seen   *)
(* while the ring is full.                                                 *)
ReaderLook ==
  /\ Reader("look")
  /\ \/ /\ ~Over /\ Full
        /\ reader' = [reader EXCEPT !.pc = "asleep"]
        /\ UNCHANGED <<ctl, writer>>
     \/ /\ Over \/ (~Full /\ cancel)
        /\ ctl' = [ctl EXCEPT !.done = TRUE]
        /\ writer' = Told(writer)
        /\ reader' = [reader EXCEPT !.pc = "gone"]
     \/ /\ ~Over /\ ~Full /\ ~cancel
        /\ reader' = [reader EXCEPT !.pc = "read", !.slot = reader.at, !.at = Next1(@)]
        /\ UNCHANGED <<ctl, writer>>
  /\ UNCHANGED <<slot, sink>>

(* read, without the lock.                                                 *)
Read ==
  /\ Reader("read")
  /\ \/ /\ reader.pos < Chunks
        /\ slot' = [slot EXCEPT ![reader.slot].data = reader.pos + 1]
        /\ reader' = [reader EXCEPT !.pc = "post", !.pos = @ + 1, !.got = "data"]
     \/ /\ reader.pos = Chunks
        /\ reader' = [reader EXCEPT !.pc = "post", !.got = "end"]
        /\ UNCHANGED slot
     \/ /\ MayFail
        /\ reader' = [reader EXCEPT !.pc = "post", !.got = "error"]
        /\ UNCHANGED slot
  /\ UNCHANGED <<ctl, writer, sink>>

Post ==
  /\ Reader("post")
  /\ reader' = [reader EXCEPT !.pc = "look"]
  /\ \/ /\ reader.got = "data"
        /\ slot' = [slot EXCEPT ![reader.slot].ready = TRUE]
        /\ writer' = Woken(writer)
        /\ UNCHANGED ctl
     \/ /\ reader.got = "end"
        /\ ctl' = [ctl EXCEPT !.done = TRUE]
        /\ writer' = Told(writer)
        /\ UNCHANGED slot
     \/ /\ reader.got = "error"
        /\ ctl' = [done |-> TRUE, error |-> TRUE]
        /\ writer' = Told(writer)
        /\ UNCHANGED slot
  /\ UNCHANGED sink

-----------------------------------------------------------------------------
(***************************************************************************)
(* The writer's loop and the end of the call.                              *)
(***************************************************************************)

(* Mutant: what is still in the ring when done is set is left there.       *)
DrainedEarly == ctl.done

Drained == ctl.done /\ ~slot[writer.at].ready

WriterLook ==
  /\ Writer("look")
  /\ \/ ~Over /\ ~slot[writer.at].ready /\ WriterTo("asleep")
     \/ ctl.error /\ WriterTo("fail")
     \/ ~ctl.error /\ Drained /\ WriterTo("finish")
     \/ ~ctl.error /\ ~Drained /\ slot[writer.at].ready /\ WriterTo("write")
  /\ UNCHANGED <<slot, ctl, reader, sink>>

(* write, without the lock.                                                *)
Write ==
  /\ Writer("write")
  /\ \/ (cancel \/ MayFail) /\ WriterTo("fail") /\ UNCHANGED sink
     \/ ~cancel /\ sink' = Append(sink, slot[writer.at].data) /\ WriterTo("drop")
  /\ UNCHANGED <<slot, ctl, reader>>

Drop ==
  /\ Writer("drop")
  /\ slot' = [slot EXCEPT ![writer.at].ready = FALSE]
  /\ writer' = [pc |-> "look", at |-> Next1(writer.at)]
  /\ reader' = Woken(reader)
  /\ UNCHANGED <<ctl, sink>>

(* fchmod and the look at the cancel flag after the loop.                  *)
Finish ==
  /\ Writer("finish")
  /\ \/ (cancel \/ MayFail) /\ WriterTo("fail")
     \/ ~cancel /\ WriterTo("succeed")
  /\ UNCHANGED <<slot, ctl, reader, sink>>

(* The label done: the reader is told to stop, then it is joined.          *)
Stop ==
  /\ writer.pc \in {"fail", "succeed"}
  /\ ctl' = [done |-> TRUE, error |-> TRUE]
  /\ reader' = Woken(reader)
  /\ WriterTo(IF Writer("fail") THEN "join-fail" ELSE "join-ok")
  /\ UNCHANGED <<slot, sink>>

Join ==
  /\ writer.pc \in {"join-fail", "join-ok"}
  /\ Reader("gone")
  /\ WriterTo(IF Writer("join-ok") THEN "ok" ELSE "failed")
  /\ UNCHANGED <<slot, ctl, reader, sink>>

Init == Off /\ cancel = FALSE

Next == \/ /\ \/ Begin \/ End
              \/ ReaderLook \/ Read \/ Post
              \/ WriterLook \/ Write \/ Drop \/ Finish \/ Stop \/ Join
           /\ UNCHANGED cancel
        \/ cancel' = TRUE /\ UNCHANGED pipe

Spec == Init /\ [][Next]_<<pipe, cancel>>
=============================================================================
