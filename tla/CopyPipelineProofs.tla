------------------------- MODULE CopyPipelineProofs -------------------------
(***************************************************************************)
(* The ring of copy_file_pipeline, as FileJobs uses it, for every number   *)
(* of slots and every length of the source: the invariant of the two       *)
(* threads, and that each of their steps keeps it.  FileJobsProofs puts it *)
(* into the job.                                                           *)
(***************************************************************************)
EXTENDS FileJobs, Integers, TLAPS

(* The slot that is k slots after slot i.                                  *)
Ahead(i, k) == IF i + k < Slots THEN i + k ELSE i + k - Slots

ReaderPoints == {"off", "look", "asleep", "read", "post", "gone"}
WriterPoints == {"off", "look", "asleep", "write", "drop", "finish", "fail", "succeed",
                 "join-fail", "join-ok", "ok", "failed"}

PipeType ==
  /\ slot \in [Pipe!Ring -> [ready : BOOLEAN, data : Nat]]
  /\ ctl \in [done : BOOLEAN, error : BOOLEAN]
  /\ reader \in [pc : ReaderPoints, at : Pipe!Ring, slot : Pipe!Ring, pos : 0 .. Chunks,
                 got : {"none", "data", "end", "error"}]
  /\ writer \in [pc : WriterPoints, at : Pipe!Ring]
  /\ sink \in Seq(Nat)

(* The chunks that the reader has handed over, those that the writer has   *)
(* done with, and those between them.                                      *)
Posted  == IF reader.pc = "post" /\ reader.got = "data" THEN reader.pos - 1 ELSE reader.pos
Dropped == IF writer.pc = "drop" THEN Len(sink) - 1 ELSE Len(sink)
Held    == Posted - Dropped

(* The chunks between the threads are in the slots from the writer's on,   *)
(* in order, and no other slot is ready.                                   *)
RingInv ==
  /\ Held \in 0 .. Slots
  /\ \A k \in 0 .. Slots - 1 :
       /\ slot[Ahead(writer.at, k)].ready <=> k < Held
       /\ k < Held => slot[Ahead(writer.at, k)].data = Dropped + k + 1

(* Where the reader is in the ring and in the source.                      *)
ReaderInv ==
  /\ reader.pc \in {"look", "asleep"} /\ ~ctl.done => reader.at = Ahead(writer.at, Held)
  /\ reader.pc \in {"read", "post"} =>
       /\ Held < Slots
       /\ reader.slot = Ahead(writer.at, Held)
       /\ reader.at = Ahead(writer.at, Held + 1)
  /\ reader.pc = "post" /\ reader.got = "data" =>
       reader.pos > 0 /\ slot[reader.slot].data = reader.pos
  /\ reader.pc = "post" /\ reader.got = "end" => reader.pos = Chunks
  /\ reader.pc = "post" => reader.got # "none"
  /\ ctl.done /\ ~ctl.error =>
       reader.pc \in {"look", "gone"} /\ (reader.pos = Chunks \/ Seen)

(* What the writer has written, and what it knows.                         *)
WriterInv ==
  /\ \A i \in 1 .. Len(sink) : sink[i] = i
  /\ writer.pc \in {"write", "drop"} => Held > 0
  /\ writer.pc = "drop" => Len(sink) > 0
  /\ writer.pc = "finish" => ctl.done /\ ~ctl.error /\ (Len(sink) = Chunks \/ Seen)
  /\ writer.pc \in {"succeed", "join-ok", "ok"} => Len(sink) = Chunks
  /\ writer.pc \in {"ok", "failed"} => reader.pc = "gone"
  /\ writer.pc = "off" <=> reader.pc = "off"
  /\ writer.pc = "off" => Pipe!Off

PipeInv == PipeType /\ RingInv /\ ReaderInv /\ WriterInv
-----------------------------------------------------------------------------
(* What is known of the constants.                                         *)
LEMMA RingLimits == Slots \in Nat \ {0, 1} /\ Chunks \in Nat
BY FileJobsAssumption

(* The remainder in Next1 is a wrap around.                                *)
LEMMA Small == ASSUME NEW n \in Nat \ {0}, NEW i \in 0 .. n - 1 PROVE i % n = i
BY SMT

LEMMA Wraps == ASSUME NEW n \in Nat \ {0} PROVE n % n = 0
BY SMT

LEMMA Next1Is ==
  \A i \in Pipe!Ring : Pipe!Next1(i) = Ahead(i, 1) /\ Pipe!Next1(i) \in Pipe!Ring
<1> TAKE i \in Pipe!Ring
<1>1. CASE i = Slots - 1
  BY <1>1, RingLimits, Wraps DEF Pipe!Ring, Pipe!Next1, Ahead
<1>2. CASE i + 1 \in 0 .. Slots - 1
  BY <1>2, RingLimits, Small DEF Pipe!Ring, Pipe!Next1, Ahead
<1>3. QED
  BY <1>1, <1>2, RingLimits DEF Pipe!Ring

(* The slots from one slot on are all slots, each once.                    *)
LEMMA AheadIs ==
  ASSUME NEW i \in Pipe!Ring
  PROVE  /\ \A k \in 0 .. Slots : Ahead(i, k) \in Pipe!Ring
         /\ Ahead(i, 0) = i
         /\ \A k, l \in 0 .. Slots - 1 : Ahead(i, k) = Ahead(i, l) => k = l
         /\ \A k \in 0 .. Slots - 1 : Pipe!Next1(Ahead(i, k)) = Ahead(i, k + 1)
         /\ \A k \in 0 .. Slots - 1 : Ahead(Pipe!Next1(i), k) = Ahead(i, k + 1)
         /\ Ahead(i, Slots) = i
<1>1. \A k \in 0 .. Slots : Ahead(i, k) \in Pipe!Ring
  BY RingLimits DEF Ahead, Pipe!Ring
<1>2. Ahead(i, 0) = i /\ Ahead(i, Slots) = i
  BY RingLimits DEF Ahead, Pipe!Ring
<1>3. \A k, l \in 0 .. Slots - 1 : Ahead(i, k) = Ahead(i, l) => k = l
  BY RingLimits DEF Ahead, Pipe!Ring
<1>4. \A k \in 0 .. Slots - 1 : Ahead(Ahead(i, k), 1) = Ahead(i, k + 1)
  BY RingLimits DEF Ahead, Pipe!Ring
<1>5. \A k \in 0 .. Slots - 1 : Ahead(Ahead(i, 1), k) = Ahead(i, k + 1)
  BY RingLimits DEF Ahead, Pipe!Ring
<1>6. QED
  BY <1>1, <1>2, <1>3, <1>4, <1>5, Next1Is, RingLimits

(* The ring does not change when neither thread hands a chunk over.        *)
LEMMA RingKept ==
  ASSUME RingInv, slot' = slot, writer'.at = writer.at, Posted' = Posted, Dropped' = Dropped
  PROVE  RingInv' /\ Held' = Held
<1>1. Held' = Held
  BY DEF Held
<1>2. QED
  BY <1>1 DEF RingInv, Ahead

LEMMA OffIsSound == ASSUME Pipe!Off PROVE PipeInv
<1>1. reader.pc = "off" /\ writer.pc = "off" /\ Posted = 0 /\ Dropped = 0 /\ Held = 0
  BY DEF Pipe!Off, Pipe!NoReader, Pipe!NoWriter, Posted, Dropped, Held
<1>2. PipeType
  BY RingLimits DEF Pipe!Off, Pipe!NoReader, Pipe!NoWriter, Pipe!Clear, PipeType,
     ReaderPoints, WriterPoints, Pipe!Ring
<1>3. RingInv
  <2>1. writer.at \in Pipe!Ring
    BY <1>2 DEF PipeType
  <2>2. \A k \in 0 .. Slots - 1 : Ahead(writer.at, k) \in Pipe!Ring
    BY <2>1, AheadIs, RingLimits
  <2>3. \A k \in 0 .. Slots - 1 : ~slot[Ahead(writer.at, k)].ready
    BY <2>2 DEF Pipe!Off, Pipe!Clear
  <2>4. QED
    BY <1>1, <2>3, RingLimits DEF RingInv
<1>4. ReaderInv
  BY <1>1 DEF ReaderInv, Pipe!Off
<1>5. WriterInv
  BY <1>1 DEF WriterInv, Pipe!Off
<1>6. QED
  BY <1>2, <1>3, <1>4, <1>5 DEF PipeInv

LEMMA ResetIsSound == ASSUME Pipe!Reset PROVE PipeInv'
<1>1. Pipe!Off'
  BY DEF Pipe!Reset, Pipe!Off, Pipe!NoReader, Pipe!NoWriter
<1>2. QED
  BY <1>1, OffIsSound, PTL
-----------------------------------------------------------------------------
(* The steps of the two threads, one lemma for each.                       *)

LEMMA BeginKeeps == ASSUME PipeInv, Pipe!Begin, job' = job PROVE PipeInv'
<1>1. Pipe!Off /\ Posted = 0 /\ Dropped = 0 /\ ~ctl.done
  BY DEF PipeInv, WriterInv, Pipe!Begin, Pipe!Writer, Pipe!Off, Pipe!NoReader, Pipe!NoWriter,
     Posted, Dropped
<1>2. /\ reader' = [pc |-> "look", at |-> 0, slot |-> 0, pos |-> 0, got |-> "none"]
      /\ writer' = [pc |-> "look", at |-> 0] /\ writer.at = 0
      /\ slot' = slot /\ ctl' = ctl /\ sink' = <<>> /\ sink = <<>>
  BY <1>1 DEF Pipe!Begin, Pipe!NoReader, Pipe!NoWriter, Pipe!Off
<1>3. Posted' = 0 /\ Dropped' = 0 /\ Held' = 0
  BY <1>2 DEF Posted, Dropped, Held
<1>4. PipeType'
  BY <1>2, RingLimits DEF PipeInv, PipeType, ReaderPoints, WriterPoints, Pipe!Ring
<1>5. RingInv'
  BY <1>1, <1>2, <1>3, RingKept DEF PipeInv
<1>6. ReaderInv'
  BY <1>1, <1>2, <1>3, RingLimits DEF ReaderInv, Ahead
<1>7. WriterInv'
  BY <1>2 DEF WriterInv
<1>8. QED
  BY <1>4, <1>5, <1>6, <1>7 DEF PipeInv

LEMMA ReaderLookKeeps == ASSUME PipeInv, Pipe!ReaderLook, job' = job PROVE PipeInv'
<1>1. /\ slot' = slot /\ sink' = sink
      /\ reader.pc = "look" /\ writer.pc # "off" /\ writer.pc \notin {"ok", "failed"}
      /\ reader'.pos = reader.pos /\ reader'.got = reader.got
      /\ reader'.pc \in {"asleep", "gone", "read"}
  BY DEF PipeInv, PipeType, WriterInv, Pipe!ReaderLook, Pipe!Reader
<1>2. /\ writer'.at = writer.at /\ writer'.pc \in WriterPoints
      /\ writer' = writer \/ (writer.pc = "asleep" /\ writer'.pc = "look")
      /\ writer' \in [pc : WriterPoints, at : Pipe!Ring]
  BY DEF PipeInv, PipeType, WriterPoints, Pipe!ReaderLook, Pipe!Told, Pipe!Woken
<1>3. Posted' = Posted /\ Dropped' = Dropped
  BY <1>1, <1>2 DEF Posted, Dropped
<1>4. RingInv' /\ Held' = Held
  BY <1>1, <1>2, <1>3, RingKept DEF PipeInv
<1>5. CASE ~Pipe!Over /\ Pipe!Full /\ reader' = [reader EXCEPT !.pc = "asleep"] /\ ctl' = ctl
  <2>1. PipeType'
    BY <1>1, <1>2, <1>5 DEF PipeInv, PipeType, ReaderPoints
  <2>2. ReaderInv'
    BY <1>1, <1>2, <1>4, <1>5 DEF PipeInv, PipeType, ReaderInv, Ahead, Pipe!Over
  <2>3. WriterInv'
    BY <1>1, <1>2, <1>4, <1>5 DEF PipeInv, PipeType, WriterInv, Seen
  <2>4. QED
    BY <1>4, <2>1, <2>2, <2>3 DEF PipeInv
<1>6. CASE /\ Pipe!Over \/ (~Pipe!Full /\ Seen)
           /\ ctl' = [ctl EXCEPT !.done = TRUE]
           /\ reader' = [reader EXCEPT !.pc = "gone"]
  <2>0. /\ reader'.pc = "gone" /\ ctl'.done /\ ctl'.error = ctl.error
        /\ ctl.error \/ ctl.done \/ Seen
    BY <1>6 DEF PipeInv, PipeType, Pipe!Over
  <2>1. PipeType'
    BY <1>1, <1>2, <1>6 DEF PipeInv, PipeType, ReaderPoints
  <2>2. ReaderInv'
    BY <1>1, <2>0 DEF PipeInv, ReaderInv, Seen
  <2>3. WriterInv'
    BY <1>1, <1>2, <1>4, <2>0 DEF PipeInv, WriterInv, Seen
  <2>4. QED
    BY <1>4, <2>1, <2>2, <2>3 DEF PipeInv
<1>7. CASE /\ ~Pipe!Over /\ ~Pipe!Full /\ ctl' = ctl
           /\ reader' = [reader EXCEPT !.pc = "read", !.slot = reader.at,
                                       !.at = Pipe!Next1(@)]
  <2>0. writer.at \in Pipe!Ring /\ reader.at \in Pipe!Ring /\ Held \in 0 .. Slots
    BY DEF PipeInv, PipeType, RingInv
  <2>1. reader.at = Ahead(writer.at, Held) /\ ~ctl.done /\ ~ctl.error
    BY <1>1, <1>7 DEF PipeInv, ReaderInv, Pipe!Over
  <2>2. Held < Slots
    <3>1. ASSUME Held = Slots PROVE FALSE
      <4>1. reader.at = writer.at
        BY <3>1, <2>0, <2>1, AheadIs
      <4>2. slot[Ahead(writer.at, 0)].ready
        BY <3>1, RingLimits DEF PipeInv, RingInv
      <4>3. QED
        BY <4>1, <4>2, <2>0, <1>7, AheadIs DEF Pipe!Full
    <3>2. QED
      BY <3>1, <2>0, RingLimits
  <2>3. /\ reader'.pc = "read" /\ reader'.slot = reader.at
        /\ reader'.at = Pipe!Next1(reader.at)
    BY <1>7 DEF PipeInv, PipeType
  <2>4. reader'.at = Ahead(writer.at, Held + 1)
    BY <2>0, <2>1, <2>2, <2>3, AheadIs, RingLimits
  <2>5. PipeType'
    BY <1>1, <1>2, <1>7, <2>0, Next1Is DEF PipeInv, PipeType, ReaderPoints
  <2>6. ReaderInv'
    BY <1>2, <1>4, <1>7, <2>1, <2>2, <2>3, <2>4 DEF ReaderInv, Ahead
  <2>7. WriterInv'
    BY <1>1, <1>2, <1>4, <2>3, <1>7 DEF PipeInv, WriterInv, Seen
  <2>8. QED
    BY <1>4, <2>5, <2>6, <2>7 DEF PipeInv
<1>8. QED
  BY <1>5, <1>6, <1>7 DEF Pipe!ReaderLook

LEMMA ReadKeeps == ASSUME PipeInv, Pipe!Read, job' = job PROVE PipeInv'
<1>0. /\ reader.pc = "read" /\ reader.slot \in Pipe!Ring /\ reader.pos \in 0 .. Chunks
      /\ writer.at \in Pipe!Ring /\ writer.pc # "off" /\ writer.pc \notin {"ok", "failed"}
      /\ Held \in 0 .. Slots /\ Held < Slots
      /\ reader.slot = Ahead(writer.at, Held)
  BY DEF PipeInv, PipeType, RingInv, ReaderInv, WriterInv, Pipe!Read, Pipe!Reader
<1>1. /\ ctl' = ctl /\ writer' = writer /\ sink' = sink
      /\ reader'.pc = "post" /\ reader'.slot = reader.slot /\ reader'.at = reader.at
  BY DEF PipeInv, PipeType, Pipe!Read
<1>2. /\ reader'.got \in {"data", "end", "error"}
      /\ reader'.got = "data" => reader'.pos = reader.pos + 1 /\ reader.pos < Chunks
      /\ reader'.got # "data" => reader'.pos = reader.pos /\ slot' = slot
      /\ reader'.got = "end" => reader.pos = Chunks
      /\ reader'.got = "data" => slot' = [slot EXCEPT ![reader.slot].data = reader.pos + 1]
  BY DEF PipeInv, PipeType, Pipe!Read
<1>3. Posted' = Posted /\ Dropped' = Dropped
  BY <1>0, <1>1, <1>2 DEF Posted, Dropped
<1>4. Held' = Held
  BY <1>3 DEF Held
<1>5. PipeType'
  <2>1. slot' \in [Pipe!Ring -> [ready : BOOLEAN, data : Nat]]
    <3>1. slot \in [Pipe!Ring -> [ready : BOOLEAN, data : Nat]] /\ reader.pos + 1 \in Nat
      BY <1>0, RingLimits DEF PipeInv, PipeType
    <3>2. CASE slot' = slot
      BY <3>1, <3>2
    <3>3. CASE slot' = [slot EXCEPT ![reader.slot].data = reader.pos + 1]
      BY <3>1, <3>3, <1>0
    <3>4. QED
      BY <1>2, <3>2, <3>3
  <2>2. reader' \in [pc : ReaderPoints, at : Pipe!Ring, slot : Pipe!Ring, pos : 0 .. Chunks,
                     got : {"none", "data", "end", "error"}]
    <3>1. reader \in [pc : ReaderPoints, at : Pipe!Ring, slot : Pipe!Ring, pos : 0 .. Chunks,
                      got : {"none", "data", "end", "error"}]
      BY DEF PipeInv, PipeType
    <3>2. CASE reader.pos < Chunks /\ reader' = [reader EXCEPT !.pc = "post", !.pos = @ + 1,
                                                              !.got = "data"]
      <4>1. reader.pos + 1 \in 0 .. Chunks
        BY <1>0, <3>2, RingLimits
      <4>2. QED
        BY <3>1, <3>2, <4>1 DEF ReaderPoints
    <3>3. CASE \E g \in {"end", "error"} : reader' = [reader EXCEPT !.pc = "post", !.got = g]
      BY <3>1, <3>3 DEF ReaderPoints
    <3>4. QED
      BY <3>2, <3>3 DEF Pipe!Read
  <2>3. QED
    BY <1>1, <2>1, <2>2 DEF PipeInv, PipeType
<1>6. RingInv'
  <2>1. CASE slot' = slot
    BY <2>1, <1>1, <1>3, RingKept DEF PipeInv
  <2>2. CASE slot' = [slot EXCEPT ![reader.slot].data = reader.pos + 1]
    <3> SUFFICES ASSUME NEW k \in 0 .. Slots - 1
        PROVE  /\ slot'[Ahead(writer.at, k)].ready <=> k < Held
               /\ k < Held => slot'[Ahead(writer.at, k)].data = Dropped + k + 1
      BY <1>0, <1>1, <1>3, <1>4, RingLimits DEF RingInv, Ahead
    <3>1. Ahead(writer.at, k) \in Pipe!Ring
      BY <1>0, AheadIs, RingLimits
    <3>2. /\ slot[Ahead(writer.at, k)].ready <=> k < Held
          /\ k < Held => slot[Ahead(writer.at, k)].data = Dropped + k + 1
      BY DEF PipeInv, RingInv
    <3>3. slot'[Ahead(writer.at, k)].ready = slot[Ahead(writer.at, k)].ready
      BY <2>2, <3>1, <1>0 DEF PipeInv, PipeType
    <3>4. CASE k < Held
      <4>1. Ahead(writer.at, k) # reader.slot
        BY <3>4, <1>0, AheadIs, RingLimits
      <4>2. slot'[Ahead(writer.at, k)] = slot[Ahead(writer.at, k)]
        BY <4>1, <2>2, <3>1, <1>0 DEF PipeInv, PipeType
      <4>3. QED
        BY <4>2, <3>2
    <3>5. CASE ~(k < Held)
      BY <3>2, <3>3, <3>5
    <3>6. QED
      BY <3>4, <3>5
  <2>3. QED
    BY <1>2, <2>1, <2>2
<1>7. ReaderInv'
  <2>1. reader.at = Ahead(writer.at, Held + 1) /\ ~(ctl.done /\ ~ctl.error)
    BY <1>0 DEF PipeInv, ReaderInv
  <2>2. reader'.got = "data" => reader'.pos > 0 /\ slot'[reader.slot].data = reader'.pos
    BY <1>0, <1>2, RingLimits DEF PipeInv, PipeType
  <2>3. QED
    BY <1>0, <1>1, <1>2, <1>4, <2>1, <2>2 DEF ReaderInv, Ahead
<1>8. WriterInv'
  BY <1>0, <1>1, <1>4 DEF PipeInv, WriterInv, Seen
<1>9. QED
  BY <1>5, <1>6, <1>7, <1>8 DEF PipeInv

LEMMA PostKeeps == ASSUME PipeInv, Pipe!Post, job' = job PROVE PipeInv'
<1>0. /\ reader.pc = "post" /\ reader.slot \in Pipe!Ring /\ reader.pos \in 0 .. Chunks
      /\ writer.at \in Pipe!Ring /\ writer.pc # "off" /\ writer.pc \notin {"ok", "failed"}
      /\ Held \in 0 .. Slots /\ Held < Slots
      /\ reader.slot = Ahead(writer.at, Held) /\ reader.at = Ahead(writer.at, Held + 1)
      /\ ~(ctl.done /\ ~ctl.error)
  BY DEF PipeInv, PipeType, RingInv, ReaderInv, WriterInv, Pipe!Post, Pipe!Reader
<1>1. /\ sink' = sink
      /\ reader'.pc = "look" /\ reader'.slot = reader.slot /\ reader'.at = reader.at
      /\ reader'.pos = reader.pos /\ reader'.got = reader.got
      /\ reader' \in [pc : ReaderPoints, at : Pipe!Ring, slot : Pipe!Ring, pos : 0 .. Chunks,
                      got : {"none", "data", "end", "error"}]
  BY DEF PipeInv, PipeType, Pipe!Post, ReaderPoints
<1>2. /\ writer'.at = writer.at
      /\ writer' = writer \/ (writer.pc = "asleep" /\ writer'.pc = "look")
      /\ writer' \in [pc : WriterPoints, at : Pipe!Ring]
  BY DEF PipeInv, PipeType, WriterPoints, Pipe!Post, Pipe!Told, Pipe!Woken
<1>3. Dropped' = Dropped /\ Dropped \in Int
  BY <1>1, <1>2 DEF Dropped, PipeInv, PipeType
<1>4. CASE reader.got = "data"
  <2>1. /\ slot' = [slot EXCEPT ![reader.slot].ready = TRUE] /\ ctl' = ctl
        /\ reader.pos > 0 /\ slot[reader.slot].data = reader.pos
    BY <1>0, <1>4 DEF Pipe!Post, PipeInv, ReaderInv
  <2>2. Posted = reader.pos - 1 /\ Posted' = reader.pos
    BY <1>0, <1>1, <1>4 DEF Posted
  <2>3. Held' = Held + 1 /\ reader.pos = Dropped + Held + 1
    BY <1>0, <1>3, <2>2 DEF Held
  <2>4. PipeType'
    BY <1>0, <1>1, <1>2, <2>1 DEF PipeInv, PipeType
  <2>5. RingInv'
    <3> SUFFICES ASSUME NEW k \in 0 .. Slots - 1
        PROVE  /\ slot'[Ahead(writer.at, k)].ready <=> k < Held + 1
               /\ k < Held + 1 => slot'[Ahead(writer.at, k)].data = Dropped + k + 1
      BY <1>0, <1>2, <1>3, <2>3, RingLimits DEF RingInv, Ahead
    <3>1. Ahead(writer.at, k) \in Pipe!Ring
      BY <1>0, AheadIs, RingLimits
    <3>2. CASE k = Held
      BY <3>1, <3>2, <1>0, <2>1, <2>3 DEF PipeInv, PipeType
    <3>3. CASE k # Held
      <4>1. Ahead(writer.at, k) # reader.slot
        BY <3>3, <1>0, AheadIs, RingLimits
      <4>2. slot'[Ahead(writer.at, k)] = slot[Ahead(writer.at, k)]
        BY <4>1, <3>1, <2>1, <1>0 DEF PipeInv, PipeType
      <4>3. /\ slot[Ahead(writer.at, k)].ready <=> k < Held
            /\ k < Held => slot[Ahead(writer.at, k)].data = Dropped + k + 1
        BY DEF PipeInv, RingInv
      <4>4. k < Held + 1 <=> k < Held
        BY <3>3, <1>0
      <4>5. QED
        BY <4>2, <4>3, <4>4
    <3>4. QED
      BY <3>2, <3>3
  <2>6. ReaderInv'
    BY <1>0, <1>1, <1>2, <2>1, <2>3 DEF ReaderInv, Ahead
  <2>7. WriterInv'
    BY <1>0, <1>1, <1>2, <2>1, <2>3 DEF PipeInv, WriterInv, Seen
  <2>8. QED
    BY <2>4, <2>5, <2>6, <2>7 DEF PipeInv
<1>5. CASE reader.got # "data"
  <2>1. /\ slot' = slot /\ ctl'.done /\ ctl'.error \in BOOLEAN
        /\ ctl' \in [done : BOOLEAN, error : BOOLEAN]
        /\ ctl.error => ctl'.error
        /\ ~ctl'.error => reader.pos = Chunks
    <3>1. CASE reader.got = "end" /\ ctl' = [ctl EXCEPT !.done = TRUE] /\ slot' = slot
      BY <3>1, <1>0 DEF PipeInv, PipeType, ReaderInv
    <3>2. CASE reader.got = "error" /\ ctl' = [done |-> TRUE, error |-> TRUE] /\ slot' = slot
      BY <3>2
    <3>3. QED
      BY <3>1, <3>2, <1>5 DEF Pipe!Post
  <2>2. Posted' = Posted
    BY <1>0, <1>1, <1>5 DEF Posted
  <2>3. RingInv' /\ Held' = Held
    BY <1>2, <1>3, <2>1, <2>2, RingKept DEF PipeInv
  <2>4. PipeType'
    BY <1>1, <1>2, <2>1 DEF PipeInv, PipeType
  <2>5. ReaderInv'
    BY <1>1, <2>1 DEF ReaderInv
  <2>6. writer.pc # "finish"
    BY <1>0 DEF PipeInv, WriterInv
  <2>7. WriterInv'
    BY <1>0, <1>1, <1>2, <2>3, <2>6 DEF PipeInv, WriterInv
  <2>8. QED
    BY <2>3, <2>4, <2>5, <2>7 DEF PipeInv
<1>6. QED
  BY <1>4, <1>5

(* A step of the writer that moves only its point leaves the ring and the  *)
(* reader's part alone.                                                    *)
LEMMA WriterMoves ==
  ASSUME PipeInv, job' = job, slot' = slot, ctl' = ctl, reader' = reader, sink' = sink,
         NEW point \in WriterPoints \ {"drop"}, writer.pc # "drop",
         writer' = [writer EXCEPT !.pc = point]
  PROVE  PipeType' /\ RingInv' /\ ReaderInv' /\ Held' = Held /\ writer'.pc = point
<1>1. writer'.pc = point /\ writer'.at = writer.at
  BY DEF PipeInv, PipeType
<1>2. Posted' = Posted /\ Dropped' = Dropped
  BY <1>1 DEF Posted, Dropped
<1>3. RingInv' /\ Held' = Held
  BY <1>1, <1>2, RingKept DEF PipeInv
<1>4. PipeType'
  BY DEF PipeInv, PipeType
<1>5. ReaderInv'
  BY <1>1, <1>3 DEF PipeInv, ReaderInv, Ahead, Seen
<1>6. QED
  BY <1>1, <1>3, <1>4, <1>5

LEMMA WriterLookKeeps == ASSUME PipeInv, Pipe!WriterLook, job' = job PROVE PipeInv'
<1>0. /\ writer.pc = "look" /\ slot' = slot /\ ctl' = ctl /\ reader' = reader /\ sink' = sink
      /\ reader.pc # "off" /\ Dropped = Len(sink)
      /\ writer.at \in Pipe!Ring /\ Held \in 0 .. Slots /\ Ahead(writer.at, 0) = writer.at
  BY AheadIs DEF PipeInv, PipeType, RingInv, WriterInv, Pipe!WriterLook, Pipe!Writer, Dropped
<1>1. slot[writer.at].ready <=> Held > 0
  <2>1. slot[Ahead(writer.at, 0)].ready <=> 0 < Held
    BY RingLimits DEF PipeInv, RingInv
  <2>2. QED
    BY <2>1, <1>0
<1>2. PICK point \in {"asleep", "fail", "finish", "write"} :
        /\ writer' = [writer EXCEPT !.pc = point]
        /\ point = "finish" => ctl.done /\ ~ctl.error /\ ~slot[writer.at].ready
        /\ point = "write" => slot[writer.at].ready
  BY DEF Pipe!WriterLook, Pipe!WriterTo, Pipe!Drained
<1>3. PipeType' /\ RingInv' /\ ReaderInv' /\ Held' = Held /\ writer'.pc = point
  BY <1>0, <1>2, WriterMoves DEF WriterPoints
<1>4. point = "finish" => Len(sink) = Chunks \/ Seen
  <2>1. SUFFICES ASSUME point = "finish", ~Seen PROVE Len(sink) = Chunks
    OBVIOUS
  <2>2. Held = 0 /\ reader.pc \in {"look", "gone"} /\ reader.pos = Chunks
    BY <2>1, <1>0, <1>1, <1>2 DEF PipeInv, ReaderInv
  <2>3. Posted = reader.pos
    BY <2>2 DEF Posted
  <2>4. Len(sink) \in Nat
    BY DEF PipeInv, PipeType
  <2>5. QED
    BY <2>2, <2>3, <2>4, <1>0, RingLimits DEF Held
<1>5. WriterInv'
  BY <1>0, <1>1, <1>2, <1>3, <1>4 DEF PipeInv, WriterInv, Seen
<1>6. QED
  BY <1>3, <1>5 DEF PipeInv

LEMMA WriteKeeps == ASSUME PipeInv, Pipe!Write, job' = job PROVE PipeInv'
<1>0. /\ writer.pc = "write" /\ slot' = slot /\ ctl' = ctl /\ reader' = reader
      /\ reader.pc # "off" /\ Held > 0 /\ Held \in 0 .. Slots
      /\ writer.at \in Pipe!Ring /\ Ahead(writer.at, 0) = writer.at
      /\ Dropped = Len(sink) /\ sink \in Seq(Nat)
  BY AheadIs DEF PipeInv, PipeType, RingInv, WriterInv, Pipe!Write, Pipe!Writer, Dropped
<1>1. CASE writer' = [writer EXCEPT !.pc = "fail"] /\ sink' = sink
  <2>1. PipeType' /\ RingInv' /\ ReaderInv' /\ Held' = Held /\ writer'.pc = "fail"
    BY <1>0, <1>1, WriterMoves DEF WriterPoints
  <2>2. WriterInv'
    BY <1>0, <1>1, <2>1 DEF PipeInv, WriterInv, Seen
  <2>3. QED
    BY <2>1, <2>2 DEF PipeInv
<1>2. CASE /\ writer' = [writer EXCEPT !.pc = "drop"]
           /\ sink' = Append(sink, slot[writer.at].data)
  <2>1. slot[Ahead(writer.at, 0)].data = Dropped + 0 + 1
    BY <1>0, RingLimits DEF PipeInv, RingInv
  <2>2. slot[writer.at].data = Len(sink) + 1
    BY <2>1, <1>0
  <2>3. /\ sink' \in Seq(Nat) /\ Len(sink') = Len(sink) + 1
        /\ \A i \in 1 .. Len(sink') : sink'[i] = i
    <3>1. /\ Len(sink) \in Nat /\ \A i \in 1 .. Len(sink) : sink[i] = i
      BY <1>0 DEF PipeInv, WriterInv
    <3>2. sink' = Append(sink, Len(sink) + 1)
      BY <1>2, <2>2
    <3>3. sink' \in Seq(Nat) /\ Len(sink') = Len(sink) + 1
      BY <3>1, <3>2, <1>0
    <3>4. ASSUME NEW i \in 1 .. Len(sink') PROVE sink'[i] = i
      BY <3>1, <3>2, <3>3, <3>4, <1>0
    <3>5. QED
      BY <3>3, <3>4
  <2>4. writer'.pc = "drop" /\ writer'.at = writer.at
    BY <1>2 DEF PipeInv, PipeType
  <2>5. Posted' = Posted /\ Dropped' = Dropped
    BY <1>0, <2>3, <2>4 DEF Posted, Dropped
  <2>6. RingInv' /\ Held' = Held
    BY <1>0, <2>4, <2>5, RingKept DEF PipeInv
  <2>7. PipeType'
    BY <1>0, <1>2, <2>3 DEF PipeInv, PipeType, WriterPoints
  <2>8. ReaderInv'
    BY <1>0, <2>4, <2>6 DEF PipeInv, ReaderInv, Ahead, Seen
  <2>9. WriterInv'
    BY <1>0, <2>3, <2>4, <2>6 DEF PipeInv, WriterInv, Seen
  <2>10. QED
    BY <2>6, <2>7, <2>8, <2>9 DEF PipeInv
<1>3. QED
  BY <1>1, <1>2 DEF Pipe!Write, Pipe!WriterTo

LEMMA DropKeeps == ASSUME PipeInv, Pipe!Drop, job' = job PROVE PipeInv'
<1>0. /\ writer.pc = "drop" /\ ctl' = ctl /\ sink' = sink
      /\ slot' = [slot EXCEPT ![writer.at].ready = FALSE]
      /\ writer' = [pc |-> "look", at |-> Pipe!Next1(writer.at)]
      /\ reader.pc # "off" /\ Held > 0 /\ Held \in 0 .. Slots
      /\ writer.at \in Pipe!Ring /\ Len(sink) \in Nat /\ Len(sink) > 0
  BY DEF PipeInv, PipeType, RingInv, WriterInv, Pipe!Drop, Pipe!Writer
<1>1. /\ reader'.at = reader.at /\ reader'.slot = reader.slot /\ reader'.pos = reader.pos
      /\ reader'.got = reader.got
      /\ reader' = reader \/ (reader.pc = "asleep" /\ reader'.pc = "look")
      /\ reader' \in [pc : ReaderPoints, at : Pipe!Ring, slot : Pipe!Ring, pos : 0 .. Chunks,
                      got : {"none", "data", "end", "error"}]
  BY DEF PipeInv, PipeType, ReaderPoints, Pipe!Drop, Pipe!Woken
<1>2. Posted' = Posted /\ Dropped' = Dropped + 1 /\ Dropped \in Nat /\ Posted \in Int
  <2>1. Posted' = Posted
    BY <1>1 DEF Posted
  <2>2. Dropped' = Dropped + 1 /\ Dropped \in Nat
    BY <1>0 DEF Dropped
  <2>3. QED
    BY <2>1, <2>2 DEF Posted, PipeInv, PipeType
<1>3. Held' = Held - 1
  BY <1>2 DEF Held
<1>4. writer'.at = Pipe!Next1(writer.at) /\ writer'.at \in Pipe!Ring /\ writer'.pc = "look"
  BY <1>0, Next1Is
<1>5. PipeType'
  BY <1>0, <1>1, <1>4 DEF PipeInv, PipeType, WriterPoints
<1>6. RingInv'
  <2> SUFFICES ASSUME NEW k \in 0 .. Slots - 1
      PROVE  /\ slot'[Ahead(writer'.at, k)].ready <=> k < Held - 1
             /\ k < Held - 1 => slot'[Ahead(writer'.at, k)].data = Dropped + 1 + k + 1
    BY <1>0, <1>2, <1>3, RingLimits DEF RingInv, Ahead
  <2>1. Ahead(writer'.at, k) = Ahead(writer.at, k + 1)
    BY <1>0, <1>4, AheadIs, RingLimits
  <2>2. CASE k = Slots - 1
    <3>1. Ahead(writer'.at, k) = writer.at
      BY <2>1, <2>2, <1>0, AheadIs, RingLimits
    <3>2. ~slot'[writer.at].ready
      BY <1>0 DEF PipeInv, PipeType
    <3>3. QED
      BY <3>1, <3>2, <2>2, <1>0, RingLimits
  <2>3. CASE k + 1 \in 0 .. Slots - 1
    <3>1. Ahead(writer.at, k + 1) # Ahead(writer.at, 0) /\ Ahead(writer.at, k + 1) \in Pipe!Ring
      BY <2>3, <1>0, AheadIs, RingLimits
    <3>2. slot'[Ahead(writer.at, k + 1)] = slot[Ahead(writer.at, k + 1)]
      BY <3>1, <1>0, AheadIs DEF PipeInv, PipeType
    <3>3. /\ slot[Ahead(writer.at, k + 1)].ready <=> k + 1 < Held
          /\ k + 1 < Held => slot[Ahead(writer.at, k + 1)].data = Dropped + (k + 1) + 1
      BY <2>3 DEF PipeInv, RingInv
    <3>4. /\ k + 1 < Held <=> k < Held - 1
          /\ Dropped + (k + 1) + 1 = Dropped + 1 + k + 1
      BY <1>0, <1>2, RingLimits
    <3>5. slot'[Ahead(writer'.at, k)] = slot[Ahead(writer.at, k + 1)]
      BY <2>1, <3>2
    <3>6. QED
      BY <3>3, <3>4, <3>5
  <2>4. QED
    BY <2>2, <2>3, RingLimits
<1>7. ReaderInv'
  <2>1. \A k \in 0 .. Slots - 1 : Ahead(writer'.at, k) = Ahead(writer.at, k + 1)
    BY <1>0, <1>4, AheadIs, RingLimits
  <2>2. Ahead(writer'.at, Held - 1) = Ahead(writer.at, Held)
    BY <2>1, <1>0, RingLimits
  <2>3. CASE reader.pc \in {"look", "asleep"}
    <3>1. reader'.pc = "look"  \/ reader'.pc = "asleep"
      BY <1>1, <2>3
    <3>2. ctl.done /\ ~ctl.error => reader.pos = Chunks \/ Seen
      BY DEF PipeInv, ReaderInv
    <3>3. ctl.done /\ ~ctl.error => reader'.pc = "look"
      BY <1>1, <2>3 DEF PipeInv, ReaderInv
    <3>4. ~ctl.done => reader.at = Ahead(writer.at, Held)
      BY <2>3 DEF PipeInv, ReaderInv
    <3>5. QED
      BY <1>0, <1>1, <1>3, <2>2, <3>1, <3>2, <3>3, <3>4 DEF ReaderInv, Ahead, Seen
  <2>4. CASE reader.pc \in {"read", "post"}
    <3>1. Ahead(writer'.at, Held) = Ahead(writer.at, Held + 1) /\ Held < Slots
      BY <2>1, <2>4, <1>0, RingLimits DEF PipeInv, ReaderInv
    <3>2. reader' = reader
      BY <1>1, <2>4
    <3>3. reader.slot = Ahead(writer'.at, Held - 1) /\ reader.at = Ahead(writer'.at, Held - 1 + 1)
      BY <2>2, <2>4, <3>1, <1>0 DEF PipeInv, ReaderInv
    <3>4. slot'[reader.slot].data = slot[reader.slot].data
      BY <1>0 DEF PipeInv, PipeType
    <3>5. /\ Held - 1 < Slots
          /\ ~(ctl.done /\ ~ctl.error)
          /\ reader.pc = "post" /\ reader.got = "data" =>
               reader.pos > 0 /\ slot'[reader.slot].data = reader.pos
          /\ reader.pc = "post" /\ reader.got = "end" => reader.pos = Chunks
          /\ reader.pc = "post" => reader.got # "none"
      BY <3>1, <3>4, <2>4, <1>0, RingLimits DEF PipeInv, ReaderInv
    <3>6. QED
      BY <1>0, <1>3, <2>4, <3>2, <3>3, <3>5 DEF ReaderInv, Ahead
  <2>5. CASE reader.pc \in {"off", "gone"}
    BY <1>0, <1>1, <2>5 DEF PipeInv, ReaderInv, Seen
  <2>6. QED
    BY <2>3, <2>4, <2>5 DEF PipeInv, PipeType, ReaderPoints
<1>8. WriterInv'
  BY <1>0, <1>1, <1>4 DEF PipeInv, WriterInv
<1>9. QED
  BY <1>5, <1>6, <1>7, <1>8 DEF PipeInv

LEMMA FinishKeeps == ASSUME PipeInv, Pipe!Finish, job' = job PROVE PipeInv'
<1>0. /\ writer.pc = "finish" /\ slot' = slot /\ ctl' = ctl /\ reader' = reader /\ sink' = sink
  BY DEF Pipe!Finish, Pipe!Writer
<1>1. PICK point \in {"fail", "succeed"} :
        writer' = [writer EXCEPT !.pc = point] /\ (point = "succeed" => ~Seen)
  BY DEF Pipe!Finish, Pipe!WriterTo
<1>2. PipeType' /\ RingInv' /\ ReaderInv' /\ Held' = Held /\ writer'.pc = point
  BY <1>0, <1>1, WriterMoves DEF WriterPoints
<1>3. WriterInv'
  BY <1>0, <1>1, <1>2 DEF PipeInv, WriterInv
<1>4. QED
  BY <1>2, <1>3 DEF PipeInv

LEMMA StopKeeps == ASSUME PipeInv, Pipe!Stop, job' = job PROVE PipeInv'
<1>0. /\ writer.pc \in {"fail", "succeed"} /\ slot' = slot /\ sink' = sink
      /\ ctl' = [done |-> TRUE, error |-> TRUE] /\ reader.pc # "off"
      /\ writer.pc = "succeed" => Len(sink) = Chunks
      /\ \A i \in 1 .. Len(sink) : sink[i] = i
  BY DEF PipeInv, WriterInv, Pipe!Stop
<1>1. /\ reader'.at = reader.at /\ reader'.slot = reader.slot /\ reader'.pos = reader.pos
      /\ reader'.got = reader.got
      /\ reader' = reader \/ (reader.pc = "asleep" /\ reader'.pc = "look")
      /\ reader' \in [pc : ReaderPoints, at : Pipe!Ring, slot : Pipe!Ring, pos : 0 .. Chunks,
                      got : {"none", "data", "end", "error"}]
  BY DEF PipeInv, PipeType, ReaderPoints, Pipe!Stop, Pipe!Woken
<1>2. /\ writer'.at = writer.at /\ writer'.pc \in {"join-fail", "join-ok"}
      /\ writer'.pc = "join-ok" => writer.pc = "succeed"
      /\ writer' \in [pc : WriterPoints, at : Pipe!Ring]
  BY <1>0 DEF PipeInv, PipeType, WriterPoints, Pipe!Stop, Pipe!WriterTo, Pipe!Writer
<1>3. Posted' = Posted /\ Dropped' = Dropped
  BY <1>0, <1>1, <1>2 DEF Posted, Dropped
<1>4. RingInv' /\ Held' = Held
  BY <1>0, <1>2, <1>3, RingKept DEF PipeInv
<1>5. PipeType'
  BY <1>0, <1>1, <1>2 DEF PipeInv, PipeType
<1>6. ReaderInv'
  BY <1>0, <1>1, <1>2, <1>4 DEF PipeInv, ReaderInv, Ahead
<1>7. WriterInv'
  BY <1>0, <1>1, <1>2 DEF WriterInv
<1>8. QED
  BY <1>4, <1>5, <1>6, <1>7 DEF PipeInv

LEMMA JoinKeeps == ASSUME PipeInv, Pipe!Join, job' = job PROVE PipeInv'
<1>0. /\ writer.pc \in {"join-fail", "join-ok"} /\ reader.pc = "gone"
      /\ slot' = slot /\ ctl' = ctl /\ reader' = reader /\ sink' = sink
  BY DEF Pipe!Join, Pipe!Reader
<1>1. PICK point \in {"ok", "failed"} :
        writer' = [writer EXCEPT !.pc = point] /\ (point = "ok" => writer.pc = "join-ok")
  BY <1>0 DEF Pipe!Join, Pipe!WriterTo, Pipe!Writer
<1>2. PipeType' /\ RingInv' /\ ReaderInv' /\ Held' = Held /\ writer'.pc = point
  BY <1>0, <1>1, WriterMoves DEF WriterPoints
<1>3. WriterInv'
  BY <1>0, <1>1, <1>2 DEF PipeInv, WriterInv
<1>4. QED
  BY <1>2, <1>3 DEF PipeInv

(* A cancel is all that happens to the two threads from outside.           *)
LEMMA CancelKeeps == ASSUME PipeInv, UNCHANGED pipe, Seen => Seen' PROVE PipeInv'
<1>1. /\ slot' = slot /\ ctl' = ctl /\ reader' = reader /\ writer' = writer /\ sink' = sink
  BY DEF pipe
<1>2. Posted' = Posted /\ Dropped' = Dropped
  BY <1>1 DEF Posted, Dropped
<1>3. RingInv' /\ Held' = Held
  BY <1>1, <1>2, RingKept DEF PipeInv
<1>4. PipeType'
  BY <1>1 DEF PipeInv, PipeType
<1>5. ReaderInv'
  BY <1>1, <1>3 DEF PipeInv, ReaderInv, Ahead
<1>6. WriterInv'
  BY <1>1, <1>3 DEF PipeInv, WriterInv, Pipe!Off
<1>7. QED
  BY <1>3, <1>4, <1>5, <1>6 DEF PipeInv

LEMMA ThreadsKeep ==
  ASSUME PipeInv, job' = job,
         \/ Pipe!Begin \/ Pipe!ReaderLook \/ Pipe!Read \/ Pipe!Post
         \/ Pipe!WriterLook \/ Pipe!Write \/ Pipe!Drop \/ Pipe!Finish \/ Pipe!Stop \/ Pipe!Join
  PROVE  PipeInv'
BY BeginKeeps, ReaderLookKeeps, ReadKeeps, PostKeeps, WriterLookKeeps, WriteKeeps, DropKeeps,
   FinishKeeps, StopKeeps, JoinKeeps

(* What the ring's invariant means to a reader of the code, and to the job.*)
LEMMA SoundPipe == PipeInv => PipelineIsSound /\ (writer.pc = "ok" => sink = Pipe!Whole)
<1> SUFFICES ASSUME PipeInv PROVE PipelineIsSound /\ (writer.pc = "ok" => sink = Pipe!Whole)
  OBVIOUS
<1>0. /\ writer.at \in Pipe!Ring /\ Held \in 0 .. Slots /\ sink \in Seq(Nat)
      /\ Ahead(writer.at, 0) = writer.at
  BY AheadIs DEF PipeInv, PipeType, RingInv
<1>1. writer.pc = "write" => slot[writer.at].ready
  <2>1. writer.pc = "write" => slot[Ahead(writer.at, 0)].ready
    BY RingLimits DEF PipeInv, RingInv, WriterInv
  <2>2. QED
    BY <2>1, <1>0
<1>2. writer.pc \in {"write", "drop"} /\ reader.pc \in {"read", "post"} => reader.slot # writer.at
  <2>1. SUFFICES ASSUME writer.pc \in {"write", "drop"}, reader.pc \in {"read", "post"}
        PROVE reader.slot # writer.at
    OBVIOUS
  <2>2. Held > 0 /\ Held < Slots /\ reader.slot = Ahead(writer.at, Held)
    BY <2>1 DEF PipeInv, ReaderInv, WriterInv
  <2>3. QED
    BY <2>2, <1>0, AheadIs, RingLimits
<1>3. \A i \in 1 .. Len(sink) : sink[i] = i
  BY DEF PipeInv, WriterInv
<1>4. Len(sink) \in 0 .. Chunks
  <2>1. Dropped + Held = Posted /\ Posted \in Int /\ Len(sink) \in Nat
    BY <1>0 DEF Held, Posted, Dropped, PipeInv, PipeType
  <2>2. Posted <= Chunks
    BY RingLimits DEF Posted, PipeInv, PipeType
  <2>3. Len(sink) <= Dropped + Held
    BY <1>0, <2>1 DEF Dropped, PipeInv, WriterInv
  <2>4. QED
    BY <2>1, <2>2, <2>3, RingLimits
<1>5. sink = SubSeq(Pipe!Whole, 1, Len(sink))
  BY <1>0, <1>3, <1>4, RingLimits DEF Pipe!Whole
<1>6. writer.pc \in {"off", "ok", "failed"} => reader.pc \in {"off", "gone"}
  BY DEF PipeInv, WriterInv
<1>7. writer.pc = "ok" => sink = Pipe!Whole
  <2>1. writer.pc = "ok" => Len(sink) = Chunks
    BY DEF PipeInv, WriterInv
  <2>2. QED
    BY <2>1, <1>0, <1>3, RingLimits DEF Pipe!Whole
<1>8. QED
  BY <1>1, <1>2, <1>5, <1>6, <1>7 DEF PipelineIsSound
=============================================================================
