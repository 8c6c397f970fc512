--------------------------- MODULE PfscPackProofs ---------------------------
(***************************************************************************)
(* Theorems about PfscPack, for every number of blocks, threads and calls, *)
(* every distance of checkpoints and every set of faults.                  *)
(***************************************************************************)
EXTENDS PfscPack, SequenceTheorems, Integers, TLAPS

SlotType   == [pending : BOOLEAN, claimed : BOOLEAN, done : BOOLEAN, error : BOOLEAN,
               raw : Places, packed : Places]
Points     == {"idle", "create", "fill", "post", "await", "asleep", "store", "release",
               "flush", "sync", "mark", "stop", "join", "finish", "end"}
MainType   == [pc : Points, dispatch : Places, write : Places, from : Places,
               rc : {"none", "error", "canceled", "packed"}]
ThreadPcs  == {"none", "look", "wait", "busy", "ready", "exit"}
ThreadType == [pc : ThreadPcs, slot : Slots, got : Places]
PoolType   == [count : Counts \union {1}, stopping : BOOLEAN]

TypeInv ==
  /\ pool \in PoolType
  /\ slot \in [Slots -> SlotType]
  /\ thread \in [Threads -> ThreadType]
  /\ main \in MainType
  /\ buffer \in Seq(Places) /\ file \in [Block -> Places] /\ table \subseteq Places
  /\ safe \in [file : [Block -> Places], table : SUBSET Places]
  /\ mark \in Places /\ cancel \in BOOLEAN /\ calls \in 0 .. Calls

(* The blocks between the two ends of the ring.                            *)
InWindow(b) == main.write <= b /\ b < main.dispatch

(* The calling thread: how far it is at each point.                        *)
MainInv ==
  /\ main.write <= main.dispatch /\ main.dispatch - main.write <= pool.count
  /\ main.pc = "create" => /\ main.write = main.dispatch /\ mark = main.write
                           /\ main.from = mark /\ buffer = <<>>
                           /\ \A s \in Slots : ~slot[s].pending
  /\ main.pc = "fill" => main.write < Blocks
  /\ main.pc = "post" => Window /\ slot[Place(main.dispatch)].raw = main.dispatch
  /\ main.pc \in {"await", "asleep", "store", "release"} => main.write < main.dispatch
  /\ main.pc \in {"store", "release"} => slot[Due].done /\ ~slot[Due].error
  /\ main.pc \in {"stop", "join", "finish"} /\ main.rc = "none" => main.write = Blocks
  /\ main.pc = "finish" => main.rc = "none"
  /\ main.pc = "end" => main.rc # "none"
  /\ main.pc \in {"stop", "join"} => main.rc # "packed"
  /\ main.pc = "end" /\ main.rc = "packed" => main.write = Blocks
  /\ main.pc \notin {"stop", "join", "idle", "end"} => main.rc = "none"

(* A slot that is in use has a block of the window, compressed from what   *)
(* was read.                                                               *)
SlotInv ==
  main.pc \notin {"idle", "end"} =>
    /\ \A b \in Block : InWindow(b) =>
         slot[Place(b)].raw = b /\ slot[Place(b)].pending
    /\ \A s \in Slots : slot[s].pending =>
         /\ \E b \in Block : InWindow(b) /\ Place(b) = s
         /\ slot[s].done /\ ~slot[s].error => slot[s].packed = slot[s].raw

Works(t) == thread[t].pc \in {"busy", "ready"}

(* A thread has its slot to itself.                                        *)
ThreadInv ==
  /\ main.pc \in {"idle", "create", "finish", "end"} => \A t \in Threads : thread[t].pc = "none"
  /\ \A t \in Threads : Works(t) =>
       /\ slot[thread[t].slot].claimed /\ slot[thread[t].slot].pending
       /\ ~slot[thread[t].slot].done
       /\ \A u \in Threads : Works(u) /\ thread[u].slot = thread[t].slot => u = t
  /\ \A t \in Threads : thread[t].pc = "ready" /\ thread[t].got # NoBlock =>
       thread[t].got = slot[thread[t].slot].raw

(* The number of blocks that are stored.                                   *)
Here == IF main.pc = "release" THEN main.write + 1 ELSE main.write

(* What is stored is in the file or, the last of it, in the buffer.        *)
StoreInv ==
  main.pc # "idle" =>
    /\ mark <= main.write /\ main.from <= main.write
    /\ mark + Len(buffer) <= Here
    /\ \A p \in Block : p < Here - Len(buffer) => file[p] = p
    /\ \A k \in 1 .. Len(buffer) : buffer[k] = Here - Len(buffer) + k - 1
    /\ main.from > 0 => 0 .. main.from \subseteq table
    /\ main.pc \in {"flush", "sync", "mark"} => main.write > 0
    /\ main.pc \in {"sync", "mark"} =>
         buffer = <<>> /\ 0 .. main.write \subseteq table
    /\ main.pc = "mark" => /\ \A p \in Block : p < main.write => safe.file[p] = p
                           /\ 0 .. main.write \subseteq safe.table

(* The blocks before the checkpoint are in the file, now and after a crash.*)
MarkInv ==
  /\ \A p \in Block : p < mark => file[p] = p /\ safe.file[p] = p
  /\ mark > 0 => 0 .. mark \subseteq table /\ 0 .. mark \subseteq safe.table

IInv == TypeInv /\ MainInv /\ SlotInv /\ ThreadInv /\ StoreInv /\ MarkInv

-----------------------------------------------------------------------------
(* What is known of the constants, and of the variables.                   *)
LEMMA Limits == Blocks \in Nat \ {0} /\ Every \in Nat \ {0} /\ Counts \subseteq Nat \ {0}
BY PackAssumption

LEMMA SlotsAre == \A n \in Counts \union {1} : 0 .. n - 1 \subseteq Slots
<1>1. \A n \in Counts : 0 .. n - 1 \subseteq Slots
  BY DEF Slots
<1>2. PICK m \in Counts : TRUE
  BY PackAssumption
<1>3. 0 \in 0 .. m - 1 /\ 0 .. 1 - 1 = {0}
  BY <1>2, Limits
<1>4. QED
  BY <1>1, <1>2, <1>3

LEMMA SlotsAreNat == \A s \in Slots : s \in Nat
BY Limits DEF Slots

LEMMA ThreadsAreNat == \A t \in Threads : t \in Nat
BY Limits DEF Threads

LEMMA CountIs ==
  ASSUME TypeInv
  PROVE  pool.count \in Nat \ {0} /\ Ring \subseteq Slots /\ pool.count \in Counts \union {1}
<1>1. pool.count \in Counts \union {1}
  BY DEF TypeInv, PoolType
<1>2. pool.count \in Nat \ {0}
  <2>1. CASE pool.count \in Counts
    BY <2>1, Limits
  <2>2. CASE pool.count = 1
    BY <2>2
  <2>3. QED
    BY <1>1, <2>1, <2>2
<1>3. Ring \subseteq Slots
  BY <1>1, SlotsAre DEF Ring
<1>4. QED
  BY <1>1, <1>2, <1>3

LEMMA MainField ==
  ASSUME TypeInv
  PROVE  /\ main \in MainType /\ main.pc \in Points
         /\ main.dispatch \in 0 .. Blocks /\ main.write \in 0 .. Blocks
         /\ main.from \in 0 .. Blocks /\ mark \in 0 .. Blocks
         /\ main.rc \in {"none", "error", "canceled", "packed"}
<1>1. main \in MainType /\ mark \in Places
  BY DEF TypeInv
<1>2. QED
  BY <1>1 DEF MainType, Places

LEMMA SlotField ==
  ASSUME TypeInv, NEW s \in Slots
  PROVE  /\ slot[s] \in SlotType /\ slot[s].pending \in BOOLEAN /\ slot[s].claimed \in BOOLEAN
         /\ slot[s].done \in BOOLEAN /\ slot[s].error \in BOOLEAN
         /\ slot[s].raw \in Places /\ slot[s].packed \in Places
<1>1. slot[s] \in SlotType
  BY DEF TypeInv
<1>2. QED
  BY <1>1 DEF SlotType

LEMMA ThreadField ==
  ASSUME TypeInv, NEW t \in Threads
  PROVE  /\ thread[t] \in ThreadType /\ thread[t].pc \in ThreadPcs
         /\ thread[t].slot \in Slots /\ thread[t].got \in Places
<1>1. thread[t] \in ThreadType
  BY DEF TypeInv
<1>2. QED
  BY <1>1 DEF ThreadType

LEMMA BlocksArePlaces == /\ Block \subseteq Places /\ NoBlock \in Places
                         /\ \A b \in Places : b \in Nat
                         /\ \A b \in Block : b \in Nat /\ b # NoBlock
BY Limits DEF Block, Places, NoBlock

(* Blocks of a window as long as the ring have slots of their own.         *)
LEMMA Quotient ==
  ASSUME NEW n \in Nat \ {0}, NEW a \in Nat
  PROVE  a = n * (a \div n) + (a % n) /\ (a % n) \in 0 .. n - 1 /\ (a \div n) \in Int
OBVIOUS

LEMMA Multiple ==
  ASSUME NEW n \in Nat \ {0}, NEW p \in Int, NEW q \in Int, n * p > n * q
  PROVE  n * p - n * q >= n
<1>1. p - q \in Int /\ n * (p - q) = n * p - n * q
  OBVIOUS
<1>2. n * (p - q) > 0
  BY <1>1
<1>3. n * (p - q) >= n
  BY <1>1, <1>2
<1>4. QED
  BY <1>1, <1>3

LEMMA PlacesApart ==
  ASSUME NEW n \in Nat \ {0}, NEW a \in Nat, NEW b \in Nat, a < b, b - a < n
  PROVE  a % n # b % n
<1> SUFFICES ASSUME a % n = b % n PROVE FALSE
  OBVIOUS
<1>1. /\ a = n * (a \div n) + (a % n) /\ (a % n) \in Int /\ (a \div n) \in Int
      /\ b = n * (b \div n) + (b % n) /\ (b % n) \in Int /\ (b \div n) \in Int
  BY Quotient
<1>2. n * (b \div n) \in Int /\ n * (a \div n) \in Int
  BY <1>1
<1>3. n * (b \div n) - n * (a \div n) = b - a
  BY <1>1, <1>2
<1>4. n * (b \div n) > n * (a \div n)
  BY <1>2, <1>3
<1>5. n * (b \div n) - n * (a \div n) >= n
  BY <1>1, <1>4, Multiple
<1>6. QED
  BY <1>3, <1>5

LEMMA PlaceIs ==
  ASSUME TypeInv, NEW b \in Nat
  PROVE  Place(b) \in Ring /\ Place(b) \in Slots
<1>1. pool.count \in Nat \ {0} /\ Ring \subseteq Slots
  BY CountIs
<1>2. b % pool.count \in 0 .. pool.count - 1
  BY <1>1, Quotient
<1>3. QED
  BY <1>1, <1>2 DEF Place, Ring

LEMMA PlacesDiffer ==
  ASSUME TypeInv, NEW a \in Nat, NEW b \in Nat, a < b, b - a < pool.count
  PROVE  Place(a) # Place(b)
BY CountIs, PlacesApart DEF Place

(* The slot the caller waits for, while a block is in the window.          *)
LEMMA DueIs ==
  ASSUME TypeInv, SlotInv, main.pc \notin {"idle", "end"}, main.write < main.dispatch
  PROVE  /\ main.write \in Block /\ InWindow(main.write)
         /\ Due \in Slots /\ Due \in Ring
         /\ slot[Due].raw = main.write /\ slot[Due].pending
         /\ slot[Due].done /\ ~slot[Due].error => slot[Due].packed = main.write
<1>1. main.write \in Nat /\ main.write \in Block /\ InWindow(main.write)
  BY MainField, Limits DEF Block, InWindow
<1>2. Due \in Slots /\ Due \in Ring
  BY <1>1, PlaceIs DEF Due
<1>3. QED
  BY <1>1, <1>2 DEF SlotInv, Due

-----------------------------------------------------------------------------
(* What the assignments of the steps do.                                   *)
LEMMA GotoIs ==
  ASSUME TypeInv, NEW p \in Points, Goto(p)
  PROVE  /\ main' \in MainType /\ main'.pc = p /\ main'.rc = main.rc
         /\ main'.dispatch = main.dispatch /\ main'.write = main.write
         /\ main'.from = main.from
<1>1. main \in MainType
  BY MainField
<1>2. QED
  BY <1>1 DEF Goto, MainType

LEMMA FailIs ==
  ASSUME TypeInv, NEW e \in {"error", "canceled"}, Fail(e)
  PROVE  /\ main' \in MainType /\ main'.pc = "stop" /\ main'.rc # "none" /\ main'.rc # "packed"
         /\ main'.dispatch = main.dispatch /\ main'.write = main.write
         /\ main'.from = main.from
<1>1. main \in MainType
  BY MainField
<1>2. QED
  BY <1>1 DEF Fail, MainType, Points

LEMMA ThreadTo ==
  ASSUME TypeInv, NEW t \in Threads, NEW x \in ThreadType, thread' = [thread EXCEPT ![t] = x]
  PROVE  /\ thread' \in [Threads -> ThreadType] /\ thread'[t] = x
         /\ \A u \in Threads \ {t} : thread'[u] = thread[u]
BY DEF TypeInv

-----------------------------------------------------------------------------
(* What a step that leaves a part alone keeps of the invariant.            *)
Quiet == {"idle", "create", "finish", "end"}

LEMMA ThreadFrame ==
  ASSUME ThreadInv,
         \A t \in Threads : Works(t)' =>
           Works(t) /\ thread'[t] = thread[t]
             /\ slot'[thread[t].slot] = slot[thread[t].slot],
         main'.pc \in Quiet => \A t \in Threads : thread'[t].pc = "none"
  PROVE  ThreadInv'
<1>1. \A t \in Threads : Works(t)' =>
        /\ slot'[thread'[t].slot].claimed /\ slot'[thread'[t].slot].pending
        /\ ~slot'[thread'[t].slot].done
        /\ \A u \in Threads : Works(u)' /\ thread'[u].slot = thread'[t].slot => u = t
  BY DEF ThreadInv
<1>2. \A t \in Threads : thread'[t].pc = "ready" /\ thread'[t].got # NoBlock =>
        thread'[t].got = slot'[thread'[t].slot].raw
  BY DEF ThreadInv, Works
<1>3. QED
  BY <1>1, <1>2 DEF ThreadInv, Quiet

(* A slot that is free, or whose block is ready, has no thread.            *)
LEMMA NoWorker ==
  ASSUME ThreadInv, NEW s, ~slot[s].pending \/ slot[s].done,
         NEW t \in Threads, Works(t)
  PROVE  thread[t].slot # s
BY DEF ThreadInv

LEMMA SlotFrame ==
  ASSUME SlotInv, slot' = slot, pool'.count = pool.count,
         main'.dispatch = main.dispatch, main'.write = main.write,
         main.pc \in {"idle", "end"} => main'.pc \in {"idle", "end"}
  PROVE  SlotInv'
BY DEF SlotInv, InWindow, Place

LEMMA StoreFrame ==
  ASSUME StoreInv, UNCHANGED disk, main'.write = main.write, main'.from = main.from,
         main.pc = "idle" => main'.pc = "idle",
         main'.pc \in {"flush", "sync", "mark"} => main'.pc = main.pc,
         main.pc = "release" <=> main'.pc = "release"
  PROVE  StoreInv'
<1>1. Here' = Here
  BY DEF Here
<1>2. QED
  BY <1>1 DEF StoreInv, disk

LEMMA MarkFrame ==
  ASSUME MarkInv, UNCHANGED disk
  PROVE  MarkInv'
BY DEF MarkInv, disk

(* The caller gives up, wherever it is.                                    *)
Going == Points \ {"idle", "end", "release", "stop", "join"}

LEMMA FailKeeps ==
  ASSUME IInv, main.pc \in Going, NEW e \in {"error", "canceled"}, Fail(e),
         thread' \in [Threads -> ThreadType],
         \A t \in Threads : Works(t)' => Works(t) /\ thread'[t] = thread[t],
         UNCHANGED <<pool, slot, disk, cancel, calls>>
  PROVE  IInv'
<1>0. TypeInv /\ MainInv /\ SlotInv /\ ThreadInv /\ StoreInv /\ MarkInv
  BY DEF IInv
<1>1. /\ main' \in MainType /\ main'.pc = "stop" /\ main'.rc # "none" /\ main'.rc # "packed"
      /\ main'.dispatch = main.dispatch /\ main'.write = main.write
      /\ main'.from = main.from
  BY <1>0, FailIs
<1>2. TypeInv'
  BY <1>0, <1>1 DEF TypeInv, disk
<1>3. MainInv'
  BY <1>0, <1>1 DEF MainInv
<1>4. SlotInv'
  BY <1>0, <1>1, SlotFrame DEF Going
<1>5. ThreadInv'
  BY <1>0, <1>1, ThreadFrame DEF Quiet
<1>6. StoreInv' /\ MarkInv'
  BY <1>0, <1>1, StoreFrame, MarkFrame DEF Going
<1>7. QED
  BY <1>2, <1>3, <1>4, <1>5, <1>6 DEF IInv

(* The caller goes on, without a change of anything else.                  *)
LEMMA GotoKeeps ==
  ASSUME IInv, main.pc \in Points \ {"idle", "end", "release"},
         NEW p \in {"fill", "store", "asleep", "stop", "await"}, Goto(p), MainInv',
         UNCHANGED <<pool, slot, thread, disk, cancel, calls>>
  PROVE  IInv'
<1>0. TypeInv /\ MainInv /\ SlotInv /\ ThreadInv /\ StoreInv /\ MarkInv
  BY DEF IInv
<1>1. /\ main' \in MainType /\ main'.pc = p
      /\ main'.dispatch = main.dispatch /\ main'.write = main.write
      /\ main'.from = main.from
  BY <1>0, GotoIs DEF Points
<1>2. TypeInv'
  BY <1>0, <1>1 DEF TypeInv, disk
<1>3. SlotInv'
  BY <1>0, <1>1, SlotFrame
<1>4. ThreadInv'
  BY <1>0, <1>1, ThreadFrame DEF Quiet, Works
<1>5. StoreInv' /\ MarkInv'
  BY <1>0, <1>1, StoreFrame, MarkFrame
<1>6. QED
  BY <1>2, <1>3, <1>4, <1>5 DEF IInv

-----------------------------------------------------------------------------
(* The steps of the calling thread.                                        *)
LEMMA FreshIs == Fresh \in SlotType /\ ~Fresh.pending /\ ~Fresh.done
BY BlocksArePlaces DEF Fresh, SlotType

LEMMA NoThreadIs ==
  /\ NoThread \in ThreadType /\ NoThread.pc = "none"
  /\ [NoThread EXCEPT !.pc = "look"] \in ThreadType
  /\ [NoThread EXCEPT !.pc = "look"].pc = "look"
<1>1. 0 \in Slots
  BY SlotsAre
<1>2. QED
  BY <1>1, BlocksArePlaces DEF NoThread, ThreadType, ThreadPcs

LEMMA InitHolds == Init => IInv
<1> SUFFICES ASSUME Init PROVE IInv
  OBVIOUS
<1>1. Empty \in [Block -> Places] /\ 0 \in Places
  BY BlocksArePlaces, Limits DEF Empty, Places
<1>2. TypeInv
  <2>1. pool \in PoolType
    BY DEF Init, PoolType
  <2>2. main \in MainType
    BY <1>1 DEF Init, MainType, Points
  <2>3. slot \in [Slots -> SlotType] /\ thread \in [Threads -> ThreadType]
    BY FreshIs, NoThreadIs DEF Init
  <2>4. safe \in [file : [Block -> Places], table : SUBSET Places]
    BY <1>1 DEF Init
  <2>5. calls \in 0 .. Calls /\ buffer \in Seq(Places)
    BY PackAssumption DEF Init
  <2>6. QED
    BY <1>1, <2>1, <2>2, <2>3, <2>4, <2>5 DEF Init, TypeInv
<1>3. MainInv
  BY DEF Init, MainInv
<1>4. SlotInv /\ StoreInv
  BY DEF Init, SlotInv, StoreInv
<1>5. ThreadInv
  BY NoThreadIs DEF Init, ThreadInv, Works
<1>6. MarkInv
  BY BlocksArePlaces DEF Init, MarkInv
<1>7. QED
  BY <1>2, <1>3, <1>4, <1>5, <1>6 DEF IInv

LEMMA CallKeeps == ASSUME IInv, Call PROVE IInv'
<1>0. TypeInv /\ ThreadInv /\ MarkInv /\ main.pc = "idle"
  BY DEF IInv, Call, At
<1>1. PICK n \in Counts :
        /\ pool' = [count |-> n, stopping |-> FALSE]
        /\ slot' = [s \in Slots |-> Fresh]
        /\ main' = [pc |-> "create", dispatch |-> mark, write |-> mark, from |-> mark,
                    rc |-> "none"]
  BY Zenon DEF Call
<1>2. mark \in Places /\ mark \in 0 .. Blocks /\ n \in Nat \ {0}
  BY <1>0, MainField, Limits DEF TypeInv
<1>3. /\ buffer' = <<>> /\ thread' = thread /\ safe' = safe /\ mark' = mark /\ cancel' = cancel
      /\ calls' = calls + 1 /\ calls < Calls
  BY DEF Call
<1>4. /\ file' \in [Block -> Places] /\ table' \subseteq Places
      /\ \A p \in Block : p < mark => file'[p] = file[p]
      /\ mark > 0 => table' = table
  <2>1. CASE mark = 0
    <3>1. \A p \in Block : ~(p < 0)
      BY Limits DEF Block
    <3>2. QED
      BY <1>0, <2>1, <3>1 DEF Call, TypeInv
  <2>2. CASE mark # 0
    BY <1>0, <2>2, BlocksArePlaces DEF Call, TypeInv
  <2>3. QED
    BY <2>1, <2>2
<1>5. TypeInv'
  <2>1. pool' \in PoolType /\ main' \in MainType
    BY <1>1, <1>2 DEF PoolType, MainType, Points
  <2>2. slot' \in [Slots -> SlotType]
    BY <1>1, FreshIs
  <2>3. buffer' \in Seq(Places)
    BY <1>3
  <2>4. calls' \in 0 .. Calls
    BY <1>0, <1>3, PackAssumption DEF TypeInv
  <2>5. QED
    BY <1>0, <1>3, <1>4, <2>1, <2>2, <2>3, <2>4 DEF TypeInv
<1>6. /\ main'.pc = "create" /\ main'.dispatch = mark /\ main'.write = mark
      /\ main'.from = mark /\ main'.rc = "none" /\ pool'.count = n
      /\ \A s \in Slots : ~slot'[s].pending
  BY <1>1, FreshIs
<1>7. MainInv'
  BY <1>2, <1>3, <1>6 DEF MainInv
<1>8. SlotInv'
  <2>1. \A b \in Block : ~InWindow(b)'
    BY <1>2, <1>6, BlocksArePlaces DEF InWindow
  <2>2. QED
    BY <1>6, <2>1 DEF SlotInv
<1>9. ThreadInv'
  BY <1>0, <1>3, ThreadFrame DEF ThreadInv, Quiet, Works
<1>10. StoreInv'
  <2>1. Here' = mark /\ Len(buffer') = 0
    BY <1>3, <1>6 DEF Here
  <2>2. \A k \in 1 .. 0 : FALSE
    OBVIOUS
  <2>3. QED
    BY <1>0, <1>2, <1>3, <1>4, <1>6, <2>1, <2>2 DEF StoreInv, MarkInv
<1>11. MarkInv'
  BY <1>0, <1>3, <1>4 DEF MarkInv
<1>12. QED
  BY <1>5, <1>7, <1>8, <1>9, <1>10, <1>11 DEF IInv

LEMMA StartedIs ==
  ASSUME NEW n
  PROVE  /\ Started(n) \in [Threads -> ThreadType]
         /\ \A t \in Threads : Started(n)[t].pc \in {"look", "none"}
BY NoThreadIs DEF Started

LEMMA CreateKeeps == ASSUME IInv, Create PROVE IInv'
<1>0. /\ TypeInv /\ MainInv /\ SlotInv /\ ThreadInv /\ StoreInv /\ MarkInv
      /\ main.pc = "create"
  BY DEF IInv, Create, At
<1>1. UNCHANGED <<pool, slot, disk, cancel, calls>>
  BY DEF Create
<1>2. thread' \in [Threads -> ThreadType] /\ \A t \in Threads : ~Works(t)'
  BY StartedIs DEF Create, Works
<1>3. ASSUME NEW e \in {"error", "canceled"}, Fail(e)
      PROVE  IInv'
  BY <1>0, <1>1, <1>2, <1>3, FailKeeps DEF Going, Points
<1>4. CASE Goto(IF mark < Blocks THEN "fill" ELSE "stop")
  <2>1. /\ main' \in MainType /\ main'.pc = (IF mark < Blocks THEN "fill" ELSE "stop")
        /\ main'.dispatch = main.dispatch /\ main'.write = main.write
        /\ main'.from = main.from /\ main'.rc = main.rc
    BY <1>0, <1>4, GotoIs DEF Points
  <2>2. TypeInv'
    BY <1>0, <1>1, <1>2, <2>1 DEF TypeInv, disk
  <2>3. MainInv'
    <3>1. /\ main.write = mark /\ mark \in 0 .. Blocks /\ main.rc = "none" /\ pool' = pool
          /\ main.write <= main.dispatch /\ main.dispatch - main.write <= pool.count
      BY <1>0, <1>1, MainField DEF MainInv
    <3>2. CASE mark < Blocks
      BY <2>1, <3>1, <3>2 DEF MainInv
    <3>3. CASE ~(mark < Blocks)
      <4>1. main'.write = Blocks /\ main'.pc = "stop"
        BY <2>1, <3>1, <3>3, Limits
      <4>2. QED
        BY <2>1, <3>1, <4>1 DEF MainInv
    <3>4. QED
      BY <3>2, <3>3
  <2>4. SlotInv'
    BY <1>0, <1>1, <2>1, SlotFrame
  <2>5. ThreadInv'
    BY <1>0, <1>1, <1>2, <2>1, ThreadFrame DEF Quiet
  <2>6. StoreInv' /\ MarkInv'
    BY <1>0, <1>1, <2>1, StoreFrame, MarkFrame
  <2>7. QED
    BY <2>2, <2>3, <2>4, <2>5, <2>6 DEF IInv
<1>5. QED
  BY <1>3, <1>4 DEF Create

(* The slot of the next block is free.                                     *)
LEMMA FreePlace ==
  ASSUME TypeInv, SlotInv, ThreadInv, main.pc \in {"fill", "post"}, Window
  PROVE  /\ main.dispatch \in Block /\ Place(main.dispatch) \in Slots
         /\ \A b \in Block : InWindow(b) => Place(b) # Place(main.dispatch)
         /\ ~slot[Place(main.dispatch)].pending
         /\ \A t \in Threads : Works(t) => thread[t].slot \in Slots \ {Place(main.dispatch)}
<1>1. /\ main.dispatch \in Nat /\ main.dispatch \in Block /\ main.write \in Nat
      /\ Place(main.dispatch) \in Slots /\ pool.count \in Nat
  BY MainField, PlaceIs, CountIs, Limits DEF Block, Window
<1>2. \A b \in Block : InWindow(b) => Place(b) # Place(main.dispatch)
  <2>1. ASSUME NEW b \in Block, InWindow(b)
        PROVE  b \in Nat /\ b < main.dispatch /\ main.dispatch - b < pool.count
    BY <1>1, <2>1, BlocksArePlaces DEF Window, InWindow
  <2>2. QED
    BY <1>1, <2>1, PlacesDiffer
<1>3. ~slot[Place(main.dispatch)].pending
  BY <1>1, <1>2 DEF SlotInv
<1>4. \A t \in Threads : Works(t) => thread[t].slot \in Slots \ {Place(main.dispatch)}
  BY <1>3, NoWorker, ThreadField
<1>5. QED
  BY <1>1, <1>2, <1>3, <1>4

LEMMA FillKeeps == ASSUME IInv, Fill PROVE IInv'
<1>0. /\ TypeInv /\ MainInv /\ SlotInv /\ ThreadInv /\ StoreInv /\ MarkInv
      /\ main.pc = "fill" /\ Window
  BY DEF IInv, Fill, At
<1>1. UNCHANGED <<pool, thread, disk, cancel, calls>>
  BY DEF Fill
<1>2. CASE slot' = slot /\ Fail("error")
  BY <1>0, <1>1, <1>2, FailKeeps DEF Going, Points, Works, IInv, TypeInv
<1>3. CASE /\ slot' = [slot EXCEPT ![Place(main.dispatch)].raw = main.dispatch]
           /\ Goto("post")
  <2> DEFINE s == Place(main.dispatch)
  <2>1. /\ main.dispatch \in Places /\ s \in Slots
        /\ \A b \in Block : InWindow(b) => Place(b) # s
        /\ ~slot[s].pending
        /\ \A t \in Threads : Works(t) => thread[t].slot \in Slots \ {s}
    BY <1>0, FreePlace, MainField DEF Places
  <2> HIDE DEF s
  <2>4. /\ slot' \in [Slots -> SlotType] /\ slot'[s].raw = main.dispatch
        /\ slot'[s].pending = slot[s].pending /\ slot'[s].done = slot[s].done
        /\ \A r \in Slots \ {s} : slot'[r] = slot[r]
    <3>1. slot \in [Slots -> SlotType] /\ slot[s] \in SlotType
      BY <1>0, <2>1, SlotField DEF TypeInv
    <3>2. slot' = [slot EXCEPT ![s].raw = main.dispatch]
      BY <1>3 DEF s
    <3>3. QED
      BY <2>1, <3>1, <3>2 DEF SlotType
  <2>5. /\ main' \in MainType /\ main'.pc = "post" /\ main'.rc = main.rc
        /\ main'.dispatch = main.dispatch /\ main'.write = main.write
        /\ main'.from = main.from
    BY <1>0, <1>3, GotoIs DEF Points
  <2>6. TypeInv'
    BY <1>0, <1>1, <2>4, <2>5 DEF TypeInv, disk
  <2>7. MainInv'
    <3>1. pool' = pool
      BY <1>1
    <3>2. Window' /\ Place(main.dispatch)' = s
      BY <1>0, <2>5, <3>1 DEF Window, Place, s
    <3>3. (slot[Place(main.dispatch)].raw = main.dispatch)'
      BY <2>4, <2>5, <3>2
    <3>4. main.write <= main.dispatch /\ main.dispatch - main.write <= pool.count /\ main.rc = "none"
      BY <1>0 DEF MainInv
    <3>5. QED
      BY <2>5, <3>1, <3>2, <3>3, <3>4 DEF MainInv
  <2>8. SlotInv'
    <3>1. \A b \in Block : /\ InWindow(b)' = InWindow(b) /\ Place(b)' = Place(b)
                           /\ InWindow(b) => Place(b) \in Slots \ {s}
      BY <1>0, <1>1, <2>1, <2>5, PlaceIs, BlocksArePlaces DEF InWindow, Place
    <3>2. \A b \in Block : InWindow(b)' =>
            slot'[Place(b)'].raw = b /\ slot'[Place(b)'].pending
      BY <1>0, <2>4, <3>1 DEF SlotInv
    <3>3. \A r \in Slots : slot'[r].pending => r \in Slots \ {s} /\ slot[r].pending
      BY <2>1, <2>4
    <3>4. QED
      BY <1>0, <2>4, <3>1, <3>2, <3>3 DEF SlotInv
  <2>9. ThreadInv'
    BY <1>0, <1>1, <2>1, <2>4, <2>5, ThreadFrame DEF Quiet, Works
  <2>10. StoreInv' /\ MarkInv'
    BY <1>0, <1>1, <2>5, StoreFrame, MarkFrame
  <2>11. QED
    BY <2>6, <2>7, <2>8, <2>9, <2>10 DEF IInv
<1>4. QED
  BY <1>2, <1>3 DEF Fill

(* The block that was read is handed on: to the pool, or compressed.       *)
LEMMA DispatchKeeps ==
  ASSUME IInv, main.pc = "post", UNCHANGED <<pool, disk, cancel, calls>>,
         NEW x \in SlotType, x.raw = main.dispatch, x.pending,
         x.done /\ ~x.error => x.packed = x.raw,
         slot' = [slot EXCEPT ![Place(main.dispatch)] = x],
         main' = [main EXCEPT !.pc = "fill", !.dispatch = @ + 1],
         thread' \in [Threads -> ThreadType],
         \A t \in Threads : Works(t)' => Works(t) /\ thread'[t] = thread[t]
  PROVE  IInv'
<1>0. /\ TypeInv /\ MainInv /\ SlotInv /\ ThreadInv /\ StoreInv /\ MarkInv
      /\ Window
  BY DEF IInv, MainInv
<1> DEFINE s == Place(main.dispatch)
<1>1. /\ main.dispatch \in Block /\ s \in Slots
      /\ \A b \in Block : InWindow(b) => Place(b) # s
      /\ ~slot[s].pending
      /\ \A t \in Threads : Works(t) => thread[t].slot \in Slots \ {s}
  BY <1>0, FreePlace
<1>2. slot' = [slot EXCEPT ![s] = x] /\ s = Place(main.dispatch)
  OBVIOUS
<1> HIDE DEF s
<1>3. /\ slot' \in [Slots -> SlotType] /\ slot'[s] = x
      /\ \A r \in Slots \ {s} : slot'[r] = slot[r]
  <2>1. slot \in [Slots -> SlotType] /\ s \in Slots
    BY <1>0, <1>1 DEF TypeInv
  <2>2. QED
    BY <1>2, <2>1
<1>4. /\ main' \in MainType /\ main'.pc = "fill" /\ main'.rc = main.rc
      /\ main'.dispatch = main.dispatch + 1 /\ main'.write = main.write
      /\ main'.from = main.from
  <2>1. main.dispatch + 1 \in Places /\ "fill" \in Points
    BY <1>1, Limits DEF Block, Places, Points
  <2>2. main \in MainType
    BY <1>0, MainField
  <2>3. QED
    BY <2>1, <2>2 DEF MainType
<1>5. TypeInv'
  BY <1>0, <1>3, <1>4 DEF TypeInv, disk
<1>6. MainInv'
  <2>1. /\ main.write < Blocks /\ main.write <= main.dispatch + 1
        /\ (main.dispatch + 1) - main.write <= pool.count
        /\ main.rc = "none" /\ pool' = pool
    BY <1>0, MainField, CountIs, Limits DEF MainInv, Window
  <2>2. /\ main'.write < Blocks /\ main'.write <= main'.dispatch
        /\ main'.dispatch - main'.write <= pool'.count /\ main'.rc = "none"
    BY <1>4, <2>1
  <2>3. QED
    BY <1>4, <2>2 DEF MainInv
<1>7. SlotInv'
  <2>1. \A b \in Block : /\ InWindow(b)' <=> InWindow(b) \/ b = main.dispatch
                         /\ Place(b)' = Place(b)
                         /\ InWindow(b) => Place(b) \in Slots \ {s}
    <3>1. ASSUME NEW b \in Block
          PROVE  /\ InWindow(b)' <=> InWindow(b) \/ b = main.dispatch
                 /\ InWindow(b) => Place(b) \in Slots \ {s}
      <4>1. /\ b \in Nat /\ main.write \in Nat /\ main.dispatch \in Nat
            /\ main.write <= main.dispatch
        BY <1>0, MainField, BlocksArePlaces DEF MainInv
      <4>2. QED
        BY <1>0, <1>1, <1>4, <4>1, PlaceIs DEF InWindow
    <3>2. QED
      BY <3>1 DEF Place
  <2>2. \A b \in Block : InWindow(b)' =>
          slot'[Place(b)'].raw = b /\ slot'[Place(b)'].pending
    BY <1>0, <1>2, <1>3, <2>1 DEF SlotInv
  <2>3. ASSUME NEW r \in Slots, slot'[r].pending
        PROVE  /\ \E b \in Block : InWindow(b)' /\ Place(b)' = r
               /\ slot'[r].done /\ ~slot'[r].error => slot'[r].packed = slot'[r].raw
    <3>1. CASE r = s
      BY <1>1, <1>2, <1>3, <2>1, <3>1
    <3>2. CASE r # s
      BY <1>0, <1>3, <2>1, <2>3, <3>2 DEF SlotInv
    <3>3. QED
      BY <3>1, <3>2
  <2>4. QED
    BY <2>2, <2>3 DEF SlotInv
<1>8. ThreadInv'
  BY <1>0, <1>1, <1>3, <1>4, ThreadFrame DEF Quiet
<1>9. StoreInv' /\ MarkInv'
  BY <1>0, <1>4, StoreFrame, MarkFrame
<1>10. QED
  BY <1>5, <1>6, <1>7, <1>8, <1>9 DEF IInv

(* A signal starts no work.                                                *)
LEMMA SignalIs ==
  ASSUME TypeInv, Signal
  PROVE  /\ thread' \in [Threads -> ThreadType]
         /\ \A t \in Threads : \/ thread'[t] = thread[t]
                               \/ thread[t].pc = "wait" /\ thread'[t].pc = "look"
<1>1. thread \in [Threads -> ThreadType]
  BY DEF TypeInv
<1>2. CASE UNCHANGED thread
  BY <1>1, <1>2
<1>3. ASSUME NEW u \in Threads, thread[u].pc = "wait",
             thread' = [thread EXCEPT ![u].pc = "look"]
      PROVE  /\ thread' \in [Threads -> ThreadType]
             /\ \A t \in Threads : \/ thread'[t] = thread[t]
                                   \/ thread[t].pc = "wait" /\ thread'[t].pc = "look"
  BY <1>1, <1>3 DEF ThreadType, ThreadPcs
<1>4. QED
  BY <1>2, <1>3, Zenon DEF Signal

LEMMA PostKeeps == ASSUME IInv, Post PROVE IInv'
<1>0. TypeInv /\ MainInv /\ main.pc = "post" /\ Signal
  BY DEF IInv, Post, At
<1> DEFINE s == Place(main.dispatch)
           x == Dispatched(s)
<1>1. /\ slot' = [slot EXCEPT ![s] = x]
      /\ main' = [main EXCEPT !.pc = "fill", !.dispatch = @ + 1]
      /\ UNCHANGED <<pool, disk, cancel, calls>>
  BY DEF Post
<1>2. s \in Slots /\ slot[s].raw = main.dispatch
  BY <1>0, MainField, PlaceIs DEF MainInv
<1>3. /\ x \in SlotType /\ x.raw = main.dispatch /\ x.pending /\ ~x.done
  <2>1. slot[s] \in SlotType
    BY <1>0, <1>2, SlotField
  <2>2. QED
    BY <1>2, <2>1 DEF Dispatched, SlotType
<1>4. /\ thread' \in [Threads -> ThreadType]
      /\ \A t \in Threads : Works(t)' => Works(t) /\ thread'[t] = thread[t]
  BY <1>0, SignalIs DEF Works
<1> HIDE DEF x
<1>5. QED
  BY <1>0, <1>1, <1>3, <1>4, DispatchKeeps

LEMMA InlineKeeps == ASSUME IInv, Inline PROVE IInv'
<1>0. TypeInv /\ MainInv /\ main.pc = "post" /\ pool.count = 1
  BY DEF IInv, Inline, At
<1>1. /\ UNCHANGED <<pool, thread, disk, cancel, calls>>
      /\ thread' \in [Threads -> ThreadType]
      /\ \A t \in Threads : Works(t)' => Works(t) /\ thread'[t] = thread[t]
  BY <1>0 DEF Inline, TypeInv, Works
<1>2. CASE Fail("canceled") /\ UNCHANGED slot
  BY <1>0, <1>1, <1>2, FailKeeps DEF Going, Points
<1>3. ASSUME NEW bad \in BOOLEAN,
             slot' = [slot EXCEPT ![0].pending = TRUE, ![0].done = TRUE,
                        ![0].error = bad, ![0].packed = slot[0].raw],
             main' = [main EXCEPT !.pc = "fill", !.dispatch = @ + 1]
      PROVE  IInv'
  <2>1. 0 = Place(main.dispatch) /\ 0 \in Slots
    <3>1. main.dispatch \in Nat /\ Place(main.dispatch) \in Slots
      BY <1>0, MainField, PlaceIs
    <3>2. main.dispatch % 1 = 0
      BY <3>1
    <3>3. QED
      BY <1>0, <3>1, <3>2 DEF Place
  <2>2. slot[0].raw = main.dispatch /\ slot[0] \in SlotType /\ slot \in [Slots -> SlotType]
    BY <1>0, <2>1, SlotField DEF MainInv, TypeInv
  <2> DEFINE x == [slot[0] EXCEPT !.pending = TRUE, !.done = TRUE, !.error = bad,
                                  !.packed = slot[0].raw]
  <2>3. x \in SlotType /\ x.raw = main.dispatch /\ x.pending /\ x.packed = x.raw
    BY <2>2 DEF SlotType
  <2>4. slot' = [slot EXCEPT ![0] = x]
    BY <1>3, <2>1, <2>2
  <2> HIDE DEF x
  <2>5. slot' = [slot EXCEPT ![Place(main.dispatch)] = x]
    BY <2>1, <2>4
  <2>6. QED
    BY <1>0, <1>1, <1>3, <2>3, <2>5, DispatchKeeps
<1>4. QED
  BY <1>2, <1>3 DEF Inline

LEMMA AwaitKeeps == ASSUME IInv, Await PROVE IInv'
<1>0. TypeInv /\ MainInv /\ main.pc \in {"fill", "await"}
  BY DEF IInv, Await, At
<1>1. /\ UNCHANGED <<pool, slot, thread, disk, cancel, calls>>
      /\ thread' \in [Threads -> ThreadType]
      /\ \A t \in Threads : Works(t)' => Works(t) /\ thread'[t] = thread[t]
  BY <1>0 DEF Await, TypeInv, Works
<1>2. ASSUME NEW e \in {"error", "canceled"}, Fail(e)
      PROVE  IInv'
  BY <1>0, <1>1, <1>2, FailKeeps DEF Going, Points
<1>3. main.write < main.dispatch
  <2>1. CASE main.pc = "fill"
    <3>1. /\ ~(main.dispatch < Blocks /\ main.dispatch - main.write < pool.count)
          /\ main.write < Blocks
      BY <2>1 DEF Await, At, Window
    <3>2. QED
      BY <1>0, <3>1, MainField, CountIs, Limits
  <2>2. CASE main.pc = "await"
    BY <1>0, <2>2 DEF MainInv
  <2>3. QED
    BY <1>0, <2>1, <2>2
<1>4. ASSUME NEW p \in {"store", "asleep"}, Goto(p), p = "store" => slot[Due].done /\ ~slot[Due].error
      PROVE  IInv'
  <2>1. /\ main' \in MainType /\ main'.pc = p /\ main'.rc = main.rc
        /\ main'.dispatch = main.dispatch /\ main'.write = main.write
    BY <1>0, <1>4, GotoIs DEF Points
  <2>2. /\ pool' = pool /\ main.rc = "none" /\ main.write <= main.dispatch
        /\ main.dispatch - main.write <= pool.count
    BY <1>0, <1>1 DEF MainInv
  <2>3. Due' = Due /\ slot' = slot
    BY <1>1, <2>1, <2>2 DEF Due, Place
  <2>4. MainInv'
    BY <1>3, <1>4, <2>1, <2>2, <2>3 DEF MainInv
  <2>5. QED
    BY <1>0, <1>1, <1>4, <2>4, GotoKeeps DEF Points
<1>5. QED
  BY <1>2, <1>4 DEF Await

(* The buffer in its place in the file.                                    *)
LEMMA FlushedIs ==
  ASSUME TypeInv, StoreInv, main.pc \notin {"idle", "release"}
  PROVE  /\ Flushed(file) \in [Block -> Places]
         /\ \A p \in Block : p < main.write => Flushed(file)[p] = p
         /\ mark <= main.write
<1> DEFINE first == main.write - Len(buffer)
<1>1. /\ main.write \in Nat /\ Len(buffer) \in Nat /\ buffer \in Seq(Places)
      /\ file \in [Block -> Places] /\ first \in Int
  BY MainField DEF TypeInv
<1>2. /\ mark <= main.write
      /\ \A p \in Block : p < first => file[p] = p
      /\ \A k \in 1 .. Len(buffer) : buffer[k] = first + k - 1
  BY DEF StoreInv, Here
<1>3. Flushed(file) = [p \in Block |-> IF p < main.write /\ p >= first
                                       THEN buffer[p - first + 1] ELSE file[p]]
  BY DEF Flushed
<1>4. first + Len(buffer) = main.write
  BY <1>1
<1> HIDE DEF first
<1>5. ASSUME NEW p \in Block, p < main.write, p >= first
      PROVE  p - first + 1 \in 1 .. Len(buffer) /\ buffer[p - first + 1] = p
  <2>1. p - first + 1 \in 1 .. Len(buffer) /\ first + (p - first + 1) - 1 = p
    BY <1>1, <1>4, <1>5, BlocksArePlaces
  <2>2. QED
    BY <1>2, <2>1
<1>6. Flushed(file) \in [Block -> Places]
  BY <1>1, <1>3, <1>5, BlocksArePlaces
<1>7. ASSUME NEW p \in Block, p < main.write
      PROVE  Flushed(file)[p] = p
  <2>1. CASE p >= first
    BY <1>3, <1>5, <1>7, <2>1
  <2>2. CASE ~(p >= first)
    <3>1. p < first
      BY <1>1, <2>2, BlocksArePlaces
    <3>2. QED
      BY <1>2, <1>3, <2>2, <3>1
  <2>3. QED
    BY <2>1, <2>2
<1>8. QED
  BY <1>2, <1>6, <1>7

LEMMA StoreKeeps == ASSUME IInv, Store PROVE IInv'
<1>0. /\ TypeInv /\ MainInv /\ SlotInv /\ ThreadInv /\ StoreInv /\ MarkInv
      /\ main.pc = "store" /\ Here = main.write
  BY DEF IInv, Store, At, Here
<1>1. UNCHANGED <<pool, slot, thread, table, safe, mark, cancel, calls>>
  BY DEF Store
<1>2. CASE Fail("error") /\ UNCHANGED <<file, buffer>>
  BY <1>0, <1>1, <1>2, FailKeeps DEF Going, Points, disk, TypeInv, Works
<1>3. /\ slot[Due].raw = main.write /\ slot[Due].packed = main.write
      /\ main.write \in Block /\ main.write < main.dispatch
      /\ main.write \in Nat /\ main.write \in Places
  BY <1>0, DueIs, BlocksArePlaces DEF MainInv
<1>4. /\ Flushed(file) \in [Block -> Places]
      /\ \A p \in Block : p < main.write => Flushed(file)[p] = p
  BY <1>0, FlushedIs
<1>5. /\ mark <= main.write /\ main.from <= main.write /\ mark \in Nat
      /\ mark + Len(buffer) <= main.write /\ Len(buffer) \in Nat
      /\ \A p \in Block : p < main.write - Len(buffer) => file[p] = p
      /\ \A k \in 1 .. Len(buffer) : buffer[k] = main.write - Len(buffer) + k - 1
      /\ buffer \in Seq(Places) /\ file \in [Block -> Places]
  BY <1>0, MainField DEF StoreInv, TypeInv
<1>6. ASSUME Goto("release"),
             buffer' \in Seq(Places), file' \in [Block -> Places],
             mark + Len(buffer') <= main.write + 1,
             \A p \in Block : p < (main.write + 1) - Len(buffer') => file'[p] = p,
             \A k \in 1 .. Len(buffer') : buffer'[k] = (main.write + 1) - Len(buffer') + k - 1,
             \A p \in Block : p < mark => file'[p] = p
      PROVE  IInv'
  <2>1. /\ main' \in MainType /\ main'.pc = "release" /\ main'.rc = main.rc
        /\ main'.dispatch = main.dispatch /\ main'.write = main.write
        /\ main'.from = main.from
    BY <1>0, <1>6, GotoIs DEF Points
  <2>2. TypeInv'
    BY <1>0, <1>1, <1>6, <2>1 DEF TypeInv
  <2>3. MainInv'
    <3>1. /\ pool' = pool /\ main.rc = "none" /\ slot[Due].done /\ ~slot[Due].error
          /\ main.write <= main.dispatch /\ main.dispatch - main.write <= pool.count
      BY <1>0, <1>1 DEF MainInv
    <3>2. Due' = Due /\ slot' = slot
      BY <1>1, <2>1, <3>1 DEF Due, Place
    <3>3. QED
      BY <1>3, <2>1, <3>1, <3>2 DEF MainInv
  <2>4. SlotInv'
    BY <1>0, <1>1, <2>1, SlotFrame
  <2>5. ThreadInv'
    BY <1>0, <1>1, <2>1, ThreadFrame DEF Quiet, Works
  <2>6. StoreInv'
    <3>1. Here' = main.write + 1
      BY <2>1 DEF Here
    <3>2. table' = table /\ mark' = mark /\ safe' = safe
          /\ (main.from > 0 => 0 .. main.from \subseteq table)
      BY <1>0, <1>1 DEF StoreInv
    <3>3. QED
      BY <1>5, <1>6, <2>1, <3>1, <3>2 DEF StoreInv
  <2>7. MarkInv'
    BY <1>0, <1>1, <1>6 DEF MarkInv
  <2>8. QED
    BY <2>2, <2>3, <2>4, <2>5, <2>6, <2>7 DEF IInv
<1>7. CASE file' = StoredHard /\ buffer' = <<>> /\ Goto("release")
  <2>1. file' = [Flushed(file) EXCEPT ![main.write] = main.write]
    BY <1>3, <1>7 DEF StoredHard
  <2>2. /\ file' \in [Block -> Places] /\ file'[main.write] = main.write
        /\ \A p \in Block : p # main.write => file'[p] = Flushed(file)[p]
    BY <1>3, <1>4, <2>1
  <2>3. \A p \in Block : p < main.write + 1 => file'[p] = p
    BY <1>3, <1>4, <2>2, BlocksArePlaces
  <2>4. Len(buffer') = 0 /\ buffer' \in Seq(Places)
    BY <1>7
  <2>5. \A p \in Block : p < mark => p < main.write + 1
    BY <1>3, <1>5, BlocksArePlaces
  <2>6. (main.write + 1) - Len(buffer') = main.write + 1 /\ mark + Len(buffer') <= main.write + 1
    BY <1>3, <1>5, <2>4
  <2>7. \A k \in 1 .. Len(buffer') : FALSE
    BY <2>4
  <2>8. QED
    BY <1>6, <1>7, <2>2, <2>3, <2>4, <2>5, <2>6, <2>7
<1>8. CASE buffer' = Append(buffer, slot[Due].packed) /\ UNCHANGED file /\ Goto("release")
  <2>1. /\ buffer' \in Seq(Places) /\ Len(buffer') = Len(buffer) + 1
        /\ buffer'[Len(buffer) + 1] = main.write
        /\ \A k \in 1 .. Len(buffer) : buffer'[k] = buffer[k]
    BY <1>3, <1>5, <1>8
  <2>2. /\ (main.write + 1) - Len(buffer') = main.write - Len(buffer)
        /\ mark + Len(buffer') <= main.write + 1
    BY <1>3, <1>5, <2>1
  <2>3. ASSUME NEW k \in 1 .. Len(buffer')
        PROVE  buffer'[k] = (main.write + 1) - Len(buffer') + k - 1
    <3>1. CASE k \in 1 .. Len(buffer)
      BY <1>5, <2>1, <2>2, <3>1
    <3>2. CASE k = Len(buffer) + 1
      <4>1. main.write - Len(buffer) + (Len(buffer) + 1) - 1 = main.write
        BY <1>3, <1>5
      <4>2. QED
        BY <2>1, <2>2, <3>2, <4>1
    <3>3. QED
      BY <1>5, <2>1, <3>1, <3>2
  <2>4. \A p \in Block : p < mark => file'[p] = p
    BY <1>0, <1>8 DEF MarkInv
  <2>5. QED
    BY <1>5, <1>6, <1>8, <2>1, <2>2, <2>3, <2>4
<1>9. CASE buffer' = <<slot[Due].packed>> /\ file' = Flushed(file) /\ Goto("release")
  <2>1. buffer' \in Seq(Places) /\ Len(buffer') = 1 /\ buffer'[1] = main.write
    BY <1>3, <1>9
  <2>2. (main.write + 1) - Len(buffer') = main.write /\ mark + Len(buffer') <= main.write + 1
    BY <1>3, <1>5, <2>1
  <2>3. \A p \in Block : p < mark => p < main.write
    BY <1>3, <1>5, BlocksArePlaces
  <2>4. ASSUME NEW k \in 1 .. Len(buffer')
        PROVE  buffer'[k] = (main.write + 1) - Len(buffer') + k - 1
    <3>1. k = 1 /\ main.write + 1 - 1 = main.write
      BY <1>3, <2>1
    <3>2. QED
      BY <2>1, <2>2, <3>1
  <2>5. QED
    BY <1>4, <1>6, <1>9, <2>1, <2>2, <2>3, <2>4
<1>10. QED
  BY <1>2, <1>7, <1>8, <1>9 DEF Store

LEMMA ReleaseKeeps == ASSUME IInv, Release PROVE IInv'
<1>0. /\ TypeInv /\ MainInv /\ SlotInv /\ ThreadInv /\ StoreInv /\ MarkInv
      /\ main.pc = "release" /\ Here = main.write + 1
  BY DEF IInv, Release, At, Here
<1>1. UNCHANGED <<pool, thread, disk, cancel, calls>>
  BY DEF Release
<1> DEFINE n   == main.write + 1
           due == n = Blocks \/ n - main.from >= Every
<1>2. /\ Due \in Slots /\ slot[Due].done /\ main.write < main.dispatch
      /\ Due = Place(main.write) /\ main.write \in Block /\ main.write \in Nat
      /\ main.dispatch \in Nat /\ main.from \in Nat /\ main.dispatch <= Blocks /\ Blocks \in Nat
      /\ pool.count \in Nat /\ main.rc = "none" /\ pool' = pool
      /\ main.dispatch - main.write <= pool.count
  BY <1>0, <1>1, DueIs, MainField, CountIs, Limits DEF MainInv, Due
<1>3. n \in Places /\ n \in Nat /\ n <= Blocks /\ n <= main.dispatch
      /\ main.dispatch - n <= pool.count
  BY <1>2 DEF Places
<1>4. /\ main' \in MainType /\ main'.dispatch = main.dispatch /\ main'.write = n
      /\ main'.from = main.from
      /\ \/ main'.pc = "fill" /\ main'.rc = "none" /\ n # Blocks
         \/ main'.pc = "flush" /\ main'.rc = "none"
         \/ main'.pc = "stop" /\ main'.rc = "canceled"
  <2>1. main \in MainType
    BY <1>0, MainField
  <2> HIDE DEF n
  <2>2. CASE main' = [main EXCEPT !.write = n, !.pc = IF due THEN "flush" ELSE "fill"]
    BY <1>2, <1>3, <2>1, <2>2 DEF MainType, Points
  <2>3. CASE main' = [main EXCEPT !.write = n, !.pc = "stop", !.rc = "canceled"]
    BY <1>3, <2>1, <2>3 DEF MainType, Points
  <2>4. QED
    BY <2>2, <2>3 DEF Release, n
<1>5. /\ slot' \in [Slots -> SlotType] /\ ~slot'[Due].pending
      /\ \A r \in Slots \ {Due} : slot'[r] = slot[r]
  <2>1. slot \in [Slots -> SlotType] /\ slot[Due] \in SlotType
    BY <1>0, <1>2, SlotField DEF TypeInv
  <2>2. slot' = [slot EXCEPT ![Due].pending = FALSE, ![Due].done = FALSE]
    BY DEF Release
  <2>3. QED
    BY <1>2, <2>1, <2>2 DEF SlotType
<1>6. TypeInv'
  BY <1>0, <1>1, <1>4, <1>5 DEF TypeInv, disk
<1>7. MainInv'
  <2>1. /\ main'.write <= main'.dispatch /\ main'.dispatch - main'.write <= pool'.count
        /\ main'.pc = "fill" => main'.write < Blocks
    BY <1>2, <1>3, <1>4
  <2>2. QED
    BY <1>4, <2>1 DEF MainInv
<1>8. SlotInv'
  <2>1. \A b \in Block : Place(b)' = Place(b)
    BY <1>1 DEF Place
  <2>2. \A b \in Block : InWindow(b)' <=> InWindow(b) /\ b # main.write
    BY <1>2, <1>4, BlocksArePlaces DEF InWindow
  <2>3. ASSUME NEW b \in Block, InWindow(b), b # main.write
        PROVE  Place(b) \in Slots \ {Due}
    <3>1. b \in Nat /\ main.write < b /\ b - main.write < pool.count
      BY <1>2, <2>3, BlocksArePlaces DEF InWindow
    <3>2. QED
      BY <1>0, <1>2, <3>1, PlacesDiffer, PlaceIs
  <2>4. \A b \in Block : InWindow(b)' =>
          slot'[Place(b)'].raw = b /\ slot'[Place(b)'].pending
    BY <1>0, <1>5, <2>1, <2>2, <2>3 DEF SlotInv
  <2>5. ASSUME NEW r \in Slots, slot'[r].pending
        PROVE  /\ \E b \in Block : InWindow(b)' /\ Place(b)' = r
               /\ slot'[r].done /\ ~slot'[r].error => slot'[r].packed = slot'[r].raw
    <3>1. r # Due /\ slot'[r] = slot[r]
      BY <1>5, <2>5
    <3>2. /\ \E b \in Block : InWindow(b) /\ Place(b) = r
          /\ slot'[r].done /\ ~slot'[r].error => slot'[r].packed = slot'[r].raw
      BY <1>0, <2>5, <3>1 DEF SlotInv
    <3>3. QED
      BY <1>2, <2>1, <2>2, <3>1, <3>2
  <2>6. QED
    BY <2>4, <2>5 DEF SlotInv
<1>9. ThreadInv'
  <2>1. \A t \in Threads : Works(t) => thread[t].slot \in Slots \ {Due}
    BY <1>0, <1>2, NoWorker, ThreadField
  <2>2. QED
    BY <1>0, <1>1, <1>4, <1>5, <2>1, ThreadFrame DEF Quiet, Works
<1>10. StoreInv'
  <2>1. Here' = Here /\ UNCHANGED <<buffer, file, table, safe, mark>>
    BY <1>0, <1>1, <1>4 DEF Here, disk
  <2>2. mark <= n /\ main.from <= n /\ n > 0
    BY <1>0, <1>2, MainField DEF StoreInv
  <2>3. QED
    BY <1>0, <1>4, <2>1, <2>2 DEF StoreInv
<1>11. MarkInv'
  BY <1>0, <1>1, MarkFrame
<1>12. QED
  BY <1>6, <1>7, <1>8, <1>9, <1>10, <1>11 DEF IInv

LEMMA FlushKeeps == ASSUME IInv, Flush PROVE IInv'
<1>0. /\ TypeInv /\ MainInv /\ SlotInv /\ ThreadInv /\ StoreInv /\ MarkInv
      /\ main.pc = "flush" /\ Here = main.write
  BY DEF IInv, Flush, At, Here
<1>1. UNCHANGED <<pool, slot, thread, safe, mark, cancel, calls>>
  BY DEF Flush
<1>2. CASE Fail("error") /\ UNCHANGED <<file, buffer, table>>
  BY <1>0, <1>1, <1>2, FailKeeps DEF Going, Points, disk, TypeInv, Works
<1>3. CASE /\ file' = Flushed(file) /\ buffer' = <<>>
           /\ table' = table \union (main.from .. main.write)
           /\ Goto("sync")
  <2>1. /\ main' \in MainType /\ main'.pc = "sync" /\ main'.rc = main.rc
        /\ main'.dispatch = main.dispatch /\ main'.write = main.write
        /\ main'.from = main.from
    BY <1>0, <1>3, GotoIs DEF Points
  <2>2. /\ file' \in [Block -> Places]
        /\ \A p \in Block : p < main.write => file'[p] = p
        /\ mark <= main.write /\ main.write \in Nat /\ main.write <= Blocks
        /\ main.from \in Nat /\ main.from <= main.write /\ mark \in Nat
    BY <1>0, <1>3, FlushedIs, MainField, Limits DEF StoreInv
  <2>3. table' \subseteq Places /\ table \subseteq table'
    <3>1. table \subseteq Places
      BY <1>0 DEF TypeInv
    <3>2. main.from .. main.write \subseteq Places
      BY <2>2, Limits DEF Places
    <3>3. QED
      BY <1>3, <3>1, <3>2
  <2>4. 0 .. main.write \subseteq table'
    <3>1. ASSUME NEW k \in 0 .. main.write
          PROVE  k \in table'
      <4>1. CASE k < main.from
        <5>1. main.from > 0 /\ k \in 0 .. main.from
          BY <2>2, <4>1
        <5>2. 0 .. main.from \subseteq table
          BY <1>0, <5>1 DEF StoreInv
        <5>3. QED
          BY <1>3, <5>1, <5>2
      <4>2. CASE ~(k < main.from)
        BY <1>3, <2>2, <4>2
      <4>3. QED
        BY <4>1, <4>2
    <3>2. QED
      BY <3>1
  <2>5. TypeInv'
    BY <1>0, <1>1, <1>3, <2>1, <2>2, <2>3 DEF TypeInv
  <2>6. MainInv'
    BY <1>0, <1>1, <2>1 DEF MainInv
  <2>7. SlotInv'
    BY <1>0, <1>1, <2>1, SlotFrame
  <2>8. ThreadInv'
    BY <1>0, <1>1, <2>1, ThreadFrame DEF Quiet, Works
  <2>9. StoreInv'
    <3>1. Here' = main.write /\ Len(buffer') = 0 /\ mark' = mark
      BY <1>1, <1>3, <2>1 DEF Here
    <3>2. \A k \in 1 .. Len(buffer') : FALSE
      BY <3>1
    <3>3. main.from > 0 => 0 .. main.from \subseteq table'
      BY <1>0, <2>3 DEF StoreInv
    <3>4. main.write > 0
      BY <1>0 DEF StoreInv
    <3>5. mark' + Len(buffer') <= Here' /\ Here' - Len(buffer') = main.write
      BY <2>2, <3>1
    <3>6. QED
      BY <1>3, <2>1, <2>2, <2>4, <3>1, <3>2, <3>3, <3>4, <3>5 DEF StoreInv
  <2>10. MarkInv'
    BY <1>0, <1>1, <2>2, <2>3, BlocksArePlaces DEF MarkInv
  <2>11. QED
    BY <2>5, <2>6, <2>7, <2>8, <2>9, <2>10 DEF IInv
<1>4. QED
  BY <1>2, <1>3 DEF Flush

LEMMA SyncKeeps == ASSUME IInv, Sync PROVE IInv'
<1>0. /\ TypeInv /\ MainInv /\ SlotInv /\ ThreadInv /\ StoreInv /\ MarkInv
      /\ main.pc = "sync" /\ Here = main.write
  BY DEF IInv, Sync, At, Here
<1>1. UNCHANGED <<pool, slot, thread, buffer, file, table, mark, cancel, calls>>
  BY DEF Sync
<1>2. CASE Fail("error") /\ UNCHANGED safe
  BY <1>0, <1>1, <1>2, FailKeeps DEF Going, Points, disk, TypeInv, Works
<1>3. CASE safe' = Synced /\ Goto("mark")
  <2>1. /\ main' \in MainType /\ main'.pc = "mark" /\ main'.rc = main.rc
        /\ main'.dispatch = main.dispatch /\ main'.write = main.write
        /\ main'.from = main.from
    BY <1>0, <1>3, GotoIs DEF Points
  <2>2. safe'.file = file /\ safe'.table = table
    BY <1>3 DEF Synced
  <2>3. TypeInv'
    BY <1>0, <1>1, <1>3, <2>1 DEF TypeInv, Synced
  <2>4. MainInv'
    BY <1>0, <1>1, <2>1 DEF MainInv
  <2>5. SlotInv'
    BY <1>0, <1>1, <2>1, SlotFrame
  <2>6. ThreadInv'
    BY <1>0, <1>1, <2>1, ThreadFrame DEF Quiet, Works
  <2>7. StoreInv'
    <3>1. Here' = main.write
      BY <2>1 DEF Here
    <3>2. \A p \in Block : p < main.write => file[p] = p
      <4>1. buffer = <<>> /\ main.write \in Nat
        BY <1>0, MainField DEF StoreInv
      <4>2. main.write - Len(buffer) = main.write
        BY <4>1
      <4>3. QED
        BY <1>0, <4>2 DEF StoreInv
    <3>3. QED
      BY <1>0, <1>1, <2>1, <2>2, <3>1, <3>2 DEF StoreInv
  <2>8. MarkInv'
    BY <1>0, <1>1, <2>2 DEF MarkInv
  <2>9. QED
    BY <2>3, <2>4, <2>5, <2>6, <2>7, <2>8 DEF IInv
<1>4. QED
  BY <1>2, <1>3 DEF Sync

LEMMA MarkKeeps == ASSUME IInv, Mark PROVE IInv'
<1>0. /\ TypeInv /\ MainInv /\ SlotInv /\ ThreadInv /\ StoreInv /\ MarkInv
      /\ main.pc = "mark" /\ Here = main.write /\ main.rc = "none"
  BY DEF IInv, Mark, At, Here, MainInv
<1>1. UNCHANGED <<pool, slot, thread, buffer, file, table, safe, cancel, calls>>
  BY DEF Mark
<1>2. CASE Fail("error") /\ UNCHANGED mark
  BY <1>0, <1>1, <1>2, FailKeeps DEF Going, Points, disk, TypeInv, Works
<1>3. ASSUME mark' = main.write, main' \in MainType,
             main'.dispatch = main.dispatch, main'.write = main.write,
             main'.from \in {main.from, main.write},
             \/ main'.pc = "stop" /\ (main'.rc = "none" => main.write = Blocks)
                /\ main'.rc # "packed"
             \/ main'.pc = "fill" /\ main.write # Blocks /\ main'.rc = "none"
      PROVE  IInv'
  <2>1. /\ main.write \in Nat /\ main.write \in Places /\ main.write <= Blocks /\ Blocks \in Nat
        /\ buffer = <<>> /\ Len(buffer) = 0 /\ main.write - Len(buffer) = main.write
        /\ \A p \in Block : p < main.write => file[p] = p /\ safe.file[p] = p
        /\ 0 .. main.write \subseteq table /\ 0 .. main.write \subseteq safe.table
        /\ main.from <= main.write
    BY <1>0, MainField, Limits DEF StoreInv, Places
  <2>2. TypeInv'
    BY <1>0, <1>1, <1>3, <2>1 DEF TypeInv
  <2>3. MainInv'
    <3>1. /\ pool' = pool /\ main.write <= main.dispatch
          /\ main.dispatch - main.write <= pool.count
          /\ main.write # Blocks => main.write < Blocks
      BY <1>0, <1>1, <2>1 DEF MainInv
    <3>2. QED
      BY <1>3, <3>1 DEF MainInv
  <2>4. SlotInv'
    BY <1>0, <1>1, <1>3, SlotFrame
  <2>5. ThreadInv'
    BY <1>0, <1>1, <1>3, ThreadFrame DEF Quiet, Works
  <2>6. StoreInv'
    <3>1. Here' = main.write
      BY <1>3 DEF Here
    <3>2. \A k \in 1 .. Len(buffer) : FALSE
      BY <2>1
    <3>3. mark' + Len(buffer) <= main.write
      BY <1>3, <2>1
    <3>4. main'.from <= main.write /\ (main'.from > 0 => 0 .. main'.from \subseteq table)
      BY <1>0, <1>3, <2>1 DEF StoreInv
    <3>5. QED
      BY <1>1, <1>3, <2>1, <3>1, <3>2, <3>3, <3>4 DEF StoreInv
  <2>7. MarkInv'
    BY <1>1, <1>3, <2>1 DEF MarkInv
  <2>8. QED
    BY <2>2, <2>3, <2>4, <2>5, <2>6, <2>7 DEF IInv
<1>4. CASE mark' = main.write /\ Fail("canceled")
  BY <1>0, <1>3, <1>4, FailIs
<1>5. CASE /\ mark' = main.write
           /\ main' = [main EXCEPT !.from = main.write,
                                   !.pc = IF main.write = Blocks THEN "stop" ELSE "fill"]
  <2>1. main \in MainType /\ main.write \in Places
    BY <1>0, MainField DEF Places
  <2>2. /\ main' \in MainType /\ main'.dispatch = main.dispatch /\ main'.write = main.write
        /\ main'.from = main.write /\ main'.rc = main.rc
        /\ main'.pc = IF main.write = Blocks THEN "stop" ELSE "fill"
    BY <1>5, <2>1 DEF MainType, Points
  <2>3. QED
    BY <1>0, <1>3, <1>5, <2>2
<1>6. QED
  BY <1>2, <1>4, <1>5 DEF Mark

LEMMA StopPoolKeeps == ASSUME IInv, StopPool PROVE IInv'
<1>0. /\ TypeInv /\ MainInv /\ SlotInv /\ ThreadInv /\ StoreInv /\ MarkInv
      /\ main.pc = "stop"
  BY DEF IInv, StopPool, At
<1>1. /\ UNCHANGED <<slot, disk, cancel, calls>> /\ thread' = AllWoken /\ Goto("join")
      /\ pool' = [pool EXCEPT !.stopping = TRUE]
  BY DEF StopPool
<1>2. /\ main' \in MainType /\ main'.pc = "join" /\ main'.rc = main.rc
      /\ main'.dispatch = main.dispatch /\ main'.write = main.write
      /\ main'.from = main.from
  BY <1>0, <1>1, GotoIs DEF Points
<1>3. pool' \in PoolType /\ pool'.count = pool.count
  BY <1>0, <1>1 DEF TypeInv, PoolType
<1>4. /\ thread' \in [Threads -> ThreadType]
      /\ \A t \in Threads : Works(t)' => Works(t) /\ thread'[t] = thread[t]
  BY <1>0, <1>1, ThreadField DEF AllWoken, Works, ThreadType, ThreadPcs
<1>5. TypeInv'
  BY <1>0, <1>1, <1>2, <1>3, <1>4 DEF TypeInv, disk
<1>6. MainInv'
  BY <1>0, <1>2, <1>3 DEF MainInv
<1>7. SlotInv'
  BY <1>0, <1>1, <1>2, <1>3, SlotFrame
<1>8. ThreadInv'
  BY <1>0, <1>1, <1>2, <1>4, ThreadFrame DEF Quiet
<1>9. StoreInv' /\ MarkInv'
  BY <1>0, <1>1, <1>2, StoreFrame, MarkFrame
<1>10. QED
  BY <1>5, <1>6, <1>7, <1>8, <1>9 DEF IInv

LEMMA JoinKeeps == ASSUME IInv, Join PROVE IInv'
<1>0. /\ TypeInv /\ MainInv /\ SlotInv /\ ThreadInv /\ StoreInv /\ MarkInv
      /\ main.pc = "join" /\ Joined
  BY DEF IInv, Join, At
<1>1. /\ UNCHANGED <<pool, slot, disk, cancel, calls>>
      /\ Goto(IF main.rc = "none" THEN "finish" ELSE "end")
      /\ thread' = [t \in Threads |-> IF thread[t].pc = "exit" THEN NoThread ELSE thread[t]]
  BY DEF Join
<1>2. /\ main' \in MainType /\ main'.pc = (IF main.rc = "none" THEN "finish" ELSE "end")
      /\ main'.rc = main.rc /\ main'.dispatch = main.dispatch /\ main'.write = main.write
      /\ main'.from = main.from
  BY <1>0, <1>1, GotoIs DEF Points
<1>3. thread' \in [Threads -> ThreadType] /\ \A t \in Threads : thread'[t].pc = "none"
  BY <1>0, <1>1, NoThreadIs, ThreadField DEF Joined
<1>4. TypeInv'
  BY <1>0, <1>1, <1>2, <1>3 DEF TypeInv, disk
<1>5. MainInv'
  <2>1. /\ pool' = pool /\ main.write <= main.dispatch
        /\ main.dispatch - main.write <= pool.count
        /\ main.rc = "none" => main.write = Blocks
        /\ main.rc = "packed" => main.write = Blocks
    BY <1>0, <1>1 DEF MainInv
  <2>2. QED
    BY <1>2, <2>1 DEF MainInv
<1>6. SlotInv'
  BY <1>0, <1>1, <1>2, SlotFrame
<1>7. ThreadInv'
  BY <1>0, <1>2, <1>3, ThreadFrame DEF Works
<1>8. StoreInv' /\ MarkInv'
  BY <1>0, <1>1, <1>2, StoreFrame, MarkFrame
<1>9. QED
  BY <1>4, <1>5, <1>6, <1>7, <1>8 DEF IInv

LEMMA FinishKeeps == ASSUME IInv, Finish PROVE IInv'
<1>0. /\ TypeInv /\ MainInv /\ SlotInv /\ ThreadInv /\ StoreInv /\ MarkInv
      /\ main.pc = "finish" /\ Here = main.write /\ main.write = Blocks
  BY DEF IInv, Finish, At, Here, MainInv
<1>1. UNCHANGED <<pool, slot, thread, buffer, file, mark, cancel, calls>>
  BY DEF Finish
<1>2. ASSUME NEW e \in {"error", "canceled"}, Fail(e), UNCHANGED <<table, safe>>
      PROVE  IInv'
  BY <1>0, <1>1, <1>2, FailKeeps DEF Going, Points, disk, TypeInv, Works
<1>3. CASE /\ table' = 0 .. Blocks
           /\ safe' = [file |-> file, table |-> table']
           /\ main' = [main EXCEPT !.pc = "end", !.rc = "packed"]
  <2>1. /\ main' \in MainType /\ main'.pc = "end" /\ main'.rc = "packed"
        /\ main'.dispatch = main.dispatch /\ main'.write = main.write
        /\ main'.from = main.from
    BY <1>0, <1>3, MainField DEF MainType, Points
  <2>2. /\ table' = Places /\ safe'.file = file /\ safe'.table = Places
        /\ main.from \in 0 .. Blocks /\ mark \in 0 .. Blocks /\ Blocks \in Nat
    BY <1>0, <1>3, MainField, Limits DEF Places
  <2>3. /\ 0 .. main.from \subseteq Places /\ 0 .. mark \subseteq Places
    BY <2>2 DEF Places
  <2>4. TypeInv'
    BY <1>0, <1>1, <1>3, <2>1, <2>2 DEF TypeInv
  <2>5. MainInv'
    BY <1>0, <1>1, <2>1 DEF MainInv
  <2>6. SlotInv'
    BY <2>1 DEF SlotInv
  <2>7. ThreadInv'
    BY <1>0, <1>1, <2>1, ThreadFrame DEF ThreadInv, Quiet, Works
  <2>8. StoreInv'
    <3>1. Here' = Here
      BY <1>0, <2>1 DEF Here
    <3>2. QED
      BY <1>0, <1>1, <2>1, <2>2, <2>3, <3>1 DEF StoreInv
  <2>9. MarkInv'
    BY <1>0, <1>1, <2>2, <2>3 DEF MarkInv
  <2>10. QED
    BY <2>4, <2>5, <2>6, <2>7, <2>8, <2>9 DEF IInv
<1>4. QED
  BY <1>2, <1>3 DEF Finish

LEMMA ReturnKeeps == ASSUME IInv, Return PROVE IInv'
<1>0. TypeInv /\ MainInv /\ ThreadInv /\ MarkInv /\ main.pc = "end"
  BY DEF IInv, Return, At
<1>1. UNCHANGED <<pool, slot, thread, disk, calls>> /\ cancel' = FALSE /\ Goto("idle")
  BY DEF Return
<1>2. /\ main' \in MainType /\ main'.pc = "idle"
      /\ main'.dispatch = main.dispatch /\ main'.write = main.write
  BY <1>0, <1>1, GotoIs DEF Points
<1>3. TypeInv'
  BY <1>0, <1>1, <1>2 DEF TypeInv, disk
<1>4. MainInv' /\ SlotInv' /\ StoreInv'
  BY <1>0, <1>1, <1>2 DEF MainInv, SlotInv, StoreInv
<1>5. ThreadInv'
  BY <1>0, <1>1, <1>2, ThreadFrame DEF ThreadInv, Quiet, Works
<1>6. MarkInv'
  BY <1>0, <1>1, MarkFrame
<1>7. QED
  BY <1>3, <1>4, <1>5, <1>6 DEF IInv

LEMMA CancelKeeps == ASSUME IInv, Cancel PROVE IInv'
<1>0. TypeInv /\ MainInv /\ SlotInv /\ ThreadInv /\ StoreInv /\ MarkInv
  BY DEF IInv
<1>1. UNCHANGED <<pool, slot, thread, main, disk, calls>> /\ cancel' = TRUE
  BY DEF Cancel
<1>2. TypeInv'
  BY <1>0, <1>1 DEF TypeInv, disk
<1>3. MainInv'
  BY <1>0, <1>1 DEF MainInv, Window, Due, Place, disk
<1>4. SlotInv' /\ StoreInv' /\ MarkInv'
  BY <1>0, <1>1, SlotFrame, StoreFrame, MarkFrame
<1>5. ThreadInv'
  BY <1>0, <1>1, ThreadFrame DEF ThreadInv, Quiet, Works
<1>6. QED
  BY <1>2, <1>3, <1>4, <1>5 DEF IInv

LEMMA CrashKeeps == ASSUME IInv, Crash PROVE IInv'
<1>0. TypeInv /\ MainInv /\ MarkInv
  BY DEF IInv
<1>1. /\ UNCHANGED <<pool, slot, safe, mark, calls>> /\ cancel' = FALSE /\ buffer' = <<>>
      /\ file' \in {file, safe.file} /\ table' \in {table, safe.table}
      /\ thread' = [t \in Threads |-> NoThread] /\ Goto("idle")
  BY DEF Crash, Goto
<1>2. /\ main' \in MainType /\ main'.pc = "idle"
      /\ main'.dispatch = main.dispatch /\ main'.write = main.write
  BY <1>0, <1>1, GotoIs DEF Points
<1>3. TypeInv'
  <2>1. file' \in [Block -> Places] /\ table' \subseteq Places
    BY <1>0, <1>1 DEF TypeInv
  <2>2. buffer' \in Seq(Places) /\ thread' \in [Threads -> ThreadType]
    BY <1>1, NoThreadIs
  <2>3. QED
    BY <1>0, <1>1, <1>2, <2>1, <2>2 DEF TypeInv
<1>4. MainInv' /\ SlotInv' /\ StoreInv'
  BY <1>0, <1>1, <1>2 DEF MainInv, SlotInv, StoreInv
<1>5. ThreadInv'
  BY <1>1, <1>2, NoThreadIs DEF ThreadInv, Works
<1>6. MarkInv'
  BY <1>0, <1>1 DEF MarkInv
<1>7. QED
  BY <1>3, <1>4, <1>5, <1>6 DEF IInv

-----------------------------------------------------------------------------
(* The steps of the threads.                                               *)
LEMMA MainAlike ==
  ASSUME TypeInv, MainInv, pool' = pool, mark' = mark, buffer' = buffer,
         main.pc # "create",
         main'.dispatch = main.dispatch, main'.write = main.write, main'.rc = main.rc,
         main'.pc = main.pc \/ (main.pc = "asleep" /\ main'.pc = "await"),
         \A s \in Slots : slot'[s].raw = slot[s].raw,
         main.pc \in {"store", "release"} => slot'[Due].done /\ ~slot'[Due].error
  PROVE  MainInv'
<1>1. Due' = Due /\ Place(main.dispatch)' = Place(main.dispatch) /\ Window' = Window
  BY DEF Due, Place, Window
<1>2. Place(main.dispatch) \in Slots
  BY MainField, PlaceIs
<1>3. CASE main'.pc = main.pc
  BY <1>1, <1>2, <1>3 DEF MainInv
<1>4. CASE main.pc = "asleep" /\ main'.pc = "await"
  BY <1>1, <1>4 DEF MainInv
<1>5. QED
  BY <1>3, <1>4

(* A thread at work has the calling thread where it can have threads.      *)
LEMMA MainIsBusy ==
  ASSUME ThreadInv, NEW t \in Threads, thread[t].pc # "none"
  PROVE  main.pc \notin Quiet
BY DEF ThreadInv, Quiet

LEMMA LookKeeps == ASSUME IInv, NEW t \in Threads, Look(t) PROVE IInv'
<1>0. /\ TypeInv /\ MainInv /\ SlotInv /\ ThreadInv /\ StoreInv /\ MarkInv
      /\ thread[t].pc = "look" /\ main.pc \notin Quiet
  BY MainIsBusy DEF IInv, Look
<1>1. UNCHANGED <<pool, main, disk, cancel, calls>>
  BY DEF Look
<1>2. UNCHANGED <<buffer, file, table, safe, mark>>
  BY <1>1 DEF disk
<1>3. StoreInv' /\ MarkInv'
  BY <1>0, <1>1, StoreFrame, MarkFrame
<1>4. ASSUME NEW p \in {"exit", "wait"}, thread' = [thread EXCEPT ![t].pc = p], slot' = slot
      PROVE  IInv'
  <2>1. thread \in [Threads -> ThreadType]
    BY <1>0 DEF TypeInv
  <2>2. /\ thread' \in [Threads -> ThreadType]
        /\ \A u \in Threads : Works(u)' => Works(u) /\ thread'[u] = thread[u]
    BY <1>4, <2>1 DEF Works, ThreadType, ThreadPcs
  <2>3. TypeInv'
    BY <1>0, <1>1, <1>2, <1>4, <2>2 DEF TypeInv
  <2>4. MainInv'
    BY <1>0, <1>1, <1>2, <1>4 DEF MainInv, Due, Place, Window
  <2>5. SlotInv'
    BY <1>0, <1>1, <1>4, SlotFrame
  <2>6. ThreadInv'
    BY <1>0, <1>1, <1>4, <2>2, ThreadFrame
  <2>7. QED
    BY <1>3, <2>3, <2>4, <2>5, <2>6 DEF IInv
<1>5. ASSUME NEW s \in Ring, Open(s),
             slot' = [slot EXCEPT ![s].claimed = TRUE],
             thread' = [thread EXCEPT ![t].pc = "busy", ![t].slot = s]
      PROVE  IInv'
  <2>1. /\ slot \in [Slots -> SlotType] /\ thread \in [Threads -> ThreadType] /\ s \in Slots
        /\ slot[s].pending /\ ~slot[s].claimed /\ ~slot[s].done
    BY <1>0, <1>5, CountIs DEF TypeInv, Open
  <2>2. /\ slot' \in [Slots -> SlotType] /\ slot'[s].claimed
        /\ slot'[s].pending /\ ~slot'[s].done
        /\ \A r \in Slots : /\ slot'[r].raw = slot[r].raw /\ slot'[r].packed = slot[r].packed
                            /\ slot'[r].pending = slot[r].pending
                            /\ slot'[r].done = slot[r].done /\ slot'[r].error = slot[r].error
                            /\ r # s => slot'[r] = slot[r]
    BY <1>5, <2>1 DEF SlotType
  <2>3. /\ thread' \in [Threads -> ThreadType] /\ thread'[t].pc = "busy" /\ thread'[t].slot = s
        /\ \A u \in Threads : u # t => thread'[u] = thread[u]
    BY <1>5, <2>1 DEF ThreadType, ThreadPcs
  <2>4. TypeInv'
    BY <1>0, <1>1, <1>2, <2>2, <2>3 DEF TypeInv
  <2>5. MainInv'
    <3>1. Due \in Slots
      BY <1>0, MainField, PlaceIs DEF Due
    <3>2. main.pc \in {"store", "release"} => slot'[Due].done /\ ~slot'[Due].error
      BY <1>0, <2>2, <3>1 DEF MainInv
    <3>3. QED
      BY <1>0, <1>1, <1>2, <2>2, <3>2, MainAlike DEF Quiet
  <2>6. SlotInv'
    <3>1. \A b \in Block : /\ InWindow(b)' = InWindow(b) /\ Place(b)' = Place(b)
                           /\ Place(b) \in Slots
      BY <1>0, <1>1, PlaceIs, BlocksArePlaces DEF InWindow, Place
    <3>2. QED
      BY <1>0, <1>1, <2>2, <3>1 DEF SlotInv
  <2>7. ThreadInv'
    <3>1. \A u \in Threads : Works(u) => thread[u].slot \in Slots \ {s}
      BY <1>0, <2>1, ThreadField DEF ThreadInv
    <3>2. \A u \in Threads : u # t /\ Works(u)' =>
            /\ Works(u) /\ thread'[u] = thread[u] /\ thread'[u].slot # s
            /\ slot'[thread'[u].slot] = slot[thread[u].slot]
      BY <2>2, <2>3, <3>1 DEF Works
    <3>3. Works(t)' /\ thread'[t].pc # "ready"
      BY <2>3 DEF Works
    <3>4. ASSUME NEW u \in Threads, Works(u)'
          PROVE  /\ slot'[thread'[u].slot].claimed /\ slot'[thread'[u].slot].pending
                 /\ ~slot'[thread'[u].slot].done
                 /\ \A v \in Threads : Works(v)' /\ thread'[v].slot = thread'[u].slot => v = u
      <4>1. CASE u = t
        BY <2>2, <2>3, <3>2, <4>1
      <4>2. CASE u # t
        BY <1>0, <2>3, <3>2, <3>4, <4>2 DEF ThreadInv
      <4>3. QED
        BY <4>1, <4>2
    <3>5. \A u \in Threads : thread'[u].pc = "ready" /\ thread'[u].got # NoBlock =>
            thread'[u].got = slot'[thread'[u].slot].raw
      <4>1. \A u \in Threads : thread'[u].pc = "ready" => u # t /\ Works(u)'
        BY <3>3 DEF Works
      <4>2. QED
        BY <1>0, <3>2, <4>1 DEF ThreadInv
    <3>6. QED
      BY <1>0, <1>1, <3>4, <3>5 DEF ThreadInv, Quiet
  <2>8. QED
    BY <1>3, <2>4, <2>5, <2>6, <2>7 DEF IInv
<1>6. QED
  BY <1>4, <1>5 DEF Look

LEMMA CompressKeeps == ASSUME IInv, NEW t \in Threads, Compress(t) PROVE IInv'
<1>0. /\ TypeInv /\ MainInv /\ SlotInv /\ ThreadInv /\ StoreInv /\ MarkInv
      /\ thread[t].pc = "busy" /\ main.pc \notin Quiet
  BY MainIsBusy DEF IInv, Compress
<1>1. UNCHANGED <<pool, slot, main, disk, cancel, calls>>
  BY DEF Compress
<1>2. ASSUME NEW g \in Places, g \in {NoBlock, slot[thread[t].slot].raw},
             thread' = [thread EXCEPT ![t].pc = "ready", ![t].got = g]
      PROVE  IInv'
  <2>1. thread \in [Threads -> ThreadType]
    BY <1>0 DEF TypeInv
  <2>2. /\ thread' \in [Threads -> ThreadType] /\ thread'[t].pc = "ready"
        /\ thread'[t].slot = thread[t].slot /\ thread'[t].got = g
        /\ \A u \in Threads : u # t => thread'[u] = thread[u]
    BY <1>2, <2>1 DEF ThreadType, ThreadPcs
  <2>3. TypeInv'
    BY <1>0, <1>1, <2>2 DEF TypeInv, disk
  <2>4. MainInv'
    BY <1>0, <1>1 DEF MainInv, Due, Place, Window, disk
  <2>5. SlotInv' /\ StoreInv' /\ MarkInv'
    BY <1>0, <1>1, SlotFrame, StoreFrame, MarkFrame
  <2>6. \A u \in Threads : /\ Works(u)' <=> Works(u)
                           /\ thread'[u].slot = thread[u].slot
    BY <1>0, <2>2 DEF Works
  <2>7. ThreadInv'
    <3>1. \A u \in Threads : thread'[u].pc = "ready" /\ thread'[u].got # NoBlock =>
            thread'[u].got = slot'[thread'[u].slot].raw
      BY <1>0, <1>1, <1>2, <2>2 DEF ThreadInv
    <3>2. \A u \in Threads : Works(u)' =>
            /\ slot'[thread'[u].slot].claimed /\ slot'[thread'[u].slot].pending
            /\ ~slot'[thread'[u].slot].done
            /\ \A v \in Threads : Works(v)' /\ thread'[v].slot = thread'[u].slot => v = u
      BY <1>0, <1>1, <2>6 DEF ThreadInv
    <3>3. QED
      BY <1>0, <1>1, <3>1, <3>2 DEF ThreadInv, Quiet
  <2>8. QED
    BY <2>3, <2>4, <2>5, <2>7 DEF IInv
<1>3. slot[thread[t].slot].raw \in Places /\ NoBlock \in Places
  BY <1>0, SlotField, ThreadField, BlocksArePlaces
<1>4. QED
  BY <1>2, <1>3 DEF Compress

LEMMA WokenIs ==
  ASSUME TypeInv, main' = Woken
  PROVE  /\ main' \in MainType /\ main'.dispatch = main.dispatch /\ main'.write = main.write
         /\ main'.from = main.from /\ main'.rc = main.rc
         /\ main'.pc = main.pc \/ (main.pc = "asleep" /\ main'.pc = "await")
<1>1. main \in MainType
  BY MainField
<1>2. QED
  BY <1>1 DEF Woken, MainType, Points

LEMMA DeliverKeeps == ASSUME IInv, NEW t \in Threads, Deliver(t) PROVE IInv'
<1>0. /\ TypeInv /\ MainInv /\ SlotInv /\ ThreadInv /\ StoreInv /\ MarkInv
      /\ thread[t].pc = "ready" /\ main.pc \notin Quiet /\ Works(t)
  BY MainIsBusy DEF IInv, Deliver, Works
<1> DEFINE s == thread[t].slot
           e == thread[t].got = NoBlock
<1>1. /\ UNCHANGED <<pool, disk, cancel, calls>> /\ main' = Woken
      /\ thread' = [thread EXCEPT ![t] = [NoThread EXCEPT !.pc = "look"]]
      /\ slot' = [slot EXCEPT ![s].claimed = FALSE, ![s].done = TRUE,
                    ![s].error = e, ![s].packed = thread[t].got]
  BY DEF Deliver
<1>2. UNCHANGED <<buffer, file, table, safe, mark>>
  BY <1>1 DEF disk
<1>3. /\ s \in Slots /\ thread[t].got \in Places /\ e \in BOOLEAN
      /\ slot[s].pending /\ ~slot[s].done
      /\ ~e => thread[t].got = slot[s].raw
      /\ slot \in [Slots -> SlotType]
  BY <1>0, ThreadField DEF ThreadInv, TypeInv
<1>4. \A u \in Threads : u # t /\ Works(u) => thread[u].slot \in Slots \ {s}
  BY <1>0, ThreadField DEF ThreadInv
<1> HIDE DEF s, e
<1>5. /\ slot' \in [Slots -> SlotType]
      /\ slot'[s].error = e /\ slot'[s].packed = thread[t].got
      /\ \A r \in Slots : slot'[r].raw = slot[r].raw /\ slot'[r].pending = slot[r].pending
      /\ \A r \in Slots \ {s} : slot'[r] = slot[r]
  BY <1>1, <1>3 DEF SlotType
<1>6. /\ thread' \in [Threads -> ThreadType] /\ thread'[t].pc = "look"
      /\ \A u \in Threads \ {t} : thread'[u] = thread[u]
  BY <1>0, <1>1, ThreadTo, NoThreadIs
<1>7. /\ main' \in MainType /\ main'.dispatch = main.dispatch /\ main'.write = main.write
      /\ main'.from = main.from /\ main'.rc = main.rc
      /\ main'.pc = main.pc \/ (main.pc = "asleep" /\ main'.pc = "await")
  BY <1>0, <1>1, WokenIs
<1>8. TypeInv'
  BY <1>0, <1>1, <1>2, <1>5, <1>6, <1>7 DEF TypeInv
<1>9. MainInv'
  <2>1. main.pc \in {"store", "release"} => Due \in Slots /\ slot[Due].done /\ ~slot[Due].error
    BY <1>0, MainField, PlaceIs DEF MainInv, Due
  <2>2. main.pc \in {"store", "release"} => slot'[Due].done /\ ~slot'[Due].error
    BY <1>3, <1>5, <2>1
  <2>3. QED
    BY <1>0, <1>1, <1>2, <1>5, <1>7, <2>2, MainAlike DEF Quiet
<1>10. SlotInv'
  <2>1. \A b \in Block : /\ InWindow(b)' = InWindow(b) /\ Place(b)' = Place(b)
                         /\ Place(b) \in Slots
    BY <1>0, <1>1, <1>7, PlaceIs, BlocksArePlaces DEF InWindow, Place
  <2>2. main.pc \notin {"idle", "end"}
    BY <1>0 DEF Quiet
  <2>3. \A r \in Slots : slot'[r].pending =>
          (slot'[r].done /\ ~slot'[r].error => slot'[r].packed = slot'[r].raw)
    <3>1. ~slot'[s].error => slot'[s].packed = slot'[s].raw
      BY <1>3, <1>5
    <3>2. QED
      BY <1>0, <1>5, <2>2, <3>1 DEF SlotInv
  <2>4. QED
    BY <1>0, <1>5, <2>1, <2>2, <2>3 DEF SlotInv
<1>11. ThreadInv'
  <2>1. main'.pc \notin Quiet
    BY <1>0, <1>7 DEF Quiet
  <2>2. \A u \in Threads : Works(u)' =>
          Works(u) /\ thread'[u] = thread[u] /\ slot'[thread[u].slot] = slot[thread[u].slot]
    BY <1>4, <1>5, <1>6 DEF Works
  <2>3. QED
    BY <1>0, <2>1, <2>2, ThreadFrame
<1>12. StoreInv' /\ MarkInv'
  BY <1>0, <1>1, <1>7, StoreFrame, MarkFrame DEF Quiet
<1>13. QED
  BY <1>8, <1>9, <1>10, <1>11, <1>12 DEF IInv

LEMMA NextKeeps == IInv /\ [Next]_vars => IInv'
<1> SUFFICES ASSUME IInv, [Next]_vars PROVE IInv'
  OBVIOUS
<1>1. CASE Call
  BY <1>1, CallKeeps
<1>2. CASE Caller
  BY <1>2, CreateKeeps, FillKeeps, PostKeeps, InlineKeeps, AwaitKeeps, StoreKeeps,
     ReleaseKeeps, FlushKeeps, SyncKeeps, MarkKeeps, StopPoolKeeps, JoinKeeps, FinishKeeps
     DEF Caller
<1>3. CASE Return \/ Cancel \/ Crash
  BY <1>3, ReturnKeeps, CancelKeeps, CrashKeeps
<1>4. ASSUME NEW t \in Threads, Worker(t)
      PROVE  IInv'
  BY <1>4, LookKeeps, CompressKeeps, DeliverKeeps DEF Worker
<1>5. CASE UNCHANGED vars
  BY <1>5 DEF vars, IInv, TypeInv, MainInv, SlotInv, ThreadInv, StoreInv, MarkInv, Here,
     InWindow, Window, Due, Place, Works
<1>6. QED
  BY <1>1, <1>2, <1>3, <1>4, <1>5 DEF Next

(* The invariant holds in every state of every call.                       *)
LEMMA Invariance == Spec => []IInv
BY InitHolds, NextKeeps, PTL DEF Spec

-----------------------------------------------------------------------------
(* RingIsSound in every state: a slot holds the block that is due in it,   *)
(* no two threads work on one slot, and no thread outlives the slots.      *)
THEOREM RingStaysSound == Spec => []RingIsSound
<1>1. IInv => RingIsSound
  <2> SUFFICES ASSUME IInv PROVE RingIsSound
    OBVIOUS
  <2>0. TypeInv /\ MainInv /\ SlotInv /\ ThreadInv
    BY DEF IInv
  <2>1. TypeOK
    BY <2>0 DEF TypeInv, TypeOK, PoolType, SlotType, ThreadType, MainType, Points, ThreadPcs
  <2>2. NoThreadOutlives
    BY <2>0 DEF ThreadInv, NoThreadOutlives
  <2>3. main.write <= main.dispatch /\ main.dispatch - main.write <= pool.count
    BY <2>0 DEF MainInv
  <2>4. \A b \in Block : main.pc \notin {"idle", "create", "end"} /\ main.write <= b /\ b < main.dispatch
          => slot[Place(b)].raw = b
    BY <2>0 DEF SlotInv, InWindow
  <2>5. \A t \in Threads : thread[t].pc \in {"busy", "ready"} =>
          /\ slot[thread[t].slot].claimed /\ slot[thread[t].slot].pending
          /\ \A u \in Threads : thread[u].pc \in {"busy", "ready"} /\ thread[u].slot = thread[t].slot
               => u = t
    BY <2>0 DEF ThreadInv, Works
  <2>6. QED
    BY <2>1, <2>2, <2>3, <2>4, <2>5 DEF RingIsSound
<1>2. QED
  BY <1>1, Invariance, PTL

(* CheckpointBacked in every state: what a checkpoint counts is on the     *)
(* medium, so that a start after a crash does not go on from blocks or     *)
(* offsets that were lost.                                                 *)
THEOREM CheckpointsHold == Spec => []CheckpointBacked
<1>1. IInv => CheckpointBacked
  <2> SUFFICES ASSUME IInv PROVE CheckpointBacked
    OBVIOUS
  <2>1. MarkInv /\ mark \in 0 .. Blocks
    BY MainField DEF IInv
  <2>2. \A b \in 0 .. mark - 1 : b \in Block /\ b < mark
    BY <2>1, Limits DEF Block
  <2>3. QED
    BY <2>1, <2>2 DEF MarkInv, CheckpointBacked
<1>2. QED
  BY <1>1, Invariance, PTL

-----------------------------------------------------------------------------
(* The blocks that are stored, seen from a single thread.                  *)
Numbers(n) == [i \in 1 .. n |-> i - 1]
Shown      == IF main.pc = "idle" THEN mark ELSE Here

LEMMA NumbersAre ==
  ASSUME NEW n \in Nat
  PROVE  Len(Numbers(n)) = n /\ Append(Numbers(n), n) = Numbers(n + 1)
<1>1. Numbers(n) \in Seq(Int) /\ Len(Numbers(n)) = n
  BY IsASeq DEF Numbers
<1>2. Numbers(n + 1) \in Seq(Int) /\ Len(Numbers(n + 1)) = n + 1
  BY IsASeq DEF Numbers
<1>3. /\ Append(Numbers(n), n) \in Seq(Int) /\ Len(Append(Numbers(n), n)) = n + 1
      /\ Append(Numbers(n), n)[n + 1] = n
      /\ \A i \in 1 .. n : Append(Numbers(n), n)[i] = Numbers(n)[i]
  BY <1>1, AppendProperties
<1>4. \A i \in 1 .. n + 1 : Append(Numbers(n), n)[i] = Numbers(n + 1)[i]
  <2>1. \A i \in 1 .. n : Numbers(n)[i] = i - 1
    BY DEF Numbers
  <2>2. \A i \in 1 .. n + 1 : Numbers(n + 1)[i] = i - 1
    BY DEF Numbers
  <2>3. ASSUME NEW i \in 1 .. n + 1
        PROVE  Append(Numbers(n), n)[i] = i - 1
    <3>1. CASE i \in 1 .. n
      BY <1>3, <2>1, <3>1
    <3>2. CASE i = n + 1
      BY <1>3, <3>2
    <3>3. i \in 1 .. n \/ i = n + 1
      OBVIOUS
    <3>4. QED
      BY <3>1, <3>2, <3>3
  <2>4. QED
    BY <2>2, <2>3
<1>5. QED
  BY <1>1, <1>2, <1>3, <1>4, SeqEqual

LEMMA ShownIs ==
  ASSUME IInv
  PROVE  Shown \in Nat /\ mark <= Shown /\ Stored = Numbers(Shown)
<1>0. /\ TypeInv /\ MainInv /\ StoreInv /\ MarkInv
      /\ mark \in Nat /\ mark <= Blocks /\ Blocks \in Nat
      /\ main.write \in Nat /\ main.write <= Blocks /\ main.dispatch <= Blocks
      /\ Len(buffer) \in Nat
  BY MainField, Limits DEF IInv, TypeInv
<1>1. CASE main.pc = "idle"
  <2>1. Shown = mark /\ Stored = [i \in 1 .. mark |-> file[i - 1]]
    BY <1>1 DEF Shown, Stored
  <2>2. \A i \in 1 .. mark : i - 1 \in Block /\ i - 1 < mark
    BY <1>0, BlocksArePlaces DEF Block
  <2>3. \A i \in 1 .. mark : file[i - 1] = i - 1
    BY <1>0, <2>2 DEF MarkInv
  <2>4. QED
    BY <1>0, <2>1, <2>3 DEF Numbers
<1>2. CASE main.pc # "idle"
  <2> DEFINE flushed == Here - Len(buffer)
  <2>1. /\ Here \in Nat /\ Here <= Blocks /\ mark + Len(buffer) <= Here
        /\ \A p \in Block : p < flushed => file[p] = p
        /\ \A k \in 1 .. Len(buffer) : buffer[k] = flushed + k - 1
    <3>1. main.pc = "release" => main.write < main.dispatch
      BY <1>0 DEF MainInv
    <3>2. Here \in Nat /\ Here <= Blocks
      BY <1>0, <3>1, MainField DEF Here
    <3>3. QED
      BY <1>0, <1>2, <3>2 DEF StoreInv
  <2>2. flushed \in Nat /\ flushed + Len(buffer) = Here /\ Shown = Here /\ mark <= Here
    BY <1>0, <1>2, <2>1 DEF Shown
  <2>3. Stored = [i \in 1 .. Here |-> IF i <= flushed THEN file[i - 1] ELSE buffer[i - flushed]]
    BY <1>2 DEF Stored, Here
  <2> HIDE DEF flushed
  <2>4. ASSUME NEW i \in 1 .. Here
        PROVE  (IF i <= flushed THEN file[i - 1] ELSE buffer[i - flushed]) = i - 1
    <3>1. CASE i <= flushed
      <4>1. i - 1 \in Block /\ i - 1 < flushed
        BY <1>0, <2>1, <2>2, <2>4, <3>1 DEF Block
      <4>2. QED
        BY <2>1, <3>1, <4>1
    <3>2. CASE ~(i <= flushed)
      <4>1. i - flushed \in 1 .. Len(buffer) /\ flushed + (i - flushed) - 1 = i - 1
        BY <1>0, <2>1, <2>2, <2>4, <3>2
      <4>2. QED
        BY <2>1, <3>2, <4>1
    <3>3. QED
      BY <3>1, <3>2
  <2>5. QED
    BY <2>1, <2>2, <2>3, <2>4 DEF Numbers
<1>3. QED
  BY <1>1, <1>2

LEMMA CalledIs ==
  /\ main.pc = "idle" => Called = "ready"
  /\ main.pc = "end" /\ main.rc = "packed" => Called = "packed"
  /\ main.pc = "end" /\ main.rc # "packed" => Called = "stopped"
  /\ main.pc \notin {"idle", "end"} => Called = "packing"
BY DEF Called, At

(* What a step of the calling thread is to a single thread.                *)
LEMMA CallerMoves ==
  ASSUME IInv, Caller
  PROVE  /\ main.pc \notin {"idle", "end"} /\ main'.pc # "idle"
         /\ \/ main'.pc # "end" /\ Here' = Here
            \/ main'.pc # "end" /\ Here' = Here + 1 /\ Here < Blocks
            \/ main'.pc = "end" /\ main'.rc # "packed" /\ Here' = Here
            \/ main'.pc = "end" /\ main'.rc = "packed" /\ Here' = Here /\ Here = Blocks
<1>0. TypeInv /\ MainInv /\ SlotInv /\ main \in MainType
  BY MainField DEF IInv
<1>1. ASSUME NEW e \in {"error", "canceled"}, Fail(e), main.pc \in Going
      PROVE  main'.pc # "end" /\ Here' = Here /\ main.pc \notin {"idle", "end"} /\ main'.pc # "idle"
  BY <1>0, <1>1, FailIs DEF Here, Going
<1>2. ASSUME NEW p \in Points \ {"idle", "end", "release"}, Goto(p),
             main.pc \notin {"idle", "end", "release"}
      PROVE  main'.pc # "end" /\ Here' = Here /\ main.pc \notin {"idle", "end"} /\ main'.pc # "idle"
  BY <1>0, <1>2, GotoIs DEF Here
<1>3. CASE Create \/ Fill \/ Await \/ Flush \/ Sync
  BY <1>1, <1>2, <1>3 DEF Create, Fill, Await, Flush, Sync, At, Going, Points
<1>4. CASE Post \/ Inline
  <2>1. CASE Fail("canceled") /\ main.pc = "post"
    BY <1>1, <2>1 DEF Going, Points
  <2>2. CASE main' = [main EXCEPT !.pc = "fill", !.dispatch = @ + 1] /\ main.pc = "post"
    BY <1>0, <2>2 DEF MainType, Here
  <2>3. QED
    BY <1>4, <2>1, <2>2 DEF Post, Inline, At
<1>5. CASE Store
  <2>1. main.pc = "store"
    BY <1>5 DEF Store, At
  <2>2. CASE Fail("error")
    BY <1>1, <2>1, <2>2 DEF Going, Points
  <2>3. CASE Goto("release")
    <3>1. main'.pc = "release" /\ main'.write = main.write
      BY <1>0, <2>3, GotoIs DEF Points
    <3>2. main.write < Blocks
      BY <1>0, <2>1, MainField, Limits DEF MainInv
    <3>3. QED
      BY <2>1, <3>1, <3>2 DEF Here
  <2>4. QED
    BY <1>5, <2>2, <2>3 DEF Store
<1>6. CASE Release
  <2>1. main'.write = main.write + 1 /\ main'.pc \in {"flush", "fill", "stop"}
    BY <1>0, <1>6, Zenon DEF Release, MainType
  <2>2. QED
    BY <1>6, <2>1 DEF Release, At, Here
<1>7. CASE Mark
  <2>1. main.pc = "mark"
    BY <1>7 DEF Mark, At
  <2>2. ASSUME NEW e \in {"error", "canceled"}, Fail(e)
        PROVE  main'.pc # "end" /\ Here' = Here /\ main.pc \notin {"idle", "end"} /\ main'.pc # "idle"
    BY <1>1, <2>1, <2>2 DEF Going, Points
  <2>3. CASE main' = [main EXCEPT !.from = main.write,
                                  !.pc = IF main.write = Blocks THEN "stop" ELSE "fill"]
    BY <1>0, <2>1, <2>3 DEF MainType, Here
  <2>4. QED
    BY <1>7, <2>1, <2>2, <2>3 DEF Mark
<1>8. CASE StopPool
  BY <1>2, <1>8 DEF StopPool, At, Points
<1>9. CASE Join
  <2>1. main.pc = "join" /\ Goto(IF main.rc = "none" THEN "finish" ELSE "end")
    BY <1>9 DEF Join, At
  <2>2. /\ main'.pc = (IF main.rc = "none" THEN "finish" ELSE "end")
        /\ main'.rc = main.rc /\ main'.write = main.write
    BY <1>0, <2>1, GotoIs DEF Points
  <2>3. main.rc # "packed"
    BY <1>0, <2>1 DEF MainInv
  <2>4. QED
    BY <2>1, <2>2, <2>3 DEF Here
<1>10. CASE Finish
  <2>1. main.pc = "finish" /\ main.write = Blocks
    BY <1>0, <1>10 DEF Finish, At, MainInv
  <2>2. ASSUME NEW e \in {"error", "canceled"}, Fail(e)
        PROVE  main'.pc # "end" /\ Here' = Here /\ main.pc \notin {"idle", "end"} /\ main'.pc # "idle"
    BY <1>1, <2>1, <2>2 DEF Going, Points
  <2>3. CASE main' = [main EXCEPT !.pc = "end", !.rc = "packed"]
    BY <1>0, <2>1, <2>3 DEF MainType, Here
  <2>4. QED
    BY <1>10, <2>1, <2>2, <2>3 DEF Finish
<1>11. QED
  BY <1>3, <1>4, <1>5, <1>6, <1>7, <1>8, <1>9, <1>10 DEF Caller

LEMMA StepIsSerial ==
  ASSUME IInv, IInv', [Next]_vars
  PROVE  [Serial!Next]_<<Stored, Called>>
<1>0. /\ TypeInv /\ Blocks \in Nat /\ mark \in Nat
      /\ Shown \in Nat /\ mark <= Shown /\ Stored = Numbers(Shown)
      /\ Len(Stored) = Shown
  BY ShownIs, NumbersAre, MainField, Limits DEF IInv
<1>1. /\ Shown' \in Nat /\ mark' <= Shown' /\ Stored' = Numbers(Shown')
  <2>1. IInv => Shown \in Nat /\ mark <= Shown /\ Stored = Numbers(Shown)
    BY ShownIs
  <2>2. (IInv => Shown \in Nat /\ mark <= Shown /\ Stored = Numbers(Shown))'
    BY ShownIs, PTL
  <2>3. QED
    BY <2>2 DEF Numbers
<1>2. \A n : Serial!InOrder(n) = Numbers(n)
  BY DEF Serial!InOrder, Numbers
<1>3. /\ main'.pc = "idle" => Called' = "ready"
      /\ main'.pc = "end" /\ main'.rc = "packed" => Called' = "packed"
      /\ main'.pc = "end" /\ main'.rc # "packed" => Called' = "stopped"
      /\ main'.pc \notin {"idle", "end"} => Called' = "packing"
  BY DEF Called, At
<1>4. ASSUME Shown' = Shown, Called' = Called
      PROVE  [Serial!Next]_<<Stored, Called>>
  BY <1>0, <1>1, <1>4
<1>5. CASE Call
  <2>1. main.pc = "idle" /\ main'.pc = "create" /\ main'.write = mark /\ mark' = mark
    BY <1>5 DEF Call, At
  <2>2. Shown = mark /\ Shown' = mark /\ Called = "ready" /\ Called' = "packing"
    BY <1>3, <2>1, CalledIs DEF Shown, Here
  <2>3. mark \in 0 .. Len(Stored) /\ Stored' = Serial!InOrder(mark)
    BY <1>0, <1>1, <1>2, <2>2
  <2>4. Serial!Start
    BY <2>2, <2>3 DEF Serial!Start
  <2>5. QED
    BY <2>4 DEF Serial!Next
<1>6. CASE Caller
  <2>1. /\ main.pc \notin {"idle", "end"} /\ main'.pc # "idle"
        /\ \/ main'.pc # "end" /\ Here' = Here
           \/ main'.pc # "end" /\ Here' = Here + 1 /\ Here < Blocks
           \/ main'.pc = "end" /\ main'.rc # "packed" /\ Here' = Here
           \/ main'.pc = "end" /\ main'.rc = "packed" /\ Here' = Here /\ Here = Blocks
    BY <1>6, CallerMoves
  <2>2. Called = "packing" /\ Shown = Here /\ Shown' = Here'
    BY <2>1, CalledIs DEF Shown
  <2>3. CASE main'.pc # "end" /\ Here' = Here
    BY <1>3, <1>4, <2>1, <2>2, <2>3
  <2>4. CASE main'.pc # "end" /\ Here' = Here + 1 /\ Here < Blocks
    <3>1. Stored' = Append(Stored, Len(Stored))
      BY <1>0, <1>1, <2>2, <2>4, NumbersAre
    <3>2. Serial!Store
      BY <1>0, <1>3, <2>1, <2>2, <2>4, <3>1 DEF Serial!Store
    <3>3. QED
      BY <3>2 DEF Serial!Next
  <2>5. CASE main'.pc = "end" /\ main'.rc # "packed" /\ Here' = Here
    <3>1. Serial!Stop
      BY <1>0, <1>1, <1>3, <2>2, <2>5 DEF Serial!Stop
    <3>2. QED
      BY <3>1 DEF Serial!Next
  <2>6. CASE main'.pc = "end" /\ main'.rc = "packed" /\ Here' = Here /\ Here = Blocks
    <3>1. Serial!Finish
      BY <1>0, <1>1, <1>2, <1>3, <2>2, <2>6 DEF Serial!Finish
    <3>2. QED
      BY <3>1 DEF Serial!Next
  <2>7. QED
    BY <2>1, <2>3, <2>4, <2>5, <2>6
<1>7. CASE Return \/ Crash
  <2>1. main'.pc = "idle" /\ mark' = mark
    <3>1. Goto("idle") /\ mark' = mark
      BY <1>7 DEF Return, Crash, Goto, disk
    <3>2. QED
      BY <1>0, <3>1, GotoIs DEF Points
  <2>2. Shown' = mark /\ Called' = "ready"
    BY <1>3, <2>1 DEF Shown
  <2>3. mark \in 0 .. Len(Stored) /\ Stored' = Serial!InOrder(mark)
    BY <1>0, <1>1, <1>2, <2>2
  <2>4. Serial!Again
    BY <2>2, <2>3 DEF Serial!Again
  <2>5. QED
    BY <2>4 DEF Serial!Next
<1>8. CASE Cancel \/ (\E t \in Threads : Worker(t))
  <2>1. /\ main'.write = main.write /\ main'.rc = main.rc /\ mark' = mark
        /\ main'.pc = main.pc \/ (main.pc = "asleep" /\ main'.pc = "await")
    <3>1. CASE main' = main /\ UNCHANGED disk
      BY <3>1 DEF disk
    <3>2. CASE main' = Woken /\ UNCHANGED disk
      BY <1>0, <3>2, WokenIs DEF disk
    <3>3. QED
      BY <1>8, <3>1, <3>2 DEF Cancel, Worker, Look, Compress, Deliver
  <2>2. Shown' = Shown
    BY <2>1 DEF Shown, Here
  <2>3. Called' = Called
    BY <1>3, <2>1, CalledIs
  <2>4. QED
    BY <1>4, <2>2, <2>3
<1>9. CASE UNCHANGED vars
  <2>1. Shown' = Shown /\ Called' = Called
    BY <1>9 DEF vars, Shown, Here, Called, At
  <2>2. QED
    BY <1>4, <2>1
<1>10. QED
  BY <1>5, <1>6, <1>7, <1>8, <1>9 DEF Next

(* The ring implements SerialPack: with any number of threads, in any      *)
(* order of their results, the blocks are stored in the order of the       *)
(* image, a call that ends well has stored them all, and the next one      *)
(* starts at a block that was stored.                                      *)
THEOREM PacksInOrder == Spec => ImplementsSerialPack
<1>1. Init => Serial!Init
  <2> SUFFICES ASSUME Init PROVE Serial!Init
    OBVIOUS
  <2>1. main.pc = "idle" /\ mark = 0
    BY DEF Init
  <2>2. Stored = Numbers(0)
    <3>1. IInv /\ Shown = 0
      BY <2>1, InitHolds DEF Shown
    <3>2. QED
      BY <3>1, ShownIs
  <2>3. Numbers(0) = <<>>
    BY DEF Numbers
  <2>4. QED
    BY <2>1, <2>2, <2>3, CalledIs DEF Serial!Init
<1>2. IInv /\ IInv' /\ [Next]_vars => [Serial!Next]_<<Stored, Called>>
  BY StepIsSerial
<1>3. QED
  BY <1>1, <1>2, Invariance, PTL DEF Spec, ImplementsSerialPack, Serial!Spec
=============================================================================
