----------------------------- MODULE SerialPack -----------------------------
(***************************************************************************)
(* What pack_pfsc_into_stream promises, however many threads compress: the *)
(* blocks of the image are stored one after the other, in the order of the *)
(* image, as by a single thread; a call that ends well has stored them     *)
(* all, one that does not is taken up at a block already stored.           *)
(***************************************************************************)
EXTENDS Naturals, Sequences

CONSTANT Blocks

VARIABLES
  stored, \* the blocks stored so far, as a sequence of their numbers
  call    \* "ready", "packing", "packed" or "stopped"

InOrder(n) == [i \in 1 .. n |-> i - 1]

Init == stored = <<>> /\ call = "ready"

Start == /\ call = "ready" /\ call' = "packing"
         /\ \E n \in 0 .. Len(stored) : stored' = InOrder(n)

Store == /\ call = "packing" /\ Len(stored) < Blocks
         /\ stored' = Append(stored, Len(stored))
         /\ UNCHANGED call

Finish == /\ call = "packing" /\ stored = InOrder(Blocks)
          /\ call' = "packed"
          /\ UNCHANGED stored

Stop == /\ call \in {"ready", "packing"} /\ call' = "stopped"
        /\ UNCHANGED stored

(* The conversion is resumed, after a crash too.                           *)
Again == /\ call' = "ready"
         /\ \E n \in 0 .. Len(stored) : stored' = InOrder(n)

Next == Start \/ Store \/ Finish \/ Stop \/ Again

Spec == Init /\ [][Next]_<<stored, call>>
=============================================================================
