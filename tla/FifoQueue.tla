----------------------------- MODULE FifoQueue -----------------------------
(***************************************************************************)
(* What a circular queue promises: entries come out once and in the order  *)
(* in which they went in, and no more than Capacity wait inside.           *)
(***************************************************************************)
EXTENDS Integers, Sequences

CONSTANTS Entries, Capacity

VARIABLES
  queue,    \* the entries inside
  out       \* the entry that came out last

NoEntry == "none"

Init == queue = <<>> /\ out = NoEntry

Enqueue(e) ==
  /\ Len(queue) < Capacity
  /\ queue' = Append(queue, e)
  /\ UNCHANGED out

Dequeue ==
  /\ queue # <<>>
  /\ out' = Head(queue)
  /\ queue' = Tail(queue)

Next == Dequeue \/ \E e \in Entries : Enqueue(e)

Spec == Init /\ [][Next]_<<queue, out>>
=============================================================================
