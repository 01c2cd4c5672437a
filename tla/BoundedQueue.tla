---------------------------- MODULE BoundedQueue ----------------------------
(***************************************************************************)
(* What the keyboard buffer promises its two users, the interrupt handler  *)
(* and the reader: a queue of at most Capacity characters, delivered in    *)
(* the order they were typed.  A character typed while the queue is full   *)
(* is dropped, and no other one is.                                        *)
(***************************************************************************)
EXTENDS Integers, Sequences

CONSTANTS Item, Nothing, Capacity

VARIABLES
  queue,     \* what is waiting
  taken      \* what was taken last

queueVars == <<queue, taken>>

Init == queue = <<>> /\ taken = Nothing

\* An offer to a full queue is refused, which changes nothing.
Offer(x) ==
  /\ Len(queue) < Capacity
  /\ queue' = Append(queue, x)
  /\ UNCHANGED taken

Take ==
  /\ queue # <<>>
  /\ taken' = Head(queue) /\ queue' = Tail(queue)

Next == Take \/ \E x \in Item : Offer(x)

QueueSpec == Init /\ [][Next]_queueVars

=============================================================================
