---------------------------- MODULE BoundedQueue ----------------------------
(***************************************************************************)
(* What a fifo promises its two users: values leave in the order they      *)
(* came, each once, and at most Capacity are held.  A user may be refused  *)
(* at any time.  In one step a value may leave and another may come.       *)
(***************************************************************************)
EXTENDS Naturals, Sequences

CONSTANTS Value, Capacity

VARIABLE queue   (* the values held, the oldest first *)

Init == queue = <<>>

Take == queue # <<>> /\ queue' = Tail(queue)
Put == \E v \in Value : Len(queue) < Capacity /\ queue' = Append(queue, v)
TakeAndPut == \E v \in Value : queue # <<>> /\ queue' = Append(Tail(queue), v)

Next == Take \/ Put \/ TakeAndPut

Spec == Init /\ [][Next]_queue
=============================================================================
