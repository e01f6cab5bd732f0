---------------------------- MODULE FlaggedQueue ----------------------------
(***************************************************************************)
(* A fifo of common/fifo/fifo.v as its users see it: the values held and   *)
(* the two flags, without the ring.  The flags are those of the source,    *)
(* which are not always those of the contents.                             *)
(***************************************************************************)
EXTENDS Naturals, Sequences

CONSTANTS Value, Capacity

VARIABLE fifo   (* [items, empty, full] *)

EmptyFifo == [items |-> <<>>, empty |-> TRUE, full |-> FALSE]

FifoTypeOK ==
  /\ fifo.items \in Seq(Value) /\ Len(fifo.items) <= Capacity
  /\ fifo.empty \in BOOLEAN /\ fifo.full \in BOOLEAN

(* The fifo after a clock with the two requests; v is what is written.     *)
Clocked(rd_en, wr_en, v) ==
  LET rd   == rd_en /\ ~fifo.empty
      wr   == wr_en /\ ~fifo.full
      held == Len(fifo.items)
      rest == IF rd THEN Tail(fifo.items) ELSE fifo.items
  IN [items |-> IF wr THEN Append(rest, v) ELSE rest,
      empty |-> (fifo.empty /\ ~wr) \/ (held = 1 /\ rd),
      full  |-> (fifo.full /\ ~rd) \/ (held = Capacity - 1 /\ wr)]

Init == fifo = EmptyFifo
Next == \E rd_en, wr_en \in BOOLEAN, v \in Value : fifo' = Clocked(rd_en, wr_en, v)
Spec == Init /\ [][Next]_fifo
=============================================================================
