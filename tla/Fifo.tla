-------------------------------- MODULE Fifo --------------------------------
(***************************************************************************)
(* The fifo of common/fifo/fifo.v, between the UART and its users: a ring  *)
(* of Slots = 2^ADDR_BITS values whose pointers alone do not tell full     *)
(* from empty, so that two flags are kept beside them.  One step is one    *)
(* clock with reset low; the reader asks for a read, the writer for a      *)
(* write, both or neither.                                                 *)
(***************************************************************************)
EXTENDS Naturals, Sequences

CONSTANTS Slots, Value

ASSUME FifoAssumption == Slots \in Nat /\ Slots >= 3

VARIABLES q_rd_ptr, q_wr_ptr, q_empty, q_full, q_data_array

vars == <<q_rd_ptr, q_wr_ptr, q_empty, q_full, q_data_array>>

Ptr == 0 .. Slots - 1

(* Pointer arithmetic on ADDR_BITS bits.                                   *)
(* (Here a definition named ..._x_... is not the code's: it is a slip,     *)
(* which a checked property must notice when it takes the code's place.)   *)
Plus_x_NoWrap(p, n) == p + n
Plus(p, n) == IF p + n < Slots THEN p + n ELSE p + n - Slots

TypeOK ==
  /\ q_rd_ptr \in Ptr /\ q_wr_ptr \in Ptr
  /\ q_empty \in BOOLEAN /\ q_full \in BOOLEAN
  /\ q_data_array \in [Ptr -> Value]

(* The slots are not reset.                                                *)
Init ==
  /\ q_rd_ptr = 0 /\ q_wr_ptr = 0
  /\ q_empty = TRUE /\ q_full = FALSE
  /\ q_data_array \in [Ptr -> Value]

(* The "protected" requests.                                               *)
rd_en_prot(rd_en) == rd_en /\ ~q_empty
wr_en_prot_x_Unprotected(wr_en) == wr_en
wr_en_prot(wr_en) == wr_en /\ ~q_full

d_empty_x_Early(rd_en, wr_en) ==
  \/ q_empty /\ ~wr_en_prot(wr_en)
  \/ q_wr_ptr = Plus(q_rd_ptr, 2) /\ rd_en_prot(rd_en)

d_empty(rd_en, wr_en) ==
  \/ q_empty /\ ~wr_en_prot(wr_en)
  \/ q_wr_ptr = Plus(q_rd_ptr, 1) /\ rd_en_prot(rd_en)

d_full_x_Forgotten(rd_en, wr_en) ==
  q_rd_ptr = Plus(q_wr_ptr, 1) /\ wr_en_prot(wr_en)

d_full(rd_en, wr_en) ==
  \/ q_full /\ ~rd_en_prot(rd_en)
  \/ q_rd_ptr = Plus(q_wr_ptr, 1) /\ wr_en_prot(wr_en)

Clock(rd_en, wr_en, wr_data) ==
  /\ q_rd_ptr' = IF rd_en_prot(rd_en) THEN Plus(q_rd_ptr, 1) ELSE q_rd_ptr
  /\ q_wr_ptr' = IF wr_en_prot(wr_en) THEN Plus(q_wr_ptr, 1) ELSE q_wr_ptr
  /\ q_empty' = d_empty(rd_en, wr_en)
  /\ q_full' = d_full(rd_en, wr_en)
  /\ q_data_array' = IF wr_en_prot(wr_en)
                     THEN [q_data_array EXCEPT ![q_wr_ptr] = wr_data]
                     ELSE q_data_array

Next == \E rd_en, wr_en \in BOOLEAN, wr_data \in Value : Clock(rd_en, wr_en, wr_data)

Spec == Init /\ [][Next]_vars
-----------------------------------------------------------------------------
(* The values written and not yet read.  With equal pointers the full flag *)
(* tells all from none.                                                    *)
Count ==
  IF q_wr_ptr > q_rd_ptr THEN q_wr_ptr - q_rd_ptr
  ELSE IF q_wr_ptr < q_rd_ptr \/ q_full THEN q_wr_ptr + Slots - q_rd_ptr
  ELSE 0

Contents == [i \in 1 .. Count |-> q_data_array[Plus(q_rd_ptr, i - 1)]]

Queue == INSTANCE BoundedQueue WITH
  Capacity <- Slots, queue <- Contents

(* The fifo is a queue whose front is the value on rd_data: nothing        *)
(* accepted is lost, repeated or reordered, and the two flags refuse       *)
(* whatever would overwrite or invent a value.                             *)
IsQueue == Queue!Spec

(* Seen from outside the fifo is its contents and its two flags: the next  *)
(* flags depend on nothing else in the ring.  The modules that use a fifo  *)
(* (Hci) use this view of it.                                              *)
Flagged == INSTANCE FlaggedQueue WITH
  Capacity <- Slots, fifo <- [items |-> Contents, empty |-> q_empty, full |-> q_full]

IsFlaggedQueue == Flagged!Spec

(* The flags never err on the dangerous side, and on the safe side by one  *)
(* entry: after a read and a write in one clock, "empty" may hide one      *)
(* entry and "full" one free slot (lines 95-96 and 101-102 look at the     *)
(* read or the write alone).                                               *)
FlagsConservative ==
  /\ q_empty => Count <= 1
  /\ Count = 0 => q_empty
  /\ q_full => Count >= Slots - 1
  /\ Count = Slots => q_full
=============================================================================
