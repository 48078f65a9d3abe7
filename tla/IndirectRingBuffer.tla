------------------------- MODULE IndirectRingBuffer --------------------------
(***************************************************************************)
(* lib/indirect_ring_buffer.cc: LEN buffers handed out in turn.  The       *)
(* producer advances head when it takes a buffer to fill, the consumer     *)
(* advances tail when it takes a buffer to read; one buffer always stays   *)
(* unused.  A slot stands for the buffer its pointer leads to.             *)
(***************************************************************************)
EXTENDS Naturals

CONSTANTS
  LEN,     \* number of buffers (10)
  NULL     \* what the getters return when there is no buffer

ASSUME LenAssumption == LEN \in Nat \ {0, 1}

Slots == 0 .. LEN - 1

ASSUME NullAssumption == NULL \notin Slots

VARIABLES head, tail

ringVars == <<head, tail>>

\* A faulty variant, for the check that a property notices it: no wrap.
Succ_NoWrap(i) == i + 1

Succ(i) == (i + 1) % LEN

RingInit == head = 0 /\ tail = 0

\* A faulty variant, for the check that a property notices it: full not seen at the wrap.
IsFull_NoWrap == tail = head + 1

IsFull == tail = Succ(head)

IsEmpty == tail = head

\* A faulty variant, for the check that a property notices it: the slot after head.
FreeBuffer_Ahead == IF IsFull THEN NULL ELSE Succ(head)

\* get_first_free_buffer(): the slot it returns, and the head it leaves.
FreeBuffer == IF IsFull THEN NULL ELSE head
TakeFreeBuffer == head' = (IF IsFull THEN head ELSE Succ(head)) /\ UNCHANGED tail

\* A faulty variant, for the check that a property notices it: tail stays.
TakeUsedBuffer_Stays == UNCHANGED ringVars

\* get_first_used_buffer(): the slot it returns, and the tail it leaves.
UsedBuffer == IF IsEmpty THEN NULL ELSE tail
TakeUsedBuffer == tail' = (IF IsEmpty THEN tail ELSE Succ(tail)) /\ UNCHANGED head

\* The number of slots between tail and head, and the n-th of them.
Used == IF head >= tail THEN head - tail ELSE head + LEN - tail
UsedSlot(n) == (tail + n - 1) % LEN

=============================================================================
