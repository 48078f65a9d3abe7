-------------------------------- MODULE Heap --------------------------------
(***************************************************************************)
(* What malloc and free promise: a block is at least as large as was asked *)
(* for and shares no address with a block that is still held.              *)
(* Specification of what a client sees, implemented by Memory.             *)
(***************************************************************************)
EXTENDS Integers, FiniteSets

VARIABLE blocks   \* the blocks held: what was asked for and the bytes given

HeapInit == blocks = {}

HeapMalloc ==
  \E b \in blocks' \ blocks :
    /\ blocks' = blocks \cup {b}
    /\ Cardinality(b.bytes) >= b.asked
    /\ \A other \in blocks : b.bytes \cap other.bytes = {}

HeapFree == \E b \in blocks : blocks' = blocks \ {b}

HeapSpec == HeapInit /\ [][HeapMalloc \/ HeapFree]_blocks

=============================================================================
