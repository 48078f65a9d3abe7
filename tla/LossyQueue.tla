----------------------------- MODULE LossyQueue ------------------------------
(***************************************************************************)
(* What the receive path promises: a first-in first-out queue of at most   *)
(* Capacity packets that loses an arriving packet only when it is full.    *)
(***************************************************************************)
EXTENDS Naturals, Sequences

CONSTANTS Packets, Capacity

VARIABLE queue

QInit == queue = <<>>

Put(p) == Len(queue) < Capacity /\ queue' = Append(queue, p)

Get == queue # <<>> /\ queue' = Tail(queue)

QNext == Get \/ \E p \in Packets : Put(p)

QSpec == QInit /\ [][QNext]_queue

=============================================================================
