----------------------------- MODULE NetRxProofs -----------------------------
(***************************************************************************)
(* Proofs about the receive path, for every number of buffers, every       *)
(* number of packets and every interleaving of card, handler and server.   *)
(*                                                                         *)
(* HeldBufferKept does not follow from the types: it needs to know where   *)
(* the buffer in use lies.  The server takes the buffer at tail and moves  *)
(* tail past it, and tail does not move again until the server is done, so *)
(* the buffer is always the one just behind tail.  The handler fills the   *)
(* buffer at head only if tail is not just behind head, hence never that   *)
(* one.                                                                    *)
(***************************************************************************)
EXTENDS NetRx, TLAPS

\* The buffer in use is the one just behind tail.
HeldBehindTail == net = "handle" /\ data # NULL => tail = Succ(data)

RxInv == RxTypeOK /\ HeldBehindTail

-----------------------------------------------------------------------------
(* Lemmas about the ring. *)

\* The successor of a slot is the next one, or the first after the last.
LEMMA SuccIs ==
  ASSUME NEW i \in Slots
  PROVE  Succ(i) = IF i = LEN - 1 THEN 0 ELSE i + 1
  <1>1. CASE i = LEN - 1
    BY <1>1, LenAssumption DEF Slots, Succ
  <1>2. CASE i # LEN - 1
    BY <1>2, LenAssumption DEF Slots, Succ
  <1> QED BY <1>1, <1>2

\* The successor of a slot is a slot.
LEMMA SuccType ==
  ASSUME NEW i \in Slots
  PROVE  Succ(i) \in Slots
  BY SuccIs, LenAssumption DEF Slots

\* get_first_free_buffer() keeps head a slot and returns the slot at head,
\* which is not the one just behind tail, or NULL.
LEMMA FreeBufferFacts ==
  ASSUME head \in Slots, tail \in Slots
  PROVE  /\ FreeBuffer \in Slots \cup {NULL}
         /\ TakeFreeBuffer => head' \in Slots /\ tail' \in Slots
         /\ FreeBuffer # NULL => tail # Succ(FreeBuffer)
  BY SuccType DEF FreeBuffer, TakeFreeBuffer, IsFull

\* get_first_used_buffer() keeps tail a slot; a slot it returns is then just
\* behind tail.
LEMMA UsedBufferFacts ==
  ASSUME head \in Slots, tail \in Slots
  PROVE  /\ UsedBuffer \in Slots \cup {NULL}
         /\ TakeUsedBuffer => head' \in Slots /\ tail' \in Slots
         /\ TakeUsedBuffer /\ UsedBuffer # NULL => tail' = Succ(UsedBuffer)
  BY SuccType, NullAssumption DEF UsedBuffer, TakeUsedBuffer, IsEmpty

-----------------------------------------------------------------------------
(* The inductive invariant. *)

\* The server has nothing in use at first.
LEMMA RxInvInit == Init => RxInv
  <1> SUFFICES ASSUME Init PROVE RxInv
    OBVIOUS
  <1>1. RxTypeOK
    BY LenAssumption, PacketsAssumption DEF Init, RingInit, RxTypeOK, Slots, Packets
  <1>2. HeldBehindTail
    BY DEF Init, HeldBehindTail
  <1> QED BY <1>1, <1>2 DEF RxInv

\* Every step keeps the types and the place of the buffer in use.
LEMMA RxInvNext == RxInv /\ [Next]_vars => RxInv'
  <1> SUFFICES ASSUME RxInv, [Next]_vars PROVE RxInv'
    OBVIOUS
  <1> USE PacketsAssumption DEF RxInv
  <1>1. CASE Arrive
    <2>1. RxTypeOK'
      BY <1>1 DEF Arrive, RxTypeOK, ringVars, netVars, ghosts, Packets
    <2>2. HeldBehindTail'
      BY <1>1 DEF Arrive, HeldBehindTail, ringVars, netVars, Succ
    <2> QED BY <2>1, <2>2
  <1>2. CASE HandlerEnter
    BY <1>2 DEF HandlerEnter, RxTypeOK, HeldBehindTail, ringVars, cardVars, netVars, ghosts, Succ
  <1>3. CASE HandlerPoll
    <2>1. handler' \in {"off", "poll", "drain"}
      <3>1. CASE isr
        BY <1>3, <3>1 DEF HandlerPoll
      <3>2. CASE ~isr
        BY <1>3, <3>2 DEF HandlerPoll
      <3> QED BY <3>1, <3>2
    <2>2. isr' \in BOOLEAN
      BY <1>3, Zenon DEF HandlerPoll
    <2>3. pass' \in 0 .. 2
      BY <1>3 DEF HandlerPoll
    <2>4. UNCHANGED <<ringVars, slot, page0, card, arrived, netVars, batched, dropped>>
      BY <1>3 DEF HandlerPoll
    <2>5. RxTypeOK'
      BY <2>1, <2>2, <2>3, <2>4 DEF RxTypeOK, ringVars, netVars
    <2>6. HeldBehindTail'
      BY <2>4 DEF HeldBehindTail, ringVars, netVars, Succ
    <2> QED BY <2>5, <2>6
  <1>4. CASE StorePacket
    <2>1. FreeBuffer \in Slots \cup {NULL} /\ head' \in Slots /\ tail' \in Slots /\ tail' = tail
      BY <1>4, FreeBufferFacts DEF StorePacket, RxTypeOK, TakeFreeBuffer
    <2>2. Head(card) \in Packets /\ Tail(card) \in Seq(Packets)
      BY <1>4 DEF StorePacket, RxTypeOK
    <2>3. slot' \in [Slots -> 0 .. MaxPackets] /\ page0' \in 0 .. MaxPackets
      <3>1. Head(card) \in 0 .. MaxPackets
        BY <2>2 DEF Packets
      <3>2. CASE FreeBuffer = NULL
        BY <1>4, <3>1, <3>2 DEF StorePacket, RxTypeOK
      <3>3. CASE FreeBuffer # NULL
        <4>1. page0' = page0 /\ slot' = [slot EXCEPT ![FreeBuffer] = Head(card)]
          BY <1>4, <3>3 DEF StorePacket
        <4> QED BY <2>1, <3>1, <4>1 DEF RxTypeOK
      <3> QED BY <3>2, <3>3
    <2>4. pass' \in 0 .. 2 /\ batched' \in BOOLEAN
      BY <1>4 DEF StorePacket, RxTypeOK
    <2>5. RxTypeOK'
      BY <1>4, <2>1, <2>2, <2>3, <2>4 DEF StorePacket, RxTypeOK, netVars
    <2>6. HeldBehindTail'
      BY <1>4, <2>1 DEF StorePacket, HeldBehindTail, netVars, Succ
    <2> QED BY <2>5, <2>6
  <1>5. CASE SendIntr
    <2>1. (intr_cnt + 1) % 256 \in 0 .. 255
      BY DEF RxTypeOK
    <2>2. RxTypeOK'
      BY <1>5, <2>1 DEF SendIntr, RxTypeOK, ringVars, cardVars, ghosts
    <2>3. HeldBehindTail'
      BY <1>5 DEF SendIntr, HeldBehindTail, ringVars, Succ
    <2> QED BY <2>2, <2>3
  <1>6. CASE NetReceive
    <2>1. intr_cnt' \in 0 .. 255 /\ net' \in {"intr", "waiting"}
      <3>1. CASE intr_cnt # 0
        <4>1. intr_cnt' = intr_cnt - 1 /\ net' = "intr"
          BY <1>6, <3>1, Zenon DEF NetReceive
        <4>2. intr_cnt - 1 \in 0 .. 255
          BY <3>1 DEF RxTypeOK
        <4> QED BY <4>1, <4>2
      <3>2. CASE intr_cnt = 0
        BY <1>6, <3>2 DEF NetReceive, RxTypeOK
      <3> QED BY <3>1, <3>2
    <2>2. RxTypeOK'
      BY <1>6, <2>1 DEF NetReceive, RxTypeOK, ringVars, cardVars, ghosts
    <2>3. HeldBehindTail'
      BY <2>1 DEF HeldBehindTail
    <2> QED BY <2>2, <2>3
  <1>7. CASE NetRequest
    BY <1>7 DEF NetRequest, RxTypeOK, HeldBehindTail, ringVars, cardVars, ghosts
  <1>8. CASE NetReply
    BY <1>8 DEF NetReply, RxTypeOK, HeldBehindTail, ringVars, cardVars, ghosts
  <1>9. CASE NetTake
    <2>1. UsedBuffer \in Slots \cup {NULL} /\ head' \in Slots /\ tail' \in Slots
      BY <1>9, UsedBufferFacts DEF NetTake, RxTypeOK
    <2>2. RxTypeOK'
      BY <1>9, <2>1 DEF NetTake, RxTypeOK, cardVars, ghosts
    <2>3. HeldBehindTail'
      BY <1>9, UsedBufferFacts DEF NetTake, HeldBehindTail, RxTypeOK, Succ
    <2> QED BY <2>2, <2>3
  <1>10. CASE NetHandle
    <2>1. handled' \in Seq(0 .. MaxPackets)
      <3>1. CASE data = NULL
        BY <1>10, <3>1 DEF NetHandle, RxTypeOK
      <3>2. CASE data # NULL
        <4>1. slot[data] \in 0 .. MaxPackets
          BY <3>2 DEF RxTypeOK
        <4>2. handled' = Append(handled, slot[data])
          BY <1>10, <3>2 DEF NetHandle
        <4> HIDE PacketsAssumption
        <4> QED BY <4>1, <4>2 DEF RxTypeOK
      <3> QED BY <3>1, <3>2
    <2>2. RxTypeOK'
      BY <1>10, <2>1 DEF NetHandle, RxTypeOK, ringVars, cardVars, ghosts
    <2>3. HeldBehindTail'
      BY <1>10 DEF NetHandle, HeldBehindTail
    <2> QED BY <2>2, <2>3
  <1>11. CASE UNCHANGED vars
    BY <1>11 DEF vars, RxTypeOK, HeldBehindTail, ringVars, cardVars, netVars, ghosts, Succ
  <1> QED
    BY <1>1, <1>2, <1>3, <1>4, <1>5, <1>6, <1>7, <1>8, <1>9, <1>10, <1>11
    DEF Next, HandlerStep, NetStep

\* The types of the receive path and the place of the buffer in use hold
\* throughout.
THEOREM RxInvariant == Spec => []RxInv
  BY RxInvInit, RxInvNext, PTL DEF Spec

\* Head, tail, the interrupt counter and the packets keep their ranges however
\* card, handler and server interleave.
THEOREM RxTypeCorrect == Spec => []RxTypeOK
  <1>1. RxInv => RxTypeOK
    BY DEF RxInv
  <1> QED BY <1>1, RxInvariant, PTL

-----------------------------------------------------------------------------

\* No step writes the buffer in use.
LEMMA StepKeepsHeldBuffer ==
  ASSUME RxInv, [Next]_vars, net = "handle", data # NULL
  PROVE  slot'[data] = slot[data]
  <1> USE DEF RxInv
  <1>1. CASE StorePacket
    <2>1. FreeBuffer # data
      BY FreeBufferFacts DEF RxTypeOK, HeldBehindTail
    <2> QED BY <1>1, <2>1 DEF StorePacket, RxTypeOK
  <1>2. CASE UNCHANGED slot
    BY <1>2
  <1>3. StorePacket \/ UNCHANGED slot
    BY DEF Next, HandlerStep, NetStep, vars, Arrive, HandlerEnter, HandlerPoll, SendIntr,
           NetReceive, NetRequest, NetReply, NetTake, NetHandle
  <1> QED BY <1>1, <1>2, <1>3

\* The handler never overwrites the packet the server is handling, for every
\* number of buffers: taking the buffer before it is handled is safe.
THEOREM HeldBufferIsKept == Spec => HeldBufferKept
  <1>1. RxInv /\ [Next]_vars =>
          [net = "handle" /\ data # NULL => slot'[data] = slot[data]]_vars
    BY StepKeepsHeldBuffer
  <1> QED BY <1>1, RxInvariant, PTL DEF Spec, HeldBufferKept


-----------------------------------------------------------------------------
(* The ring is a queue. *)

\* The n-th used slot lies n - 1 places behind tail, around the end of the
\* ring.
LEMMA AroundIs ==
  ASSUME NEW t \in Slots, NEW n \in 1 .. LEN
  PROVE  (t + n - 1) % LEN = IF t + n - 1 < LEN THEN t + n - 1 ELSE (t + n - 1) - LEN
  <1> DEFINE k == t + n - 1
  <1>1. k \in Nat /\ k < 2 * LEN
    BY LenAssumption DEF Slots
  <1> HIDE DEF k
  <1>2. k % LEN = IF k < LEN THEN k ELSE k - LEN
    BY <1>1, LenAssumption
  <1> QED BY <1>2, Zenon DEF k

\* The same for the tail of the ring.
LEMMA UsedSlotIs ==
  ASSUME tail \in Slots, NEW n \in 1 .. LEN
  PROVE  UsedSlot(n) = IF tail + n - 1 < LEN THEN tail + n - 1
                                             ELSE (tail + n - 1) - LEN
  BY AroundIs, Zenon DEF UsedSlot

\* Used counts the slots from tail to head: it is 0 for an empty ring and one
\* less than the buffers for a full one; the slot at head comes next and is
\* none of them.
LEMMA UsedFacts ==
  ASSUME head \in Slots, tail \in Slots
  PROVE  /\ Used \in 0 .. LEN - 1
         /\ IsEmpty <=> Used = 0
         /\ IsFull <=> Used = LEN - 1
         /\ UsedSlot(Used + 1) = head
         /\ \A n \in 1 .. Used : UsedSlot(n) \in Slots /\ UsedSlot(n) # head
  <1>1. /\ Used \in 0 .. LEN - 1
        /\ IsEmpty <=> Used = 0
    BY LenAssumption DEF Slots, Used, IsEmpty
  <1>2. IsFull <=> Used = LEN - 1
    BY SuccIs, LenAssumption DEF Slots, Used, IsFull
  <1>3. UsedSlot(Used + 1) = head
    <2>1. Used + 1 \in 1 .. LEN
      BY <1>1, LenAssumption
    <2> QED BY <2>1, UsedSlotIs, LenAssumption DEF Slots, Used
  <1>4. ASSUME NEW n \in 1 .. Used
        PROVE  UsedSlot(n) \in Slots /\ UsedSlot(n) # head
    <2>1. n \in 1 .. LEN
      BY <1>1, LenAssumption
    <2> QED BY <2>1, <1>1, UsedSlotIs, LenAssumption DEF Slots, Used
  <1> QED BY <1>1, <1>2, <1>3, <1>4

\* A packet stored in a ring that is not full comes after the others.
LEMMA StoreAppends ==
  ASSUME RxTypeOK, StorePacket, ~IsFull
  PROVE  /\ Used' = Used + 1
         /\ \A n \in 1 .. Used : slot'[UsedSlot(n)'] = slot[UsedSlot(n)]
         /\ \A n : n = Used + 1 => slot'[UsedSlot(n)'] = Head(card)
         /\ \A n : UsedSlot(n)' = UsedSlot(n)
  <1> USE DEF RxTypeOK
  <1>1. head' = Succ(head) /\ tail' = tail /\ FreeBuffer = head
    BY DEF StorePacket, TakeFreeBuffer, FreeBuffer
  <1>2. slot' = [slot EXCEPT ![head] = Head(card)]
    <2>1. FreeBuffer # NULL
      BY <1>1, NullAssumption
    <2> QED BY <2>1, <1>1 DEF StorePacket
  <1>3. head' \in Slots /\ tail' \in Slots
    BY <1>1, SuccType
  <1>4. Used' = Used + 1
    <2>1. head' = (IF head = LEN - 1 THEN 0 ELSE head + 1) /\ tail # head'
      BY <1>1, SuccIs DEF IsFull
    <2>2. head \in 0 .. LEN - 1 /\ tail \in 0 .. LEN - 1
      BY DEF Slots
    <2> HIDE DEF RxTypeOK
    <2> QED BY <1>1, <2>1, <2>2, LenAssumption DEF Used
  <1>5. \A n : UsedSlot(n)' = UsedSlot(n)
    BY <1>1 DEF UsedSlot
  <1>6. \A n \in 1 .. Used : slot'[UsedSlot(n)'] = slot[UsedSlot(n)]
    <2> HIDE DEF RxTypeOK
    <2>1. \A n \in 1 .. Used : UsedSlot(n) # head
      BY UsedFacts DEF RxTypeOK
    <2>2. slot \in [Slots -> 0 .. MaxPackets]
      BY DEF RxTypeOK
    <2> QED BY <1>2, <1>5, <2>1, <2>2
  <1>7. \A n : n = Used + 1 => slot'[UsedSlot(n)'] = Head(card)
    <2> HIDE DEF RxTypeOK
    <2>1. UsedSlot(Used + 1) = head /\ head \in Slots
      BY UsedFacts DEF RxTypeOK
    <2>2. slot \in [Slots -> 0 .. MaxPackets]
      BY DEF RxTypeOK
    <2>3. slot'[head] = Head(card)
      BY <1>2, <2>1, <2>2
    <2> QED BY <1>5, <2>1, <2>3
  <1> QED BY <1>4, <1>5, <1>6, <1>7

\* A buffer taken from a ring that is not empty is the first.
LEMMA TakeRemoves ==
  ASSUME RxTypeOK, NetTake, ~IsEmpty
  PROVE  /\ Used' = Used - 1
         /\ slot' = slot
         /\ data' = UsedSlot(1)
         /\ \A n \in 1 .. Used - 1 : UsedSlot(n)' = UsedSlot(n + 1)
  <1> USE DEF RxTypeOK
  <1>1. head' = head /\ tail' = Succ(tail) /\ data' = tail /\ slot' = slot
    BY DEF NetTake, TakeUsedBuffer, UsedBuffer
  <1>2. head' \in Slots /\ tail' \in Slots
    BY <1>1, SuccType
  <1>3. Used' = Used - 1
    <2>1. tail' = (IF tail = LEN - 1 THEN 0 ELSE tail + 1) /\ tail # head
      BY <1>1, SuccIs DEF IsEmpty
    <2>2. head \in 0 .. LEN - 1 /\ tail \in 0 .. LEN - 1
      BY DEF Slots
    <2> HIDE DEF RxTypeOK
    <2> QED BY <1>1, <2>1, <2>2, LenAssumption DEF Used
  <1>4. UsedSlot(1) = tail
    BY UsedSlotIs, LenAssumption DEF Slots
  <1>5. ASSUME NEW n \in 1 .. Used - 1
        PROVE  UsedSlot(n)' = UsedSlot(n + 1)
    <2>1. n \in 1 .. LEN /\ n + 1 \in 1 .. LEN
      BY UsedFacts, LenAssumption
    <2>2. UsedSlot(n)' = IF tail' + n - 1 < LEN THEN tail' + n - 1
                                                ELSE (tail' + n - 1) - LEN
      BY <1>2, <2>1, AroundIs, Zenon DEF UsedSlot
    <2>3. UsedSlot(n + 1) = IF tail + n < LEN THEN tail + n ELSE tail + n - LEN
      BY <2>1, UsedSlotIs, LenAssumption DEF Slots
    <2>4. tail' = (IF tail = LEN - 1 THEN 0 ELSE tail + 1) /\ tail \in 0 .. LEN - 1
      BY <1>1, SuccIs DEF Slots
    <2> HIDE DEF RxTypeOK
    <2> QED BY <2>1, <2>2, <2>3, <2>4, LenAssumption
  <1> QED BY <1>1, <1>3, <1>4, <1>5


-----------------------------------------------------------------------------
(* Order.  On its way a packet is on the card, in the ring, in use and     *)
(* handled; each of these parts is in the order of arrival, and comes      *)
(* before the ones a packet passes earlier.  A packet the full ring drops  *)
(* leaves this way: it comes before what is still on the card, and never   *)
(* gets into the ring.                                                     *)

InUse == net = "handle" /\ data # NULL

\* The packet in the n-th used slot.
InRing(n) == slot[UsedSlot(n)]

CardOrder ==
  \A i \in DOMAIN card :
    /\ card[i] <= arrived
    /\ \A j \in DOMAIN card : i < j => card[i] < card[j]

RingOrder ==
  \A n \in 1 .. Used :
    /\ InRing(n) <= arrived
    /\ \A i \in DOMAIN card : InRing(n) < card[i]
    /\ \A m \in 1 .. Used : n < m => InRing(n) < InRing(m)

UseOrder ==
  InUse =>
    /\ slot[data] <= arrived
    /\ \A i \in DOMAIN card : slot[data] < card[i]
    /\ \A n \in 1 .. Used : slot[data] < InRing(n)

DroppedOrder ==
  /\ page0 \in dropped
  /\ \A d \in dropped :
       /\ d <= arrived
       /\ \A i \in DOMAIN card : d < card[i]
       /\ \A n \in 1 .. Used : d # InRing(n)

HandledOrder ==
  \A k \in DOMAIN handled : handled[k] \notin dropped =>
    /\ handled[k] <= arrived
    /\ \A i \in DOMAIN card : handled[k] < card[i]
    /\ \A n \in 1 .. Used : handled[k] < InRing(n)
    /\ InUse => handled[k] < slot[data]

\* The first half of PacketsInOrder; the second is part of DroppedOrder.
HandledInOrder ==
  \A i, j \in DOMAIN handled :
    i < j /\ handled[i] \notin dropped /\ handled[j] \notin dropped => handled[i] < handled[j]

OrderInv ==
  CardOrder /\ RingOrder /\ UseOrder /\ DroppedOrder /\ HandledOrder /\ HandledInOrder

\* The numbers compared are numbers.
LEMMA PacketNumbers ==
  ASSUME RxTypeOK
  PROVE  /\ arrived \in Nat
         /\ \A i \in DOMAIN card : card[i] \in Nat
         /\ \A n \in 1 .. Used : InRing(n) \in Nat /\ UsedSlot(n) \in Slots
         /\ InUse => slot[data] \in Nat
         /\ \A k \in DOMAIN handled : handled[k] \in Nat
         /\ \A d \in dropped : d \in Nat
  <1>1. /\ arrived \in Nat /\ \A k \in DOMAIN handled : handled[k] \in Nat
        /\ \A d \in dropped : d \in Nat
    BY PacketsAssumption DEF RxTypeOK
  <1>2. \A i \in DOMAIN card : card[i] \in Nat
    BY PacketsAssumption DEF RxTypeOK, Packets
  <1>3. \A n \in 1 .. Used : InRing(n) \in Nat /\ UsedSlot(n) \in Slots
    BY UsedFacts, PacketsAssumption DEF RxTypeOK, InRing
  <1>4. InUse => slot[data] \in Nat
    BY PacketsAssumption DEF RxTypeOK, InUse
  <1> QED BY <1>1, <1>2, <1>3, <1>4

\* An arriving packet has the highest number so far.
LEMMA OrderArrive ==
  ASSUME RxTypeOK, OrderInv, Arrive
  PROVE  OrderInv'
  <1>1. /\ arrived' = arrived + 1 /\ card' = Append(card, arrived + 1)
        /\ UNCHANGED <<ringVars, slot, netVars, page0, dropped>>
    BY DEF Arrive, ghosts
  <1>2. /\ \A n : InRing(n)' = InRing(n)
        /\ Used' = Used /\ (InUse' <=> InUse)
        /\ slot' = slot /\ data' = data /\ handled' = handled
        /\ page0' = page0 /\ dropped' = dropped
    BY <1>1 DEF ringVars, netVars, UsedSlot, Used, InUse, InRing
  <1>3. /\ card \in Seq(Packets) /\ arrived \in Nat
        /\ Used \in Nat
    BY PacketsAssumption, UsedFacts DEF RxTypeOK
  <1>4. /\ DOMAIN card' = DOMAIN card \cup {Len(card) + 1}
        /\ \A i \in DOMAIN card : card'[i] = card[i]
        /\ card'[Len(card) + 1] = arrived + 1
        /\ DOMAIN card = 1 .. Len(card) /\ Len(card) \in Nat
    BY <1>1, <1>3 DEF Packets
  <1>5. CardOrder'
    BY <1>1, <1>3, <1>4, PacketNumbers DEF OrderInv, CardOrder
  <1>6. RingOrder'
    BY <1>1, <1>2, <1>3, <1>4, PacketNumbers DEF OrderInv, RingOrder
  <1>7. UseOrder'
    BY <1>1, <1>2, <1>3, <1>4, PacketNumbers DEF OrderInv, UseOrder
  <1>8. HandledOrder' /\ HandledInOrder'
    BY <1>1, <1>2, <1>3, <1>4, PacketNumbers DEF OrderInv, HandledOrder, HandledInOrder
  <1>9. DroppedOrder'
    BY <1>1, <1>2, <1>3, <1>4, PacketNumbers DEF OrderInv, DroppedOrder
  <1> QED BY <1>5, <1>6, <1>7, <1>8, <1>9 DEF OrderInv

\* The first packet of the card goes behind the last of the ring.
LEMMA OrderStore ==
  ASSUME RxInv, OrderInv, StorePacket
  PROVE  OrderInv'
  <1> USE DEF RxInv
  <1>1. /\ card \in Seq(Packets) /\ card # <<>> /\ card' = Tail(card)
        /\ UNCHANGED <<arrived, tail, netVars>>
    BY DEF RxTypeOK, StorePacket, TakeFreeBuffer
  <1>2. /\ DOMAIN card' = 1 .. Len(card) - 1 /\ DOMAIN card = 1 .. Len(card)
        /\ \A i \in DOMAIN card' : i + 1 \in DOMAIN card /\ card'[i] = card[i + 1]
        /\ Head(card) = card[1] /\ 1 \in DOMAIN card /\ Len(card) \in Nat
    BY <1>1
  <1>3. CardOrder'
    BY <1>1, <1>2, PacketNumbers DEF OrderInv, CardOrder
  <1>4. /\ InUse' <=> InUse
        /\ InUse => slot'[data'] = slot[data]
        /\ data' = data /\ handled' = handled
    <2>1. [Next]_vars
      BY DEF Next, HandlerStep
    <2> QED BY <1>1, <2>1, StepKeepsHeldBuffer DEF netVars, InUse
  <1>5. Used \in Nat
    BY UsedFacts DEF RxTypeOK
  <1>6. CASE IsFull
    <2>1. /\ \A n : InRing(n)' = InRing(n)
          /\ Used' = Used
      BY <1>1, <1>6 DEF StorePacket, TakeFreeBuffer, FreeBuffer, InRing, UsedSlot, Used
    <2>2. RingOrder'
      BY <1>1, <1>2, <2>1, PacketNumbers DEF OrderInv, RingOrder
    <2>3. UseOrder'
      BY <1>1, <1>2, <1>4, <2>1, PacketNumbers DEF OrderInv, UseOrder
    <2>4. page0' = card[1] /\ dropped' = dropped \cup {card[1]}
      BY <1>2, <1>6 DEF StorePacket, FreeBuffer
    <2>5. HandledOrder' /\ HandledInOrder'
      BY <1>1, <1>2, <1>4, <2>1, <2>4, PacketNumbers DEF OrderInv, HandledOrder, HandledInOrder
    <2>6. DroppedOrder'
      BY <1>1, <1>2, <2>1, <2>4, PacketNumbers DEF OrderInv, CardOrder, RingOrder, DroppedOrder
    <2> QED BY <1>3, <2>2, <2>3, <2>5, <2>6 DEF OrderInv
  <1>7. CASE ~IsFull
    <2>1. /\ Used' = Used + 1
          /\ \A n \in 1 .. Used : InRing(n)' = InRing(n)
          /\ \A n : n = Used + 1 => InRing(n)' = card[1]
          /\ page0' = page0 /\ dropped' = dropped
      <3>1. page0' = page0 /\ dropped' = dropped
        BY <1>7, NullAssumption DEF StorePacket, FreeBuffer, RxTypeOK
      <3> QED BY <1>2, <1>7, <3>1, StoreAppends DEF InRing
    <2>2. RingOrder'
      BY <1>1, <1>2, <1>5, <2>1, PacketNumbers DEF OrderInv, RingOrder, CardOrder
    <2>3. UseOrder'
      BY <1>1, <1>2, <1>4, <1>5, <2>1, PacketNumbers DEF OrderInv, UseOrder
    <2>4. HandledOrder'
      <3>1. \A k \in DOMAIN handled : handled[k] \notin dropped =>
              \A n \in 1 .. Used' : handled[k] < InRing(n)'
        BY <1>2, <1>5, <2>1 DEF OrderInv, HandledOrder
      <3> QED BY <1>1, <1>2, <1>4, <2>1, <3>1 DEF OrderInv, HandledOrder
    <2>5. HandledInOrder'
      BY <1>4, <2>1 DEF OrderInv, HandledInOrder
    <2>6. DroppedOrder'
      BY <1>1, <1>2, <1>5, <2>1, PacketNumbers DEF OrderInv, DroppedOrder
    <2> QED BY <1>3, <2>2, <2>3, <2>4, <2>5, <2>6 DEF OrderInv
  <1> QED BY <1>6, <1>7

\* The first packet of the ring is in use from now on.
LEMMA OrderTake ==
  ASSUME RxTypeOK, OrderInv, NetTake
  PROVE  OrderInv'
  <1>1. /\ ~InUse /\ slot' = slot
        /\ UNCHANGED <<card, arrived, handled, page0, dropped>>
    BY DEF NetTake, InUse, cardVars, ghosts
  <1>2. CardOrder' /\ HandledInOrder'
    BY <1>1 DEF OrderInv, CardOrder, HandledInOrder
  <1>3. Used \in Nat
    BY UsedFacts DEF RxTypeOK
  <1>4. CASE IsEmpty
    <2>1. ~InUse' /\ Used = 0 /\ Used' = 0
      BY <1>4, UsedFacts DEF NetTake, InUse, UsedBuffer, TakeUsedBuffer, RxTypeOK, IsEmpty, Used
    <2> QED BY <1>1, <1>2, <2>1 DEF OrderInv, RingOrder, UseOrder, HandledOrder, DroppedOrder
  <1>5. CASE ~IsEmpty
    <2>1. /\ Used' = Used - 1 /\ Used # 0
          /\ slot'[data'] = InRing(1)
          /\ \A n \in 1 .. Used - 1 : InRing(n)' = InRing(n + 1)
      BY <1>1, <1>5, TakeRemoves, UsedFacts DEF InRing, RxTypeOK
    <2>2. RingOrder'
      BY <1>1, <1>3, <2>1, PacketNumbers DEF OrderInv, RingOrder
    <2>3. UseOrder'
      BY <1>1, <1>3, <2>1, PacketNumbers DEF OrderInv, RingOrder, UseOrder
    <2>4. HandledOrder'
      <3>1. \A k \in DOMAIN handled : handled[k] \notin dropped =>
              \A n \in 1 .. Used' : handled[k] < InRing(n)'
        BY <1>3, <2>1 DEF OrderInv, HandledOrder
      <3>2. \A k \in DOMAIN handled : handled[k] \notin dropped => handled[k] < slot'[data']
        BY <1>3, <2>1 DEF OrderInv, HandledOrder
      <3> QED BY <1>1, <3>1, <3>2 DEF OrderInv, HandledOrder
    <2>5. DroppedOrder'
      BY <1>1, <1>3, <2>1 DEF OrderInv, DroppedOrder
    <2> QED BY <1>2, <2>2, <2>3, <2>4, <2>5 DEF OrderInv
  <1> QED BY <1>4, <1>5

\* The packet in use comes after the ones handled before it; what lies at
\* address 0 was dropped.
LEMMA OrderHandle ==
  ASSUME RxTypeOK, OrderInv, NetHandle
  PROVE  OrderInv'
  <1>1. /\ ~InUse' /\ UNCHANGED <<card, arrived, slot, page0, dropped>>
        /\ Used' = Used /\ \A n : InRing(n)' = InRing(n)
    BY DEF NetHandle, InUse, cardVars, ringVars, ghosts, Used, UsedSlot, InRing
  <1>2. CardOrder' /\ RingOrder' /\ UseOrder' /\ DroppedOrder'
    BY <1>1 DEF OrderInv, CardOrder, RingOrder, UseOrder, DroppedOrder
  <1>3. PICK x \in 0 .. MaxPackets :
          /\ handled' = Append(handled, x)
          /\ x \notin dropped => InUse /\ x = slot[data]
    BY DEF NetHandle, InUse, RxTypeOK, OrderInv, DroppedOrder
  <1>4. /\ DOMAIN handled' = DOMAIN handled \cup {Len(handled) + 1}
        /\ \A k \in DOMAIN handled : handled'[k] = handled[k]
        /\ handled'[Len(handled) + 1] = x
        /\ DOMAIN handled = 1 .. Len(handled) /\ Len(handled) \in Nat
    <2>1. handled \in Seq(0 .. MaxPackets)
      BY DEF RxTypeOK
    <2> QED BY <1>3, <2>1
  <1>5. HandledOrder'
    BY <1>1, <1>3, <1>4 DEF OrderInv, HandledOrder, UseOrder
  <1>6. HandledInOrder'
    BY <1>1, <1>3, <1>4, PacketNumbers DEF OrderInv, HandledOrder, HandledInOrder
  <1> QED BY <1>2, <1>5, <1>6 DEF OrderInv

\* The other steps move no packet.
LEMMA OrderNext == RxInv /\ OrderInv /\ [Next]_vars => OrderInv'
  <1> SUFFICES ASSUME RxInv, OrderInv, [Next]_vars PROVE OrderInv'
    OBVIOUS
  <1> USE DEF RxInv
  <1>1. ASSUME UNCHANGED <<ringVars, slot, card, arrived, data, handled, page0, dropped>>, InUse' <=> InUse
        PROVE  OrderInv'
    BY <1>1 DEF OrderInv, CardOrder, RingOrder, UseOrder, DroppedOrder, HandledOrder,
                HandledInOrder, ringVars, Used, UsedSlot, InRing
  <1>2. CASE HandlerEnter \/ HandlerPoll \/ UNCHANGED vars
    BY <1>1, <1>2 DEF HandlerEnter, HandlerPoll, vars, cardVars, netVars, ghosts, InUse
  <1>3. CASE SendIntr
    BY <1>1, <1>3 DEF SendIntr, cardVars, ghosts, InUse
  <1>4. CASE NetReceive \/ NetRequest \/ NetReply
    BY <1>1, <1>4 DEF NetReceive, NetRequest, NetReply, cardVars, ghosts, InUse
  <1> QED BY <1>2, <1>3, <1>4, OrderArrive, OrderStore, OrderTake, OrderHandle
          DEF Next, HandlerStep, NetStep

\* Packets that found room are handled in the order in which they came, each
\* at most once, for every size of the ring, although every look at an empty
\* ring handles a dropped packet again.
THEOREM PacketsStayInOrder == Spec => []PacketsInOrder
  <1>1. Init => OrderInv
    BY LenAssumption DEF Init, RingInit, OrderInv, CardOrder, RingOrder, UseOrder, DroppedOrder,
       HandledOrder, HandledInOrder, InUse, Used
  <1>2. OrderInv => PacketsInOrder
    BY DEF OrderInv, HandledInOrder, DroppedOrder, PacketsInOrder, InRing
  <1> QED BY <1>1, <1>2, OrderNext, RxInvariant, PTL DEF Spec

-----------------------------------------------------------------------------
(* Refinement. *)

\* Every step of the receive path is a step of the queue, or none.
LEMMA StepIsQueueStep ==
  ASSUME RxInv, [Next]_vars
  PROVE  [Abstract!QNext]_Queue
  <1> USE DEF RxInv
  <1>0. Used \in Nat /\ Len(Queue) = Used /\ DOMAIN Queue = 1 .. Used
    BY UsedFacts DEF RxTypeOK, Queue
  <1>1. CASE StorePacket /\ ~IsFull
    <2>1. Queue' = Append(Queue, Head(card))
      <3>1. Queue' = [n \in 1 .. Used + 1 |-> InRing(n)']
        BY <1>1, StoreAppends DEF Queue, InRing
      <3>2. Queue = [n \in 1 .. Used |-> InRing(n)]
        BY DEF Queue, InRing
      <3>3. /\ \A n \in 1 .. Used : InRing(n)' = InRing(n)
            /\ \A n : n = Used + 1 => InRing(n)' = Head(card)
        BY <1>1, StoreAppends DEF InRing
      <3>4. Queue \in Seq(0 .. MaxPackets)
        BY <1>0, <3>2, UsedFacts DEF RxTypeOK, InRing
      <3> QED BY <1>0, <3>1, <3>2, <3>3, <3>4
    <2>2. Head(card) \in Packets /\ Len(Queue) < LEN - 1
      BY <1>0, <1>1, UsedFacts, LenAssumption DEF StorePacket, RxTypeOK
    <2> QED BY <2>1, <2>2 DEF Abstract!QNext, Abstract!Put
  <1>2. CASE NetTake /\ ~IsEmpty
    <2>1. Queue' = Tail(Queue)
      <3>1. Queue' = [n \in 1 .. Used - 1 |-> InRing(n + 1)]
        BY <1>2, TakeRemoves DEF Queue, InRing
      <3>2. Queue = [n \in 1 .. Used |-> InRing(n)]
        BY DEF Queue, InRing
      <3>4. Queue \in Seq(0 .. MaxPackets)
        BY <1>0, <3>2, UsedFacts DEF RxTypeOK, InRing
      <3> QED BY <1>0, <3>1, <3>2, <3>4
    <2>2. Queue # <<>>
      BY <1>0, <1>2, UsedFacts DEF RxTypeOK
    <2> QED BY <2>1, <2>2 DEF Abstract!QNext, Abstract!Get
  <1>3. ASSUME UNCHANGED <<head, tail, slot>>
        PROVE  UNCHANGED Queue
    BY <1>3 DEF Queue, Used, UsedSlot
  <1>4. CASE StorePacket /\ IsFull
    BY <1>3, <1>4 DEF StorePacket, TakeFreeBuffer, FreeBuffer
  <1>5. CASE NetTake /\ IsEmpty
    BY <1>3, <1>5 DEF NetTake, TakeUsedBuffer
  <1>6. CASE UNCHANGED <<head, tail, slot>>
    BY <1>3, <1>6
  <1>7. StorePacket \/ NetTake \/ UNCHANGED <<head, tail, slot>>
    BY DEF Next, HandlerStep, NetStep, vars, ringVars, Arrive, HandlerEnter, HandlerPoll,
           SendIntr, NetReceive, NetRequest, NetReply, NetHandle
  <1> QED BY <1>1, <1>2, <1>4, <1>5, <1>6, <1>7

\* The ring with its two pointers implements a first-in first-out queue of
\* LEN - 1 packets that loses one only when it holds that many, for every LEN.
THEOREM RingIsLossyQueue == Spec => RefinesLossyQueue
  <1>1. Init => Abstract!QInit
    BY LenAssumption DEF Init, RingInit, Abstract!QInit, Queue, Used
  <1>2. RxInv /\ [Next]_vars => [Abstract!QNext]_Queue
    BY StepIsQueueStep
  <1> QED BY <1>1, <1>2, RxInvariant, PTL DEF Spec, RefinesLossyQueue, Abstract!QSpec

-----------------------------------------------------------------------------
(* Interrupt messages.  intr_cnt is an unsigned char; below 256 packets it *)
(* cannot wrap, since there is at most one message for each arrival.       *)

One(b) == IF b THEN 1 ELSE 0

CountBelow == intr_cnt + One(handler = "drain") + One(isr) <= arrived

CreditInv == CountBelow /\ CreditsCoverPackets

\* With fewer than 256 packets the count never wraps, and every packet in the
\* ring has its message, unless a pass stored several.
LEMMA CreditNext ==
  ASSUME MaxPackets < 256, RxInv, CreditInv, [Next]_vars
  PROVE  CreditInv'
  <1> USE DEF RxInv, CreditInv
  <1>0. /\ intr_cnt \in Nat /\ arrived \in Nat /\ arrived <= MaxPackets /\ MaxPackets \in Nat
        /\ Used \in Nat /\ isr \in BOOLEAN
    BY PacketsAssumption, UsedFacts DEF RxTypeOK
  <1>1. CASE Arrive
    <2>1. CountBelow'
      BY <1>0, <1>1 DEF Arrive, CountBelow, One, netVars
    <2>2. CreditsCoverPackets'
      BY <1>1 DEF Arrive, CreditsCoverPackets, netVars, ringVars, ghosts, Used
    <2> QED BY <2>1, <2>2
  <1>2. CASE HandlerEnter \/ UNCHANGED vars
    <2>1. CountBelow'
      BY <1>0, <1>2 DEF HandlerEnter, vars, CountBelow, One, netVars, cardVars
    <2>2. CreditsCoverPackets'
      BY <1>2 DEF HandlerEnter, vars, CreditsCoverPackets, netVars, ringVars, ghosts, Used
    <2> QED BY <2>1, <2>2
  <1>3. CASE HandlerPoll
    <2>1. CountBelow'
      BY <1>0, <1>3 DEF HandlerPoll, CountBelow, One, netVars
    <2>2. CreditsCoverPackets'
      BY <1>3 DEF HandlerPoll, CreditsCoverPackets, netVars, ringVars, Used
    <2> QED BY <2>1, <2>2
  <1>4. CASE StorePacket
    <2>1. CountBelow'
      BY <1>4 DEF StorePacket, CountBelow, One, netVars
    <2>2. Used' \in {Used, Used + 1}
      <3>1. CASE IsFull
        BY <1>0, <1>4, <3>1 DEF StorePacket, TakeFreeBuffer, Used
      <3>2. CASE ~IsFull
        BY <1>0, <1>4, <3>2, StoreAppends
      <3> QED BY <3>1, <3>2
    <2>3. /\ batched' = (batched \/ pass # 0) /\ handler = "drain"
          /\ pass' = (IF pass = 0 THEN 1 ELSE 2)
          /\ UNCHANGED <<intr_cnt, net, handler>>
      BY <1>4 DEF StorePacket, netVars
    <2>4. CASE pass # 0
      <3>1. batched' = TRUE
        BY <2>3, <2>4, Zenon
      <3> QED BY <2>1, <3>1 DEF CreditsCoverPackets
    <2>5. CASE pass = 0 /\ batched
      <3>1. batched' = TRUE
        BY <2>3, <2>5, Zenon
      <3> QED BY <2>1, <3>1 DEF CreditsCoverPackets
    <2>6. CASE pass = 0 /\ ~batched
      <3>1. Used <= intr_cnt + One(net = "intr")
        BY <1>0, <2>6 DEF CreditsCoverPackets, One
      <3>2. Used' <= (intr_cnt + One(net = "intr")) + 1
        BY <1>0, <2>2, <3>1 DEF One
      <3>3. Used' <= intr_cnt' + One(net' = "intr") + 1
        BY <1>0, <2>3, <3>2 DEF One
      <3>4. handler' = "drain" /\ pass' # 0 /\ intr_cnt' \in Nat
        BY <1>0, <2>3, <2>6
      <3>5. CreditsCoverPackets'
        BY <3>3, <3>4 DEF CreditsCoverPackets, One
      <3> QED BY <2>1, <3>5
    <2> QED BY <2>1, <2>4, <2>5, <2>6
  <1>5. CASE SendIntr
    <2>1. intr_cnt' = intr_cnt + 1
      BY <1>0, <1>5 DEF SendIntr, CountBelow, One
    <2>2. CountBelow'
      BY <1>0, <1>5, <2>1 DEF SendIntr, CountBelow, One, cardVars
    <2>3. CreditsCoverPackets'
      BY <1>0, <1>5, <2>1 DEF SendIntr, CreditsCoverPackets, ringVars, ghosts, Used
    <2> QED BY <2>2, <2>3
  <1>6. CASE NetReceive
    <2>1. CountBelow'
      BY <1>0, <1>6 DEF NetReceive, CountBelow, One, cardVars
    <2>2. CreditsCoverPackets'
      BY <1>0, <1>6 DEF NetReceive, CreditsCoverPackets, ringVars, ghosts, Used
    <2> QED BY <2>1, <2>2
  <1>7. CASE NetRequest \/ NetReply \/ NetHandle
    <2>1. CountBelow'
      BY <1>7 DEF NetRequest, NetReply, NetHandle, CountBelow, One, cardVars
    <2>2. CreditsCoverPackets'
      BY <1>0, <1>7 DEF NetRequest, NetReply, NetHandle, CreditsCoverPackets, ringVars, ghosts, Used
    <2> QED BY <2>1, <2>2
  <1>8. CASE NetTake
    <2>1. CountBelow'
      BY <1>8 DEF NetTake, CountBelow, One, cardVars
    <2>2. /\ net = "intr" /\ net' = "handle" /\ handler = "off"
          /\ UNCHANGED <<intr_cnt, batched, handler, pass>>
      BY <1>8 DEF NetTake, ghosts
    <2>3. CASE IsEmpty
      <3>1. Used' = 0
        BY <1>8, <2>3 DEF NetTake, TakeUsedBuffer, Used, IsEmpty, RxTypeOK, Slots
      <3> QED BY <1>0, <2>1, <2>2, <3>1 DEF CreditsCoverPackets
    <2>4. CASE ~IsEmpty
      <3>1. Used' = Used - 1
        BY <1>8, <2>4, TakeRemoves
      <3>2. CreditsCoverPackets'
        BY <1>0, <2>2, <3>1 DEF CreditsCoverPackets
      <3> QED BY <2>1, <3>2
    <2> QED BY <2>3, <2>4
  <1> QED
    BY <1>1, <1>2, <1>3, <1>4, <1>5, <1>6, <1>7, <1>8 DEF Next, HandlerStep, NetStep

\* As long as fewer than 256 packets come, and no pass of the handler stores
\* several, there is a message for every packet in the ring.  The bound is the
\* range of intr_cnt (process.h): 256 messages would count as none.
THEOREM MessagesCoverPackets ==
  ASSUME MaxPackets < 256
  PROVE  Spec => []CreditsCoverPackets
  <1>1. Init => CreditInv
    BY LenAssumption DEF Init, RingInit, CreditInv, CountBelow, CreditsCoverPackets, One, Used
  <1>2. RxInv /\ CreditInv /\ [Next]_vars => CreditInv'
    BY CreditNext
  <1>3. CreditInv => CreditsCoverPackets
    BY DEF CreditInv
  <1> QED BY <1>1, <1>2, <1>3, RxInvariant, PTL DEF Spec

=============================================================================
