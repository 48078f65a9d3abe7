-------------------------------- MODULE NetRx --------------------------------
(***************************************************************************)
(* Packets on their way in: the network card, its interrupt handler        *)
(* (dr/ne2k.cc), the ring of buffers shared with the network server, the   *)
(* interrupt counter of kernel/ipc.cc and the loop of net/main.cc.         *)
(*                                                                         *)
(* The handler runs with interrupts off, so the network server does not    *)
(* move while it runs; the card does.  Packets are numbered as they        *)
(* arrive.  A full ring makes the handler write through a null pointer,    *)
(* and an empty one makes the server read through it: page0 is what the    *)
(* memory at address 0 holds, 0 before the first packet dropped there.     *)
(* (What other code writes through a null pointer is not followed.)        *)
(***************************************************************************)
EXTENDS IndirectRingBuffer, Sequences

CONSTANT MaxPackets   \* bound: packets that arrive

ASSUME PacketsAssumption == MaxPackets \in Nat

VARIABLES
  slot,       \* the packet in each buffer, 0 before the first
  page0,      \* the packet last written through NULL
  card,       \* packets in the memory of the card
  arrived,    \* packets so far
  isr,        \* the PKT_RECV bit of the card's interrupt status
  handler,    \* "off", "poll" at the loop test, "drain" in receive_packet
  intr_cnt,   \* pcb.intr_cnt of the network server
  net,        \* where the network server is
  data,       \* the buffer it works on
  handled,    \* the packets it has handled, in order
  pass,       \* ghost: packets the handler stored in this pass, up to 2
  batched,    \* ghost: some pass stored more than one packet
  dropped     \* ghost: what was written through NULL so far, and 0

cardVars == <<card, arrived, isr>>
netVars == <<intr_cnt, net, data, handled>>
ghosts == <<pass, batched, dropped>>
vars == <<ringVars, slot, page0, cardVars, handler, netVars, ghosts>>

Packets == 1 .. MaxPackets

-----------------------------------------------------------------------------
(* The card. *)

Arrive ==
  /\ arrived < MaxPackets
  /\ arrived' = arrived + 1
  /\ card' = Append(card, arrived + 1)
  /\ isr' = TRUE
  /\ UNCHANGED <<ringVars, slot, page0, handler, netVars, ghosts>>

-----------------------------------------------------------------------------
(* ne2k_handler. *)

HandlerEnter ==
  /\ handler = "off" /\ isr
  /\ handler' = "poll"
  /\ UNCHANGED <<ringVars, slot, page0, cardVars, netVars, ghosts>>

\* The loop test reads the interrupt status; what it read is acknowledged.
HandlerPoll ==
  /\ handler = "poll"
  /\ handler' = IF isr THEN "drain" ELSE "off"
  /\ isr' = FALSE
  /\ pass' = 0
  /\ UNCHANGED <<ringVars, slot, page0, card, arrived, netVars, batched, dropped>>

\* One turn of receive_packet(): the packet goes to the next free buffer, or,
\* when there is none, to where NULL points.
StorePacket ==
  /\ handler = "drain" /\ card # <<>>
  /\ TakeFreeBuffer
  /\ IF FreeBuffer = NULL
     THEN /\ page0' = Head(card) /\ dropped' = dropped \cup {Head(card)}
          /\ UNCHANGED slot
     ELSE /\ slot' = [slot EXCEPT ![FreeBuffer] = Head(card)]
          /\ UNCHANGED <<page0, dropped>>
  /\ card' = Tail(card)
  /\ pass' = IF pass = 0 THEN 1 ELSE 2
  /\ batched' = (batched \/ pass # 0)
  /\ UNCHANGED <<arrived, isr, handler, netVars>>

\* A faulty variant, for the check that a property notices it: wake without counting.
SendIntr_WakeOnly ==
  /\ handler = "drain" /\ card = <<>>
  /\ handler' = "poll"
  /\ net' = IF net = "waiting" THEN "intr" ELSE net
  /\ UNCHANGED <<ringVars, slot, page0, cardVars, intr_cnt, data, handled, ghosts>>

\* receive_packet() is through: one interrupt message, whatever it stored.
SendIntr ==
  /\ handler = "drain" /\ card = <<>>
  /\ handler' = "poll"
  /\ intr_cnt' = (intr_cnt + 1) % 256
  /\ net' = IF net = "waiting" THEN "intr" ELSE net
  /\ UNCHANGED <<ringVars, slot, page0, cardVars, data, handled, ghosts>>

-----------------------------------------------------------------------------
(* The network server. *)

\* receive(ANY): a counted interrupt first, else wait.
NetReceive ==
  /\ handler = "off" /\ net = "loop"
  /\ \/ /\ intr_cnt # 0
        /\ intr_cnt' = intr_cnt - 1
        /\ net' = "intr"
     \/ /\ intr_cnt = 0
        /\ net' = "waiting"
        /\ UNCHANGED intr_cnt
  /\ UNCHANGED <<ringVars, slot, page0, cardVars, handler, data, handled, ghosts>>

\* A client's request arrives instead; it does not touch the ring.
NetRequest ==
  /\ handler = "off" /\ net = "waiting"
  /\ net' = "busy"
  /\ UNCHANGED <<ringVars, slot, page0, cardVars, handler, intr_cnt, data, handled, ghosts>>

NetReply ==
  /\ handler = "off" /\ net = "busy"
  /\ net' = "loop"
  /\ UNCHANGED <<ringVars, slot, page0, cardVars, handler, intr_cnt, data, handled, ghosts>>

\* INTR: the first used buffer, NULL when there is none.
NetTake ==
  /\ handler = "off" /\ net = "intr"
  /\ data' = UsedBuffer
  /\ TakeUsedBuffer
  /\ net' = "handle"
  /\ UNCHANGED <<slot, page0, cardVars, handler, intr_cnt, handled, ghosts>>

\* handle_packet() has read the buffer to its end; a null buffer is handled
\* like any other, with the packet that lies at address 0.
NetHandle ==
  /\ handler = "off" /\ net = "handle"
  /\ handled' = Append(handled, IF data = NULL THEN page0 ELSE slot[data])
  /\ data' = NULL
  /\ net' = "loop"
  /\ UNCHANGED <<ringVars, slot, page0, cardVars, handler, intr_cnt, ghosts>>

-----------------------------------------------------------------------------

Init ==
  /\ RingInit
  /\ slot = [i \in Slots |-> 0]
  /\ page0 = 0
  /\ card = <<>> /\ arrived = 0 /\ isr = FALSE
  /\ handler = "off"
  /\ intr_cnt = 0 /\ net = "loop" /\ data = NULL /\ handled = <<>>
  /\ pass = 0 /\ batched = FALSE /\ dropped = {0}

HandlerStep == HandlerEnter \/ HandlerPoll \/ StorePacket \/ SendIntr
NetStep == NetReceive \/ NetRequest \/ NetReply \/ NetTake \/ NetHandle

Next == Arrive \/ HandlerStep \/ NetStep

Spec == Init /\ [][Next]_vars

-----------------------------------------------------------------------------
(* Properties. *)

RxTypeOK ==
  /\ head \in Slots /\ tail \in Slots
  /\ slot \in [Slots -> 0 .. MaxPackets]
  /\ page0 \in 0 .. MaxPackets
  /\ card \in Seq(Packets) /\ arrived \in 0 .. MaxPackets /\ isr \in BOOLEAN
  /\ handler \in {"off", "poll", "drain"}
  /\ intr_cnt \in 0 .. 255
  /\ net \in {"loop", "waiting", "busy", "intr", "handle"}
  /\ data \in Slots \cup {NULL}
  /\ handled \in Seq(0 .. MaxPackets)
  /\ pass \in 0 .. 2 /\ batched \in BOOLEAN /\ dropped \subseteq 0 .. MaxPackets

\* No packet overwrites the buffer the server works on, although the server
\* gave it back by advancing tail before it started to read (net/main.cc 42
\* suspects otherwise): it is the one slot that stays unused.
HeldBufferKept ==
  [][net = "handle" /\ data # NULL => slot'[data] = slot[data]]_vars

\* A packet that found room in the ring is handled at most once and in the
\* order of arrival.  A look at an empty ring, and ipc.cc:72 makes those
\* ordinary, handles what lies at address 0 once more: only a packet the full
\* ring dropped there is handled out of turn or again, and no packet is both
\* dropped and in the ring.
PacketsInOrder ==
  /\ \A i, j \in DOMAIN handled :
       i < j /\ {handled[i], handled[j]} \cap dropped = {} => handled[i] < handled[j]
  /\ \A n \in 1 .. Used : slot[UsedSlot(n)] \notin dropped

\* One interrupt message for each pass is enough unless a pass stores several
\* packets: the packets in the ring never outnumber the messages still to be
\* handled, so the server does not wait while a packet is in the ring.
CreditsCoverPackets ==
  ~batched =>
    Used <= intr_cnt + (IF net = "intr" THEN 1 ELSE 0)
                     + (IF handler = "drain" /\ pass # 0 THEN 1 ELSE 0)

\* The packets between tail and head.
Queue == [n \in 1 .. Used |-> slot[UsedSlot(n)]]

\* The ring is a first-in first-out queue of LEN - 1 packets that loses a
\* packet only when it holds that many.
Abstract == INSTANCE LossyQueue WITH queue <- Queue, Capacity <- LEN - 1
RefinesLossyQueue == Abstract!QSpec

=============================================================================
