------------------------------ MODULE NetProofs ------------------------------
(***************************************************************************)
(* Proofs about the network server, for every set of ports, processes,     *)
(* hosts and connections, every ring and every ARP table.                  *)
(*                                                                         *)
(* NetInv has the types and what a socket says of the process that waits   *)
(* on it.  OpenStep sums up what a step can do to an established           *)
(* connection: nothing, open it, take bytes that were next, send some, or  *)
(* end it.  On that rest the invariants of the two directions: StreamInv   *)
(* (what was taken is what was sent), AckedInv and ServedInv (it was       *)
(* acknowledged on the wire), OutInv (what is sent has no gap).  ReadInv   *)
(* is about what a process reads, in every state of the connection, and    *)
(* HostsInv about the ARP table.                                           *)
(***************************************************************************)
EXTENDS Net, NatFacts, FiniteSetTheorems, SequenceTheorems, TLAPS

-----------------------------------------------------------------------------
(* The ARP table. *)

Macs == {mac_zero, OWN_MAC, GW_MAC} \cup {h[1] : h \in Hosts}
Ips == {ip_zero, OWN_IP, GW_IP} \cup {h[2] : h \in Hosts}
Table == [Items -> [mac : Macs, ip : Ips, ref : Nat]]

\* The first index of a set of items is one of them, -1 if there is none.
LEMMA FirstIs ==
  ASSUME NEW S, S \subseteq Items
  PROVE  /\ First(S) \in Items \cup {-1}
         /\ First(S) = -1 <=> S = {}
         /\ S # {} => First(S) \in S
  <1>1. S \subseteq Nat
    BY ArpAssumption DEF Items
  <1>2. S # {} => Min(S) \in S
    BY <1>1, MinIsLeast
  <1>3. CASE S = {}
    BY <1>3 DEF First
  <1>4. CASE S # {}
    <2>1. First(S) \in S
      BY <1>2, <1>4 DEF First
    <2>2. First(S) \in Nat /\ First(S) \in Items
      BY <1>1, <2>1
    <2>3. \A n \in Nat : n # -1
      OBVIOUS
    <2> QED BY <1>4, <2>1, <2>2, <2>3
  <1> QED BY <1>3, <1>4

\* A lookup returns an item or -1.
LEMMA LocateType ==
  ASSUME NEW t, NEW a
  PROVE  /\ locate_ip_addr(t, a) \in Items \cup {-1}
         /\ locate_mac_addr(t, a) \in Items \cup {-1}
  <1>1. {i \in Items : t[i].ip = a} \subseteq Items /\ {i \in Items : t[i].mac = a} \subseteq Items
    OBVIOUS
  <1> QED BY <1>1, FirstIs DEF locate_ip_addr, locate_mac_addr

\* Counting a use keeps the table.
LEMMA TouchType ==
  ASSUME NEW t \in Table, NEW slot \in Items \cup {-1}
  PROVE  Touch(t, slot) \in Table
  BY DEF Touch, Table

\* There is an item used least.
LEMMA LeastUsedType ==
  ASSUME NEW t \in Table
  PROVE  remove_less_use_item(t) \in Items
  <1> DEFINE R == {t[i].ref : i \in Items}
             L == {i \in Items : \A j \in Items : t[i].ref <= t[j].ref}
  <1>1. R \subseteq Nat
    BY DEF Table
  <1>2. 0 \in Items
    BY ArpAssumption DEF Items
  <1>3. R # {}
    BY <1>2
  <1>4. PICK x \in R : \A y \in R : x <= y
    <2> HIDE DEF R
    <2> QED BY <1>1, <1>3, LeastNat
  <1>5. L # {}
    BY <1>4
  <1>6. L \subseteq Nat
    BY ArpAssumption DEF Items
  <1> HIDE DEF L, R
  <1>7. Min(L) \in L
    BY <1>5, <1>6, MinIsLeast
  <1> QED BY <1>7 DEF L, remove_less_use_item

\* An answer that is taken keeps the table.
LEMMA AppendType ==
  ASSUME NEW t \in Table, NEW mac \in Macs, NEW ip \in Ips
  PROVE  append(t, mac, ip) \in Table
  <1> DEFINE slot == locate_mac_addr(t, mac)
             touched == Touch(t, slot)
             free == get_free_slot(t)
             at == IF free = -1 THEN remove_less_use_item(touched) ELSE free
  <1>1. touched \in Table
    BY LocateType, TouchType
  <1>2. free \in Items \cup {-1}
    <2>1. {i \in Items : t[i].mac = mac_zero} \subseteq Items
      OBVIOUS
    <2> QED BY <2>1, FirstIs DEF get_free_slot
  <1>3. at \in Items
    BY <1>1, <1>2, LeastUsedType
  <1>4. append(t, mac, ip) \in {touched, set_item(touched, at, mac, ip)}
    BY DEF append
  <1> HIDE DEF touched, at
  <1>5. set_item(touched, at, mac, ip) \in Table
    BY <1>1, <1>3 DEF set_item, Table
  <1> QED BY <1>1, <1>4, <1>5

\* So does sending.
LEMMA TransmitType ==
  ASSUME items \in Table, NEW s, NEW segments, IsFiniteSet(segments), Transmit(s, segments)
  PROVE  items' \in Table
  <1>1. Cardinality(segments) \in Nat
    BY FS_CardinalityType
  <1>2. locate_ip_addr(items, GW_IP) \in Items \cup {-1}
    BY LocateType
  <1> QED BY <1>1, <1>2 DEF Transmit, Table

-----------------------------------------------------------------------------
(* Segments from the remote hosts. *)

\* A run of len bytes of host c from byte i on, all of which it has sent.
SliceOf(c, m, d) ==
  \E i, len \in Nat \ {0} :
    /\ d = [k \in 1 .. len |-> i + k - 1]
    /\ i + len - 1 <= peer[c].sent
    /\ m.flags = {"ACK"} /\ m.seq = SeqNo(c, i)

\* A sequence number is below SEQ.
LEMMA SeqNoType ==
  ASSUME NEW c \in Conns, NEW byte \in Nat
  PROVE  SeqNo(c, byte) \in 0 .. SEQ - 1
  BY NetAssumption DEF SeqNo

\* What can be under way from a host: a segment without data, or with a run of
\* its bytes; one with a SYN alone has the number of the SYN.
LEMMA MessageFacts ==
  ASSUME NEW c \in Conns, NEW m \in OnTheWay(c), peer[c].sent \in Nat
  PROVE  /\ m.conn = c
         /\ m.seq \in 0 .. SEQ - 1
         /\ m.flags = {"SYN"} => m.seq = SeqNo(c, 0)
         /\ \E d \in Seq(Nat) : /\ m.data = Append(d, PAD)
                                /\ d = <<>> \/ SliceOf(c, m, d)
  <1> DEFINE end == peer[c].sent + 1
  <1>1. ASSUME NEW flags, NEW byte \in Nat, m = Incoming(c, flags, byte, <<>>),
               flags = {"SYN"} => byte = 0
        PROVE  /\ m.conn = c
               /\ m.seq \in 0 .. SEQ - 1
               /\ m.flags = {"SYN"} => m.seq = SeqNo(c, 0)
               /\ \E d \in Seq(Nat) : /\ m.data = Append(d, PAD)
                                      /\ d = <<>> \/ SliceOf(c, m, d)
    <2>1. /\ m.conn = c /\ m.seq = SeqNo(c, byte) /\ m.flags = flags
          /\ m.data = Append(<<>>, PAD)
      BY <1>1 DEF Incoming
    <2>2. <<>> \in Seq(Nat)
      OBVIOUS
    <2> QED BY <1>1, <2>1, <2>2, SeqNoType
  <1>2. CASE m \in {Incoming(c, {"SYN"}, 0, <<>>) : x \in {peer[c].state} \ {"idle"}}
    BY <1>1, <1>2
  <1>3. CASE \E i \in 1 .. end : m = Incoming(c, {"ACK"}, i, <<>>)
    <2>1. PICK i \in 1 .. end : m = Incoming(c, {"ACK"}, i, <<>>)
      BY <1>3
    <2>2. {"ACK"} # {"SYN"}
      OBVIOUS
    <2>3. i \in Nat
      BY <2>1
    <2> QED BY <1>1, <2>1, <2>2, <2>3
  <1>4. CASE \E d \in Slices(peer[c].sent) : /\ Last(d) <= peer[c].sent
                                             /\ m = Incoming(c, {"ACK"}, d[1], d)
    <2>1. PICK d \in Slices(peer[c].sent) : /\ Last(d) <= peer[c].sent
                                            /\ m = Incoming(c, {"ACK"}, d[1], d)
      BY <1>4
    <2>2. PICK i \in 1 .. peer[c].sent, len \in 1 .. MSS : d = [k \in 1 .. len |-> i + k - 1]
      BY <2>1 DEF Slices
    <2>3. /\ i \in Nat \ {0} /\ len \in Nat \ {0} /\ d \in Seq(Nat) /\ Len(d) = len
          /\ d[1] = i /\ d[len] = i + len - 1
      BY <2>2, NetAssumption
    <2>4. /\ m.conn = c /\ m.flags = {"ACK"} /\ m.seq = SeqNo(c, i) /\ m.data = Append(d, PAD)
      BY <2>1, <2>3 DEF Incoming
    <2>5. i + len - 1 <= peer[c].sent
      BY <2>1, <2>3 DEF Last
    <2>6. SliceOf(c, m, d)
      BY <2>2, <2>3, <2>4, <2>5 DEF SliceOf
    <2>7. m.seq \in 0 .. SEQ - 1
      BY <2>3, <2>4, SeqNoType
    <2>8. m.flags # {"SYN"}
      BY <2>4
    <2> QED BY <2>3, <2>4, <2>6, <2>7, <2>8
  <1>5. CASE m \in {Incoming(c, {"FIN", "ACK"}, end, <<>>), Incoming(c, {}, end, <<>>),
                    Incoming(c, {"ACK"}, end, <<>>)}
    <2>1. end \in Nat /\ {"FIN", "ACK"} # {"SYN"} /\ {"ACK"} # {"SYN"} /\ {} # {"SYN"}
      OBVIOUS
    <2> QED BY <1>1, <1>5, <2>1
  <1> QED BY <1>2, <1>3, <1>4, <1>5 DEF OnTheWay

\* The bytes resolve_packet takes of a segment are the first ones of its run:
\* the filling does not count, so they are never more than there are.
LEMMA PieceFacts ==
  ASSUME NEW d \in Seq(Nat), NEW data, data = Append(d, PAD)
  PROVE  /\ RealLen(data) \in 0 .. Len(d)
         /\ SubSeq(data, 1, RealLen(data)) \in Seq(Nat)
         /\ Len(SubSeq(data, 1, RealLen(data))) = RealLen(data)
         /\ \A k \in 1 .. RealLen(data) : SubSeq(data, 1, RealLen(data))[k] = d[k]
  <1> DEFINE C == {i \in DOMAIN data : data[i] \notin ZEROS \cup {PAD}}
             n == Len(d)
  <1>1. /\ n \in Nat /\ data \in Seq(Nat) /\ Len(data) = n + 1 /\ DOMAIN data = 1 .. n + 1
        /\ \A k \in 1 .. n : data[k] = d[k]
        /\ data[n + 1] = PAD
    <2>1. PAD \in Nat
      BY DEF PAD
    <2> QED BY <2>1, AppendProperties
  <1>2. C \in SUBSET (1 .. n)
    BY <1>1
  <1>3. IsFiniteSet(1 .. n) /\ Cardinality(1 .. n) = n
    <2>1. n \in Int /\ 1 \in Int
      BY <1>1
    <2> HIDE DEF n
    <2>2. IsFiniteSet(1 .. n) /\ Cardinality(1 .. n) = IF 1 > n THEN 0 ELSE n - 1 + 1
      BY <2>1, FS_Interval, Zenon
    <2> QED BY <1>1, <2>2
  <1> HIDE DEF C
  <1>4. Cardinality(C) \in Nat /\ Cardinality(C) <= n
    BY <1>2, <1>3, FS_Subset, FS_CardinalityType
  <1>5. RealLen(data) = Cardinality(C)
    BY DEF RealLen, C
  <1>6. RealLen(data) \in 0 .. n
    BY <1>1, <1>4, <1>5
  <1> DEFINE r == RealLen(data)
  <1> HIDE DEF r, n
  <1>7. r \in 0 .. n /\ n \in Nat
    BY <1>1, <1>6 DEF r
  <1>8. SubSeq(data, 1, r) \in Seq(Nat)
    BY <1>1, <1>7
  <1>9. \A k \in 1 .. r : SubSeq(data, 1, r)[k] = d[k]
    BY <1>1, <1>7
  <1>10. Len(SubSeq(data, 1, r)) = r
    BY <1>1, <1>7
  <1> QED BY <1>7, <1>8, <1>9, <1>10 DEF r, n

-----------------------------------------------------------------------------
(* Sockets and the processes bound to them. *)

Waiting == {"LISTENING", "SYN_RECEIVED"}

\* A socket of a port: its remote host addresses that port.
Good(s, port) ==
  /\ s \in TcpSocket
  /\ Len(s.recv_buffer) < LEN
  /\ (s.dst = NIL) <=> (s.state = "LISTENING")
  /\ s.dst # NIL => PortOf[s.dst] = port

SocketsOK ==
  /\ sockets \in [Ports -> TcpSocket \cup {NIL}]
  /\ \A port \in Ports : sockets[port] # NIL => Good(sockets[port], port)

\* The process a socket is bound to waits in accept or has the connection.
BoundWaits ==
  \A port \in Ports, p \in Procs :
    sockets[port] # NIL /\ sockets[port].bind_proc = p =>
      /\ Uses[p] = port
      /\ proc[p] = IF sockets[port].state \in Waiting THEN "accept" ELSE "connected"

\* A process that has a connection is bound to the socket of its port.
ConnectedBound ==
  \A p \in Procs : proc[p] = "connected" =>
    sockets[Uses[p]] # NIL /\ sockets[Uses[p]].bind_proc = p

PeersOK ==
  peer \in [Conns -> [state : {"idle", "syn", "open", "fin", "reset"}, sent : Nat]]

ProcStates == {"idle", "listen", "accept", "connected"}

NetInv ==
  /\ items \in Table
  /\ ip_addr \in {OWN_IP} \cup NewIPs
  /\ SocketsOK
  /\ proc \in [Procs -> ProcStates]
  /\ trace \in [Ports -> Trace]
  /\ PeersOK
  /\ BoundWaits
  /\ ConnectedBound

\* The socket of a port is replaced.
LEMMA SetSocket ==
  ASSUME SocketsOK, NEW port \in Ports, NEW s, s = NIL \/ Good(s, port),
         sockets' = [sockets EXCEPT ![port] = s]
  PROVE  SocketsOK' /\ sockets'[port] = s /\ \A q \in Ports \ {port} : sockets'[q] = sockets[q]
  BY DEF SocketsOK, Good

\* A process with a connection has a socket, past the handshake.
LEMMA ConnectedSocket ==
  ASSUME NetInv, NEW p \in Procs, proc[p] = "connected"
  PROVE  /\ Uses[p] \in Ports
         /\ sockets[Uses[p]] # NIL /\ Good(sockets[Uses[p]], Uses[p])
         /\ sockets[Uses[p]].bind_proc = p
         /\ sockets[Uses[p]].state \notin Waiting
  <1>1. Uses[p] \in Ports
    BY NetAssumption
  <1>2. sockets[Uses[p]] # NIL /\ sockets[Uses[p]].bind_proc = p
    BY DEF NetInv, ConnectedBound
  <1>3. Good(sockets[Uses[p]], Uses[p])
    BY <1>1, <1>2 DEF NetInv, SocketsOK
  <1>4. proc[p] = IF sockets[Uses[p]].state \in Waiting THEN "accept" ELSE "connected"
    BY <1>1, <1>2 DEF NetInv, BoundWaits
  <1> QED BY <1>1, <1>2, <1>3, <1>4

\* A step that replaces the socket of a port by one with the same process in
\* the same phase, and moves no process, keeps the processes bound.
LEMMA SamePhase ==
  ASSUME NetInv, NEW port \in Ports, NEW s, sockets[port] # NIL, Good(s, port),
         sockets' = [sockets EXCEPT ![port] = s], proc' = proc,
         s.bind_proc = sockets[port].bind_proc,
         (s.state \in Waiting) <=> (sockets[port].state \in Waiting)
  PROVE  SocketsOK' /\ BoundWaits' /\ ConnectedBound'
  <1>1. SocketsOK' /\ sockets'[port] = s /\ \A q \in Ports \ {port} : sockets'[q] = sockets[q]
    BY SetSocket DEF NetInv
  <1>2. BoundWaits'
    BY <1>1 DEF NetInv, BoundWaits
  <1>3. ConnectedBound'
    BY <1>1, NilAssumption, NetAssumption DEF NetInv, ConnectedBound, Good
  <1> QED BY <1>1, <1>2, <1>3

\* The requests of a process keep the invariant.
LEMMA RequestKeeps ==
  ASSUME NetInv, NEW p \in Procs
  PROVE  /\ Listen(p, Uses[p]) => NetInv'
         /\ Accept(p, Uses[p]) => NetInv'
         /\ Close(p, Uses[p]) => NetInv'
         /\ \A len \in Lengths : Recv(p, Uses[p], len) => NetInv'
         /\ \A len \in Lengths : Send(p, Uses[p], len) => NetInv'
  <1> DEFINE port == Uses[p]
             s == sockets[port]
  <1>0. port \in Ports /\ trace[port] \in Trace /\ NoTrace \in Trace
    BY NetAssumption DEF NetInv, NoTrace, Trace
  <1> HIDE DEF port
  <1>1. ASSUME Listen(p, port) PROVE NetInv'
    <2>1. CASE sockets[port] # NIL
      <3>1. BoundWaits' /\ ConnectedBound' /\ SocketsOK'
        BY <1>1, <2>1 DEF Listen, NetInv, BoundWaits, ConnectedBound, SocketsOK, Waiting
      <3> QED BY <1>1, <2>1, <3>1 DEF Listen, NetInv, arpVars, ProcStates, PeersOK
    <2>2. CASE sockets[port] = NIL
      <3> DEFINE new == [state |-> "LISTENING", src_ip |-> ip_addr, dst |-> NIL,
                         seq_num |-> 0, ack_num |-> 0, recv_buffer |-> <<>>, bind_proc |-> NIL]
      <3>1. Good(new, port)
        BY NetAssumption DEF NetInv, Good, TcpSocket, States
      <3>2. /\ sockets' = [sockets EXCEPT ![port] = new] /\ proc' = [proc EXCEPT ![p] = "listen"]
            /\ proc[p] = "idle"
        BY <1>1, <2>2 DEF Listen
      <3>3. new.bind_proc = NIL
        OBVIOUS
      <3> HIDE DEF new
      <3>4. SocketsOK' /\ sockets'[port] = new /\ \A q \in Ports \ {port} : sockets'[q] = sockets[q]
        BY <1>0, <3>1, <3>2, SetSocket DEF NetInv
      <3>5. BoundWaits'
        BY <3>2, <3>3, <3>4, NilAssumption DEF NetInv, BoundWaits, Waiting
      <3>6. ConnectedBound'
        BY <2>2, <3>2, <3>4, NetAssumption DEF NetInv, ConnectedBound
      <3>7. trace' \in [Ports -> Trace]
        BY <1>0, <1>1, <2>2 DEF Listen, NetInv
      <3> QED BY <1>1, <3>2, <3>4, <3>5, <3>6, <3>7 DEF Listen, NetInv, arpVars, ProcStates, PeersOK
    <2> QED BY <2>1, <2>2
  <1>2. ASSUME Accept(p, port) PROVE NetInv'
    <2>0. proc[p] = "listen" /\ proc' = [proc EXCEPT ![p] = "accept"]
      BY <1>2 DEF Accept
    <2>1. CASE sockets[port] # NIL /\ s.state = "LISTENING"
      <3> DEFINE new == [s EXCEPT !.bind_proc = p]
      <3>0. Good(s, port)
        BY <1>0, <2>1 DEF NetInv, SocketsOK
      <3>1. Good(new, port) /\ new.bind_proc = p /\ new.state = "LISTENING"
        BY <2>1, <3>0 DEF Good, TcpSocket
      <3>2. sockets' = [sockets EXCEPT ![port] = new]
        BY <1>2, <2>1 DEF Accept
      <3> HIDE DEF new
      <3>4. SocketsOK' /\ sockets'[port] = new /\ \A q \in Ports \ {port} : sockets'[q] = sockets[q]
        BY <1>0, <3>1, <3>2, SetSocket DEF NetInv
      <3>5. BoundWaits'
        BY <1>0, <2>0, <3>1, <3>4 DEF NetInv, BoundWaits, Waiting, port
      <3>6. ConnectedBound'
        <4> SUFFICES ASSUME NEW q \in Procs, proc'[q] = "connected"
                     PROVE  sockets'[Uses[q]] # NIL /\ sockets'[Uses[q]].bind_proc = q
          BY DEF ConnectedBound
        <4>1. proc[q] = "connected" /\ q # p
          BY <2>0 DEF NetInv
        <4>2. Uses[q] \in Ports /\ Uses[q] # port
          BY <2>1, <4>1, ConnectedSocket DEF Waiting
        <4> QED BY <3>4, <4>1, <4>2 DEF NetInv, ConnectedBound
      <3> QED BY <1>2, <2>0, <3>4, <3>5, <3>6 DEF Accept, NetInv, arpVars, ProcStates, PeersOK
    <2>2. CASE ~(sockets[port] # NIL /\ s.state = "LISTENING")
      <3>1. sockets' = sockets
        BY <1>2, <2>2 DEF Accept
      <3>2. BoundWaits' /\ ConnectedBound' /\ SocketsOK'
        BY <2>0, <3>1 DEF NetInv, BoundWaits, ConnectedBound, SocketsOK, Waiting
      <3> QED BY <1>2, <2>0, <3>1, <3>2 DEF Accept, NetInv, arpVars, ProcStates, PeersOK
    <2> QED BY <2>1, <2>2
  <1>3. ASSUME Close(p, port) PROVE NetInv'
    <2>1. proc[p] = "connected" /\ proc' = [proc EXCEPT ![p] = "idle"]
          /\ sockets' = [sockets EXCEPT ![port] = NIL]
      BY <1>3 DEF Close
    <2>2. s # NIL /\ s.bind_proc = p /\ Uses[p] = port
      BY <2>1, ConnectedSocket DEF port
    <2>4. SocketsOK' /\ sockets'[port] = NIL /\ \A q \in Ports \ {port} : sockets'[q] = sockets[q]
      BY <1>0, <2>1, SetSocket DEF NetInv
    <2>5. BoundWaits'
      BY <1>0, <2>1, <2>2, <2>4 DEF NetInv, BoundWaits
    <2>6. ConnectedBound'
      BY <1>0, <2>1, <2>2, <2>4, NetAssumption DEF NetInv, ConnectedBound
    <2>7. items' \in Table
      BY <1>3, TransmitType, FS_Singleton DEF Close, NetInv
    <2>8. trace' \in [Ports -> Trace] /\ proc' \in [Procs -> ProcStates]
      BY <1>0, <1>3, <2>1 DEF Close, NetInv, ProcStates
    <2> QED BY <1>3, <2>4, <2>5, <2>6, <2>7, <2>8 DEF Close, NetInv, PeersOK
  <1>4. ASSUME NEW len \in Lengths, Recv(p, port, len) PROVE NetInv'
    <2> DEFINE new == [s EXCEPT !.recv_buffer = AfterRecv(@)]
               piece == Head(s.recv_buffer)
               some == SubSeq(piece, 1, IF len > Len(piece) THEN Len(piece) ELSE len)
    <2>1. proc[p] = "connected" /\ s.recv_buffer # <<>> /\ proc' = proc
          /\ sockets' = [sockets EXCEPT ![port] = new]
      BY <1>4 DEF Recv
    <2>2. s # NIL /\ Good(s, port)
      BY <2>1, ConnectedSocket DEF port
    <2>3. Good(new, port) /\ new.bind_proc = s.bind_proc /\ new.state = s.state
      <3> DEFINE ring == s.recv_buffer
      <3>1. ring \in Seq(Seq(Nat)) /\ ring # <<>> /\ Len(ring) < LEN /\ LEN \in Nat
        BY <2>1, <2>2, NetAssumption DEF Good, TcpSocket
      <3> HIDE DEF ring
      <3>2. Tail(ring) \in Seq(Seq(Nat)) /\ Len(Tail(ring)) < LEN
        BY <3>1
      <3> QED BY <2>2, <3>2 DEF Good, TcpSocket, AfterRecv, ring
    <2>4. piece \in Seq(Nat) /\ len \in Nat
      BY <2>1, <2>2, NetAssumption DEF Good, TcpSocket
    <2>5. some \in Seq(Nat)
      <3> HIDE DEF piece
      <3> QED BY <2>4
    <2>6. trace' \in [Ports -> Trace]
      <3>1. trace' = [trace EXCEPT ![port].got = @ \o some, ![port].lossy = @ \/ len < Len(piece)]
        BY <1>4 DEF Recv, Cut
      <3> HIDE DEF some, piece
      <3>2. trace[port].got \o some \in Seq(Nat) /\ (trace[port].lossy \/ len < Len(piece)) \in BOOLEAN
        BY <1>0, <2>5 DEF Trace
      <3> QED BY <1>0, <3>1, <3>2 DEF Trace, NetInv
    <2> HIDE DEF new, some, piece
    <2>7. SocketsOK' /\ BoundWaits' /\ ConnectedBound'
      BY <1>0, <2>1, <2>2, <2>3, SamePhase
    <2> QED BY <1>4, <2>1, <2>6, <2>7 DEF Recv, NetInv, arpVars, PeersOK
  <1>5. ASSUME NEW len \in Lengths, Send(p, port, len) PROVE NetInv'
    <2> DEFINE new == AfterSend(s, len)
    <2>1. proc[p] = "connected" /\ proc' = proc /\ sockets' = [sockets EXCEPT ![port] = new]
      BY <1>5 DEF Send
    <2>2. s # NIL /\ Good(s, port)
      BY <2>1, ConnectedSocket DEF port
    <2>3. Good(new, port) /\ new.bind_proc = s.bind_proc /\ new.state = s.state
      <3>1. (s.seq_num + len) % SEQ \in 0 .. SEQ - 1
        BY <2>2, NetAssumption, SMTT(30) DEF Good, TcpSocket
      <3> QED BY <2>2, <3>1 DEF Good, TcpSocket, AfterSend
    <2> HIDE DEF new
    <2>4. SocketsOK' /\ BoundWaits' /\ ConnectedBound'
      BY <1>0, <2>1, <2>2, <2>3, SamePhase
    <2>5. items' \in Table
      BY <1>5, TransmitType, FS_Singleton DEF Send, NetInv
    <2> QED BY <1>5, <2>1, <2>4, <2>5 DEF Send, NetInv, PeersOK
  <1> QED BY <1>1, <1>2, <1>3, <1>4, <1>5 DEF port

\* What a segment changes in the socket it reaches, and in its trace.
LEMMA DeliverKeeps ==
  ASSUME NetInv, NEW c \in Conns, NEW m \in OnTheWay(c), Deliver(m)
  PROVE  NetInv'
  <1> DEFINE port == PortOf[m.conn]
             s == sockets[port]
  <1>0. m.conn = c /\ port = PortOf[c] /\ port \in Ports /\ trace[port] \in Trace
        /\ m.seq \in 0 .. SEQ - 1 /\ SEQ \in Nat \ {0, 1} /\ c # NIL
    BY MessageFacts, NetAssumption, NilAssumption DEF NetInv, PeersOK
  <1>01. s # NIL /\ Good(s, port)
    BY <1>0 DEF Deliver, NetInv, SocketsOK
  <1> HIDE DEF port
  <1>1. CASE TakeSyn(port, m)
    <2> DEFINE t == [s EXCEPT !.state = "SYN_RECEIVED", !.dst = m.conn,
                              !.ack_num = (m.seq + 1) % SEQ, !.seq_num = 0]
               new == [t EXCEPT !.seq_num = 1]
    <2>1. s.state = "LISTENING" /\ proc' = proc /\ sockets' = [sockets EXCEPT ![port] = new]
      BY <1>1 DEF TakeSyn
    <2>2. Good(new, port) /\ new.bind_proc = s.bind_proc /\ new.state = "SYN_RECEIVED"
      <3>1. (m.seq + 1) % SEQ \in 0 .. SEQ - 1 /\ 1 \in 0 .. SEQ - 1
        BY <1>0
      <3> QED BY <1>0, <1>01, <3>1 DEF Good, TcpSocket, States
    <2>3. trace' \in [Ports -> Trace]
      <3> DEFINE b == trace[port].stray \/ m.conn \in served
      <3>1. b \in BOOLEAN /\ <<>> \in Seq(Nat)
        OBVIOUS
      <3>2. trace' = [trace EXCEPT ![port].stray = b, ![port].taken = <<>>]
        BY <1>1 DEF TakeSyn
      <3> HIDE DEF b
      <3> QED BY <1>0, <3>1, <3>2 DEF NetInv, Trace
    <2>4. items' \in Table
      BY <1>1, TransmitType, FS_Singleton DEF TakeSyn, NetInv
    <2> HIDE DEF new
    <2>5. SocketsOK' /\ BoundWaits' /\ ConnectedBound'
      BY <1>0, <1>01, <2>1, <2>2, SamePhase DEF Waiting
    <2> QED BY <1>1, <2>1, <2>3, <2>4, <2>5 DEF TakeSyn, NetInv, PeersOK
  <1>2. CASE TakeHandshakeAck(port, m)
    <2> DEFINE new == [s EXCEPT !.state = "ESTABLISHED"]
    <2>1. /\ s.state = "SYN_RECEIVED" /\ sockets' = [sockets EXCEPT ![port] = new]
          /\ Answer(s.bind_proc)
      BY <1>2 DEF TakeHandshakeAck
    <2>2. Good(new, port) /\ new.bind_proc = s.bind_proc /\ new.state = "ESTABLISHED"
      BY <1>01, <2>1 DEF Good, TcpSocket, States
    <2> HIDE DEF new
    <2>3. SocketsOK' /\ sockets'[port] = new /\ \A q \in Ports \ {port} : sockets'[q] = sockets[q]
      BY <1>0, <2>1, <2>2, SetSocket DEF NetInv
    <2>4. /\ BoundWaits' /\ ConnectedBound' /\ proc' \in [Procs -> ProcStates]
      <3>1. CASE s.bind_proc = NIL
        <4>1. proc' = proc
          BY <2>1, <3>1 DEF Answer
        <4>2. BoundWaits'
          BY <2>2, <2>3, <3>1, <4>1, NilAssumption DEF NetInv, BoundWaits
        <4>3. ConnectedBound'
          BY <2>2, <2>3, <3>1, <4>1, NilAssumption, NetAssumption DEF NetInv, ConnectedBound
        <4> QED BY <4>1, <4>2, <4>3 DEF NetInv
      <3>2. CASE s.bind_proc # NIL
        <4> DEFINE p == s.bind_proc
        <4>1. p \in Procs /\ Uses[p] = port /\ proc[p] = "accept"
          BY <1>0, <1>01, <2>1, <3>2 DEF Good, TcpSocket, NetInv, BoundWaits, Waiting
        <4>2. proc' = [proc EXCEPT ![p] = "connected"]
          BY <2>1, <3>2 DEF Answer
        <4> HIDE DEF p
        <4>3. BoundWaits'
          <5> SUFFICES ASSUME NEW port2 \in Ports, NEW p2 \in Procs,
                              sockets'[port2] # NIL, sockets'[port2].bind_proc = p2
                       PROVE  /\ Uses[p2] = port2
                              /\ proc'[p2] = IF sockets'[port2].state \in Waiting
                                             THEN "accept" ELSE "connected"
            BY DEF BoundWaits
          <5>1. CASE port2 = port
            BY <2>2, <2>3, <4>1, <4>2, <5>1 DEF p, NetInv, Waiting
          <5>2. CASE port2 # port
            BY <2>3, <4>1, <4>2, <5>2 DEF NetInv, BoundWaits
          <5> QED BY <5>1, <5>2
        <4>4. ConnectedBound'
          <5> SUFFICES ASSUME NEW p2 \in Procs, proc'[p2] = "connected"
                       PROVE  sockets'[Uses[p2]] # NIL /\ sockets'[Uses[p2]].bind_proc = p2
            BY DEF ConnectedBound
          <5>1. CASE p2 = p
            <6>1. new # NIL
              BY <2>2, NilAssumption DEF Good
            <6> QED BY <2>2, <2>3, <4>1, <5>1, <6>1 DEF p
          <5>2. CASE p2 # p
            <6>1. proc[p2] = "connected"
              BY <4>1, <4>2, <5>2 DEF NetInv
            <6>2. Uses[p2] \in Ports /\ sockets[Uses[p2]] # NIL /\ sockets[Uses[p2]].bind_proc = p2
              BY <6>1, ConnectedSocket
            <6>3. Uses[p2] # port
              BY <5>2, <6>2 DEF p
            <6> QED BY <2>3, <6>2, <6>3
          <5> QED BY <5>1, <5>2
        <4> QED BY <4>1, <4>2, <4>3, <4>4 DEF NetInv, ProcStates
      <3> QED BY <3>1, <3>2
    <2> QED BY <1>2, <2>3, <2>4 DEF TakeHandshakeAck, NetInv, arpVars, PeersOK
  <1>3. CASE TakeFin(port, m)
    <2> DEFINE t == [s EXCEPT !.state = "CLOSE_WAIT", !.ack_num = (@ + 1) % SEQ]
               u == [s EXCEPT !.state = "CLOSED"]
    <2>1. (s.ack_num + 1) % SEQ \in 0 .. SEQ - 1
      BY <1>0, <1>01 DEF Good, TcpSocket
    <2>2. s.state \in {"ESTABLISHED", "CLOSE_WAIT"}
      BY <1>3 DEF TakeFin
    <2>3. /\ Good(t, port) /\ t.bind_proc = s.bind_proc /\ t.state \notin Waiting
          /\ Good(u, port) /\ u.bind_proc = s.bind_proc /\ u.state \notin Waiting
      BY <1>01, <2>1, <2>2 DEF Good, TcpSocket, States, Waiting
    <2>4. /\ sockets' \in {[sockets EXCEPT ![port] = t], [sockets EXCEPT ![port] = u]}
          /\ proc' = proc
      BY <1>3 DEF TakeFin
    <2>5. items' \in Table
      <3>1. IsFiniteSet({Segment(t, {"ACK"}, 0), Segment(t, {"FIN", "ACK"}, 0)})
        <4>1. ASSUME NEW a, NEW b PROVE IsFiniteSet({a, b})
          <5>1. {a, b} = {a} \cup {b}
            OBVIOUS
          <5>2. IsFiniteSet({a})
            BY FS_Singleton, Zenon
          <5> QED BY <5>1, <5>2, FS_AddElement, Zenon
        <4> QED BY <4>1, Zenon
      <3> QED BY <1>3, <3>1, TransmitType DEF TakeFin, NetInv
    <2> HIDE DEF t, u
    <2>6. SocketsOK' /\ BoundWaits' /\ ConnectedBound'
      BY <1>0, <1>01, <2>2, <2>3, <2>4, SamePhase DEF Waiting
    <2> QED BY <1>3, <2>4, <2>5, <2>6 DEF TakeFin, NetInv, PeersOK
  <1>4. CASE TakeLastAck(port, m)
    <2> DEFINE u == [s EXCEPT !.state = "CLOSED"]
    <2>1. /\ s.state = "CLOSE_WAIT" /\ proc' = proc
          /\ sockets' = [sockets EXCEPT ![port] = u]
      BY <1>4 DEF TakeLastAck
    <2>2. Good(u, port) /\ u.bind_proc = s.bind_proc /\ u.state = "CLOSED"
      BY <1>01, <2>1 DEF Good, TcpSocket, States
    <2> HIDE DEF u
    <2>3. SocketsOK' /\ BoundWaits' /\ ConnectedBound'
      BY <1>0, <1>01, <2>1, <2>2, SamePhase DEF Waiting
    <2> QED BY <1>4, <2>1, <2>3 DEF TakeLastAck, NetInv, arpVars, PeersOK
  <1>5. CASE TakeData(port, m)
    <2> DEFINE piece == SubSeq(m.data, 1, RealLen(m.data))
               t == [s EXCEPT !.recv_buffer = Store(@, piece), !.ack_num = (@ + Len(piece)) % SEQ]
    <2>1. PICK d \in Seq(Nat) : m.data = Append(d, PAD)
      BY MessageFacts DEF NetInv, PeersOK
    <2>2. piece \in Seq(Nat)
      BY <2>1, PieceFacts
    <2>3. /\ proc' = proc /\ sockets' = [sockets EXCEPT ![port] = t]
          /\ trace' = [trace EXCEPT
               ![port].taken = @ \o piece,
               ![port].lossy = @ \/ (Len(s.recv_buffer) = LEN - 1 /\ piece # <<>>),
               ![port].stray = @ \/ s.state = "LISTENING"]
      BY <1>5 DEF TakeData
    <2>4. items' \in Table
      BY <1>5, TransmitType, FS_Singleton DEF TakeData, NetInv
    <2> HIDE DEF piece
    <2>5. Good(t, port) /\ t.bind_proc = s.bind_proc /\ t.state = s.state
      <3>1. (s.ack_num + Len(piece)) % SEQ \in 0 .. SEQ - 1
        BY <1>0, <1>01, <2>2, SMTT(30) DEF Good, TcpSocket
      <3>2. Store(s.recv_buffer, piece) \in Seq(Seq(Nat)) /\ Len(Store(s.recv_buffer, piece)) < LEN
        BY <1>01, <2>2, NetAssumption DEF Good, TcpSocket, Store
      <3> QED BY <1>01, <3>1, <3>2 DEF Good, TcpSocket
    <2>6. trace' \in [Ports -> Trace]
      <3>1. trace[port].taken \o piece \in Seq(Nat)
        BY <1>0, <2>2 DEF Trace
      <3> QED BY <1>0, <2>3, <3>1 DEF Trace, NetInv
    <2> HIDE DEF t
    <2>7. SocketsOK' /\ BoundWaits' /\ ConnectedBound'
      BY <1>0, <1>01, <2>3, <2>5, SamePhase
    <2> QED BY <1>5, <2>3, <2>4, <2>6, <2>7 DEF TakeData, NetInv, PeersOK
  <1> QED BY <1>1, <1>2, <1>3, <1>4, <1>5 DEF Deliver, port

\* The steps that touch neither sockets nor processes: the interface, ARP, the
\* remote hosts, and a recv that finds nothing.
OtherStep ==
  \/ \E p \in Procs : \E len \in Lengths : RecvNull(p, Uses[p], len)
  \/ \E new \in NewIPs : ConfNet(new)
  \/ Ping
  \/ \E host \in Hosts \cup {<<GW_MAC, GW_IP>>} : ArpReply(host[1], host[2])
  \/ \E target \in {OWN_IP, GW_IP} : ArpRequest(target)
  \/ RemoteHost

\* Every step is one of the requests, a delivery, or one of the others.
LEMMA StepCases ==
  ASSUME Next
  PROVE  \/ \E p \in Procs :
              \/ Listen(p, Uses[p]) \/ Accept(p, Uses[p]) \/ Close(p, Uses[p])
              \/ \E len \in Lengths : Recv(p, Uses[p], len) \/ Send(p, Uses[p], len)
         \/ \E c \in Conns : \E m \in OnTheWay(c) : Deliver(m)
         \/ OtherStep
  BY DEF Next, Request, Packet, OtherStep

\* They leave these alone, and only move the remote hosts on.
LEMMA OtherLeaves ==
  ASSUME PeersOK, OtherStep
  PROVE  /\ UNCHANGED <<sockets, proc, trace, toPeer, served, deaf>>
         /\ PeersOK'
         /\ \A c \in Conns : peer'[c].sent >= peer[c].sent
  <1>1. ASSUME NEW c \in Conns, PeerSyn(c) \/ PeerOpen(c) \/ PeerData(c) \/ PeerEnd(c)
        PROVE  /\ UNCHANGED <<sockets, proc, trace, toPeer, served, deaf>>
               /\ PeersOK'
               /\ \A d \in Conns : peer'[d].sent >= peer[d].sent
    BY <1>1 DEF PeerSyn, PeerOpen, PeerData, PeerEnd, PeersOK, socketVars
  <1>2. CASE RemoteHost
    BY <1>1, <1>2 DEF RemoteHost
  <1>3. CASE ~RemoteHost
    <2>1. UNCHANGED <<sockets, proc, trace, toPeer, served, deaf, peer>>
      BY <1>3 DEF OtherStep, RecvNull, ConfNet, Ping, ArpReply, ArpRequest, socketVars
    <2> QED BY <2>1 DEF PeersOK
  <1> QED BY <1>2, <1>3

\* The other steps keep the invariant.
LEMMA OtherKeeps ==
  ASSUME NetInv, OtherStep
  PROVE  NetInv'
  <1>1. UNCHANGED <<sockets, proc, trace>> /\ PeersOK'
    BY OtherLeaves DEF NetInv
  <1>2. SocketsOK' /\ BoundWaits' /\ ConnectedBound'
    BY <1>1 DEF NetInv, SocketsOK, BoundWaits, ConnectedBound
  <1>3. items' \in Table /\ ip_addr' \in {OWN_IP} \cup NewIPs
    <2>1. ASSUME NEW new \in NewIPs, ConfNet(new)
          PROVE  items' \in Table /\ ip_addr' \in {OWN_IP} \cup NewIPs
      BY <2>1 DEF ConfNet, NetInv
    <2>2. CASE Ping
      BY <2>2, TouchType, LocateType DEF Ping, NetInv
    <2>3. ASSUME NEW host \in Hosts \cup {<<GW_MAC, GW_IP>>}, ArpReply(host[1], host[2])
          PROVE  items' \in Table /\ ip_addr' \in {OWN_IP} \cup NewIPs
      <3>1. host[1] \in Macs /\ host[2] \in Ips
        BY DEF Macs, Ips
      <3> QED BY <2>3, <3>1, AppendType DEF ArpReply, NetInv
    <2>4. ASSUME NEW target, ArpRequest(target)
          PROVE  items' \in Table /\ ip_addr' \in {OWN_IP} \cup NewIPs
      BY <2>4, TouchType, LocateType DEF ArpRequest, NetInv
    <2>5. CASE RemoteHost
      BY <2>5 DEF RemoteHost, PeerSyn, PeerOpen, PeerData, PeerEnd, arpVars, NetInv
    <2>6. ASSUME NEW p, NEW len, RecvNull(p, Uses[p], len)
          PROVE  items' \in Table /\ ip_addr' \in {OWN_IP} \cup NewIPs
      BY <2>6 DEF RecvNull, arpVars, NetInv
    <2> QED BY <2>1, <2>2, <2>3, <2>4, <2>5, <2>6 DEF OtherStep
  <1> QED BY <1>1, <1>2, <1>3 DEF NetInv

\* No socket and no process bound at first.
LEMMA NetInvInit == Init => NetInv
  <1> SUFFICES ASSUME Init PROVE NetInv
    OBVIOUS
  <1>1. items \in Table
    BY ArpAssumption DEF Init, Table, set_item, EmptyTable, Items, Macs, Ips
  <1>2. trace \in [Ports -> Trace]
    BY DEF Init, Trace, NoTrace
  <1>3. SocketsOK /\ BoundWaits /\ ConnectedBound
    BY NetAssumption DEF Init, SocketsOK, BoundWaits, ConnectedBound
  <1> QED BY <1>1, <1>2, <1>3 DEF Init, NetInv, ProcStates, PeersOK

\* Every step keeps the invariant.
LEMMA NetInvNext == NetInv /\ [Next]_netVars => NetInv'
  <1> SUFFICES ASSUME NetInv, [Next]_netVars PROVE NetInv'
    OBVIOUS
  <1>1. CASE Next
    BY <1>1, StepCases, RequestKeeps, DeliverKeeps, OtherKeeps
  <1>2. CASE UNCHANGED netVars
    BY <1>2 DEF netVars, socketVars, arpVars, NetInv, SocketsOK, BoundWaits, ConnectedBound, PeersOK
  <1> QED BY <1>1, <1>2

\* The invariant of the sockets and the processes holds.
LEMMA NetInvariant == Spec => []NetInv
  BY NetInvInit, NetInvNext, PTL DEF Spec

\* What recv gives out is sequences of bytes, and is what was read out of the
\* ring until a recv finds the ring empty.
NullInv ==
  /\ page0 \in Seq(Nat)
  /\ reads \in [Ports -> ReadLog]
  /\ \A q \in Ports : ~reads[q].early => reads[q].given = trace[q].got

\* A step keeps it that leaves what was read and given alone, or starts anew.
LEMMA NullKept ==
  ASSUME NetInv, NullInv, page0' \in Seq(Nat),
         \A q \in Ports : trace'[q].got = trace[q].got, reads' = reads
  PROVE  NullInv'
  BY DEF NullInv

LEMMA NullReset ==
  ASSUME NetInv, NullInv, page0' = page0, NEW port \in Ports,
         trace' = [trace EXCEPT ![port] = NoTrace], reads' = [reads EXCEPT ![port] = NoReads]
  PROVE  NullInv'
  BY DEF NullInv, NetInv, NoTrace, NoReads, ReadLog

\* A process is given what it reads.
LEMMA NullRecv ==
  ASSUME NetInv, NullInv, NEW p \in Procs, NEW len \in Lengths, Recv(p, Uses[p], len)
  PROVE  NullInv'
  <1> DEFINE port == Uses[p]
             piece == Head(sockets[port].recv_buffer)
  <1>1. /\ proc[p] = "connected" /\ sockets[port].recv_buffer # <<>> /\ page0' = page0
        /\ trace' = [trace EXCEPT ![port].got = @ \o Cut(piece, len),
                                  ![port].lossy = @ \/ len < Len(piece)]
        /\ reads' = [reads EXCEPT ![port].given = @ \o Cut(piece, len)]
    BY DEF Recv
  <1>2. port \in Ports /\ piece \in Seq(Nat) /\ len \in Nat
    BY <1>1, ConnectedSocket, NetAssumption DEF Good, TcpSocket
  <1>3. PICK c \in Seq(Nat) : c = Cut(piece, len)
    <2> HIDE DEF piece
    <2>1. Cut(piece, len) \in Seq(Nat)
      BY <1>2 DEF Cut
    <2> QED BY <2>1
  <1>4. /\ trace \in [Ports -> Trace] /\ reads \in [Ports -> ReadLog]
        /\ \A q \in Ports : reads[q] \in ReadLog /\ trace[q] \in Trace
    BY DEF NullInv, NetInv
  <1> HIDE DEF piece, port
  <1>5. reads' = [reads EXCEPT ![port].given = reads[port].given \o c]
    BY <1>1, <1>3
  <1>6. reads[port].given \o c \in Seq(Nat)
    BY <1>2, <1>4 DEF ReadLog
  <1>7. reads' \in [Ports -> ReadLog]
    BY <1>2, <1>4, <1>5, <1>6 DEF ReadLog
  <1>8. ASSUME NEW q \in Ports, ~reads'[q].early PROVE reads'[q].given = trace'[q].got
    <2>1. CASE q # port
      BY <1>1, <1>2, <1>4, <2>1, <1>8 DEF NullInv
    <2>2. CASE q = port
      <3>1. reads'[q].given = reads[q].given \o c /\ reads'[q].early = reads[q].early
        BY <1>2, <1>4, <1>5, <2>2 DEF ReadLog
      <3>2. trace'[q].got = trace[q].got \o c
        BY <1>1, <1>2, <1>3, <1>4, <2>2 DEF Trace
      <3> QED BY <1>8, <3>1, <3>2 DEF NullInv
    <2> QED BY <2>1, <2>2
  <1> QED BY <1>1, <1>7, <1>8 DEF NullInv

\* An empty ring: the process is given what lies at address 0.
LEMMA NullRecvNull ==
  ASSUME NetInv, NullInv, NEW p \in Procs, NEW len \in Lengths, RecvNull(p, Uses[p], len)
  PROVE  NullInv'
  <1>1. /\ page0' = page0 /\ trace' = trace /\ Uses[p] \in Ports
        /\ reads' = [reads EXCEPT ![Uses[p]] =
             [given |-> reads[Uses[p]].given \o Cut(page0, len), early |-> TRUE]]
    BY NetAssumption DEF RecvNull
  <1>2. Cut(page0, len) \in Seq(Nat)
    <2>1. page0 \in Seq(Nat) /\ len \in Nat
      BY NetAssumption DEF NullInv
    <2> QED BY <2>1 DEF Cut
  <1>3. reads[Uses[p]].given \o Cut(page0, len) \in Seq(Nat)
    BY <1>1, <1>2 DEF NullInv, ReadLog
  <1> QED BY <1>1, <1>3 DEF NullInv, ReadLog

\* A delivery: a full ring sends its piece to address 0.
LEMMA NullDeliver ==
  ASSUME NetInv, NullInv, NEW c \in Conns, NEW m \in OnTheWay(c), Deliver(m)
  PROVE  NullInv'
  <1> DEFINE port == PortOf[m.conn]
             piece == SubSeq(m.data, 1, RealLen(m.data))
  <1>0. /\ trace \in [Ports -> Trace] /\ \A q \in Ports : trace[q] \in Trace
        /\ page0 \in Seq(Nat)
    BY DEF NetInv, NullInv
  <1> HIDE DEF port
  <1>1. CASE TakeData(port, m)
    <2>0. PICK d \in Seq(Nat) : m.data = Append(d, PAD)
      BY MessageFacts DEF NetInv, PeersOK
    <2>1. piece \in Seq(Nat)
      BY <2>0, PieceFacts
    <2> HIDE DEF piece
    <2>2. reads' = reads /\ page0' \in {page0, piece}
      BY <1>1 DEF TakeData, piece
    <2>3. \A q \in Ports : trace'[q].got = trace[q].got
      BY <1>0, <1>1 DEF TakeData, Trace
    <2> QED BY <1>0, <2>1, <2>2, <2>3, NullKept
  <1>2. CASE TakeSyn(port, m)
    <2>1. reads' = reads /\ page0' = page0
      BY <1>2 DEF TakeSyn
    <2>2. \A q \in Ports : trace'[q].got = trace[q].got
      BY <1>0, <1>2 DEF TakeSyn, Trace
    <2> QED BY <1>0, <2>1, <2>2, NullKept
  <1>3. CASE TakeHandshakeAck(port, m) \/ TakeFin(port, m) \/ TakeLastAck(port, m)
    <2>1. reads' = reads /\ page0' = page0 /\ trace' = trace
      BY <1>3 DEF TakeHandshakeAck, TakeFin, TakeLastAck
    <2> QED BY <1>0, <2>1, NullKept
  <1> QED BY <1>1, <1>2, <1>3 DEF Deliver, port

\* Every step keeps it.
LEMMA NullNext == NetInv /\ NullInv /\ [Next]_netVars => NullInv'
  <1> SUFFICES ASSUME NetInv, NullInv, [Next]_netVars PROVE NullInv'
    OBVIOUS
  <1>0. page0 \in Seq(Nat)
    BY DEF NullInv
  <1>1. CASE UNCHANGED <<page0, trace, reads>>
    BY <1>0, <1>1, NullKept
  <1>2. ASSUME NEW p \in Procs, Listen(p, Uses[p]) PROVE NullInv'
    <2>1. Uses[p] \in Ports
      BY NetAssumption
    <2> QED BY <1>1, <1>2, <2>1, NullReset DEF Listen
  <1>3. ASSUME NEW p \in Procs, Close(p, Uses[p]) PROVE NullInv'
    <2>1. Uses[p] \in Ports
      BY NetAssumption
    <2> QED BY <1>3, <2>1, NullReset DEF Close
  <1>4. ASSUME NEW p \in Procs, NEW len,
               Accept(p, Uses[p]) \/ Send(p, Uses[p], len)
        PROVE  NullInv'
    BY <1>1, <1>4 DEF Accept, Send
  <1>5. CASE OtherStep /\ ~\E p \in Procs : \E len \in Lengths : RecvNull(p, Uses[p], len)
    BY <1>1, <1>5 DEF OtherStep, ConfNet, Ping, ArpReply, ArpRequest, RemoteHost,
                      PeerSyn, PeerOpen, PeerData, PeerEnd, socketVars
  <1>6. CASE UNCHANGED netVars
    BY <1>1, <1>6 DEF netVars, socketVars
  <1> QED BY <1>2, <1>3, <1>4, <1>5, <1>6, NullRecv, NullRecvNull, NullDeliver, StepCases

\* Nothing was given at first.
LEMMA NullInvariant == Spec => []NullInv
  <1>1. Init => NullInv
    <2> SUFFICES ASSUME Init PROVE NullInv
      OBVIOUS
    <2>1. page0 \in Seq(Nat)
      BY DEF Init, JUNK
    <2>2. reads = [q \in Ports |-> NoReads] /\ trace = [q \in Ports |-> NoTrace]
      BY DEF Init
    <2> QED BY <2>1, <2>2 DEF NullInv, NoReads, NoTrace, ReadLog
  <1> QED BY <1>1, NullNext, NetInvariant, PTL DEF Spec

\* The ARP table, the sockets and the processes keep their ranges, and a
\* receive ring never holds LEN buffers, for all ports, processes, hosts and
\* lengths.
THEOREM NetTypeCorrect == Spec => []NetTypeOK
  <1>1. NetInv /\ NullInv => NetTypeOK
    BY DEF NetInv, NullInv, NetTypeOK, Table, Macs, Ips, SocketsOK, Good, ProcStates
  <1> QED BY <1>1, NetInvariant, NullInvariant, PTL

\* accept is answered exactly when its connection is established, however many
\* processes share a port and whatever the network delivers.
THEOREM AcceptsAreAnswered == Spec => []AcceptAnswered
  <1>1. NetInv => AcceptAnswered
    BY DEF NetInv, BoundWaits, AcceptAnswered, Waiting
  <1> QED BY <1>1, NetInvariant, PTL

-----------------------------------------------------------------------------
(* Connections.  A socket has one from the SYN until a FIN; a step leaves it *)
(* as it is, opens it, adds received bytes to it or sends bytes on it.       *)

OpenStates == {"SYN_RECEIVED", "ESTABLISHED"}

Open(port) == sockets[port] # NIL /\ sockets[port].state \in OpenStates

\* Nothing about the connection changes, nor what was sent on it; the other
\* segments of this step are for other connections.
Quiet(q) ==
  /\ Open(q)
  /\ sockets'[q].dst = sockets[q].dst
  /\ sockets'[q].ack_num = sockets[q].ack_num
  /\ sockets'[q].seq_num = sockets[q].seq_num
  /\ trace'[q].taken = trace[q].taken /\ trace'[q].stray = trace[q].stray
  /\ toPeer \subseteq toPeer'
  /\ \A m \in toPeer' : m.conn = sockets[q].dst => m \in toPeer

\* A SYN is taken.
Opens(q) ==
  /\ sockets'[q].dst \in Conns
  /\ sockets'[q].ack_num = SeqNo(sockets'[q].dst, 1)
  /\ sockets'[q].seq_num = 1
  /\ trace'[q].taken = <<>>
  /\ sockets'[q].dst \in served => trace'[q].stray
  /\ ~deaf' => toPeer' = toPeer \cup
       {[conn |-> sockets'[q].dst, flags |-> {"SYN", "ACK"}, seq |-> 0,
         ack |-> sockets'[q].ack_num, len |-> 0]}

\* Bytes are taken.
Takes(q, c, m) ==
  LET piece == SubSeq(m.data, 1, RealLen(m.data))
  IN  /\ Open(q)
      /\ PortOf[c] = q
      /\ sockets'[q].dst = sockets[q].dst
      /\ sockets'[q].seq_num = sockets[q].seq_num
      /\ m.seq = sockets[q].ack_num
      /\ sockets'[q].ack_num = (sockets[q].ack_num + Len(piece)) % SEQ
      /\ trace'[q].taken = trace[q].taken \o piece
      /\ trace'[q].stray = trace[q].stray
      /\ ~deaf' => toPeer' = toPeer \cup
           {[conn |-> sockets[q].dst, flags |-> {"ACK"}, seq |-> sockets[q].seq_num,
             ack |-> sockets'[q].ack_num, len |-> 0]}

\* Bytes are sent.
Sends(q, len) ==
  /\ Open(q)
  /\ sockets'[q].dst = sockets[q].dst
  /\ sockets'[q].ack_num = sockets[q].ack_num
  /\ sockets'[q].seq_num = (sockets[q].seq_num + len) % SEQ
  /\ steps' = steps + 1
  /\ trace'[q].taken = trace[q].taken /\ trace'[q].stray = trace[q].stray
  /\ ~deaf' => toPeer' = toPeer \cup
       {[conn |-> sockets[q].dst, flags |-> {"ACK"}, seq |-> sockets[q].seq_num,
         ack |-> sockets[q].ack_num, len |-> len]}

\* Sending adds the segments or makes deaf true; it never takes one back.
LEMMA TransmitAdds ==
  ASSUME NEW s, NEW segments, Transmit(s, segments)
  PROVE  /\ toPeer \subseteq toPeer' /\ toPeer' \subseteq toPeer \cup segments
         /\ s.dst = NIL => toPeer' = toPeer
         /\ ~deaf' /\ s.dst # NIL => toPeer' = toPeer \cup segments
         /\ deaf => deaf'
  <1> DEFINE reaches == get_default_gateway_mac = GW_MAC /\ s.src_ip = ip_addr
  <1>1. /\ toPeer' = IF reaches /\ s.dst # NIL THEN toPeer \cup segments ELSE toPeer
        /\ deaf' = (deaf \/ ~reaches)
    BY DEF Transmit
  <1> HIDE DEF reaches
  <1> QED BY <1>1

\* What is sent on one port leaves the connections of the others alone: a
\* remote host addresses one port.
LEMMA QuietElsewhere ==
  ASSUME NetInv, NEW port \in Ports, NEW q \in Ports \ {port}, Open(q)',
         NEW t, Good(t, port), NEW segments, \A m \in segments : m.conn = t.dst,
         Transmit(t, segments), sockets'[q] = sockets[q], trace'[q] = trace[q]
  PROVE  Quiet(q)
  <1>1. Open(q) /\ Good(sockets[q], q)
    BY DEF Open, NetInv, SocketsOK
  <1>2. sockets[q].dst # NIL /\ PortOf[sockets[q].dst] = q
    BY <1>1 DEF Good, Open, OpenStates
  <1>3. t.dst # sockets[q].dst
    BY <1>2 DEF Good
  <1>4. toPeer \subseteq toPeer' /\ toPeer' \subseteq toPeer \cup segments
    BY TransmitAdds
  <1> QED BY <1>1, <1>3, <1>4 DEF Quiet

\* A step that sends nothing and keeps the socket of a port keeps it quiet.
LEMMA QuietSilent ==
  ASSUME NEW q \in Ports, Open(q), toPeer' = toPeer,
         sockets'[q].dst = sockets[q].dst, sockets'[q].ack_num = sockets[q].ack_num,
         sockets'[q].seq_num = sockets[q].seq_num,
         trace'[q].taken = trace[q].taken, trace'[q].stray = trace[q].stray
  PROVE  Quiet(q)
  BY DEF Quiet

\* A step of a process and the connection of a port.
LEMMA RequestOpen ==
  ASSUME NetInv, NetInv', NEW q \in Ports, Open(q)', NEW p \in Procs,
         \/ Listen(p, Uses[p]) \/ Accept(p, Uses[p]) \/ Close(p, Uses[p])
         \/ \E len \in Lengths : Recv(p, Uses[p], len) \/ Send(p, Uses[p], len)
  PROVE  Quiet(q) \/ \E len \in Lengths : Sends(q, len)
  <1> DEFINE port == Uses[p]
             s == sockets[port]
  <1>0. port \in Ports /\ port \in DOMAIN sockets /\ q \in DOMAIN sockets
        /\ port \in DOMAIN trace /\ q \in DOMAIN trace /\ trace[port] \in Trace
    BY NetAssumption DEF NetInv, SocketsOK
  <1> HIDE DEF port
  <1>1. CASE Listen(p, port)
    <2>1. sockets'[q] = sockets[q] /\ trace'[q] = trace[q] /\ toPeer' = toPeer
      BY <1>0, <1>1 DEF Listen, Open, OpenStates
    <2> QED BY <2>1, QuietSilent DEF Open
  <1>2. CASE Accept(p, port)
    <2>1. sockets'[q] = sockets[q] /\ trace'[q] = trace[q] /\ toPeer' = toPeer
      BY <1>0, <1>2 DEF Accept, Open, OpenStates
    <2> QED BY <2>1, QuietSilent DEF Open
  <1>3. CASE Close(p, port)
    <2>1. proc[p] = "connected" /\ sockets' = [sockets EXCEPT ![port] = NIL]
          /\ trace' = [trace EXCEPT ![port] = NoTrace]
          /\ Transmit(s, {Segment(s, {"FIN", "ACK"}, 0)})
      BY <1>3 DEF Close
    <2>2. q # port /\ sockets'[q] = sockets[q] /\ trace'[q] = trace[q]
      BY <1>0, <2>1 DEF Open
    <2>3. Good(s, port)
      BY <2>1, ConnectedSocket DEF port
    <2>4. \A m \in {Segment(s, {"FIN", "ACK"}, 0)} : m.conn = s.dst
      BY DEF Segment
    <2> HIDE DEF s
    <2> QED BY <1>0, <2>1, <2>2, <2>3, <2>4, QuietElsewhere
  <1>4. ASSUME NEW len \in Lengths, Recv(p, port, len)
        PROVE  Quiet(q)
    <2>1. /\ sockets' = [sockets EXCEPT ![port].recv_buffer = AfterRecv(@)]
          /\ toPeer' = toPeer /\ proc[p] = "connected"
      BY <1>4 DEF Recv
    <2>2. trace'[q].taken = trace[q].taken /\ trace'[q].stray = trace[q].stray
      BY <1>0, <1>4 DEF Recv, Trace
    <2>3. s # NIL /\ s \in TcpSocket
      BY <2>1, ConnectedSocket DEF port, Good
    <2>4. /\ Open(q) /\ sockets'[q].dst = sockets[q].dst
          /\ sockets'[q].ack_num = sockets[q].ack_num
          /\ sockets'[q].seq_num = sockets[q].seq_num
      BY <1>0, <2>1, <2>3 DEF Open, TcpSocket
    <2> QED BY <2>1, <2>2, <2>4, QuietSilent
  <1>5. ASSUME NEW len \in Lengths, Send(p, port, len)
        PROVE  Quiet(q) \/ Sends(q, len)
    <2>1. /\ sockets' = [sockets EXCEPT ![port] = AfterSend(@, len)]
          /\ Transmit(s, {Segment(s, {"ACK"}, len)})
          /\ trace' = trace /\ proc[p] = "connected" /\ steps' = steps + 1
      BY <1>5 DEF Send, Step
    <2>2. s # NIL /\ Good(s, port)
      BY <2>1, ConnectedSocket DEF port
    <2>3. Segment(s, {"ACK"}, len) = [conn |-> s.dst, flags |-> {"ACK"}, seq |-> s.seq_num,
                                      ack |-> s.ack_num, len |-> len]
      BY DEF Segment
    <2>4. CASE q # port
      <3>1. sockets'[q] = sockets[q] /\ trace'[q] = trace[q]
        BY <1>0, <2>1, <2>4
      <3>2. \A m \in {Segment(s, {"ACK"}, len)} : m.conn = s.dst
        BY DEF Segment
      <3> HIDE DEF s
      <3> QED BY <1>0, <2>1, <2>2, <2>4, <3>1, <3>2, QuietElsewhere
    <2>5. CASE q = port
      <3>1. /\ sockets'[q].dst = s.dst /\ sockets'[q].ack_num = s.ack_num
            /\ sockets'[q].seq_num = (s.seq_num + len) % SEQ
            /\ sockets'[q].state = s.state /\ trace'[q] = trace[q]
        BY <1>0, <2>1, <2>2, <2>5 DEF AfterSend, Good, TcpSocket
      <3>2. Open(q)
        BY <2>2, <2>5, <3>1 DEF Open
      <3>3. s.dst # NIL
        BY <2>2, <2>5, <3>2 DEF Open, Good, OpenStates
      <3>4. ~deaf' => toPeer' = toPeer \cup {Segment(s, {"ACK"}, len)}
        BY <2>1, <3>3, TransmitAdds
      <3> QED BY <2>1, <2>3, <2>5, <3>1, <3>2, <3>4 DEF Sends
    <2> QED BY <2>4, <2>5
  <1> QED BY <1>1, <1>2, <1>3, <1>4, <1>5 DEF port

\* A delivery and the connection of a port.
LEMMA DeliverOpen ==
  ASSUME NetInv, NetInv', NEW q \in Ports, Open(q)',
         NEW c \in Conns, NEW m \in OnTheWay(c), Deliver(m)
  PROVE  Quiet(q) \/ Opens(q) \/ Takes(q, c, m)
  <1> DEFINE port == PortOf[m.conn]
             s == sockets[port]
  <1>0. m.conn = c /\ port = PortOf[c] /\ port \in Ports /\ trace[port] \in Trace
        /\ port \in DOMAIN sockets /\ q \in DOMAIN sockets /\ SEQ \in Nat \ {0, 1}
        /\ port \in DOMAIN trace /\ q \in DOMAIN trace /\ c # NIL
    BY MessageFacts, NetAssumption, NilAssumption DEF NetInv, PeersOK, SocketsOK
  <1>01. s # NIL /\ Good(s, port)
    BY <1>0 DEF Deliver, NetInv, SocketsOK
  <1> HIDE DEF port
  <1>1. CASE TakeSyn(port, m)
    <2> DEFINE t == [s EXCEPT !.state = "SYN_RECEIVED", !.dst = m.conn,
                              !.ack_num = (m.seq + 1) % SEQ, !.seq_num = 0]
               new == [t EXCEPT !.seq_num = 1]
               seg == Segment(t, {"SYN", "ACK"}, 0)
    <2>1. /\ m.flags = {"SYN"} /\ sockets' = [sockets EXCEPT ![port] = new]
          /\ Transmit(t, {seg})
          /\ trace' = [trace EXCEPT ![port].stray = @ \/ m.conn \in served,
                                    ![port].taken = <<>>]
      BY <1>1 DEF TakeSyn
    <2>2. (m.seq + 1) % SEQ = SeqNo(c, 1) /\ (m.seq + 1) % SEQ \in 0 .. SEQ - 1
      <3>1. m.seq = ISN[c] % SEQ /\ ISN[c] \in 0 .. SEQ - 1
        <4>1. m.seq = SeqNo(c, 0) /\ ISN[c] \in 0 .. SEQ - 1
          BY <2>1, MessageFacts, NetAssumption DEF NetInv, PeersOK
        <4> QED BY <4>1 DEF SeqNo
      <3>2. m.seq = ISN[c]
        BY <1>0, <3>1
      <3> QED BY <1>0, <3>1, <3>2 DEF SeqNo
    <2>3. Good(t, port) /\ t.dst = c
      <3>1. t \in TcpSocket
        <4> DEFINE a == (m.seq + 1) % SEQ
        <4>1. a \in 0 .. SEQ - 1 /\ 0 \in 0 .. SEQ - 1 /\ s \in TcpSocket
          BY <1>0, <1>01, <2>2 DEF Good
        <4> HIDE DEF a
        <4>2. t = [s EXCEPT !.state = "SYN_RECEIVED", !.dst = m.conn, !.ack_num = a, !.seq_num = 0]
          BY DEF a
        <4> QED BY <1>0, <4>1, <4>2 DEF TcpSocket, States
      <3>2. t.dst = c /\ t.state = "SYN_RECEIVED" /\ t.recv_buffer = s.recv_buffer
        BY <1>0, <1>01 DEF Good, TcpSocket
      <3> HIDE DEF t
      <3> QED BY <1>0, <1>01, <3>1, <3>2 DEF Good
    <2>4. seg = [conn |-> c, flags |-> {"SYN", "ACK"}, seq |-> 0,
                 ack |-> (m.seq + 1) % SEQ, len |-> 0]
      BY <1>0, <1>01 DEF Segment, Good, TcpSocket
    <2>5. CASE q # port
      <3>1. sockets'[q] = sockets[q] /\ trace'[q] = trace[q]
        BY <1>0, <2>1, <2>5
      <3>2. \A x \in {seg} : x.conn = t.dst
        BY DEF Segment
      <3> HIDE DEF t, seg
      <3> QED BY <1>0, <2>1, <2>3, <2>5, <3>1, <3>2, QuietElsewhere
    <2>6. CASE q = port
      <3>1. /\ sockets'[q].dst = c /\ sockets'[q].ack_num = (m.seq + 1) % SEQ
            /\ sockets'[q].seq_num = 1
        BY <1>0, <1>01, <2>1, <2>6 DEF Good, TcpSocket
      <3>2. trace'[q].taken = <<>> /\ (c \in served => trace'[q].stray)
        BY <1>0, <2>1, <2>6 DEF Trace
      <3>3. ~deaf' => toPeer' = toPeer \cup {seg}
        <4> HIDE DEF t, seg
        <4> QED BY <1>0, <2>1, <2>3, TransmitAdds
      <3> HIDE DEF t, seg, new
      <3> QED BY <2>2, <2>4, <3>1, <3>2, <3>3 DEF Opens
    <2> QED BY <2>5, <2>6
  <1>2. CASE TakeHandshakeAck(port, m)
    <2>1. /\ sockets' = [sockets EXCEPT ![port].state = "ESTABLISHED"]
          /\ s.state = "SYN_RECEIVED" /\ trace' = trace /\ toPeer' = toPeer
      BY <1>2 DEF TakeHandshakeAck
    <2>2. /\ Open(q) /\ sockets'[q].dst = sockets[q].dst
          /\ sockets'[q].ack_num = sockets[q].ack_num
          /\ sockets'[q].seq_num = sockets[q].seq_num
      BY <1>0, <1>01, <2>1 DEF Open, OpenStates, Good, TcpSocket
    <2> QED BY <2>1, <2>2, QuietSilent
  <1>3. CASE TakeFin(port, m)
    <2> DEFINE t == [s EXCEPT !.state = "CLOSE_WAIT", !.ack_num = (@ + 1) % SEQ]
               segs == {Segment(t, {"ACK"}, 0), Segment(t, {"FIN", "ACK"}, 0)}
    <2>1. /\ trace' = trace
          /\ \/ /\ sockets' = [sockets EXCEPT ![port] = t]
                /\ s.state = "ESTABLISHED" /\ Transmit(t, segs)
             \/ /\ sockets' = [sockets EXCEPT ![port].state = "CLOSED"]
                /\ toPeer' = toPeer
      BY <1>3 DEF TakeFin
    <2>2. q # port /\ sockets'[q] = sockets[q] /\ Open(q)
      <3>1. s \in TcpSocket
        BY <1>01 DEF Good
      <3>2. sockets'[port].state \in {"CLOSE_WAIT", "CLOSED"}
        <4>1. t.state = "CLOSE_WAIT"
          BY <3>1 DEF TcpSocket
        <4>2. [s EXCEPT !.state = "CLOSED"].state = "CLOSED"
          BY <3>1 DEF TcpSocket
        <4>3. sockets'[port] \in {t, [s EXCEPT !.state = "CLOSED"]}
          BY <1>0, <2>1
        <4> QED BY <4>1, <4>2, <4>3
      <3>3. q # port
        BY <3>2 DEF Open, OpenStates
      <3>4. sockets'[q] = sockets[q]
        BY <1>0, <2>1, <3>3
      <3> QED BY <3>3, <3>4 DEF Open
    <2>3. CASE toPeer' = toPeer
      BY <2>1, <2>2, <2>3, QuietSilent
    <2>4. CASE s.state = "ESTABLISHED" /\ Transmit(t, segs)
      <3>1. (s.ack_num + 1) % SEQ \in 0 .. SEQ - 1
        BY <1>0, <1>01 DEF Good, TcpSocket
      <3>2. Good(t, port) /\ t.dst = s.dst
        BY <1>0, <1>01, <2>4, <3>1 DEF Good, TcpSocket, States
      <3>3. \A x \in segs : x.conn = t.dst
        BY DEF Segment
      <3> HIDE DEF t, segs
      <3> QED BY <1>0, <2>1, <2>2, <2>4, <3>2, <3>3, QuietElsewhere
    <2> QED BY <2>1, <2>3, <2>4
  <1>4. CASE TakeLastAck(port, m)
    <2>1. /\ sockets' = [sockets EXCEPT ![port].state = "CLOSED"]
          /\ trace' = trace /\ toPeer' = toPeer
      BY <1>4 DEF TakeLastAck
    <2>2. sockets'[q] = sockets[q] /\ Open(q)
      BY <1>0, <1>01, <2>1 DEF Open, OpenStates, Good, TcpSocket
    <2> QED BY <2>1, <2>2, QuietSilent
  <1>5. CASE TakeData(port, m)
    <2> DEFINE piece == SubSeq(m.data, 1, RealLen(m.data))
               t == [s EXCEPT !.recv_buffer = Store(@, piece), !.ack_num = (@ + Len(piece)) % SEQ]
               seg == DataAck(s, t)
    <2>1. /\ sockets' = [sockets EXCEPT ![port] = t] /\ m.seq = s.ack_num
          /\ Transmit(t, {seg})
          /\ trace' = [trace EXCEPT
               ![port].taken = @ \o piece,
               ![port].lossy = @ \/ (Len(s.recv_buffer) = LEN - 1 /\ piece # <<>>),
               ![port].stray = @ \/ s.state = "LISTENING"]
      BY <1>5 DEF TakeData
    <2>2. /\ t.dst = s.dst /\ t.seq_num = s.seq_num /\ t.state = s.state
          /\ t.ack_num = (s.ack_num + Len(piece)) % SEQ
      BY <1>01 DEF Good, TcpSocket
    <2>3. seg = [conn |-> t.dst, flags |-> {"ACK"}, seq |-> t.seq_num,
                 ack |-> t.ack_num, len |-> 0]
      BY DEF Segment, DataAck
    <2>4. CASE q # port
      <3>1. sockets'[q] = sockets[q] /\ trace'[q] = trace[q]
        BY <1>0, <2>1, <2>4
      <3>2. \A x \in {seg} : x.conn = t.dst
        BY DEF Segment, DataAck
      <3>3. Open(q) /\ sockets[q].dst # NIL /\ PortOf[sockets[q].dst] = q
        BY <3>1 DEF Open, OpenStates, NetInv, SocketsOK, Good
      <3>4. t.dst # sockets[q].dst
        BY <1>01, <2>2, <2>4, <3>3 DEF Good
      <3>5. toPeer \subseteq toPeer' /\ toPeer' \subseteq toPeer \cup {seg}
        <4> HIDE DEF t, seg
        <4> QED BY <2>1, TransmitAdds
      <3> HIDE DEF t, seg
      <3> QED BY <3>1, <3>2, <3>3, <3>4, <3>5 DEF Quiet
    <2>5. CASE q = port
      <3>1. sockets'[q] = t
        BY <1>0, <2>1, <2>5
      <3> HIDE DEF t, seg
      <3>2. Open(q) /\ s.dst # NIL
        BY <1>01, <2>2, <2>5, <3>1 DEF Open, OpenStates, Good
      <3>3. trace'[q].taken = trace[q].taken \o piece
        <4> HIDE DEF piece
        <4> QED BY <1>0, <2>1, <2>5 DEF Trace
      <3>4. trace'[q].stray = trace[q].stray
        <4>1. s.state # "LISTENING"
          BY <2>5, <3>2 DEF Open, OpenStates
        <4> HIDE DEF piece
        <4> QED BY <1>0, <2>1, <2>5, <4>1 DEF Trace
      <3>5. ~deaf' => toPeer' = toPeer \cup {seg}
        BY <2>1, <2>2, <3>2, TransmitAdds
      <3> QED BY <1>0, <2>1, <2>2, <2>3, <2>5, <3>1, <3>2, <3>3, <3>4, <3>5 DEF Takes
    <2> QED BY <2>4, <2>5
  <1> QED BY <1>1, <1>2, <1>3, <1>4, <1>5 DEF Deliver, port

\* Every step and the connection of a port.
LEMMA OpenStep ==
  ASSUME NetInv, NetInv', [Next]_netVars, NEW q \in Ports, Open(q)'
  PROVE  \/ Quiet(q) \/ Opens(q)
         \/ \E c \in Conns : \E m \in OnTheWay(c) : Takes(q, c, m)
         \/ \E len \in Lengths : Sends(q, len)
  <1>1. CASE OtherStep \/ UNCHANGED netVars
    <2>1. UNCHANGED <<sockets, trace, toPeer>>
      BY <1>1, OtherLeaves DEF NetInv, netVars, socketVars
    <2> QED BY <2>1, QuietSilent DEF Open
  <1>2. CASE Next
    BY <1>1, <1>2, StepCases, RequestOpen, DeliverOpen
  <1> QED BY <1>1, <1>2

-----------------------------------------------------------------------------
(* Bytes received. *)

\* The bytes acknowledged on the connection of a port are the first its host
\* sent, and the next number expected is that of the next byte.
Stream(q) ==
  LET s == sockets[q]
      n == Len(trace[q].taken)
  IN  /\ s.ack_num = SeqNo(s.dst, n + 1)
      /\ n <= peer[s.dst].sent
      /\ trace[q].taken = [i \in 1 .. n |-> i]

StreamInv ==
  /\ \A c \in Conns : peer[c].sent <= MaxBytes[c]
  /\ \A q \in Ports : Open(q) => Stream(q)

\* Nothing but the remote hosts changes what they have sent.
LEMMA OnlyHostsChangePeer ==
  ASSUME [Next]_netVars
  PROVE  RemoteHost \/ peer' = peer
  <1>1. CASE Request
    BY <1>1 DEF Request, Listen, Accept, Close, Recv, RecvNull, Send, ConfNet, Ping
  <1>2. CASE Packet
    <2>1. ASSUME NEW port, NEW m,
                 \/ TakeSyn(port, m) \/ TakeHandshakeAck(port, m) \/ TakeFin(port, m)
                 \/ TakeLastAck(port, m) \/ TakeData(port, m)
          PROVE  peer' = peer
      BY <2>1 DEF TakeSyn, TakeHandshakeAck, TakeFin, TakeLastAck, TakeData
    <2> QED BY <1>2, <2>1 DEF Packet, ArpReply, ArpRequest, Deliver
  <1> QED BY <1>1, <1>2 DEF Next, netVars

\* No host sends more than its bytes, and none takes one back.
LEMMA SentGrows ==
  ASSUME NetInv, [Next]_netVars
  PROVE  \A c \in Conns :
           /\ peer'[c].sent >= peer[c].sent
           /\ peer[c].sent <= MaxBytes[c] => peer'[c].sent <= MaxBytes[c]
  <1>1. CASE RemoteHost
    <2>1. PICK c \in Conns : PeerSyn(c) \/ PeerOpen(c) \/ PeerData(c) \/ PeerEnd(c)
      BY <1>1 DEF RemoteHost
    <2>2. peer[c].sent \in Nat /\ MaxBytes[c] \in Nat
      BY NetAssumption DEF NetInv, PeersOK
    <2> QED BY <2>1, <2>2, NetAssumption
            DEF PeerSyn, PeerOpen, PeerData, PeerEnd, NetInv, PeersOK
  <1>2. CASE ~RemoteHost
    <2>1. peer' = peer
      BY <1>2, OnlyHostsChangePeer
    <2> QED BY <2>1 DEF NetInv, PeersOK
  <1> QED BY <1>1, <1>2

\* Taking bytes keeps the stream: a segment in sequence is one of the
\* connection's own host and continues what was taken.
LEMMA TakesKeepsStream ==
  ASSUME NumbersApart, NetInv, StreamInv, NEW q \in Ports,
         NEW c \in Conns, NEW m \in OnTheWay(c), Takes(q, c, m), peer' = peer
  PROVE  Stream(q)'
  <1> DEFINE s == sockets[q]
             n == Len(trace[q].taken)
             piece == SubSeq(m.data, 1, RealLen(m.data))
             r == Len(piece)
  <1>1. Good(s, q) /\ s.dst \in Conns /\ PortOf[s.dst] = q /\ PortOf[c] = q /\ Stream(q)
        /\ trace[q].taken \in Seq(Nat) /\ n \in Nat
    <2>1. Open(q) /\ s # NIL /\ PortOf[c] = q
      BY DEF Takes, Open
    <2>2. Good(s, q) /\ Stream(q) /\ trace[q] \in Trace
      BY <2>1 DEF NetInv, SocketsOK, StreamInv
    <2>3. s.dst # NIL
      BY <2>1, <2>2 DEF Open, OpenStates, Good
    <2> QED BY <2>1, <2>2, <2>3 DEF Good, TcpSocket, Trace
  <1>2. /\ sockets'[q].dst = s.dst /\ sockets'[q].ack_num = (s.ack_num + r) % SEQ
        /\ trace'[q].taken = trace[q].taken \o piece /\ m.seq = s.ack_num
    BY DEF Takes
  <1>3. /\ s.ack_num = SeqNo(s.dst, n + 1) /\ n <= peer[s.dst].sent
        /\ trace[q].taken = [i \in 1 .. n |-> i]
        /\ peer[s.dst].sent \in Nat /\ peer[s.dst].sent <= MaxBytes[s.dst]
        /\ MaxBytes[s.dst] \in Nat /\ SEQ \in Nat \ {0} /\ ISN[s.dst] \in Nat
    BY <1>1, NetAssumption DEF Stream, NetInv, PeersOK, StreamInv
  <1>4. PICK d \in Seq(Nat) : m.data = Append(d, PAD) /\ (d = <<>> \/ SliceOf(c, m, d))
    BY MessageFacts DEF NetInv, PeersOK
  <1>5. /\ r \in 0 .. Len(d) /\ piece \in Seq(Nat) /\ Len(piece) = r
        /\ \A k \in 1 .. r : piece[k] = d[k]
    <2> DEFINE x == RealLen(m.data)
    <2>1. /\ x \in 0 .. Len(d) /\ piece \in Seq(Nat) /\ Len(piece) = x
          /\ \A k \in 1 .. x : piece[k] = d[k]
      BY <1>4, PieceFacts
    <2> QED BY <2>1
  <1> HIDE DEF piece, n, r
  <1>6. r # 0 => n + r <= peer[s.dst].sent /\ \A k \in 1 .. r : piece[k] = n + k
    <2> SUFFICES ASSUME r # 0
                 PROVE  n + r <= peer[s.dst].sent /\ \A k \in 1 .. r : piece[k] = n + k
      OBVIOUS
    <2>1. d # <<>>
      BY <1>5
    <2>2. PICK i \in Nat \ {0}, len \in Nat \ {0} :
             /\ d = [k \in 1 .. len |-> i + k - 1]
             /\ i + len - 1 <= peer[c].sent
             /\ m.seq = SeqNo(c, i)
      BY <1>4, <2>1 DEF SliceOf
    <2>3. peer[c].sent \in Nat /\ peer[c].sent <= MaxBytes[c] /\ MaxBytes[c] \in Nat
      BY NetAssumption DEF NetInv, PeersOK, StreamInv
    <2>4. i \in 1 .. MaxBytes[c] /\ n + 1 \in 1 .. MaxBytes[s.dst] + 1
      <3>1. i <= peer[c].sent
        BY <2>2, <2>3
      <3>2. i <= MaxBytes[c]
        BY <2>2, <2>3, <3>1
      <3>3. n + 1 \in 1 .. MaxBytes[s.dst] + 1
        BY <1>1, <1>3
      <3> QED BY <2>2, <2>3, <3>2, <3>3
    <2>5. SeqNo(s.dst, n + 1) = SeqNo(c, i)
      BY <1>2, <1>3, <2>2
    <2>6. s.dst = c /\ n + 1 = i
      <3>1. PortOf[s.dst] = PortOf[c] /\ s.dst \in Conns
        BY <1>1
      <3>2. \A x \in 1 .. MaxBytes[s.dst] + 1, y \in 1 .. MaxBytes[c] :
               SeqNo(s.dst, x) = SeqNo(c, y) => s.dst = c /\ x = y
        BY <3>1 DEF NumbersApart
      <3> QED BY <2>4, <2>5, <3>2
    <2>7. Len(d) = len
      BY <2>2
    <2>8. n + r <= peer[s.dst].sent
      BY <1>1, <1>5, <2>2, <2>3, <2>6, <2>7
    <2>9. ASSUME NEW k \in 1 .. r PROVE piece[k] = n + k
      <3>1. k \in 1 .. len /\ piece[k] = d[k]
        BY <1>5, <2>7
      <3>2. d[k] = i + k - 1
        BY <2>2, <3>1
      <3>3. i + k - 1 = n + k
        BY <1>1, <2>2, <2>6, <3>1
      <3> QED BY <3>1, <3>2, <3>3
    <2> QED BY <2>8, <2>9
  <1> DEFINE t == trace'[q].taken
  <1>7. Len(t) = n + r /\ t = [i \in 1 .. n + r |-> i]
    <2>1. t = trace[q].taken \o piece
      BY <1>2
    <2> DEFINE old == trace[q].taken
    <2>2. old \in Seq(Nat) /\ Len(old) = n /\ \A i \in 1 .. n : old[i] = i
      BY <1>1, <1>3 DEF n
    <2> HIDE DEF old, t
    <2>3. /\ t \in Seq(Nat) /\ Len(t) = n + r
          /\ \A i \in 1 .. n + r : t[i] = IF i <= n THEN old[i] ELSE piece[i - n]
      <3>1. t = old \o piece
        BY <2>1 DEF old
      <3>2. old \in Seq(Nat) /\ piece \in Seq(Nat) /\ Len(old) = n /\ Len(piece) = r
        BY <1>5, <2>2
      <3>3. /\ old \o piece \in Seq(Nat) /\ Len(old \o piece) = Len(old) + Len(piece)
            /\ \A i \in 1 .. Len(old) + Len(piece) :
                 (old \o piece)[i] = IF i <= Len(old) THEN old[i] ELSE piece[i - Len(old)]
        BY <3>2, ConcatProperties, Zenon
      <3> QED BY <3>1, <3>2, <3>3, Zenon
    <2>4. ASSUME NEW i \in 1 .. n + r PROVE t[i] = i
      <3>1. CASE i <= n
        BY <1>1, <1>5, <2>2, <2>3, <3>1
      <3>2. CASE i > n
        <4>1. i - n \in 1 .. r /\ r # 0
          BY <1>1, <1>5, <3>2
        <4>2. t[i] = piece[i - n]
          BY <1>1, <2>3, <3>2
        <4>3. piece[i - n] = n + (i - n)
          BY <1>6, <4>1
        <4> QED BY <1>1, <4>2, <4>3
      <3> QED BY <1>1, <3>1, <3>2
    <2> QED BY <2>3, <2>4
  <1> HIDE DEF t
  <1>8. sockets'[q].ack_num = SeqNo(s.dst, (n + r) + 1)
    <2>1. ISN[s.dst] + (n + 1) \in Nat /\ r \in Nat
      BY <1>1, <1>3, <1>5
    <2>2. (((ISN[s.dst] + (n + 1)) % SEQ) + r) % SEQ = ((ISN[s.dst] + (n + 1)) + r) % SEQ
      BY <1>3, <2>1, ModAdd
    <2>3. (ISN[s.dst] + (n + 1)) + r = ISN[s.dst] + ((n + r) + 1)
      <3>1. \A a, b, e \in Nat : (a + (b + 1)) + e = a + ((b + e) + 1)
        OBVIOUS
      <3>2. n \in Nat /\ r \in Nat /\ ISN[s.dst] \in Nat
        BY <1>1, <1>3, <1>5
      <3> QED BY <3>1, <3>2, Zenon
    <2> QED BY <1>2, <1>3, <2>2, <2>3 DEF SeqNo
  <1>9. n + r <= peer[s.dst].sent
    BY <1>1, <1>3, <1>5, <1>6
  <1> QED BY <1>2, <1>7, <1>8, <1>9 DEF Stream, t

\* Every step keeps the streams.
LEMMA StreamNext ==
  ASSUME NumbersApart, NetInv, NetInv', StreamInv, [Next]_netVars
  PROVE  StreamInv'
  <1>1. \A c \in Conns : peer'[c].sent <= MaxBytes[c]
    BY SentGrows DEF StreamInv
  <1>2. ASSUME NEW q \in Ports, Open(q)'
        PROVE  Stream(q)'
    <2>0. sockets'[q] # NIL /\ sockets'[q].dst \in Conns
      BY <1>2 DEF Open, OpenStates, NetInv, SocketsOK, Good, TcpSocket
    <2>1. CASE Quiet(q)
      <3>1. sockets'[q].dst = sockets[q].dst /\ Stream(q)
        BY <2>1 DEF Quiet, StreamInv
      <3>2. peer'[sockets[q].dst].sent >= peer[sockets[q].dst].sent
        BY <2>0, <3>1, SentGrows
      <3>3. trace[q].taken \in Seq(Nat) /\ peer[sockets[q].dst].sent \in Nat
            /\ peer'[sockets[q].dst].sent \in Nat
        BY <2>0, <3>1 DEF NetInv, Trace, PeersOK
      <3>4. Len(trace[q].taken) <= peer'[sockets[q].dst].sent
        BY <3>1, <3>2, <3>3 DEF Stream
      <3> QED BY <2>1, <3>1, <3>4 DEF Quiet, Stream
    <2>2. CASE Opens(q)
      <3>1. peer'[sockets'[q].dst].sent \in Nat
        BY <2>0 DEF NetInv, PeersOK
      <3>2. trace'[q].taken = <<>> /\ sockets'[q].ack_num = SeqNo(sockets'[q].dst, 1)
        BY <2>2 DEF Opens
      <3>3. Len(<<>>) = 0 /\ <<>> = [i \in 1 .. 0 |-> i] /\ 0 + 1 = 1
        OBVIOUS
      <3> QED BY <3>1, <3>2, <3>3 DEF Stream
    <2>3. ASSUME NEW c \in Conns, NEW m \in OnTheWay(c), Takes(q, c, m)
          PROVE  Stream(q)'
      <3>1. CASE peer' = peer
        BY <2>3, <3>1, TakesKeepsStream
      <3>2. CASE peer' # peer
        <4>1. RemoteHost
          BY <3>2, OnlyHostsChangePeer
        <4>2. Quiet(q)
          <5>1. UNCHANGED <<sockets, trace, toPeer>>
            BY <4>1, OtherLeaves DEF OtherStep, NetInv
          <5> QED BY <1>2, <5>1, QuietSilent DEF Open
        <4> QED BY <2>1, <4>2
      <3> QED BY <3>1, <3>2
    <2>4. ASSUME NEW len \in Lengths, Sends(q, len)
          PROVE  Stream(q)'
      <3>1. sockets'[q].dst = sockets[q].dst /\ Stream(q)
        BY <2>4 DEF Sends, StreamInv
      <3>2. peer'[sockets[q].dst].sent >= peer[sockets[q].dst].sent
        BY <2>0, <3>1, SentGrows
      <3>3. trace[q].taken \in Seq(Nat) /\ peer[sockets[q].dst].sent \in Nat
            /\ peer'[sockets[q].dst].sent \in Nat
        BY <2>0, <3>1 DEF NetInv, Trace, PeersOK
      <3>4. Len(trace[q].taken) <= peer'[sockets[q].dst].sent
        BY <3>1, <3>2, <3>3 DEF Stream
      <3> QED BY <2>4, <3>1, <3>4 DEF Sends, Stream
    <2> QED BY <1>2, <2>1, <2>2, <2>3, <2>4, OpenStep
  <1> QED BY <1>1, <1>2 DEF StreamInv

\* On every established connection the bytes acknowledged are the first its
\* host sent, each once and in order, whatever the network loses, repeats or
\* reorders and whichever bytes are 0: provided the numbers of the connections
\* to a port are apart, which is all that resolve_packet looks at.
THEOREM AcknowledgedIsSent ==
  ASSUME NumbersApart
  PROVE  Spec => []AckMatchesTaken
  <1>1. Init => StreamInv
    BY NetAssumption DEF Init, StreamInv, Open
  <1>2. NetInv /\ NetInv' /\ StreamInv /\ [Next]_netVars => StreamInv'
    BY StreamNext
  <1>3. StreamInv => AckMatchesTaken
    BY DEF StreamInv, AckMatchesTaken, Established, Open, OpenStates, Stream
  <1> QED BY <1>1, <1>2, <1>3, NetInvariant, PTL DEF Spec

-----------------------------------------------------------------------------
(* Acknowledgements and bytes sent. *)

\* What was taken is acknowledged by a segment on the network.
AckedInv ==
  \A q \in Ports : Open(q) /\ trace[q].taken # <<>> /\ ~deaf =>
    \E m \in toPeer : m.conn = sockets[q].dst /\ m.ack = sockets[q].ack_num

\* Once a segment could not reach its host, deaf stays.
LEMMA DeafStays ==
  ASSUME NetInv, [Next]_netVars
  PROVE  deaf => deaf'
  <1>1. CASE OtherStep \/ UNCHANGED netVars
    BY <1>1, OtherLeaves DEF NetInv, netVars
  <1>2. ASSUME NEW s, NEW segments, Transmit(s, segments) PROVE deaf => deaf'
    BY <1>2, TransmitAdds
  <1>3. ASSUME NEW p \in Procs,
               \/ Listen(p, Uses[p]) \/ Accept(p, Uses[p]) \/ Close(p, Uses[p])
               \/ \E len \in Lengths : Recv(p, Uses[p], len) \/ Send(p, Uses[p], len)
        PROVE  deaf => deaf'
    BY <1>2, <1>3 DEF Listen, Accept, Close, Recv, Send
  <1>4. ASSUME NEW m, Deliver(m) PROVE deaf => deaf'
    BY <1>2, <1>4 DEF Deliver, TakeSyn, TakeHandshakeAck, TakeFin, TakeLastAck, TakeData
  <1> QED BY <1>1, <1>3, <1>4, StepCases

\* Every step keeps the acknowledgements.
LEMMA AckedNext ==
  ASSUME NetInv, NetInv', AckedInv, [Next]_netVars
  PROVE  AckedInv'
  <1> SUFFICES ASSUME NEW q \in Ports, Open(q)', trace'[q].taken # <<>>, ~deaf'
               PROVE  \E m \in toPeer' : m.conn = sockets'[q].dst /\ m.ack = sockets'[q].ack_num
    BY DEF AckedInv
  <1>0. ~deaf
    BY DeafStays
  <1>1. CASE Quiet(q)
    BY <1>0, <1>1 DEF Quiet, AckedInv
  <1>2. CASE Opens(q)
    BY <1>2 DEF Opens
  <1>3. ASSUME NEW c, NEW m, Takes(q, c, m)
        PROVE  \E x \in toPeer' : x.conn = sockets'[q].dst /\ x.ack = sockets'[q].ack_num
    <2> DEFINE x == [conn |-> sockets[q].dst, flags |-> {"ACK"}, seq |-> sockets[q].seq_num,
                     ack |-> sockets'[q].ack_num, len |-> 0]
    <2>1. x \in toPeer' /\ sockets'[q].dst = sockets[q].dst
      BY <1>3 DEF Takes
    <2>2. x.conn = sockets[q].dst /\ x.ack = sockets'[q].ack_num
      OBVIOUS
    <2> QED BY <2>1, <2>2
  <1>4. ASSUME NEW len, Sends(q, len)
        PROVE  \E x \in toPeer' : x.conn = sockets'[q].dst /\ x.ack = sockets'[q].ack_num
    <2> DEFINE x == [conn |-> sockets[q].dst, flags |-> {"ACK"}, seq |-> sockets[q].seq_num,
                     ack |-> sockets[q].ack_num, len |-> len]
    <2>1. /\ x \in toPeer' /\ sockets'[q].dst = sockets[q].dst
          /\ sockets'[q].ack_num = sockets[q].ack_num
      BY <1>4 DEF Sends
    <2>2. x.conn = sockets[q].dst /\ x.ack = sockets[q].ack_num
      OBVIOUS
    <2> QED BY <2>1, <2>2
  <1> QED BY <1>1, <1>2, <1>3, <1>4, OpenStep

\* What has been taken has been acknowledged on the network, unless a segment
\* could not reach its host: no byte is taken without its acknowledgement.
THEOREM TakenIsAcknowledged == Spec => []TakenIsAcked
  <1>1. Init => AckedInv
    BY DEF Init, AckedInv, Open
  <1>2. NetInv /\ NetInv' /\ AckedInv /\ [Next]_netVars => AckedInv'
    BY AckedNext
  <1>3. AckedInv => TakenIsAcked
    BY DEF AckedInv, TakenIsAcked, Established, Open, OpenStates
  <1> QED BY <1>1, <1>2, <1>3, NetInvariant, PTL DEF Spec

\* Segments go only to hosts whose SYN was taken.
ServedInv ==
  /\ \A m \in toPeer : m.conn \in served
  /\ \A q \in Ports : sockets[q] # NIL /\ sockets[q].dst # NIL => sockets[q].dst \in served

\* A segment sent for a socket whose host is known.
LEMMA TransmitServed ==
  ASSUME ServedInv, NEW t, NEW segments, \A m \in segments : m.conn = t.dst,
         Transmit(t, segments), t.dst = NIL \/ t.dst \in served', served \subseteq served'
  PROVE  \A m \in toPeer' : m.conn \in served'
  <1>1. toPeer' \subseteq toPeer \cup segments /\ (t.dst = NIL => toPeer' = toPeer)
    BY TransmitAdds
  <1> QED BY <1>1 DEF ServedInv

\* Every step keeps it.
LEMMA ServedNext ==
  ASSUME NetInv, ServedInv, [Next]_netVars
  PROVE  ServedInv'
  <1>1. CASE OtherStep \/ UNCHANGED netVars
    <2>1. UNCHANGED <<sockets, toPeer, served>>
      BY <1>1, OtherLeaves DEF NetInv, netVars, socketVars
    <2> QED BY <2>1 DEF ServedInv
  <1>2. ASSUME NEW p \in Procs, Listen(p, Uses[p]) \/ Accept(p, Uses[p])
        PROVE  ServedInv'
    <2>1. Uses[p] \in Ports /\ toPeer' = toPeer /\ served' = served
      BY <1>2, NetAssumption DEF Listen, Accept
    <2>2. ASSUME NEW q \in Ports, sockets'[q] # NIL, sockets'[q].dst # NIL
          PROVE  sockets[q] # NIL /\ sockets'[q].dst = sockets[q].dst
      <3>1. CASE Listen(p, Uses[p])
        BY <2>1, <2>2, <3>1 DEF Listen, NetInv, SocketsOK
      <3>2. CASE Accept(p, Uses[p])
        <4>1. CASE sockets' = sockets
          BY <2>2, <4>1
        <4>2. CASE sockets' # sockets
          <5>1. /\ sockets' = [sockets EXCEPT ![Uses[p]].bind_proc = p] /\ sockets[Uses[p]] # NIL
                /\ sockets[Uses[p]] \in TcpSocket
            BY <2>1, <3>2, <4>2 DEF Accept, NetInv, SocketsOK, Good
          <5> QED BY <2>1, <2>2, <5>1 DEF NetInv, SocketsOK, TcpSocket
        <4> QED BY <4>1, <4>2
      <3> QED BY <1>2, <3>1, <3>2
    <2> QED BY <2>1, <2>2 DEF ServedInv
  <1>3. ASSUME NEW p \in Procs, NEW len,
               Close(p, Uses[p]) \/ Recv(p, Uses[p], len) \/ Send(p, Uses[p], len)
        PROVE  ServedInv'
    <2> DEFINE port == Uses[p]
               s == sockets[port]
    <2>1. /\ port \in Ports /\ s # NIL /\ s \in TcpSocket /\ served' = served
          /\ s.dst = NIL \/ s.dst \in served
      <3>1. proc[p] = "connected" /\ served' = served
        BY <1>3 DEF Close, Recv, Send
      <3> QED BY <3>1, ConnectedSocket, SMTT(30) DEF Good, ServedInv
    <2>2. \A m \in toPeer' : m.conn \in served'
      <3>1. \A flags, n : \A m \in {Segment(s, flags, n)} : m.conn = s.dst
        BY DEF Segment
      <3> HIDE DEF s
      <3>2. CASE Close(p, port)
        <4>1. Transmit(s, {Segment(s, {"FIN", "ACK"}, 0)})
          BY <3>2 DEF Close, s
        <4> QED BY <2>1, <3>1, <4>1, TransmitServed
      <3>3. CASE Send(p, port, len)
        <4>1. Transmit(s, {Segment(s, {"ACK"}, len)})
          BY <3>3 DEF Send, s
        <4> QED BY <2>1, <3>1, <4>1, TransmitServed
      <3>4. CASE Recv(p, port, len)
        BY <2>1, <3>4 DEF Recv, ServedInv
      <3> QED BY <1>3, <3>2, <3>3, <3>4
    <2>3. \A q \in Ports : sockets'[q] # NIL => sockets[q] # NIL /\ sockets'[q].dst = sockets[q].dst
      <3>1. CASE Close(p, port)
        BY <2>1, <3>1 DEF Close, NetInv, SocketsOK
      <3>2. CASE Recv(p, port, len)
        BY <2>1, <3>2 DEF Recv, NetInv, SocketsOK, TcpSocket
      <3>3. CASE Send(p, port, len)
        BY <2>1, <3>3 DEF Send, NetInv, SocketsOK, TcpSocket, AfterSend
      <3> QED BY <1>3, <3>1, <3>2, <3>3
    <2> QED BY <2>1, <2>2, <2>3 DEF ServedInv
  <1>4. ASSUME NEW c \in Conns, NEW m \in OnTheWay(c), Deliver(m)
        PROVE  ServedInv'
    <2> DEFINE port == PortOf[m.conn]
               s == sockets[port]
    <2>1. /\ m.conn = c /\ port \in Ports /\ s # NIL /\ s \in TcpSocket
          /\ s.dst = NIL \/ s.dst \in served
          /\ sockets \in [Ports -> TcpSocket \cup {NIL}]
      <3>1. m.conn = c
        BY MessageFacts DEF NetInv, PeersOK
      <3> QED BY <1>4, <3>1, NetAssumption DEF Deliver, NetInv, SocketsOK, Good, PeersOK, ServedInv
    <2> HIDE DEF port
    <2>2. CASE TakeSyn(port, m)
      <3> DEFINE t == [s EXCEPT !.state = "SYN_RECEIVED", !.dst = m.conn,
                                !.ack_num = (m.seq + 1) % SEQ, !.seq_num = 0]
                 seg == Segment(t, {"SYN", "ACK"}, 0)
      <3>1. /\ Transmit(t, {seg}) /\ served' = served \cup {c}
            /\ sockets' = [sockets EXCEPT ![port] = [t EXCEPT !.seq_num = 1]]
        BY <2>1, <2>2 DEF TakeSyn
      <3>2. t.dst = c /\ [t EXCEPT !.seq_num = 1].dst = c /\ \A x \in {seg} : x.conn = t.dst
        BY <2>1 DEF TcpSocket, Segment
      <3>3. \A q \in Ports : sockets'[q] = IF q = port THEN [t EXCEPT !.seq_num = 1] ELSE sockets[q]
        BY <2>1, <3>1
      <3>4. \A x \in toPeer' : x.conn \in served'
        <4> HIDE DEF t, seg
        <4> QED BY <3>1, <3>2, TransmitServed
      <3>5. \A q \in Ports : sockets'[q] # NIL /\ sockets'[q].dst # NIL => sockets'[q].dst \in served'
        <4> HIDE DEF t, seg
        <4> QED BY <3>1, <3>2, <3>3 DEF ServedInv
      <3> QED BY <3>4, <3>5 DEF ServedInv
    <2>3. CASE TakeHandshakeAck(port, m) \/ TakeLastAck(port, m)
      <3>1. toPeer' = toPeer /\ served' = served
        BY <2>3 DEF TakeHandshakeAck, TakeLastAck
      <3>2. \A q \in Ports : sockets'[q] # NIL => sockets[q] # NIL /\ sockets'[q].dst = sockets[q].dst
        <4> DEFINE u == [s EXCEPT !.state = "ESTABLISHED"]
                   v == [s EXCEPT !.state = "CLOSED"]
        <4>1. u.dst = s.dst /\ v.dst = s.dst
          BY <2>1 DEF TcpSocket
        <4>2. sockets' \in {[sockets EXCEPT ![port] = u], [sockets EXCEPT ![port] = v]}
          BY <2>3 DEF TakeHandshakeAck, TakeLastAck
        <4> HIDE DEF u, v
        <4> QED BY <2>1, <4>1, <4>2
      <3> QED BY <3>1, <3>2 DEF ServedInv
    <2>4. CASE TakeFin(port, m)
      <3> DEFINE t == [s EXCEPT !.state = "CLOSE_WAIT", !.ack_num = (@ + 1) % SEQ]
                 segs == {Segment(t, {"ACK"}, 0), Segment(t, {"FIN", "ACK"}, 0)}
      <3>1. /\ served' = served
            /\ toPeer' = toPeer \/ Transmit(t, segs)
        BY <2>4 DEF TakeFin
      <3>2. t.dst = s.dst /\ \A x \in segs : x.conn = t.dst
        BY <2>1 DEF TcpSocket, Segment
      <3>3. \A q \in Ports : sockets'[q] # NIL => sockets[q] # NIL /\ sockets'[q].dst = sockets[q].dst
        <4> DEFINE v == [s EXCEPT !.state = "CLOSED"]
        <4>1. v.dst = s.dst
          BY <2>1 DEF TcpSocket
        <4>2. sockets' \in {[sockets EXCEPT ![port] = t], [sockets EXCEPT ![port] = v]}
          BY <2>4 DEF TakeFin
        <4> HIDE DEF t, v
        <4> QED BY <2>1, <3>2, <4>1, <4>2
      <3> HIDE DEF t, segs
      <3>4. \A x \in toPeer' : x.conn \in served'
        BY <2>1, <3>1, <3>2, TransmitServed DEF ServedInv
      <3> QED BY <3>1, <3>3, <3>4 DEF ServedInv
    <2>5. CASE TakeData(port, m)
      <3> DEFINE piece == SubSeq(m.data, 1, RealLen(m.data))
                 t == [s EXCEPT !.recv_buffer = Store(@, piece), !.ack_num = (@ + Len(piece)) % SEQ]
                 segs == {DataAck(s, t)}
      <3>1. served' = served /\ Transmit(t, segs) /\ sockets' = [sockets EXCEPT ![port] = t]
        BY <2>5 DEF TakeData
      <3>2. t.dst = s.dst /\ \A x \in segs : x.conn = t.dst
        BY <2>1 DEF TcpSocket, Segment, DataAck
      <3> HIDE DEF t, segs
      <3>3. \A q \in Ports : sockets'[q] # NIL => sockets[q] # NIL /\ sockets'[q].dst = sockets[q].dst
        BY <2>1, <3>1, <3>2
      <3>4. \A x \in toPeer' : x.conn \in served'
        BY <2>1, <3>1, <3>2, TransmitServed DEF ServedInv
      <3> QED BY <3>1, <3>3, <3>4 DEF ServedInv
    <2> QED BY <1>4, <2>2, <2>3, <2>4, <2>5 DEF Deliver, port
  <1>5. ASSUME NEW p \in Procs,
               \/ Listen(p, Uses[p]) \/ Accept(p, Uses[p]) \/ Close(p, Uses[p])
               \/ \E len \in Lengths : Recv(p, Uses[p], len) \/ Send(p, Uses[p], len)
        PROVE  ServedInv'
    BY <1>2, <1>3, <1>5
  <1> QED BY <1>1, <1>4, <1>5, StepCases

\* The segments sent on the connection of a port cover its numbers from 0 on,
\* each once.
Contiguous(q) ==
  LET out == {m \in toPeer : m.conn = sockets[q].dst}
  IN  /\ UNION {Covers(m) : m \in out} = 0 .. sockets[q].seq_num - 1
      /\ \A m1, m2 \in out : m1 # m2 => Covers(m1) \cap Covers(m2) = {}

\* A number is never reused as long as the bytes of MaxSteps requests fit below
\* SEQ: L is a bound on the lengths processes pass to send.
OutInv(L) ==
  /\ steps \in 0 .. MaxSteps
  /\ \A q \in Ports : Open(q) => sockets[q].seq_num <= steps * L + 1
  /\ \A q \in Ports : Open(q) /\ ~trace[q].stray /\ ~deaf => Contiguous(q)

\* The steps are counted up to their bound.
LEMMA StepsGrow ==
  ASSUME steps \in 0 .. MaxSteps, [Next]_netVars
  PROVE  steps' \in steps .. MaxSteps
  <1>1. steps' = steps \/ Step
    <2>1. ASSUME Request PROVE steps' = steps \/ Step
      <3>1. ASSUME NEW p, NEW q, Listen(p, q) \/ Accept(p, q) \/ Close(p, q) PROVE Step
        BY <3>1, ZenonT(30) DEF Listen, Accept, Close
      <3>2. ASSUME NEW p, NEW q, NEW len,
                   Recv(p, q, len) \/ RecvNull(p, q, len) \/ Send(p, q, len)
            PROVE  Step
        <4>1. CASE Recv(p, q, len)
          BY <4>1, ZenonT(30) DEF Recv
        <4>2. CASE Send(p, q, len)
          BY <4>2, ZenonT(30) DEF Send
        <4>3. CASE RecvNull(p, q, len)
          BY <4>3, ZenonT(30) DEF RecvNull
        <4> QED BY <3>2, <4>1, <4>2, <4>3
      <3>3. ASSUME NEW new, ConfNet(new) PROVE steps' = steps
        BY <3>3, ZenonT(30) DEF ConfNet, ArpStep
      <3>4. ASSUME Ping PROVE steps' = steps
        BY <3>4, ZenonT(30) DEF Ping, ArpStep
      <3> QED BY <2>1, <3>1, <3>2, <3>3, <3>4, ZenonT(30) DEF Request
    <2>2. ASSUME NEW m, Deliver(m) PROVE Step
      BY <2>2, ZenonT(30) DEF Deliver, TakeSyn, TakeHandshakeAck, TakeFin, TakeLastAck, TakeData
    <2>3. ASSUME Packet PROVE steps' = steps \/ Step
      BY <2>2, <2>3, ZenonT(30) DEF Packet, ArpReply, ArpRequest, ArpStep
    <2>4. ASSUME RemoteHost PROVE steps' = steps
      BY <2>4, ZenonT(30) DEF RemoteHost, PeerSyn, PeerOpen, PeerData, PeerEnd
    <2>5. ASSUME UNCHANGED netVars PROVE steps' = steps
      BY <2>5 DEF netVars
    <2> QED BY <2>1, <2>3, <2>4, <2>5 DEF Next
  <1> QED BY <1>1, NetAssumption DEF Step

\* A segment without data and SYN covers nothing, one with a SYN alone its
\* number, and one with data as many numbers as it has bytes.
LEMMA CoversIs ==
  ASSUME NEW m, m.seq \in Nat, m.len \in Nat, m.seq + m.len < SEQ
  PROVE  /\ m.flags = {"ACK"} => Covers(m) = m.seq .. m.seq + m.len - 1
         /\ m.flags = {"SYN", "ACK"} /\ m.seq = 0 /\ m.len = 0 => Covers(m) = 0 .. 0
  <1>0. SEQ \in Nat \ {0, 1}
    BY NetAssumption
  <1>1. ASSUME m.flags = {"ACK"}
        PROVE  Covers(m) = m.seq .. m.seq + m.len - 1
    <2>1. "SYN" \notin m.flags
      BY <1>1
    <2>2. Covers(m) = {(m.seq + k) % SEQ : k \in 0 .. m.len - 1}
      <3>1. m.len - 1 + 0 = m.len - 1
        OBVIOUS
      <3> QED BY <2>1, <3>1 DEF Covers
    <2>3. \A k \in 0 .. m.len - 1 : (m.seq + k) % SEQ = m.seq + k
      BY <1>0
    <2>4. Covers(m) = {m.seq + k : k \in 0 .. m.len - 1}
      BY <2>2, <2>3
    <2>5. \A x \in m.seq .. m.seq + m.len - 1 : x - m.seq \in 0 .. m.len - 1 /\ x = m.seq + (x - m.seq)
      OBVIOUS
    <2> QED BY <2>4, <2>5
  <1>2. ASSUME m.flags = {"SYN", "ACK"}, m.seq = 0, m.len = 0
        PROVE  Covers(m) = 0 .. 0
    <2>1. "SYN" \in m.flags
      BY <1>2
    <2>2. Covers(m) = {(0 + k) % SEQ : k \in 0 .. 0 - 1 + 1}
      BY <1>2, <2>1 DEF Covers
    <2>3. 0 .. 0 - 1 + 1 = {0} /\ (0 + 0) % SEQ = 0 /\ 0 .. 0 = {0}
      BY <1>0
    <2> QED BY <2>2, <2>3
  <1> QED BY <1>1, <1>2

\* A segment that continues where the others end keeps them contiguous.
LEMMA ExtendsContiguous ==
  ASSUME NEW q \in Ports, Contiguous(q), NEW x, x.conn = sockets[q].dst,
         sockets'[q].dst = sockets[q].dst, toPeer' = toPeer \cup {x},
         sockets[q].seq_num \in Nat, sockets'[q].seq_num \in Nat,
         sockets[q].seq_num <= sockets'[q].seq_num,
         Covers(x) = sockets[q].seq_num .. sockets'[q].seq_num - 1
  PROVE  Contiguous(q)'
  <1> DEFINE out == {m \in toPeer : m.conn = sockets[q].dst}
             n == sockets[q].seq_num
             n2 == sockets'[q].seq_num
  <1>1. out' = out \cup {x}
    OBVIOUS
  <1>2. UNION {Covers(m) : m \in out} = 0 .. n - 1
    BY DEF Contiguous
  <1>3. \A m \in out : Covers(m) \subseteq 0 .. n - 1
    BY <1>2
  <1>4. UNION {Covers(m) : m \in out \cup {x}} = (UNION {Covers(m) : m \in out}) \cup Covers(x)
    OBVIOUS
  <1> HIDE DEF out
  <1>5. (0 .. n - 1) \cup (n .. n2 - 1) = 0 .. n2 - 1 /\ (0 .. n - 1) \cap (n .. n2 - 1) = {}
    OBVIOUS
  <1>6. UNION {Covers(m) : m \in out \cup {x}} = 0 .. n2 - 1
    BY <1>2, <1>4, <1>5
  <1>7. \A m1, m2 \in out : m1 # m2 => Covers(m1) \cap Covers(m2) = {}
    BY DEF Contiguous, out
  <1>8. \A m1, m2 \in out \cup {x} : m1 # m2 => Covers(m1) \cap Covers(m2) = {}
    BY <1>3, <1>5, <1>7
  <1>9. {m \in toPeer' : m.conn = sockets'[q].dst} = out \cup {x}
    BY <1>1 DEF out
  <1> QED BY <1>6, <1>8, <1>9, Zenon DEF Contiguous

\* Every step keeps them contiguous.
LEMMA OutNext ==
  ASSUME NEW L \in Nat, \A len \in Lengths : len <= L, MaxSteps * L + 1 < SEQ,
         NetInv, NetInv', ServedInv, OutInv(L), [Next]_netVars
  PROVE  OutInv(L)'
  <1>0. /\ MaxSteps \in Nat /\ steps \in Nat /\ steps' \in Nat /\ steps <= steps'
        /\ steps' <= MaxSteps /\ steps' \in 0 .. MaxSteps /\ SEQ \in Nat
        /\ steps * L \in Nat /\ steps' * L \in Nat /\ MaxSteps * L \in Nat
    BY StepsGrow, NetAssumption DEF OutInv
  <1>1. steps * L <= steps' * L /\ steps' * L <= MaxSteps * L
    <2>1. \A a, b \in Nat : a <= b => a * L <= b * L
      OBVIOUS
    <2> QED BY <1>0, <2>1
  <1> SUFFICES ASSUME NEW q \in Ports, Open(q)'
               PROVE  /\ sockets'[q].seq_num <= steps' * L + 1
                      /\ ~trace'[q].stray /\ ~deaf' => Contiguous(q)'
    BY <1>0 DEF OutInv
  <1>2. sockets'[q].seq_num \in Nat /\ sockets'[q].dst \in Conns
    BY DEF Open, OpenStates, NetInv, SocketsOK, Good, TcpSocket
  <1>3. deaf => deaf'
    BY DeafStays
  <1>4. ASSUME Open(q)
        PROVE  /\ sockets[q].seq_num \in Nat /\ sockets[q].seq_num <= steps * L + 1
               /\ sockets[q].seq_num <= steps' * L + 1
               /\ ~trace[q].stray /\ ~deaf => Contiguous(q)
    <2>1. sockets[q].seq_num \in Nat /\ sockets[q].seq_num <= steps * L + 1
      BY <1>4 DEF Open, NetInv, SocketsOK, Good, TcpSocket, OutInv
    <2>2. sockets[q].seq_num <= steps' * L + 1
      BY <1>0, <1>1, <2>1
    <2>3. ~trace[q].stray /\ ~deaf => Contiguous(q)
      BY <1>4 DEF OutInv
    <2> QED BY <2>1, <2>2, <2>3
  <1>5. CASE Quiet(q)
    <2>1. Open(q) /\ sockets'[q].seq_num = sockets[q].seq_num /\ sockets'[q].dst = sockets[q].dst
          /\ trace'[q].stray = trace[q].stray
      BY <1>5 DEF Quiet
    <2>2. {m \in toPeer' : m.conn = sockets'[q].dst} = {m \in toPeer : m.conn = sockets[q].dst}
      BY <1>5 DEF Quiet
    <2>3. Contiguous(q) => Contiguous(q)'
      BY <2>1, <2>2, Zenon DEF Contiguous
    <2> QED BY <1>3, <1>4, <2>1, <2>3
  <1>6. CASE Opens(q)
    <2> DEFINE x == [conn |-> sockets'[q].dst, flags |-> {"SYN", "ACK"}, seq |-> 0,
                     ack |-> sockets'[q].ack_num, len |-> 0]
    <2>1. sockets'[q].seq_num = 1
      BY <1>6 DEF Opens
    <2>2. ASSUME ~trace'[q].stray, ~deaf' PROVE Contiguous(q)'
      <3>1. toPeer' = toPeer \cup {x} /\ sockets'[q].dst \notin served
        BY <1>6, <2>2 DEF Opens
      <3>2. {m \in toPeer' : m.conn = sockets'[q].dst} = {x}
        BY <3>1 DEF ServedInv
      <3>3. Covers(x) = 0 .. 0
        <4>1. x.seq = 0 /\ x.len = 0 /\ x.flags = {"SYN", "ACK"}
          OBVIOUS
        <4>2. 0 + 0 < SEQ
          BY NetAssumption
        <4> HIDE DEF x
        <4> QED BY <4>1, <4>2, CoversIs
      <3> HIDE DEF x
      <3>4. UNION {Covers(m) : m \in {x}} = 0 .. 0 /\ 0 .. 1 - 1 = 0 .. 0
        BY <3>3
      <3>5. UNION {Covers(m) : m \in {m \in toPeer' : m.conn = sockets'[q].dst}}
              = 0 .. sockets'[q].seq_num - 1
        BY <2>1, <3>2, <3>4
      <3>6. \A m1, m2 \in {m \in toPeer' : m.conn = sockets'[q].dst} :
              m1 # m2 => Covers(m1) \cap Covers(m2) = {}
        BY <3>2
      <3> QED BY <3>5, <3>6, Zenon DEF Contiguous
    <2> QED BY <1>0, <2>1, <2>2
  <1>7. ASSUME NEW c, NEW m, Takes(q, c, m)
        PROVE  /\ sockets'[q].seq_num <= steps' * L + 1
               /\ ~trace'[q].stray /\ ~deaf' => Contiguous(q)'
    <2> DEFINE x == [conn |-> sockets[q].dst, flags |-> {"ACK"}, seq |-> sockets[q].seq_num,
                     ack |-> sockets'[q].ack_num, len |-> 0]
    <2>1. Open(q) /\ sockets'[q].seq_num = sockets[q].seq_num /\ sockets'[q].dst = sockets[q].dst
          /\ trace'[q].stray = trace[q].stray /\ (~deaf' => toPeer' = toPeer \cup {x})
      BY <1>7 DEF Takes
    <2>2. Covers(x) = sockets[q].seq_num .. sockets[q].seq_num - 1
      <3>1. x.seq = sockets[q].seq_num /\ x.len = 0 /\ x.flags = {"ACK"}
        OBVIOUS
      <3>2. sockets[q].seq_num < SEQ
        BY <1>0, <1>1, <1>4, <2>1
      <3>3. sockets[q].seq_num + 0 = sockets[q].seq_num
        BY <1>4, <2>1
      <3> HIDE DEF x
      <3> QED BY <1>4, <2>1, <3>1, <3>2, <3>3, CoversIs
    <2>3. x.conn = sockets[q].dst
      OBVIOUS
    <2> HIDE DEF x
    <2>4. ~deaf' /\ Contiguous(q) => Contiguous(q)'
      BY <1>2, <1>4, <2>1, <2>2, <2>3, ExtendsContiguous
    <2> QED BY <1>3, <1>4, <2>1, <2>4
  <1>8. ASSUME NEW len \in Lengths, Sends(q, len)
        PROVE  /\ sockets'[q].seq_num <= steps' * L + 1
               /\ ~trace'[q].stray /\ ~deaf' => Contiguous(q)'
    <2> DEFINE x == [conn |-> sockets[q].dst, flags |-> {"ACK"}, seq |-> sockets[q].seq_num,
                     ack |-> sockets[q].ack_num, len |-> len]
               n == sockets[q].seq_num
    <2>1. /\ Open(q) /\ sockets'[q].seq_num = (n + len) % SEQ
          /\ sockets'[q].dst = sockets[q].dst /\ steps' = steps + 1
          /\ trace'[q].stray = trace[q].stray /\ (~deaf' => toPeer' = toPeer \cup {x})
      BY <1>8 DEF Sends
    <2>2. n \in Nat /\ n <= steps * L + 1 /\ len \in Nat /\ len <= L
      BY <1>4, <2>1, NetAssumption
    <2>3. (steps + 1) * L = steps * L + L
      BY <1>0
    <2>4. n + len <= steps' * L + 1 /\ n + len < SEQ
      BY <1>0, <1>1, <2>1, <2>2, <2>3
    <2>5. sockets'[q].seq_num = n + len
      <3>1. \A y \in Nat : y < SEQ => y % SEQ = y
        BY NetAssumption
      <3>2. n + len \in Nat
        BY <2>2
      <3> QED BY <2>1, <2>4, <3>1, <3>2
    <2>6. Covers(x) = n .. n + len - 1
      <3>1. x.seq = n /\ x.len = len /\ x.flags = {"ACK"}
        OBVIOUS
      <3> HIDE DEF x, n
      <3> QED BY <2>2, <2>4, <3>1, CoversIs
    <2>7. x.conn = sockets[q].dst
      OBVIOUS
    <2> HIDE DEF x
    <2>8. ~deaf' /\ Contiguous(q) => Contiguous(q)'
      <3>1. n \in Nat /\ sockets'[q].seq_num \in Nat /\ n <= sockets'[q].seq_num
        BY <2>2, <2>5
      <3>2. Covers(x) = n .. sockets'[q].seq_num - 1
        <4>1. PICK k : k = n + len
          OBVIOUS
        <4>2. Covers(x) = n .. k - 1
          BY <2>2, <2>6, <4>1
        <4>3. sockets'[q].seq_num = k
          BY <2>5, <4>1
        <4> QED BY <4>2, <4>3
      <3> QED BY <1>2, <2>1, <2>7, <3>1, <3>2, ExtendsContiguous
    <2> QED BY <1>3, <1>4, <2>1, <2>4, <2>5, <2>8
  <1> QED BY <1>5, <1>6, <1>7, <1>8, OpenStep

\* The segments sent on a connection cover its sequence numbers from 0 on
\* without a gap and without an overlap, as long as what MaxSteps requests can
\* send fits below SEQ.
THEOREM SentIsContiguous ==
  ASSUME NEW L \in Nat, \A len \in Lengths : len <= L, MaxSteps * L + 1 < SEQ
  PROVE  Spec => []OutContiguous
  <1>1. Init => ServedInv /\ OutInv(L)
    BY NetAssumption DEF Init, ServedInv, OutInv, Open
  <1>2. NetInv /\ NetInv' /\ ServedInv /\ OutInv(L) /\ [Next]_netVars => ServedInv' /\ OutInv(L)'
    BY ServedNext, OutNext
  <1>3. OutInv(L) => OutContiguous
    BY DEF OutInv, OutContiguous, Contiguous, Established, Open, OpenStates
  <1> QED BY <1>1, <1>2, <1>3, NetInvariant, PTL DEF Spec

-----------------------------------------------------------------------------
(* The hosts in the ARP table. *)

Known == heard \cup {<<OWN_MAC, OWN_IP>>}

\* No more hosts than items, and none with two internet addresses.
Fits(K) ==
  /\ Cardinality(K) <= NITEMS
  /\ \A h1, h2 \in K : h1[1] = h2[1] => h1 = h2

\* Every used item is a known host, every known host has an item, and no two
\* items have the same hardware address.
Exact(t, K) ==
  /\ \A i \in Items : t[i].mac # mac_zero => <<t[i].mac, t[i].ip>> \in K
  /\ \A h \in K : \E i \in Items : h = <<t[i].mac, t[i].ip>>
  /\ \A i, j \in Items : t[i].mac # mac_zero /\ t[i].mac = t[j].mac => i = j

HostsInv ==
  /\ IsFiniteSet(heard)
  /\ \A h \in Known : h[1] # mac_zero
  /\ \A i \in Items : items[i].mac = mac_zero => items[i].ip = ip_zero
  /\ Fits(Known) => Exact(items, Known)

\* The addresses of the table are left alone.
SameAddresses(t, u) == \A i \in Items : u[i].mac = t[i].mac /\ u[i].ip = t[i].ip

\* Looking up and sending count uses only.
LEMMA TouchSame ==
  ASSUME NEW t \in Table, NEW slot \in Items \cup {-1}
  PROVE  SameAddresses(t, Touch(t, slot))
  BY DEF Touch, Table, SameAddresses

\* So does sending.
LEMMA TransmitSame ==
  ASSUME items \in Table, NEW s, NEW segments, Transmit(s, segments)
  PROVE  SameAddresses(items, items')
  <1>1. locate_ip_addr(items, GW_IP) \in Items \cup {-1}
    BY LocateType
  <1> QED BY <1>1 DEF Transmit, Table, SameAddresses

\* Everything but an ARP reply leaves the addresses and the hosts heard alone.
LEMMA AddressesStay ==
  ASSUME NetInv, [Next]_netVars
  PROVE  \/ SameAddresses(items, items') /\ heard' = heard
         \/ \E host \in Hosts \cup {<<GW_MAC, GW_IP>>} : ArpReply(host[1], host[2])
  <1>0. items \in Table /\ SameAddresses(items, items)
    BY DEF NetInv, SameAddresses
  <1>1. CASE OtherStep \/ UNCHANGED netVars
    <2>1. CASE RemoteHost \/ UNCHANGED netVars \/ \E new \in NewIPs : ConfNet(new)
      <3>1. items' = items /\ heard' = heard
        BY <2>1 DEF RemoteHost, PeerSyn, PeerOpen, PeerData, PeerEnd, ConfNet, arpVars, netVars
      <3> QED BY <1>0, <3>1
    <2>2. CASE Ping
      BY <1>0, <2>2, TouchSame, LocateType DEF Ping
    <2>3. ASSUME NEW target, ArpRequest(target)
          PROVE  SameAddresses(items, items') /\ heard' = heard
      BY <1>0, <2>3, TouchSame, LocateType DEF ArpRequest
    <2>4. ASSUME NEW p, NEW len, RecvNull(p, Uses[p], len)
          PROVE  SameAddresses(items, items') /\ heard' = heard
      BY <1>0, <2>4 DEF RecvNull, arpVars
    <2> QED BY <1>1, <2>1, <2>2, <2>3, <2>4 DEF OtherStep
  <1>2. ASSUME NEW p \in Procs,
               \/ Listen(p, Uses[p]) \/ Accept(p, Uses[p]) \/ Close(p, Uses[p])
               \/ \E len \in Lengths : Recv(p, Uses[p], len) \/ Send(p, Uses[p], len)
        PROVE  SameAddresses(items, items') /\ heard' = heard
    <2>1. CASE Listen(p, Uses[p]) \/ Accept(p, Uses[p]) \/ \E len \in Lengths : Recv(p, Uses[p], len)
      <3>1. items' = items /\ heard' = heard
        BY <2>1 DEF Listen, Accept, Recv, arpVars
      <3> QED BY <1>0, <3>1
    <2>2. CASE Close(p, Uses[p])
      BY <1>0, <2>2, TransmitSame DEF Close
    <2>3. ASSUME NEW len \in Lengths, Send(p, Uses[p], len)
          PROVE  SameAddresses(items, items') /\ heard' = heard
      BY <1>0, <2>3, TransmitSame DEF Send
    <2> QED BY <1>2, <2>1, <2>2, <2>3
  <1>3. ASSUME NEW m, Deliver(m)
        PROVE  SameAddresses(items, items') /\ heard' = heard
    <2> DEFINE port == PortOf[m.conn]
    <2>1. CASE TakeHandshakeAck(port, m) \/ TakeLastAck(port, m)
      <3>1. items' = items /\ heard' = heard
        BY <2>1 DEF TakeHandshakeAck, TakeLastAck, arpVars
      <3> QED BY <1>0, <3>1
    <2>2. CASE TakeSyn(port, m) \/ TakeData(port, m)
      BY <1>0, <2>2, TransmitSame DEF TakeSyn, TakeData
    <2>3. CASE TakeFin(port, m)
      BY <1>0, <2>3, TransmitSame DEF TakeFin
    <2> QED BY <1>3, <2>1, <2>2, <2>3 DEF Deliver
  <1> QED BY <1>1, <1>2, <1>3, StepCases

\* As long as the hosts fit, one more finds its item or a free one.
LEMMA AppendExact ==
  ASSUME NEW t \in Table, NEW K, IsFiniteSet(K), NEW mac \in Macs \ {mac_zero}, NEW ip \in Ips,
         \A h \in K : h[1] # mac_zero, Exact(t, K), Fits(K \cup {<<mac, ip>>})
  PROVE  Exact(append(t, mac, ip), K \cup {<<mac, ip>>})
  <1> DEFINE new == <<mac, ip>>
             slot == locate_mac_addr(t, mac)
             free == get_free_slot(t)
  <1>0. new[1] = mac /\ new[2] = ip
    OBVIOUS
  <1>1. CASE \E h \in K : h[1] = mac
    <2>1. PICK h \in K : h[1] = mac
      BY <1>1
    <2>2. h = new /\ K \cup {new} = K
      <3>1. h[1] = new[1] /\ h \in K \cup {new} /\ new \in K \cup {new}
        BY <1>0, <2>1
      <3>2. h = new
        BY <3>1, Zenon DEF Fits
      <3> QED BY <2>1, <3>2
    <2>3. PICK i \in Items : h = <<t[i].mac, t[i].ip>>
      BY <2>1 DEF Exact
    <2>4. t[i].mac = mac
      BY <2>1, <2>3
    <2>5. slot \in Items /\ t[slot].mac = mac
      <3> DEFINE S == {j \in Items : t[j].mac = mac}
      <3>1. S \subseteq Items /\ i \in S
        BY <2>4
      <3> HIDE DEF S
      <3>2. First(S) \in S
        BY <3>1, FirstIs
      <3> QED BY <3>2 DEF S, locate_mac_addr
    <2>6. <<t[slot].mac, t[slot].ip>> \in K
      BY <2>5 DEF Exact
    <2>7. t[slot].ip = ip
      <3>1. <<t[slot].mac, t[slot].ip>>[1] = mac
        BY <2>5
      <3>2. <<t[slot].mac, t[slot].ip>> = new
        BY <1>0, <2>6, <3>1 DEF Fits
      <3> QED BY <3>2
    <2>8. slot # -1
      BY <2>5, ArpAssumption DEF Items
    <2>9. append(t, mac, ip) = Touch(t, slot)
      BY <2>7, <2>8 DEF append
    <2> HIDE DEF slot
    <2>10. SameAddresses(t, append(t, mac, ip))
      BY <2>5, <2>9, TouchSame
    <2> QED BY <2>2, <2>10 DEF Exact, SameAddresses
  <1>2. CASE ~ \E h \in K : h[1] = mac
    <2>1. \A i \in Items : t[i].mac # mac
      <3> SUFFICES ASSUME NEW i \in Items, t[i].mac = mac PROVE FALSE
        OBVIOUS
      <3>1. <<t[i].mac, t[i].ip>> \in K
        BY DEF Exact
      <3>2. <<t[i].mac, t[i].ip>>[1] = mac
        OBVIOUS
      <3> QED BY <1>2, <3>1, <3>2
    <2>2. slot = -1
      <3>1. {j \in Items : t[j].mac = mac} = {}
        BY <2>1
      <3> QED BY <3>1 DEF locate_mac_addr, First
    <2>3. Cardinality(K) + 1 <= NITEMS /\ Cardinality(K) \in Nat
      <3>1. new \notin K
        BY <1>0, <1>2
      <3>2. Cardinality(K \cup {new}) = Cardinality(K) + 1
        BY <3>1, FS_AddElement
      <3> QED BY <3>2, FS_CardinalityType DEF Fits
    <2>4. \E i \in Items : t[i].mac = mac_zero
      <3> SUFFICES ASSUME \A i \in Items : t[i].mac # mac_zero PROVE FALSE
        OBVIOUS
      <3> DEFINE f == [i \in Items |-> <<t[i].mac, t[i].ip>>]
      <3>1. f \in [Items -> K]
        BY DEF Exact
      <3>2. ASSUME NEW i \in Items, NEW j \in Items, f[i] = f[j] PROVE i = j
        <4>1. t[i].mac = t[j].mac
          BY <3>2
        <4> QED BY <4>1 DEF Exact
      <3>3. f \in Injection(Items, K)
        BY <3>1, <3>2 DEF Injection, IsInjective
      <3>4. Cardinality(Items) <= Cardinality(K)
        BY <3>3, FS_Injection
      <3>5. Cardinality(Items) = NITEMS
        <4>1. 0 \in Int /\ NITEMS - 1 \in Int
          BY ArpAssumption
        <4>2. Cardinality(0 .. NITEMS - 1) = IF 0 > NITEMS - 1 THEN 0 ELSE (NITEMS - 1) - 0 + 1
          BY <4>1, FS_Interval
        <4> QED BY <4>2, ArpAssumption DEF Items
      <3> QED BY <2>3, <3>4, <3>5, ArpAssumption
    <2>5. free \in Items /\ t[free].mac = mac_zero /\ free # -1
      <3> DEFINE S == {j \in Items : t[j].mac = mac_zero}
      <3>1. S \subseteq Items /\ S # {}
        BY <2>4
      <3> HIDE DEF S
      <3>2. First(S) \in S /\ First(S) # -1
        BY <3>1, FirstIs
      <3> QED BY <3>2 DEF S, get_free_slot
    <2>6. append(t, mac, ip) = set_item(t, free, mac, ip)
      BY <2>2, <2>5 DEF append, Touch
    <2> DEFINE u == append(t, mac, ip)
    <2> HIDE DEF free, slot
    <2>7. /\ u[free].mac = mac /\ u[free].ip = ip
          /\ \A i \in Items \ {free} : u[i].mac = t[i].mac /\ u[i].ip = t[i].ip
      BY <2>5, <2>6 DEF set_item, Table
    <2> HIDE DEF u
    <2>8. ASSUME NEW i \in Items, u[i].mac # mac_zero
          PROVE  <<u[i].mac, u[i].ip>> \in K \cup {new}
      BY <2>7, <2>8 DEF Exact
    <2>9. ASSUME NEW h \in K \cup {new}
          PROVE  \E i \in Items : h = <<u[i].mac, u[i].ip>>
      <3>1. CASE h = new
        BY <2>5, <2>7, <3>1
      <3>2. CASE h \in K
        <4>1. PICK i \in Items : h = <<t[i].mac, t[i].ip>>
          BY <3>2 DEF Exact
        <4>2. i # free
          BY <2>5, <3>2, <4>1
        <4> QED BY <2>7, <4>1, <4>2
      <3> QED BY <3>1, <3>2
    <2>10. ASSUME NEW i \in Items, NEW j \in Items, u[i].mac # mac_zero, u[i].mac = u[j].mac
           PROVE  i = j
      BY <2>1, <2>7, <2>10 DEF Exact
    <2> QED BY <2>8, <2>9, <2>10 DEF Exact, u
  <1> QED BY <1>1, <1>2

\* The hosts fit now if they fit with one more.
LEMMA FitsBefore ==
  ASSUME NEW K, IsFiniteSet(K), NEW x, Fits(K \cup {x})
  PROVE  Fits(K)
  <1>1. /\ Cardinality(K) \in Nat /\ IsFiniteSet(K \cup {x})
        /\ Cardinality(K \cup {x}) \in Nat /\ Cardinality(K) <= Cardinality(K \cup {x})
    BY FS_AddElement, FS_CardinalityType, FS_Subset
  <1> QED BY <1>1, ArpAssumption DEF Fits

\* Every step keeps the table exact.
LEMMA HostsNext ==
  ASSUME mac_zero \notin {OWN_MAC, GW_MAC} \cup {h[1] : h \in Hosts},
         NetInv, HostsInv, [Next]_netVars
  PROVE  HostsInv'
  <1>0. items \in Table
    BY DEF NetInv
  <1>1. CASE SameAddresses(items, items') /\ heard' = heard
    <2>1. Known' = Known
      BY <1>1 DEF Known
    <2>2. Exact(items, Known) => Exact(items', Known)
      BY <1>1 DEF Exact, SameAddresses
    <2> QED BY <1>1, <2>1, <2>2 DEF HostsInv, SameAddresses
  <1>2. ASSUME NEW host \in Hosts \cup {<<GW_MAC, GW_IP>>}, ArpReply(host[1], host[2])
        PROVE  HostsInv'
    <2> DEFINE mac == host[1]
               ip == host[2]
               new == <<mac, ip>>
    <2>1. mac \in Macs \ {mac_zero} /\ ip \in Ips
      BY DEF Macs, Ips
    <2>2. items' = append(items, mac, ip) /\ heard' = heard \cup {new}
      BY <1>2 DEF ArpReply
    <2>3. Known' = Known \cup {new} /\ new[1] # mac_zero
      BY <2>1, <2>2 DEF Known
    <2> HIDE DEF mac, ip, new
    <2>4. IsFiniteSet(heard') /\ IsFiniteSet(Known)
      BY <2>2, FS_AddElement DEF HostsInv, Known
    <2>5. \A h \in Known' : h[1] # mac_zero
      BY <2>3 DEF HostsInv
    <2>6. ASSUME NEW i \in Items, items'[i].mac = mac_zero
          PROVE  items'[i].ip = ip_zero
      <3> DEFINE slot == locate_mac_addr(items, mac)
                 touched == Touch(items, slot)
                 free == get_free_slot(items)
                 at == IF free = -1 THEN remove_less_use_item(touched) ELSE free
      <3>1. touched \in Table /\ SameAddresses(items, touched)
        BY <1>0, LocateType, TouchType, TouchSame
      <3>2. items' \in {touched, set_item(touched, at, mac, ip)}
        BY <2>2 DEF append
      <3> HIDE DEF touched, at
      <3>3. CASE items' = touched
        BY <2>6, <3>1, <3>3 DEF HostsInv, SameAddresses
      <3>4. CASE items' = set_item(touched, at, mac, ip)
        <4>1. CASE i = at
          BY <2>1, <2>6, <3>1, <3>4, <4>1 DEF set_item, Table
        <4>2. CASE i # at
          <5>1. items'[i] = touched[i]
            BY <3>1, <3>4, <4>2 DEF set_item, Table
          <5> QED BY <2>6, <3>1, <5>1 DEF HostsInv, SameAddresses
        <4> QED BY <4>1, <4>2
      <3> QED BY <3>2, <3>3, <3>4
    <2>7. ASSUME Fits(Known') PROVE Exact(items', Known')
      <3>1. Fits(Known)
        BY <2>3, <2>4, <2>7, FitsBefore
      <3>2. Exact(items, Known) /\ \A h \in Known : h[1] # mac_zero
        BY <3>1 DEF HostsInv
      <3> QED BY <1>0, <2>1, <2>2, <2>3, <2>4, <2>7, <3>2, AppendExact DEF new
    <2> QED BY <2>4, <2>5, <2>6, <2>7 DEF HostsInv
  <1> QED BY <1>1, <1>2, AddressesStay

\* The ARP table holds exactly the interface's first address and the hosts
\* heard, as long as they fit and none has two internet addresses: neither a
\* lookup nor sending nor an answer repeated displaces one, for any number of
\* items.
THEOREM HostsAreKept ==
  ASSUME mac_zero \notin {OWN_MAC, GW_MAC} \cup {h[1] : h \in Hosts}
  PROVE  Spec => []KnownHostsKept
  <1>1. Init => HostsInv
    <2> SUFFICES ASSUME Init PROVE HostsInv
      OBVIOUS
    <2>1. /\ 0 \in Items /\ items[0].mac = OWN_MAC /\ items[0].ip = OWN_IP
          /\ \A i \in Items \ {0} : items[i].mac = mac_zero /\ items[i].ip = ip_zero
      BY ArpAssumption DEF Init, set_item, EmptyTable, Items
    <2>2. Known = {<<OWN_MAC, OWN_IP>>} /\ heard = {}
      BY DEF Init, Known
    <2>3. Exact(items, Known)
      BY <2>1, <2>2 DEF Exact
    <2> QED BY <2>1, <2>2, <2>3, FS_EmptySet DEF HostsInv
  <1>2. NetInv /\ HostsInv /\ [Next]_netVars => HostsInv'
    BY HostsNext
  <1>3. HostsInv => KnownHostsKept
    <2> SUFFICES ASSUME HostsInv, Fits(Known)
                 PROVE  {<<items[i].mac, items[i].ip>> : i \in Items} \ {<<mac_zero, ip_zero>>}
                          = Known
      BY DEF KnownHostsKept, Fits, Known
    <2>1. Exact(items, Known) /\ (\A h \in Known : h[1] # mac_zero)
          /\ \A i \in Items : items[i].mac = mac_zero => items[i].ip = ip_zero
      BY DEF HostsInv
    <2>2. ASSUME NEW i \in Items, <<items[i].mac, items[i].ip>> # <<mac_zero, ip_zero>>
          PROVE  <<items[i].mac, items[i].ip>> \in Known
      BY <2>1, <2>2 DEF Exact
    <2>3. ASSUME NEW h \in Known
          PROVE  h # <<mac_zero, ip_zero>> /\ \E i \in Items : h = <<items[i].mac, items[i].ip>>
      BY <2>1 DEF Exact
    <2> QED BY <2>2, <2>3
  <1> QED BY <1>1, <1>2, <1>3, NetInvariant, PTL DEF Spec

-----------------------------------------------------------------------------
(* What a process reads. *)

\* A function that FlattenSeq may have built on its way through buffers.
IsFlat(s, f) ==
  /\ FlattenSeq(s) = f[Len(s)]
  /\ f[1] = s[1]
  /\ \A k \in 2 .. Len(s) : f[k] = f[k - 1] \o s[k]

\* The function of FlattenSeq exists: it is defined buffer after buffer.
LEMMA FlattenUnfold ==
  ASSUME NEW s, Len(s) \in Nat \ {0}
  PROVE  \E f : IsFlat(s, f)
  <1> DEFINE Body(f, n) == [i \in 1 .. n |-> IF i = 1 THEN s[i] ELSE f[i - 1] \o s[i]]
             S == {n \in Nat : \E f : f = Body(f, n)}
             m == Len(s)
  <1>1. 0 \in S
    <2>1. [i \in 1 .. 0 |-> 0] = Body([i \in 1 .. 0 |-> 0], 0)
      OBVIOUS
    <2> QED BY <2>1
  <1>2. ASSUME NEW n \in Nat, n \in S
        PROVE  n + 1 \in S
    <2>1. PICK f : f = Body(f, n)
      BY <1>2
    <2> DEFINE g == [i \in 1 .. n + 1 |-> IF i = 1 THEN s[i] ELSE f[i - 1] \o s[i]]
    <2>2. \A i \in 1 .. n : g[i] = f[i]
      <3> SUFFICES ASSUME NEW i \in 1 .. n PROVE g[i] = f[i]
        OBVIOUS
      <3>1. f[i] = IF i = 1 THEN s[i] ELSE f[i - 1] \o s[i]
        BY <2>1
      <3> QED BY <3>1
    <2>3. \A i \in 1 .. n + 1 : i # 1 => g[i - 1] = f[i - 1]
      <3> HIDE DEF g
      <3>1. \A i \in 1 .. n + 1 : i # 1 => i - 1 \in 1 .. n
        OBVIOUS
      <3> QED BY <2>2, <3>1, Zenon
    <2>4. \A i \in 1 .. n + 1 : g[i] = IF i = 1 THEN s[i] ELSE g[i - 1] \o s[i]
      <3> SUFFICES ASSUME NEW i \in 1 .. n + 1
                   PROVE  g[i] = IF i = 1 THEN s[i] ELSE g[i - 1] \o s[i]
        OBVIOUS
      <3>1. g[i] = IF i = 1 THEN s[i] ELSE f[i - 1] \o s[i]
        OBVIOUS
      <3> HIDE DEF g
      <3> QED BY <2>3, <3>1
    <2>5. g = [i \in 1 .. n + 1 |-> g[i]]
      OBVIOUS
    <2> HIDE DEF g
    <2>6. g = Body(g, n + 1)
      BY <2>4, <2>5
    <2>7. \E x : x = Body(x, n + 1)
      BY <2>6, Zenon
    <2>8. n + 1 \in Nat
      OBVIOUS
    <2> HIDE DEF Body
    <2> QED BY <2>7, <2>8
  <1> HIDE DEF S
  <1>3. m \in S
    BY <1>1, <1>2, NatSet
  <1> DEFINE h == CHOOSE f : f = Body(f, m)
  <1>4. h = Body(h, m)
    BY <1>3 DEF S
  <1>5. FlattenSeq(s) = h[m]
    <2>1. Len(s) # 0
      OBVIOUS
    <2> QED BY <2>1, Zenon DEF FlattenSeq
  <1> HIDE DEF h
  <1>6. h[1] = s[1] /\ \A k \in 2 .. m : h[k] = h[k - 1] \o s[k]
    <2>1. \A i \in 1 .. m : h[i] = IF i = 1 THEN s[i] ELSE h[i - 1] \o s[i]
      BY <1>4
    <2>2. 1 \in 1 .. m /\ \A k \in 2 .. m : k \in 1 .. m /\ k # 1
      OBVIOUS
    <2> QED BY <2>1, <2>2, Zenon
  <1>7. IsFlat(s, h)
    BY <1>5, <1>6 DEF IsFlat
  <1> QED BY <1>7, Zenon

\* On its way FlattenSeq has sequences of bytes.
LEMMA FlatType ==
  ASSUME NEW s \in Seq(Seq(Nat)), s # <<>>, NEW f, IsFlat(s, f)
  PROVE  \A k \in 1 .. Len(s) : f[k] \in Seq(Nat)
  <1> DEFINE S == {n \in Nat : n + 1 \in 1 .. Len(s) => f[n + 1] \in Seq(Nat)}
  <1>1. Len(s) \in Nat \ {0} /\ \A k \in 1 .. Len(s) : s[k] \in Seq(Nat)
    OBVIOUS
  <1>2. 0 \in S
    BY <1>1 DEF IsFlat
  <1>3. ASSUME NEW n \in Nat, n \in S
        PROVE  n + 1 \in S
    <2> SUFFICES ASSUME (n + 1) + 1 \in 1 .. Len(s)
                 PROVE  f[(n + 1) + 1] \in Seq(Nat)
      BY <1>3
    <2>1. f[n + 1] \in Seq(Nat) /\ s[(n + 1) + 1] \in Seq(Nat)
      BY <1>1, <1>3
    <2>2. (n + 1) + 1 \in 2 .. Len(s) /\ ((n + 1) + 1) - 1 = n + 1
      BY <1>1
    <2>3. f[(n + 1) + 1] = f[n + 1] \o s[(n + 1) + 1]
      BY <2>2 DEF IsFlat
    <2> QED BY <2>1, <2>3, ConcatProperties
  <1> HIDE DEF S
  <1>4. \A n \in Nat : n \in S
    BY <1>2, <1>3, NatSet
  <1>5. ASSUME NEW k \in 1 .. Len(s) PROVE f[k] \in Seq(Nat)
    <2>1. k - 1 \in Nat /\ (k - 1) + 1 = k
      BY <1>1
    <2>2. k - 1 \in S
      BY <1>4, <2>1
    <2> QED BY <2>1, <2>2 DEF S
  <1> QED BY <1>5

\* The bytes in the buffers are bytes.
LEMMA FlattenType ==
  ASSUME NEW s \in Seq(Seq(Nat))
  PROVE  FlattenSeq(s) \in Seq(Nat)
  <1>1. CASE s = <<>>
    BY <1>1 DEF FlattenSeq
  <1>2. CASE s # <<>>
    <2>1. Len(s) \in Nat \ {0}
      BY <1>2
    <2>2. PICK f : IsFlat(s, f)
      BY <2>1, FlattenUnfold
    <2>3. \A k \in 1 .. Len(s) : f[k] \in Seq(Nat)
      BY <1>2, <2>2, FlatType
    <2> QED BY <2>1, <2>2, <2>3 DEF IsFlat
  <1> QED BY <1>1, <1>2

\* u is a sequence of a bytes s and b bytes t after them.
Placed(u, s, t, a, b) ==
  /\ u \in Seq(Nat) /\ Len(u) = a + b /\ DOMAIN u = 1 .. a + b
  /\ \A i \in 1 .. a : u[i] = s[i]
  /\ \A i \in 1 .. b : u[a + i] = t[i]

\* Where the bytes of two sequences are when one follows the other.
LEMMA ConcatPlaces ==
  ASSUME NEW s \in Seq(Nat), NEW t \in Seq(Nat), NEW a, a = Len(s), NEW b, b = Len(t)
  PROVE  Placed(s \o t, s, t, a, b)
  BY DEF Placed

\* Bytes may be put together in any order of the steps.
LEMMA ConcatNat ==
  \A u, v, w \in Seq(Nat) : (u \o v) \o w = u \o (v \o w)
  <1> SUFFICES ASSUME NEW u \in Seq(Nat), NEW v \in Seq(Nat), NEW w \in Seq(Nat)
               PROVE  (u \o v) \o w = u \o (v \o w)
    BY Zenon
  <1> DEFINE l == (u \o v) \o w
             r == u \o (v \o w)
  <1>1. l \in Seq(Nat) /\ r \in Seq(Nat) /\ Len(l) = Len(r)
    OBVIOUS
  <1>2. \A i \in 1 .. Len(l) : l[i] = r[i]
    OBVIOUS
  <1> HIDE DEF l, r
  <1>3. l = r
    BY <1>1, <1>2, SeqEqual
  <1> QED BY <1>3 DEF l, r

\* t is a sequence of n elements s with e after them.
Appended(t, s, e, n, S) ==
  /\ n \in Nat /\ t \in Seq(S) /\ t # <<>> /\ Len(t) = n + 1
  /\ \A i \in 1 .. n : t[i] = s[i]
  /\ t[n + 1] = e

\* Where the elements of a sequence are when one more is put at its end.
LEMMA AppendPlaces ==
  ASSUME NEW S, NEW s \in Seq(S), NEW e \in S
  PROVE  Appended(Append(s, e), s, e, Len(s), S)
  BY DEF Appended

\* A buffer put at the end of the ring comes last in what will be read.
LEMMA FlattenAppend ==
  ASSUME NEW s \in Seq(Seq(Nat)), NEW e \in Seq(Nat)
  PROVE  FlattenSeq(Append(s, e)) = FlattenSeq(s) \o e
  <1> DEFINE t == Append(s, e)
             n == Len(s)
  <1>1. /\ n \in Nat /\ t \in Seq(Seq(Nat)) /\ t # <<>> /\ Len(t) = n + 1
        /\ \A i \in 1 .. n : t[i] = s[i]
        /\ t[n + 1] = e
    <2>1. PICK S : S = Seq(Nat)
      OBVIOUS
    <2>2. s \in Seq(S) /\ e \in S
      BY <2>1
    <2>3. Appended(t, s, e, n, S)
      BY <2>2, AppendPlaces
    <2> QED BY <2>1, <2>3, Zenon DEF Appended
  <1> HIDE DEF t
  <1>2. PICK f : IsFlat(t, f)
    BY <1>1, FlattenUnfold
  <1>3. CASE s = <<>>
    <2>1. n = 0 /\ FlattenSeq(s) = <<>>
      BY <1>3 DEF FlattenSeq
    <2>2. FlattenSeq(t) = e
      BY <1>1, <1>2, <2>1 DEF IsFlat
    <2> QED BY <2>1, <2>2, ConcatEmptySeq DEF t
  <1>4. CASE s # <<>>
    <2>1. n \in Nat \ {0}
      BY <1>4
    <2>2. PICK g : IsFlat(s, g)
      BY <2>1, FlattenUnfold
    <2> DEFINE S == {k \in Nat : k + 1 \in 1 .. n => f[k + 1] = g[k + 1]}
    <2>3. 0 \in S
      BY <1>1, <1>2, <2>1, <2>2 DEF IsFlat
    <2>4. ASSUME NEW k \in Nat, k \in S
          PROVE  k + 1 \in S
      <3> SUFFICES ASSUME (k + 1) + 1 \in 1 .. n
                   PROVE  f[(k + 1) + 1] = g[(k + 1) + 1]
        BY <2>4
      <3>1. /\ k + 1 \in 1 .. n /\ ((k + 1) + 1) - 1 = k + 1
            /\ (k + 1) + 1 \in 2 .. n /\ (k + 1) + 1 \in 2 .. Len(t)
        BY <1>1
      <3>2. f[k + 1] = g[k + 1]
        BY <2>4, <3>1
      <3>3. f[(k + 1) + 1] = f[k + 1] \o t[(k + 1) + 1]
        BY <1>2, <3>1 DEF IsFlat
      <3>4. g[(k + 1) + 1] = g[k + 1] \o s[(k + 1) + 1]
        BY <2>2, <3>1 DEF IsFlat
      <3> QED BY <1>1, <3>2, <3>3, <3>4
    <2> HIDE DEF S
    <2>5. n - 1 \in S
      <3>1. \A k \in Nat : k \in S
        BY <2>3, <2>4, NatSet
      <3> QED BY <2>1, <3>1
    <2>6. f[n] = g[n]
      <3>1. (n - 1) + 1 = n /\ n \in 1 .. n
        BY <2>1
      <3> QED BY <2>5, <3>1 DEF S
    <2>7. f[n + 1] = f[n] \o t[n + 1]
      <3>1. n + 1 \in 2 .. Len(t) /\ (n + 1) - 1 = n
        BY <1>1, <2>1
      <3> QED BY <1>2, <3>1 DEF IsFlat
    <2> QED BY <1>1, <1>2, <2>2, <2>6, <2>7 DEF IsFlat, t
  <1> QED BY <1>3, <1>4

\* The first buffer of the ring is what will be read first.
LEMMA FlattenTail ==
  ASSUME NEW s \in Seq(Seq(Nat)), s # <<>>
  PROVE  FlattenSeq(s) = Head(s) \o FlattenSeq(Tail(s))
  <1> DEFINE t == Tail(s)
             n == Len(s)
  <1>1. /\ n \in Nat \ {0} /\ t \in Seq(Seq(Nat)) /\ Len(t) = n - 1
        /\ \A i \in 1 .. n - 1 : t[i] = s[i + 1]
        /\ Head(s) = s[1] /\ s[1] \in Seq(Nat)
        /\ \A i \in 1 .. n : s[i] \in Seq(Nat)
    BY HeadTailProperties
  <1> HIDE DEF t
  <1>2. PICK f : IsFlat(s, f)
    BY <1>1, FlattenUnfold
  <1>3. CASE n = 1
    <2>1. t = <<>>
      BY <1>1, <1>3
    <2>2. FlattenSeq(t) = <<>>
      BY <2>1 DEF FlattenSeq
    <2>3. FlattenSeq(s) = s[1]
      BY <1>2, <1>3 DEF IsFlat
    <2> QED BY <1>1, <2>2, <2>3, ConcatEmptySeq DEF t
  <1>4. CASE n # 1
    <2>1. n - 1 \in Nat \ {0} /\ t # <<>> /\ Len(t) \in Nat \ {0}
      BY <1>1, <1>4
    <2>2. PICK g : IsFlat(t, g)
      BY <2>1, FlattenUnfold
    <2>3. \A k \in 1 .. Len(t) : g[k] \in Seq(Nat)
      BY <1>1, <2>1, <2>2, FlatType
    <2> DEFINE a == s[1]
               S == {k \in Nat : k + 1 \in 1 .. n - 1 => f[(k + 1) + 1] = a \o g[k + 1]}
    <2>4. 0 \in S
      <3>1. 2 \in 2 .. n /\ 2 - 1 = 1 /\ 1 \in 1 .. n - 1
        BY <1>1, <2>1
      <3>2. f[2] = f[1] \o s[2] /\ f[1] = a
        BY <1>2, <3>1 DEF IsFlat
      <3>3. g[1] = s[2]
        BY <1>1, <2>2, <3>1 DEF IsFlat
      <3>4. 0 + 1 = 1 /\ 1 + 1 = 2
        OBVIOUS
      <3>5. f[(0 + 1) + 1] = a \o g[0 + 1]
        BY <3>2, <3>3, <3>4, Zenon
      <3> QED BY <3>5, Zenon
    <2>5. ASSUME NEW k \in Nat, k \in S
          PROVE  k + 1 \in S
      <3>0. k + 1 \in Nat
        OBVIOUS
      <3> SUFFICES ASSUME (k + 1) + 1 \in 1 .. n - 1
                   PROVE  f[((k + 1) + 1) + 1] = a \o g[(k + 1) + 1]
        BY <3>0, Zenon
      <3> DEFINE j == (k + 1) + 1
      <3>1. /\ k + 1 \in 1 .. n - 1 /\ j - 1 = k + 1 /\ k + 1 \in 1 .. Len(t)
            /\ j \in 2 .. Len(t) /\ j + 1 \in 2 .. n /\ (j + 1) - 1 = j
            /\ j \in 1 .. n - 1 /\ j + 1 \in 1 .. n
        BY <1>1
      <3>2. f[j] = a \o g[k + 1]
        BY <2>5, <3>1
      <3> HIDE DEF j
      <3>3. f[j + 1] = f[j] \o s[j + 1]
        BY <1>2, <3>1 DEF IsFlat
      <3>4. g[j] = g[k + 1] \o t[j] /\ t[j] = s[j + 1]
        BY <1>1, <2>2, <3>1 DEF IsFlat
      <3>5. (a \o g[k + 1]) \o s[j + 1] = a \o (g[k + 1] \o s[j + 1])
        <4>1. a \in Seq(Nat) /\ g[k + 1] \in Seq(Nat) /\ s[j + 1] \in Seq(Nat)
          BY <1>1, <2>3, <3>1
        <4> QED BY <4>1, ConcatNat, Zenon
      <3> QED BY <3>2, <3>3, <3>4, <3>5 DEF j
    <2> HIDE DEF S
    <2>6. (n - 1) - 1 \in S
      <3>1. \A k \in Nat : k \in S
        BY <2>4, <2>5, NatSet
      <3>2. (n - 1) - 1 \in Nat
        BY <1>1, <2>1
      <3> QED BY <3>1, <3>2, Zenon
    <2>7. f[n] = a \o g[n - 1]
      <3>1. ((n - 1) - 1) + 1 = n - 1 /\ (n - 1) + 1 = n /\ n - 1 \in 1 .. n - 1
        BY <2>1, <1>1
      <3> QED BY <2>6, <3>1 DEF S
    <2> QED BY <1>1, <1>2, <2>2, <2>7 DEF IsFlat, t
  <1> QED BY <1>3, <1>4

\* Bytes in the order they were sent, each once.
Rising(r) == \A i, j \in DOMAIN r : i < j => r[i] < r[j]

\* All of them before the n-th.
Below(r, n) == \A i \in DOMAIN r : r[i] < n

\* A run of bytes from the n-th on keeps the order of the ones before it.
LEMMA RisingAppend ==
  ASSUME NEW r \in Seq(Nat), Rising(r), NEW n \in Nat, Below(r, n),
         NEW e \in Seq(Nat), \A k \in 1 .. Len(e) : e[k] = n + k - 1
  PROVE  Rising(r \o e) /\ Below(r \o e, n + Len(e))
  <1> DEFINE t == r \o e
  <1>1. /\ t \in Seq(Nat) /\ Len(t) = Len(r) + Len(e) /\ DOMAIN t = 1 .. Len(t)
        /\ \A i \in 1 .. Len(r) : t[i] = r[i]
        /\ \A i \in 1 .. Len(t) : i > Len(r) => t[i] = e[i - Len(r)]
    OBVIOUS
  <1> HIDE DEF t
  <1>2. Len(r) \in Nat /\ Len(e) \in Nat /\ DOMAIN r = 1 .. Len(r)
    OBVIOUS
  <1>3. \A i \in 1 .. Len(r) : r[i] \in Nat /\ r[i] < n
    <2>1. \A i \in 1 .. Len(r) : r[i] \in Nat
      OBVIOUS
    <2> QED BY <1>2, <2>1, Zenon DEF Below
  <1>4. \A i \in 1 .. Len(t) : i > Len(r) => t[i] = n + (i - Len(r)) - 1
    <2> SUFFICES ASSUME NEW i \in 1 .. Len(t), i > Len(r)
                 PROVE  t[i] = n + (i - Len(r)) - 1
      OBVIOUS
    <2>1. i - Len(r) \in 1 .. Len(e)
      BY <1>1, <1>2
    <2> QED BY <1>1, <2>1
  <1>5. Below(t, n + Len(e))
    <2> SUFFICES ASSUME NEW i \in 1 .. Len(t) PROVE t[i] < n + Len(e)
      BY <1>1 DEF Below
    <2>1. CASE i \in 1 .. Len(r)
      BY <1>1, <1>2, <1>3, <2>1
    <2>2. CASE i > Len(r)
      BY <1>1, <1>2, <1>4, <2>2
    <2> QED BY <1>1, <1>2, <2>1, <2>2
  <1>6. Rising(t)
    <2> SUFFICES ASSUME NEW i \in 1 .. Len(t), NEW j \in 1 .. Len(t), i < j
                 PROVE  t[i] < t[j]
      BY <1>1 DEF Rising
    <2>1. CASE j \in 1 .. Len(r)
      <3>1. i \in 1 .. Len(r)
        BY <1>1, <1>2, <2>1
      <3>2. r[i] < r[j]
        BY <1>2, <2>1, <3>1, Zenon DEF Rising
      <3> QED BY <1>1, <2>1, <3>1, <3>2
    <2>2. CASE j > Len(r) /\ i \in 1 .. Len(r)
      <3>1. t[j] >= n /\ t[i] < n
        BY <1>1, <1>2, <1>3, <1>4, <2>2
      <3>2. t[i] \in Nat /\ t[j] \in Nat
        BY <1>1
      <3> QED BY <3>1, <3>2
    <2>3. CASE i > Len(r)
      <3>1. j > Len(r)
        BY <1>1, <1>2, <2>3
      <3>2. t[i] = n + (i - Len(r)) - 1 /\ t[j] = n + (j - Len(r)) - 1
        BY <1>4, <2>3, <3>1
      <3> QED BY <1>1, <1>2, <3>2
    <2> QED BY <1>1, <1>2, <2>1, <2>2, <2>3
  <1> QED BY <1>5, <1>6 DEF t

\* Leaving out some bytes in the middle keeps the order of the others.
LEMMA RisingCut ==
  ASSUME NEW g \in Seq(Nat), NEW h \in Seq(Nat), NEW rest \in Seq(Nat),
         NEW n \in 0 .. Len(h), NEW cut, cut = SubSeq(h, 1, n),
         Rising(g \o (h \o rest))
  PROVE  /\ Rising((g \o cut) \o rest)
         /\ \A x : Below(g \o (h \o rest), x) => Below((g \o cut) \o rest, x)
  <1> DEFINE r == g \o (h \o rest)
             t == (g \o cut) \o rest
             a == Len(g)
             b == Len(h)
             z == Len(rest)
             M(i) == IF i <= a + n THEN i ELSE i + (b - n)
  <1>1. cut \in Seq(Nat) /\ Len(cut) = n /\ \A i \in 1 .. n : cut[i] = h[i]
    BY SubSeqProperties
  <1>2. a \in Nat /\ b \in Nat /\ z \in Nat /\ n \in Nat /\ n <= b
    OBVIOUS
  <1>3. /\ r \in Seq(Nat) /\ Len(r) = a + (b + z) /\ DOMAIN r = 1 .. Len(r)
        /\ \A i \in 1 .. a : r[i] = g[i]
        /\ \A i \in 1 .. b : r[a + i] = h[i]
        /\ \A i \in 1 .. z : r[(a + b) + i] = rest[i]
    <2> DEFINE y == h \o rest
    <2>1. /\ y \in Seq(Nat) /\ Len(y) = b + z
          /\ \A i \in 1 .. b : y[i] = h[i]
          /\ \A i \in 1 .. z : y[b + i] = rest[i]
      OBVIOUS
    <2> HIDE DEF y
    <2>2. /\ g \o y \in Seq(Nat) /\ Len(g \o y) = a + (b + z)
          /\ \A i \in 1 .. a : (g \o y)[i] = g[i]
          /\ \A i \in 1 .. b + z : (g \o y)[a + i] = y[i]
      <3>1. PICK w : w = b + z
        OBVIOUS
      <3>2. Placed(g \o y, g, y, a, w)
        BY <2>1, <3>1, ConcatPlaces
      <3> QED BY <3>1, <3>2, Zenon DEF Placed
    <2>3. r = g \o y
      BY DEF y
    <2>4. \A i \in 1 .. z : (a + b) + i = a + (b + i) /\ b + i \in 1 .. b + z
      BY <1>2
    <2>5. \A i \in 1 .. b : i \in 1 .. b + z
      BY <1>2
    <2>6. DOMAIN r = 1 .. Len(r)
      BY <2>2, <2>3
    <2> HIDE DEF r, a, b, z
    <2>7. \A i \in 1 .. z : r[(a + b) + i] = rest[i]
      BY <2>1, <2>2, <2>3, <2>4, Zenon
    <2> QED BY <2>1, <2>2, <2>3, <2>5, <2>6, <2>7, Zenon
  <1>4. /\ t \in Seq(Nat) /\ Len(t) = (a + n) + z /\ DOMAIN t = 1 .. Len(t)
        /\ \A i \in 1 .. a : t[i] = g[i]
        /\ \A i \in 1 .. n : t[a + i] = h[i]
        /\ \A i \in 1 .. z : t[(a + n) + i] = rest[i]
    <2> DEFINE y == g \o cut
    <2>1. /\ y \in Seq(Nat) /\ Len(y) = a + n
          /\ \A i \in 1 .. a : y[i] = g[i]
          /\ \A i \in 1 .. n : y[a + i] = h[i]
      BY <1>1
    <2> HIDE DEF y
    <2>2. /\ y \o rest \in Seq(Nat) /\ Len(y \o rest) = (a + n) + z
          /\ \A i \in 1 .. a + n : (y \o rest)[i] = y[i]
          /\ \A i \in 1 .. z : (y \o rest)[(a + n) + i] = rest[i]
      <3>1. PICK w : w = a + n
        OBVIOUS
      <3>2. Placed(y \o rest, y, rest, w, z)
        BY <2>1, <3>1, ConcatPlaces
      <3> QED BY <3>1, <3>2, Zenon DEF Placed
    <2>3. t = y \o rest
      BY DEF y
    <2>4. \A i \in 1 .. n : a + i \in 1 .. a + n
      BY <1>2
    <2>5. \A i \in 1 .. a : i \in 1 .. a + n
      BY <1>2
    <2>6. DOMAIN t = 1 .. Len(t)
      BY <2>2, <2>3
    <2> HIDE DEF t, a, b, z
    <2> QED BY <2>1, <2>2, <2>3, <2>4, <2>5, <2>6, Zenon
  <1> HIDE DEF r, t, a, b, z
  <1>5. \A i \in 1 .. Len(t) : M(i) \in 1 .. Len(r) /\ t[i] = r[M(i)]
    <2> SUFFICES ASSUME NEW i \in 1 .. Len(t)
                 PROVE  M(i) \in 1 .. Len(r) /\ t[i] = r[M(i)]
      OBVIOUS
    <2>1. CASE i \in 1 .. a
      BY <1>2, <1>3, <1>4, <2>1
    <2>2. CASE i > a /\ i <= a + n
      <3>1. i - a \in 1 .. n /\ i - a \in 1 .. b /\ a + (i - a) = i /\ M(i) = i
        BY <1>2, <1>4, <2>2
      <3>2. t[i] = h[i - a] /\ r[i] = h[i - a]
        BY <1>3, <1>4, <3>1
      <3>3. i \in 1 .. Len(r)
        BY <1>2, <1>3, <1>4, <2>2
      <3> QED BY <3>1, <3>2, <3>3
    <2>3. CASE i > a + n
      <3> DEFINE k == i - (a + n)
      <3>1. k \in 1 .. z /\ (a + n) + k = i /\ M(i) = (a + b) + k
        BY <1>2, <1>4, <2>3
      <3> HIDE DEF k, M
      <3>2. t[i] = rest[k] /\ r[M(i)] = rest[k]
        BY <1>3, <1>4, <3>1
      <3>3. (a + b) + k \in 1 .. Len(r)
        <4>1. \A u, v, w \in Nat : \A x \in 1 .. w : (u + v) + x \in 1 .. u + (v + w)
          OBVIOUS
        <4>2. (a + b) + k \in 1 .. a + (b + z)
          BY <1>2, <3>1, <4>1, Zenon
        <4> QED BY <1>3, <4>2, Zenon
      <3> QED BY <3>1, <3>2, <3>3
    <2> QED BY <1>2, <1>4, <2>1, <2>2, <2>3
  <1>6. \A i, j \in 1 .. Len(t) : i < j => M(i) < M(j)
    <2> SUFFICES ASSUME NEW i \in 1 .. Len(t), NEW j \in 1 .. Len(t), i < j
                 PROVE  M(i) < M(j)
      BY Zenon
    <2>1. i \in Int /\ j \in Int
      OBVIOUS
    <2>2. a \in Int /\ b - n \in Nat /\ n \in Int
      BY <1>2, SMTT(30)
    <2> QED BY <2>1, <2>2
  <1> HIDE DEF M
  <1>7. Rising(t)
    <2>1. ASSUME NEW i \in 1 .. Len(t), NEW j \in 1 .. Len(t), i < j
          PROVE  t[i] < t[j]
      <3>1. M(i) \in 1 .. Len(r) /\ M(j) \in 1 .. Len(r) /\ M(i) < M(j)
        BY <1>5, <1>6, <2>1, Zenon
      <3>2. Rising(r)
        BY DEF r
      <3>3. r[M(i)] < r[M(j)]
        BY <1>3, <3>1, <3>2, Zenon DEF Rising
      <3> QED BY <1>5, <3>3
    <2> QED BY <1>4, <2>1, Zenon DEF Rising
  <1>8. ASSUME NEW x, Below(r, x) PROVE Below(t, x)
    BY <1>3, <1>4, <1>5, <1>8 DEF Below
  <1> QED BY <1>7, <1>8 DEF r, t

\* What the process has read and what the ring holds for it.
Read(s, t) == t.got \o FlattenSeq(s.recv_buffer)

\* The numbers a socket may wait for: one more after a FIN.
Limit(s) == MaxBytes[s.dst] + (IF s.state \in OpenStates THEN 1 ELSE 2)

\* The number the socket waits for is that of a byte after all of r.
Expects(s, r) ==
  \E n \in 1 .. Limit(s) : s.ack_num = SeqNo(s.dst, n) /\ Below(r, n)

\* What is read of a connection follows what was taken, and what may come next
\* comes after it.
Follows(s, t) ==
  /\ Rising(Read(s, t))
  /\ ~t.lossy => Read(s, t) = t.taken
  /\ s.state = "LISTENING" => Read(s, t) = <<>> /\ t.taken = <<>>
  /\ s.state # "LISTENING" => Expects(s, Read(s, t))

Reads(q) == sockets[q] # NIL /\ ~trace[q].stray => Follows(sockets[q], trace[q])

ReadInv ==
  /\ \A c \in Conns : peer[c].sent <= MaxBytes[c]
  /\ \A q \in Ports : Reads(q)

\* What is read is a sequence of bytes, and the limit a number.
LEMMA ReadType ==
  ASSUME NEW s \in TcpSocket, NEW t \in Trace
  PROVE  /\ s.recv_buffer \in Seq(Seq(Nat)) /\ t.got \in Seq(Nat) /\ t.taken \in Seq(Nat)
         /\ FlattenSeq(s.recv_buffer) \in Seq(Nat) /\ Read(s, t) \in Seq(Nat)
  <1>1. s.recv_buffer \in Seq(Seq(Nat)) /\ t.got \in Seq(Nat) /\ t.taken \in Seq(Nat)
    BY DEF TcpSocket, Trace
  <1>2. FlattenSeq(s.recv_buffer) \in Seq(Nat)
    BY <1>1, FlattenType
  <1> QED BY <1>1, <1>2, ConcatProperties DEF Read

\* A step that leaves the bytes and the numbers alone, and the state too or
\* moves it on after the SYN, keeps what is read in order.
LEMMA FollowsSame ==
  ASSUME NEW s, NEW s2, NEW t, NEW t2, Follows(s, t),
         s2.dst = s.dst, s2.ack_num = s.ack_num, s2.recv_buffer = s.recv_buffer,
         t2.taken = t.taken, t2.got = t.got, t2.lossy = t.lossy,
         \/ s2.state = s.state
         \/ /\ s.state # "LISTENING" /\ s2.state # "LISTENING"
            /\ (s2.state \in OpenStates) <=> (s.state \in OpenStates)
  PROVE  Follows(s2, t2)
  <1>1. Read(s2, t2) = Read(s, t)
    BY DEF Read
  <1>2. s2.state # "LISTENING" => Limit(s2) = Limit(s)
    BY DEF Limit
  <1>3. s2.state # "LISTENING" => Expects(s2, Read(s2, t2))
    BY <1>1, <1>2, Zenon DEF Follows, Expects
  <1> QED BY <1>1, <1>3, Zenon DEF Follows

\* A new socket: nothing has been read or taken.
LEMMA FollowsListen ==
  ASSUME NEW s, s.state = "LISTENING", s.recv_buffer = <<>>
  PROVE  Follows(s, NoTrace)
  <1>1. NoTrace.got = <<>> /\ NoTrace.taken = <<>>
    BY DEF NoTrace
  <1>2. FlattenSeq(s.recv_buffer) = <<>>
    BY DEF FlattenSeq
  <1>3. Read(s, NoTrace) = <<>>
    BY <1>1, <1>2 DEF Read
  <1>4. Rising(<<>>)
    BY DEF Rising
  <1> QED BY <1>1, <1>3, <1>4 DEF Follows

\* A SYN: the first byte is next.
LEMMA FollowsSyn ==
  ASSUME NEW s, NEW t, Follows(s, t), s.state = "LISTENING",
         NEW s2, NEW t2, s2.state = "SYN_RECEIVED", s2.dst \in Conns, s2.ack_num = SeqNo(s2.dst, 1),
         s2.recv_buffer = s.recv_buffer, t2.got = t.got, t2.taken = <<>>
  PROVE  Follows(s2, t2)
  <1>1. Read(s2, t2) = Read(s, t) /\ Read(s, t) = <<>> /\ Rising(<<>>)
    BY DEF Read, Follows
  <1>2. 1 \in 1 .. Limit(s2)
    <2>1. MaxBytes[s2.dst] \in Nat
      BY NetAssumption
    <2>2. Limit(s2) = MaxBytes[s2.dst] + 1
      BY DEF Limit, OpenStates
    <2> QED BY <2>1, <2>2
  <1>3. Below(<<>>, 1)
    BY DEF Below
  <1>4. Expects(s2, <<>>)
    BY <1>2, <1>3 DEF Expects
  <1> QED BY <1>1, <1>4 DEF Follows

\* A number after the next one is a number after all the bytes before.
LEMMA NextNumber ==
  ASSUME NEW c \in Conns, NEW n \in Nat, NEW k \in Nat
  PROVE  (SeqNo(c, n) + k) % SEQ = SeqNo(c, n + k)
  <1>1. ISN[c] \in Nat /\ SEQ \in Nat \ {0} /\ ISN[c] + n \in Nat
    BY NetAssumption
  <1>2. (((ISN[c] + n) % SEQ) + k) % SEQ = ((ISN[c] + n) + k) % SEQ
    BY <1>1, ModAdd
  <1>3. (ISN[c] + n) + k = ISN[c] + (n + k)
    BY <1>1
  <1> QED BY <1>2, <1>3 DEF SeqNo

\* A FIN: its number is skipped.
LEMMA FollowsFin ==
  ASSUME NEW s \in TcpSocket, NEW t \in Trace, Follows(s, t), s.state = "ESTABLISHED", s.dst \in Conns,
         NEW s2, s2.state = "CLOSE_WAIT", s2.dst = s.dst, s2.ack_num = (s.ack_num + 1) % SEQ,
         s2.recv_buffer = s.recv_buffer
  PROVE  Follows(s2, t)
  <1>0. MaxBytes[s.dst] \in Nat
    BY NetAssumption
  <1>1. Read(s2, t) = Read(s, t) /\ Read(s, t) \in Seq(Nat)
    BY ReadType DEF Read
  <1>2. PICK n \in 1 .. Limit(s) : s.ack_num = SeqNo(s.dst, n) /\ Below(Read(s, t), n)
    BY DEF Follows, Expects
  <1>3. Limit(s) = MaxBytes[s.dst] + 1 /\ Limit(s2) = MaxBytes[s.dst] + 2
    BY DEF Limit, OpenStates
  <1>4. n + 1 \in 1 .. Limit(s2) /\ n \in Nat
    BY <1>0, <1>2, <1>3
  <1>5. s2.ack_num = SeqNo(s2.dst, n + 1)
    BY <1>2, <1>4, NextNumber
  <1>6. Below(Read(s, t), n + 1)
    <2> DEFINE r == Read(s, t)
    <2>1. \A i \in DOMAIN r : r[i] \in Nat
      BY <1>1
    <2> HIDE DEF r
    <2>2. \A i \in DOMAIN r : r[i] < n
      BY <1>2 DEF Below, r
    <2>3. \A i \in DOMAIN r : r[i] < n + 1
      BY <1>4, <2>1, <2>2
    <2> QED BY <2>3 DEF Below, r
  <1>7. Expects(s2, Read(s, t))
    BY <1>4, <1>5, <1>6 DEF Expects
  <1> QED BY <1>1, <1>7 DEF Follows

\* What recv does to a socket and its trace.
Received(s, t, s2, t2, len, piece) ==
  /\ s2.state = s.state /\ s2.dst = s.dst /\ s2.ack_num = s.ack_num
  /\ s2.recv_buffer = Tail(s.recv_buffer)
  /\ t2.taken = t.taken
  /\ t2.got = t.got \o SubSeq(piece, 1, IF len > Len(piece) THEN Len(piece) ELSE len)
  /\ t2.lossy = (t.lossy \/ len < Len(piece))

\* recv: a piece cut short leaves out bytes, one read in full leaves out none.
LEMMA FollowsRecv ==
  ASSUME NEW s \in TcpSocket, NEW t \in Trace, Follows(s, t), s.state # "LISTENING",
         s.recv_buffer # <<>>, NEW len \in Nat, NEW piece, piece = Head(s.recv_buffer),
         NEW s2, NEW t2, Received(s, t, s2, t2, len, piece)
  PROVE  Follows(s2, t2)
  <1>0. /\ s2.state = s.state /\ s2.dst = s.dst /\ s2.ack_num = s.ack_num
        /\ s2.recv_buffer = Tail(s.recv_buffer)
        /\ t2.taken = t.taken
        /\ t2.got = t.got \o SubSeq(piece, 1, IF len > Len(piece) THEN Len(piece) ELSE len)
        /\ t2.lossy = (t.lossy \/ len < Len(piece))
    BY Zenon DEF Received
  <1>1. PICK n : n = IF len > Len(piece) THEN Len(piece) ELSE len
    OBVIOUS
  <1>2. PICK cut : cut = SubSeq(piece, 1, n)
    OBVIOUS
  <1>3. PICK rest : rest = FlattenSeq(Tail(s.recv_buffer))
    OBVIOUS
  <1>4. PICK g : g = t.got
    OBVIOUS
  <1>5. /\ s.recv_buffer \in Seq(Seq(Nat)) /\ g \in Seq(Nat) /\ piece \in Seq(Nat)
        /\ Tail(s.recv_buffer) \in Seq(Seq(Nat))
    BY <1>4, ReadType, HeadTailProperties
  <1>6. rest \in Seq(Nat) /\ n \in 0 .. Len(piece)
    <2>1. rest \in Seq(Nat)
      BY <1>3, <1>5, FlattenType
    <2>2. Len(piece) \in Nat
      BY <1>5
    <2> QED BY <1>1, <2>1, <2>2
  <1>7. Read(s, t) = g \o (piece \o rest)
    BY <1>3, <1>4, <1>5, FlattenTail DEF Read
  <1>8. Read(s2, t2) = (g \o cut) \o rest
    BY <1>0, <1>1, <1>2, <1>3, <1>4 DEF Read
  <1>9. Rising(g \o (piece \o rest))
    BY <1>7 DEF Follows
  <1>10. /\ Rising((g \o cut) \o rest)
         /\ \A x : Below(g \o (piece \o rest), x) => Below((g \o cut) \o rest, x)
    BY <1>2, <1>5, <1>6, <1>9, RisingCut
  <1>11. Expects(s2, Read(s2, t2))
    <2>1. PICK k \in 1 .. Limit(s) : s.ack_num = SeqNo(s.dst, k) /\ Below(Read(s, t), k)
      BY DEF Follows, Expects
    <2>2. Limit(s2) = Limit(s)
      BY <1>0 DEF Limit
    <2>3. Below(Read(s2, t2), k)
      BY <1>7, <1>8, <1>10, <2>1, Zenon
    <2> QED BY <1>0, <2>1, <2>2, <2>3 DEF Expects
  <1>12. ~t2.lossy => Read(s2, t2) = t2.taken
    <2> SUFFICES ASSUME ~t2.lossy PROVE Read(s2, t2) = t2.taken
      OBVIOUS
    <2>1. ~t.lossy /\ ~(len < Len(piece))
      BY <1>0
    <2>2. n = Len(piece)
      BY <1>1, <1>5, <2>1
    <2>3. cut = piece
      BY <1>2, <1>5, <2>2, SubSeqFull
    <2>4. (g \o piece) \o rest = g \o (piece \o rest)
      BY <1>5, <1>6, ConcatNat
    <2>5. Read(s, t) = t.taken
      BY <2>1 DEF Follows
    <2> QED BY <1>0, <1>7, <1>8, <2>3, <2>4, <2>5
  <1> QED BY <1>0, <1>8, <1>10, <1>11, <1>12 DEF Follows
\* Bytes of host c, the first of which has the number a: none, or a run of them.
InSequence(c, piece, a) ==
  \/ piece = <<>>
  \/ \E i \in 1 .. MaxBytes[c] :
       /\ a = SeqNo(c, i)
       /\ i + Len(piece) <= MaxBytes[c] + 1
       /\ \A k \in 1 .. Len(piece) : piece[k] = i + k - 1

\* What resolve_packet takes of a segment is such a run, with its number.
LEMMA PieceInSequence ==
  ASSUME NetInv, ReadInv, NEW c \in Conns, NEW m \in OnTheWay(c)
  PROVE  /\ SubSeq(m.data, 1, RealLen(m.data)) \in Seq(Nat)
         /\ InSequence(c, SubSeq(m.data, 1, RealLen(m.data)), m.seq)
  <1>1. PICK piece : piece = SubSeq(m.data, 1, RealLen(m.data))
    OBVIOUS
  <1>2. PICK d \in Seq(Nat) : m.data = Append(d, PAD) /\ (d = <<>> \/ SliceOf(c, m, d))
    BY MessageFacts DEF NetInv, PeersOK
  <1>3. PICK x : x = RealLen(m.data)
    OBVIOUS
  <1>4. /\ x \in 0 .. Len(d) /\ piece \in Seq(Nat) /\ Len(piece) = x
        /\ \A k \in 1 .. x : piece[k] = d[k]
    BY <1>1, <1>2, <1>3, PieceFacts
  <1>5. CASE piece = <<>>
    BY <1>1, <1>4, <1>5 DEF InSequence
  <1>6. CASE piece # <<>>
    <2>1. d # <<>>
      BY <1>4, <1>6
    <2>2. PICK i \in Nat \ {0}, len \in Nat \ {0} :
             /\ d = [k \in 1 .. len |-> i + k - 1]
             /\ i + len - 1 <= peer[c].sent
             /\ m.seq = SeqNo(c, i)
      BY <1>2, <2>1 DEF SliceOf
    <2>3. peer[c].sent \in Nat /\ peer[c].sent <= MaxBytes[c] /\ MaxBytes[c] \in Nat
      BY NetAssumption DEF NetInv, PeersOK, ReadInv
    <2>4. Len(d) = len /\ \A k \in 1 .. len : d[k] = i + k - 1
      BY <2>2
    <2>5. i + len - 1 <= MaxBytes[c]
      BY <2>2, <2>3
    <2>6. i \in 1 .. MaxBytes[c]
      BY <2>3, <2>5
    <2>7. i + Len(piece) <= MaxBytes[c] + 1
      BY <1>4, <2>3, <2>4, <2>5
    <2>8. \A k \in 1 .. Len(piece) : piece[k] = i + k - 1
      <3>1. \A k \in 1 .. Len(piece) : k \in 1 .. len /\ k \in 1 .. x
        BY <1>4, <2>4
      <3> QED BY <1>4, <2>4, <3>1
    <2>9. InSequence(c, piece, m.seq)
      BY <2>2, <2>6, <2>7, <2>8, Zenon DEF InSequence
    <2> QED BY <1>1, <1>4, <2>9
  <1> QED BY <1>5, <1>6

\* What storing a piece does to a socket and its trace.
Stored(s, t, s2, t2, piece) ==
  /\ s2.state = s.state /\ s2.dst = s.dst /\ s2.recv_buffer = Store(s.recv_buffer, piece)
  /\ s2.ack_num = (s.ack_num + Len(piece)) % SEQ
  /\ t2.got = t.got /\ t2.taken = t.taken \o piece
  /\ t2.lossy = (t.lossy \/ (Len(s.recv_buffer) = LEN - 1 /\ piece # <<>>))

\* Data: bytes with the number that is next are those of the connection's own
\* host that come after all that was read.
LEMMA FollowsData ==
  ASSUME NumbersApartAfterFin,
         NEW q, NEW s, Good(s, q), NEW t \in Trace, Follows(s, t), s.state # "LISTENING",
         NEW c \in Conns, PortOf[c] = q,
         NEW piece \in Seq(Nat), InSequence(c, piece, s.ack_num),
         NEW s2, NEW t2, Stored(s, t, s2, t2, piece)
  PROVE  Follows(s2, t2)
  <1>0. /\ s2.state = s.state /\ s2.dst = s.dst /\ s2.recv_buffer = Store(s.recv_buffer, piece)
        /\ s2.ack_num = (s.ack_num + Len(piece)) % SEQ
        /\ t2.got = t.got /\ t2.taken = t.taken \o piece
        /\ t2.lossy = (t.lossy \/ (Len(s.recv_buffer) = LEN - 1 /\ piece # <<>>))
    BY Zenon DEF Stored
  <1>1. s \in TcpSocket /\ s.dst \in Conns /\ PortOf[s.dst] = q /\ MaxBytes[s.dst] \in Nat
    BY NetAssumption DEF Good, TcpSocket
  <1>2. PICK r : r = Read(s, t)
    OBVIOUS
  <1>3. PICK p : p = Len(piece)
    OBVIOUS
  <1>4. PICK ring : ring = s.recv_buffer
    OBVIOUS
  <1>5. /\ r \in Seq(Nat) /\ p \in Nat /\ t.taken \in Seq(Nat) /\ t.got \in Seq(Nat)
        /\ ring \in Seq(Seq(Nat)) /\ FlattenSeq(ring) \in Seq(Nat)
    BY <1>1, <1>2, <1>3, <1>4, ReadType
  <1>6. /\ Rising(r) /\ (~t.lossy => r = t.taken) /\ Expects(s, r)
    BY <1>2 DEF Follows
  <1>7. PICK n \in 1 .. Limit(s) : s.ack_num = SeqNo(s.dst, n) /\ Below(r, n)
    BY <1>6 DEF Expects
  <1>8. Limit(s) \in Nat /\ Limit(s) <= MaxBytes[s.dst] + 2 /\ Limit(s) >= MaxBytes[s.dst] + 1
        /\ Limit(s2) = Limit(s) /\ n \in Nat /\ n \in 1 .. MaxBytes[s.dst] + 2
    <2>1. Limit(s) \in {MaxBytes[s.dst] + 1, MaxBytes[s.dst] + 2} /\ Limit(s2) = Limit(s)
      BY <1>0 DEF Limit
    <2> QED BY <1>1, <1>7, <2>1
  <1>9. Read(s2, t2) = IF Len(ring) = LEN - 1 THEN r ELSE r \o piece
    <2>1. CASE Len(ring) = LEN - 1
      BY <1>0, <1>2, <1>4, <2>1 DEF Read, Store
    <2>2. CASE Len(ring) # LEN - 1
      <3>1. s2.recv_buffer = Append(ring, piece)
        BY <1>0, <1>4, <2>2 DEF Store
      <3>2. FlattenSeq(s2.recv_buffer) = FlattenSeq(ring) \o piece
        BY <1>5, <3>1, FlattenAppend
      <3>3. (t.got \o FlattenSeq(ring)) \o piece = t.got \o (FlattenSeq(ring) \o piece)
        BY <1>5, ConcatNat, ZenonT(60)
      <3> QED BY <1>0, <1>2, <1>4, <2>2, <3>2, <3>3 DEF Read
    <2> QED BY <2>1, <2>2
  <1>10. s2.ack_num = SeqNo(s2.dst, n + p)
    <2>1. (SeqNo(s.dst, n) + p) % SEQ = SeqNo(s.dst, n + p)
      BY <1>1, <1>5, <1>8, NextNumber
    <2> QED BY <1>0, <1>3, <1>7, <2>1
  <1>11. CASE piece = <<>>
    <2>1. r \o piece = r /\ t.taken \o piece = t.taken /\ p = 0 /\ n + p = n
      BY <1>3, <1>5, <1>8, <1>11, ConcatEmptySeq
    <2>2. Read(s2, t2) = r /\ t2.taken = t.taken /\ t2.lossy = t.lossy
      <3>1. t2.lossy = t.lossy
        BY <1>0, <1>11 DEF Trace
      <3> QED BY <1>0, <1>9, <2>1, <3>1
    <2>3. Expects(s2, r)
      BY <1>7, <1>8, <1>10, <2>1 DEF Expects
    <2> QED BY <1>0, <1>6, <2>2, <2>3 DEF Follows
  <1>12. CASE piece # <<>>
    <2>1. PICK i \in 1 .. MaxBytes[c] :
             /\ s.ack_num = SeqNo(c, i)
             /\ i + p <= MaxBytes[c] + 1
             /\ \A k \in 1 .. p : piece[k] = i + k - 1
      BY <1>3, <1>12, Zenon DEF InSequence
    <2>2. s.dst = c /\ n = i
      <3>1. \A x \in 1 .. MaxBytes[s.dst] + 2, y \in 1 .. MaxBytes[c] :
               SeqNo(s.dst, x) = SeqNo(c, y) => s.dst = c /\ x = y
        BY <1>1 DEF NumbersApartAfterFin
      <3> QED BY <1>7, <1>8, <2>1, <3>1
    <2>3. n + p \in 1 .. Limit(s2)
      BY <1>1, <1>5, <1>8, <2>1, <2>2, SMTT(60)
    <2>4. Rising(r \o piece) /\ Below(r \o piece, n + p)
      <3>1. \A k \in 1 .. Len(piece) : piece[k] = n + k - 1
        BY <1>3, <2>1, <2>2, Zenon
      <3> QED BY <1>3, <1>5, <1>6, <1>7, <1>8, <3>1, RisingAppend
    <2>5. Below(r, n + p)
      <3>1. \A j \in DOMAIN r : r[j] \in Nat
        BY <1>5
      <3>2. \A j \in DOMAIN r : r[j] < n
        BY <1>7 DEF Below
      <3>3. \A j \in DOMAIN r : r[j] < n + p
        BY <1>5, <1>8, <3>1, <3>2
      <3> QED BY <3>3 DEF Below
    <2>6. Rising(Read(s2, t2)) /\ Below(Read(s2, t2), n + p)
      BY <1>6, <1>9, <2>4, <2>5
    <2>7. Expects(s2, Read(s2, t2))
      BY <1>10, <2>3, <2>6 DEF Expects
    <2>8. ~t2.lossy => Read(s2, t2) = t2.taken
      <3> SUFFICES ASSUME ~t2.lossy PROVE Read(s2, t2) = t2.taken
        OBVIOUS
      <3>1. ~t.lossy /\ Len(ring) # LEN - 1
        BY <1>0, <1>4, <1>12
      <3> QED BY <1>0, <1>6, <1>9, <3>1
    <2> QED BY <1>0, <2>6, <2>7, <2>8 DEF Follows
  <1> QED BY <1>11, <1>12

\* A request of a process and what is read of a port.
LEMMA RequestReads ==
  ASSUME NetInv, NetInv', NEW q \in Ports, Reads(q), NEW p \in Procs,
         \/ Listen(p, Uses[p]) \/ Accept(p, Uses[p]) \/ Close(p, Uses[p])
         \/ \E len \in Lengths : Recv(p, Uses[p], len) \/ Send(p, Uses[p], len)
  PROVE  Reads(q)'
  <1> SUFFICES ASSUME sockets'[q] # NIL, ~trace'[q].stray
               PROVE  Follows(sockets'[q], trace'[q])
    BY DEF Reads
  <1> DEFINE port == Uses[p]
             s == sockets[port]
             t == trace[port]
  <1>0. port \in Ports /\ port \in DOMAIN sockets /\ q \in DOMAIN sockets
        /\ port \in DOMAIN trace /\ q \in DOMAIN trace /\ t \in Trace /\ trace[q] \in Trace
    BY NetAssumption DEF NetInv, SocketsOK
  <1> HIDE DEF port
  <1>a. CASE sockets'[q] = sockets[q] /\ trace'[q] = trace[q]
    BY <1>a DEF Reads
  <1>1. CASE Listen(p, port)
    <2> DEFINE new == [state |-> "LISTENING", src_ip |-> ip_addr, dst |-> NIL,
                       seq_num |-> 0, ack_num |-> 0, recv_buffer |-> <<>>, bind_proc |-> NIL]
    <2>1. \/ sockets' = sockets /\ trace' = trace
          \/ sockets' = [sockets EXCEPT ![port] = new] /\ trace' = [trace EXCEPT ![port] = NoTrace]
      BY <1>1 DEF Listen
    <2>2. new.state = "LISTENING" /\ new.recv_buffer = <<>>
      OBVIOUS
    <2> HIDE DEF new
    <2>3. Follows(new, NoTrace)
      BY <2>2, FollowsListen
    <2> QED BY <1>0, <1>a, <2>1, <2>3
  <1>2. CASE Accept(p, port)
    <2>1. trace' = trace /\ (sockets' = sockets
             \/ (sockets[port] # NIL /\ sockets' = [sockets EXCEPT ![port].bind_proc = p]))
      BY <1>2 DEF Accept
    <2>2. CASE sockets'[q] # sockets[q]
      <3>1. q = port /\ s # NIL /\ sockets'[q] = [s EXCEPT !.bind_proc = p]
        BY <1>0, <2>1, <2>2
      <3>2. s \in TcpSocket
        BY <1>0, <3>1 DEF NetInv, SocketsOK, Good
      <3>3. /\ sockets'[q].state = s.state /\ sockets'[q].dst = s.dst
            /\ sockets'[q].ack_num = s.ack_num /\ sockets'[q].recv_buffer = s.recv_buffer
        BY <3>1, <3>2 DEF TcpSocket
      <3>4. Follows(s, t) /\ trace'[q] = t
        BY <2>1, <3>1 DEF Reads
      <3> QED BY <3>3, <3>4, FollowsSame
    <2> QED BY <1>a, <2>1, <2>2
  <1>3. CASE Close(p, port)
    <2>1. sockets' = [sockets EXCEPT ![port] = NIL] /\ trace' = [trace EXCEPT ![port] = NoTrace]
      BY <1>3 DEF Close
    <2>2. q # port
      BY <1>0, <2>1
    <2> QED BY <1>0, <1>a, <2>1, <2>2
  <1>4. ASSUME NEW len \in Lengths, Recv(p, port, len)
        PROVE  Follows(sockets'[q], trace'[q])
    <2> DEFINE piece == Head(s.recv_buffer)
               cut == SubSeq(piece, 1, IF len > Len(piece) THEN Len(piece) ELSE len)
               lost == t.lossy \/ len < Len(piece)
    <2>1. /\ proc[p] = "connected" /\ s.recv_buffer # <<>>
          /\ sockets' = [sockets EXCEPT ![port].recv_buffer = Tail(s.recv_buffer)]
          /\ trace' = [trace EXCEPT ![port].got = t.got \o cut, ![port].lossy = lost]
      BY <1>4 DEF Recv, AfterRecv, Cut
    <2>2. s # NIL /\ Good(s, port) /\ s.state # "LISTENING"
      BY <2>1, ConnectedSocket DEF port, Waiting
    <2>3. CASE q # port
      <3> HIDE DEF cut, lost
      <3> QED BY <1>0, <1>a, <2>1, <2>3
    <2>4. CASE q = port
      <3>1. /\ sockets'[q].state = s.state /\ sockets'[q].dst = s.dst
            /\ sockets'[q].ack_num = s.ack_num /\ sockets'[q].recv_buffer = Tail(s.recv_buffer)
        BY <1>0, <2>1, <2>2, <2>4 DEF Good, TcpSocket
      <3>2. PICK c : c = cut
        OBVIOUS
      <3>3. PICK b : b = lost
        OBVIOUS
      <3>4. /\ trace'[q].taken = t.taken /\ trace'[q].got = t.got \o c
            /\ trace'[q].lossy = b /\ trace'[q].stray = t.stray
        <4>1. trace' = [trace EXCEPT ![port].got = t.got \o c, ![port].lossy = b]
          BY <2>1, <3>2, <3>3, Zenon
        <4> HIDE DEF cut, lost
        <4> QED BY <1>0, <2>4, <4>1 DEF Trace
      <3>5. Follows(s, t)
        BY <2>2, <2>4, <3>4 DEF Reads
      <3>6. len \in Nat /\ s \in TcpSocket
        BY <2>2, NetAssumption DEF Good
      <3>7. PICK x : x = piece
        OBVIOUS
      <3>8. /\ trace'[q].got = t.got \o SubSeq(x, 1, IF len > Len(x) THEN Len(x) ELSE len)
            /\ trace'[q].lossy = (t.lossy \/ len < Len(x))
        BY <3>2, <3>3, <3>4, <3>7, Zenon
      <3>9. Received(s, t, sockets'[q], trace'[q], len, x)
        BY <3>1, <3>4, <3>8, Zenon DEF Received
      <3> QED BY <1>0, <2>1, <2>2, <3>5, <3>6, <3>7, <3>9, FollowsRecv
    <2> QED BY <2>3, <2>4
  <1>5. ASSUME NEW len \in Lengths, Send(p, port, len)
        PROVE  Follows(sockets'[q], trace'[q])
    <2>1. /\ proc[p] = "connected" /\ trace' = trace
          /\ sockets' = [sockets EXCEPT ![port] = AfterSend(s, len)]
      BY <1>5 DEF Send
    <2>2. s # NIL /\ s \in TcpSocket
      BY <2>1, ConnectedSocket DEF port, Good
    <2>3. CASE q # port
      BY <1>0, <1>a, <2>1, <2>3
    <2>4. CASE q = port
      <3>1. /\ sockets'[q].state = s.state /\ sockets'[q].dst = s.dst
            /\ sockets'[q].ack_num = s.ack_num /\ sockets'[q].recv_buffer = s.recv_buffer
        BY <1>0, <2>1, <2>2, <2>4 DEF AfterSend, TcpSocket
      <3>2. Follows(s, t) /\ trace'[q] = t
        BY <2>1, <2>2, <2>4 DEF Reads
      <3> QED BY <3>1, <3>2, FollowsSame
    <2> QED BY <2>3, <2>4
  <1> QED BY <1>1, <1>2, <1>3, <1>4, <1>5 DEF port

\* A delivery and what is read of a port.
LEMMA DeliverReads ==
  ASSUME NumbersApartAfterFin, NetInv, NetInv', ReadInv, NEW q \in Ports,
         NEW c \in Conns, NEW m \in OnTheWay(c), Deliver(m)
  PROVE  Reads(q)'
  <1> SUFFICES ASSUME sockets'[q] # NIL, ~trace'[q].stray
               PROVE  Follows(sockets'[q], trace'[q])
    BY DEF Reads
  <1> DEFINE port == PortOf[m.conn]
             s == sockets[port]
             t == trace[port]
  <1>0. m.conn = c /\ port = PortOf[c] /\ port \in Ports /\ t \in Trace
        /\ port \in DOMAIN sockets /\ q \in DOMAIN sockets /\ SEQ \in Nat \ {0, 1}
        /\ port \in DOMAIN trace /\ q \in DOMAIN trace /\ c # NIL
    BY MessageFacts, NetAssumption, NilAssumption DEF NetInv, PeersOK, SocketsOK
  <1>01. s # NIL /\ Good(s, port) /\ s \in TcpSocket /\ Reads(q)
    BY <1>0 DEF Deliver, NetInv, SocketsOK, Good, ReadInv
  <1> HIDE DEF port
  <1>a. CASE sockets'[q] = sockets[q] /\ trace'[q] = trace[q]
    BY <1>01, <1>a DEF Reads
  <1>1. CASE TakeSyn(port, m)
    <2> DEFINE a == (m.seq + 1) % SEQ
               old == m.conn \in served
               new == [s EXCEPT !.state = "SYN_RECEIVED", !.dst = m.conn, !.ack_num = a, !.seq_num = 0]
    <2>1. /\ m.flags = {"SYN"} /\ s.state = "LISTENING"
          /\ sockets' = [sockets EXCEPT ![port] = [new EXCEPT !.seq_num = 1]]
          /\ trace' = [trace EXCEPT ![port].stray = t.stray \/ old, ![port].taken = <<>>]
      BY <1>1 DEF TakeSyn
    <2>2. a = SeqNo(c, 1)
      <3>1. m.seq = ISN[c] % SEQ /\ ISN[c] \in 0 .. SEQ - 1
        <4>1. m.seq = SeqNo(c, 0) /\ ISN[c] \in 0 .. SEQ - 1
          BY <2>1, MessageFacts, NetAssumption DEF NetInv, PeersOK
        <4> QED BY <4>1 DEF SeqNo
      <3>2. m.seq = ISN[c]
        BY <1>0, <3>1
      <3> QED BY <1>0, <3>1, <3>2 DEF SeqNo
    <2> HIDE DEF a, old
    <2>3. CASE q # port
      BY <1>0, <1>a, <2>1, <2>3
    <2>4. CASE q = port
      <3>1. /\ sockets'[q].state = "SYN_RECEIVED" /\ sockets'[q].dst = c
            /\ sockets'[q].ack_num = a /\ sockets'[q].recv_buffer = s.recv_buffer
        BY <1>0, <1>01, <2>1, <2>4 DEF TcpSocket
      <3>2. trace'[q].got = t.got /\ trace'[q].taken = <<>> /\ trace'[q].stray = (t.stray \/ old)
        BY <1>0, <2>1, <2>4 DEF Trace
      <3>3. Follows(s, t)
        BY <1>01, <2>4, <3>2 DEF Reads
      <3>4. sockets'[q].dst \in Conns /\ sockets'[q].ack_num = SeqNo(sockets'[q].dst, 1)
        BY <2>2, <3>1
      <3> QED BY <2>1, <3>1, <3>2, <3>3, <3>4, FollowsSyn, Zenon
    <2> QED BY <2>3, <2>4
  <1>2. CASE TakeHandshakeAck(port, m)
    <2>1. /\ sockets' = [sockets EXCEPT ![port].state = "ESTABLISHED"]
          /\ s.state = "SYN_RECEIVED" /\ trace' = trace
      BY <1>2 DEF TakeHandshakeAck
    <2>2. CASE q # port
      BY <1>0, <1>a, <2>1, <2>2
    <2>3. CASE q = port
      <3>1. /\ sockets'[q].state = "ESTABLISHED" /\ sockets'[q].dst = s.dst
            /\ sockets'[q].ack_num = s.ack_num /\ sockets'[q].recv_buffer = s.recv_buffer
        BY <1>0, <1>01, <2>1, <2>3 DEF TcpSocket
      <3>2. Follows(s, t) /\ trace'[q] = t
        BY <1>01, <2>1, <2>3 DEF Reads
      <3>3. /\ s.state # "LISTENING" /\ sockets'[q].state # "LISTENING"
            /\ (sockets'[q].state \in OpenStates) <=> (s.state \in OpenStates)
        BY <2>1, <3>1 DEF OpenStates
      <3> QED BY <3>1, <3>2, <3>3, FollowsSame, Zenon
    <2> QED BY <2>2, <2>3
  <1>3. CASE TakeFin(port, m)
    <2> DEFINE a == (s.ack_num + 1) % SEQ
    <2>1. /\ trace' = trace
          /\ \/ /\ sockets' = [sockets EXCEPT ![port] = [s EXCEPT !.state = "CLOSE_WAIT", !.ack_num = a]]
                /\ s.state = "ESTABLISHED"
             \/ /\ sockets' = [sockets EXCEPT ![port].state = "CLOSED"]
                /\ s.state = "CLOSE_WAIT"
      BY <1>3 DEF TakeFin
    <2>2. CASE q # port
      BY <1>0, <1>a, <2>1, <2>2
    <2>3. CASE q = port
      <3>1. Follows(s, t) /\ trace'[q] = t
        BY <1>01, <2>1, <2>3 DEF Reads
      <3>2. CASE s.state = "ESTABLISHED"
        <4> HIDE DEF a
        <4>1. /\ sockets'[q].state = "CLOSE_WAIT" /\ sockets'[q].dst = s.dst
              /\ sockets'[q].ack_num = a /\ sockets'[q].recv_buffer = s.recv_buffer
          <5>1. sockets'[q] = [s EXCEPT !.state = "CLOSE_WAIT", !.ack_num = a]
            BY <1>0, <2>1, <2>3, <3>2
          <5> QED BY <1>01, <5>1 DEF TcpSocket
        <4>2. s.dst \in Conns
          BY <1>01, <3>2 DEF Good, TcpSocket
        <4> QED BY <1>0, <1>01, <3>1, <3>2, <4>1, <4>2, FollowsFin DEF a
      <3>3. CASE s.state = "CLOSE_WAIT"
        <4>1. /\ sockets'[q].state = "CLOSED" /\ sockets'[q].dst = s.dst
              /\ sockets'[q].ack_num = s.ack_num /\ sockets'[q].recv_buffer = s.recv_buffer
          BY <1>0, <1>01, <2>1, <2>3, <3>3 DEF TcpSocket
        <4>2. /\ s.state # "LISTENING" /\ sockets'[q].state # "LISTENING"
              /\ (sockets'[q].state \in OpenStates) <=> (s.state \in OpenStates)
          BY <3>3, <4>1 DEF OpenStates
        <4> QED BY <3>1, <4>1, <4>2, FollowsSame, Zenon
      <3> QED BY <2>1, <3>2, <3>3
    <2> QED BY <2>2, <2>3
  <1>4. CASE TakeLastAck(port, m)
    <2>1. /\ sockets' = [sockets EXCEPT ![port].state = "CLOSED"]
          /\ s.state = "CLOSE_WAIT" /\ trace' = trace
      BY <1>4 DEF TakeLastAck
    <2>2. CASE q # port
      BY <1>0, <1>a, <2>1, <2>2
    <2>3. CASE q = port
      <3>1. /\ sockets'[q].state = "CLOSED" /\ sockets'[q].dst = s.dst
            /\ sockets'[q].ack_num = s.ack_num /\ sockets'[q].recv_buffer = s.recv_buffer
        BY <1>0, <1>01, <2>1, <2>3 DEF TcpSocket
      <3>2. Follows(s, t) /\ trace'[q] = t
        BY <1>01, <2>1, <2>3 DEF Reads
      <3>3. /\ s.state # "LISTENING" /\ sockets'[q].state # "LISTENING"
            /\ (sockets'[q].state \in OpenStates) <=> (s.state \in OpenStates)
        BY <2>1, <3>1 DEF OpenStates
      <3> QED BY <3>1, <3>2, <3>3, FollowsSame, Zenon
    <2> QED BY <2>2, <2>3
  <1>5. CASE TakeData(port, m)
    <2>1. PICK piece : piece = SubSeq(m.data, 1, RealLen(m.data))
      OBVIOUS
    <2>2. PICK a : a = (s.ack_num + Len(piece)) % SEQ
      OBVIOUS
    <2>3. PICK lost : lost = (t.lossy \/ (Len(s.recv_buffer) = LEN - 1 /\ piece # <<>>))
      OBVIOUS
    <2>4. PICK stray : stray = (t.stray \/ s.state = "LISTENING")
      OBVIOUS
    <2>5. PICK ring : ring = Store(s.recv_buffer, piece)
      OBVIOUS
    <2>6. /\ sockets' = [sockets EXCEPT ![port] = [s EXCEPT !.recv_buffer = ring, !.ack_num = a]]
          /\ m.seq = s.ack_num
          /\ trace' = [trace EXCEPT ![port].taken = t.taken \o piece, ![port].lossy = lost,
                                    ![port].stray = stray]
      BY <1>5, <2>1, <2>2, <2>3, <2>4, <2>5 DEF TakeData
    <2>7. piece \in Seq(Nat) /\ InSequence(c, piece, s.ack_num)
      BY <2>1, <2>6, PieceInSequence
    <2>8. CASE q # port
      BY <1>0, <1>a, <2>6, <2>8
    <2>9. CASE q = port
      <3>1. /\ sockets'[q].state = s.state /\ sockets'[q].dst = s.dst
            /\ sockets'[q].ack_num = a /\ sockets'[q].recv_buffer = ring
        BY <1>0, <1>01, <2>6, <2>9 DEF TcpSocket
      <3>2. /\ trace'[q].got = t.got /\ trace'[q].taken = t.taken \o piece
            /\ trace'[q].lossy = lost /\ trace'[q].stray = stray
        BY <1>0, <2>6, <2>9 DEF Trace
      <3>3. s.state # "LISTENING" /\ ~t.stray
        BY <2>4, <3>2
      <3>4. Follows(s, t)
        BY <1>01, <2>9, <3>3 DEF Reads
      <3>5. /\ sockets'[q].recv_buffer = Store(s.recv_buffer, piece)
            /\ sockets'[q].ack_num = (s.ack_num + Len(piece)) % SEQ
            /\ trace'[q].lossy = (t.lossy \/ (Len(s.recv_buffer) = LEN - 1 /\ piece # <<>>))
        BY <2>2, <2>3, <2>5, <3>1, <3>2, Zenon
      <3>6. Stored(s, t, sockets'[q], trace'[q], piece)
        BY <3>1, <3>2, <3>5, Zenon DEF Stored
      <3> QED BY <1>0, <1>01, <2>7, <3>3, <3>4, <3>6, FollowsData
    <2> QED BY <2>8, <2>9
  <1> QED BY <1>1, <1>2, <1>3, <1>4, <1>5 DEF Deliver, port

\* Every step keeps what is read in order.
LEMMA ReadNext ==
  ASSUME NumbersApartAfterFin, NetInv, NetInv', ReadInv, [Next]_netVars
  PROVE  ReadInv'
  <1>1. \A c \in Conns : peer'[c].sent <= MaxBytes[c]
    BY SentGrows DEF ReadInv
  <1>2. ASSUME NEW q \in Ports
        PROVE  Reads(q)'
    <2>0. Reads(q)
      BY DEF ReadInv
    <2>1. CASE OtherStep \/ UNCHANGED netVars
      <3>1. UNCHANGED <<sockets, trace>>
        BY <2>1, OtherLeaves DEF NetInv, netVars, socketVars
      <3> QED BY <2>0, <3>1 DEF Reads
    <2>2. CASE Next
      BY <2>0, <2>1, <2>2, StepCases, RequestReads, DeliverReads
    <2> QED BY <2>1, <2>2
  <1> QED BY <1>1, <1>2 DEF ReadInv

\* A process reads the bytes acknowledged on its connection out of its ring in
\* order and none twice, and all of them unless the ring overflowed or a read
\* was cut short, for every ring, every segmentation and every order of
\* delivery, and until a recv finds the ring empty it is given nothing else:
\* provided the numbers of the connections to a port are apart, the FIN's
\* included.
THEOREM ReadsAreInOrder ==
  ASSUME NumbersApartAfterFin
  PROVE  Spec => []ReadsFollowStream
  <1>1. Init => ReadInv
    BY NetAssumption DEF Init, ReadInv, Reads
  <1>2. NetInv /\ NetInv' /\ ReadInv /\ [Next]_netVars => ReadInv'
    BY ReadNext
  <1>3. ReadInv /\ NullInv => ReadsFollowStream
    BY DEF ReadInv, NullInv, Reads, Follows, Rising, Read, ReadsFollowStream
  <1> QED BY <1>1, <1>2, <1>3, NetInvariant, NullInvariant, PTL DEF Spec

=============================================================================
