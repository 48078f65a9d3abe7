--------------------------------- MODULE Net ---------------------------------
(***************************************************************************)
(* The network server: net/main.cc with the interface, the protocol stack  *)
(* (ARP and TCP) and the processes that use sockets.                       *)
(*                                                                         *)
(* The server handles one request or one packet at a time, so each is one  *)
(* action.  Remote hosts and the network between are external: what a host *)
(* has sent is delivered any number of times, in any order, or never.      *)
(* Each connection attempt of a remote host has an initial sequence        *)
(* number; the bytes it sends are numbered from 1.                         *)
(*                                                                         *)
(* A request or a packet that changes nothing is a stuttering step.        *)
(***************************************************************************)
EXTENDS Arp, SequencesExt

CONSTANTS
  Ports, Procs,
  Uses,         \* the port each process uses
  Conns,        \* connection attempts of remote hosts
  PortOf,       \* the port each of them addresses
  ISN,          \* the initial sequence number of each
  SEQ,          \* sequence numbers are modulo SEQ (2^32)
  LEN,          \* buffers of a receive ring (10); one stays unused
  MaxBytes,     \* bound: bytes the remote host sends in each
  ZEROS,        \* the ones among them that are 0
  MSS,          \* bytes of a segment
  Lengths,      \* lengths processes pass to recv and send
  OWN_MAC, OWN_IP, GW_MAC, GW_IP,
  Hosts,        \* <<mac, ip>> of other hosts that answer ARP requests
  NewIPs,       \* addresses conf_net may set
  MaxSteps,     \* bound: socket requests and segments the server acts on
  MaxArp,       \* bound: ARP packets and interface requests it acts on
  NIL

ASSUME NetAssumption ==
  /\ SEQ \in Nat \ {0, 1} /\ LEN \in Nat \ {0, 1} /\ MaxBytes \in [Conns -> Nat]
  /\ ISN \in [Conns -> 0 .. SEQ - 1] /\ PortOf \in [Conns -> Ports]
  /\ Uses \in [Procs -> Ports]
  /\ MSS \in Nat \ {0} /\ Lengths \subseteq Nat \ {0} /\ MaxSteps \in Nat /\ MaxArp \in Nat

VARIABLES
  items,      \* the ARP table
  ip_addr,    \* the address of the interface
  sockets,    \* port -> socket, NIL when there is none
  proc,       \* where each process is
  server,     \* "up", or "gone" after a message to a process at address 0
  peer,       \* connection -> state of the remote host
  toPeer,     \* segments that reach a remote host
  page0,      \* the piece that lies at address 0
  trace,      \* ghost: what happened on each port since listen
  reads,      \* ghost: what recv gave out on each port since listen
  served,     \* ghost: connections whose SYN was taken
  heard,      \* ghost: ARP replies taken
  deaf,       \* ghost: some segment could not reach its remote host
  steps, arps \* counters for the two bounds

socketVars == <<sockets, proc, server, page0, trace, reads, served>>
arpVars == <<items, ip_addr, heard>>
netVars == <<socketVars, arpVars, peer, toPeer, deaf, steps, arps>>

States == {"LISTENING", "SYN_RECEIVED", "ESTABLISHED", "CLOSE_WAIT", "CLOSED"}

TcpSocket ==
  [state : States, src_ip : {OWN_IP} \cup NewIPs, dst : Conns \cup {NIL},
   seq_num : 0 .. SEQ - 1, ack_num : 0 .. SEQ - 1,
   recv_buffer : Seq(Seq(Nat)), bind_proc : Procs \cup {NIL}]

ASSUME NilAssumption == NIL \notin Conns /\ NIL \notin Procs /\ NIL \notin TcpSocket

\* taken: the bytes acknowledged, stored or not; got: the bytes read out of the
\* ring; lossy: bytes were dropped after they were acknowledged; stray: a
\* segment was acted on that belongs to no connection or to an earlier one.
Trace ==
  [taken : Seq(Nat), got : Seq(Nat),
   lossy : BOOLEAN, stray : BOOLEAN]

NoTrace == [taken |-> <<>>, got |-> <<>>, lossy |-> FALSE, stray |-> FALSE]

\* given: all bytes that recv handed to the process; early: some recv found the
\* ring empty.
ReadLog == [given : Seq(Nat), early : BOOLEAN]

NoReads == [given |-> <<>>, early |-> FALSE]

\* What lies at address 0 before a piece is dropped there; 0 is no byte of any host.
JUNK == <<0>>

Step ==
  server = "up" /\ steps < MaxSteps /\ steps' = steps + 1 /\ UNCHANGED arps

ArpStep ==
  server = "up" /\ arps < MaxArp /\ arps' = arps + 1 /\ UNCHANGED steps

-----------------------------------------------------------------------------
(* Remote hosts. *)

SeqNo(c, byte) == (ISN[c] + byte) % SEQ

\* A frame this short is filled up with zeros, which count as payload here.
PAD == 0

Incoming(c, flags, byte, data) ==
  [conn |-> c, flags |-> flags, seq |-> SeqNo(c, byte), data |-> Append(data, PAD)]

Slices(n) == {[k \in 1 .. len |-> i + k - 1] : i \in 1 .. n, len \in 1 .. MSS}

\* The segments that host c may have put on the network so far: its SYN; once
\* the connection is open, acknowledgements and its bytes, cut in any way (a
\* retransmission may cut them anew); FIN or RST when it is done.  The RST bit
\* is not one of those resolve_packet looks at.
OnTheWay(c) ==
  LET open == peer[c].state \in {"open", "fin", "reset"}
      end == peer[c].sent + 1
  IN  {Incoming(c, {"SYN"}, 0, <<>>) : x \in {peer[c].state} \ {"idle"}}
      \cup {m \in {Incoming(c, {"ACK"}, i, <<>>) : i \in 1 .. end} : open}
      \cup {Incoming(c, {"ACK"}, d[1], d) :
              d \in {x \in Slices(peer[c].sent) : open /\ Last(x) <= peer[c].sent}}
      \cup {m \in {Incoming(c, {"FIN", "ACK"}, end, <<>>)} : peer[c].state = "fin"}
      \cup {m \in {Incoming(c, {}, end, <<>>), Incoming(c, {"ACK"}, end, <<>>)} :
              peer[c].state = "reset"}

PeerSyn(c) ==
  /\ peer[c].state = "idle"
  /\ peer' = [peer EXCEPT ![c].state = "syn"]
  /\ UNCHANGED <<socketVars, arpVars, toPeer, deaf, steps, arps>>

PeerOpen(c) ==
  /\ peer[c].state = "syn"
  /\ \E m \in toPeer : /\ m.conn = c /\ m.flags = {"SYN", "ACK"}
                       /\ m.ack = SeqNo(c, 1)
  /\ peer' = [peer EXCEPT ![c].state = "open"]
  /\ UNCHANGED <<socketVars, arpVars, toPeer, deaf, steps, arps>>

PeerData(c) ==
  /\ peer[c].state = "open" /\ peer[c].sent < MaxBytes[c]
  /\ peer' = [peer EXCEPT ![c].sent = @ + 1]
  /\ UNCHANGED <<socketVars, arpVars, toPeer, deaf, steps, arps>>

PeerEnd(c) ==
  /\ peer[c].state = "open"
  /\ \E end \in {"fin", "reset"} : peer' = [peer EXCEPT ![c].state = end]
  /\ UNCHANGED <<socketVars, arpVars, toPeer, deaf, steps, arps>>

-----------------------------------------------------------------------------
(* Sending. *)

\* The hardware address of the default gateway, mac_zero when the table has none.
get_default_gateway_mac == get_mac_addr(items, GW_IP)

\* A segment as format_packet writes it for socket s.
Segment(s, flags, len) ==
  [conn |-> s.dst, flags |-> flags, seq |-> s.seq_num, ack |-> s.ack_num,
   len |-> len]

\* A faulty variant, for the check that a property notices it: the bytes are
\* not counted.
AfterSend_NotCounted(s, len) == s

\* format_packet moves the sequence number on.
AfterSend(s, len) == [s EXCEPT !.seq_num = (@ + len) % SEQ]

\* TcpFactory::send for the segments of one handler: each looks up the
\* gateway.  A segment to an unknown gateway goes to whatever address lies
\* behind the null pointer; the checksum covers the address the interface had
\* at listen, so after conf_net the remote host discards it.
Transmit(s, segments) ==
  LET slot == locate_ip_addr(items, GW_IP)
      reaches == get_default_gateway_mac = GW_MAC /\ s.src_ip = ip_addr
  IN  /\ items' = IF slot = -1 THEN items
                  ELSE [items EXCEPT ![slot].ref = @ + Cardinality(segments)]
      /\ toPeer' = IF reaches /\ s.dst # NIL THEN toPeer \cup segments ELSE toPeer
      /\ deaf' = (deaf \/ ~reaches)

-----------------------------------------------------------------------------
(* Requests of processes: the cases of net/main.cc. *)

\* listen: refused when the port is occupied, which the caller is not told.
Listen(p, port) ==
  /\ Step
  /\ proc[p] = "idle"
  /\ proc' = [proc EXCEPT ![p] = "listen"]
  /\ IF sockets[port] # NIL
     THEN UNCHANGED <<sockets, trace, reads>>
     ELSE /\ sockets' = [sockets EXCEPT ![port] =
               [state |-> "LISTENING", src_ip |-> ip_addr, dst |-> NIL,
                seq_num |-> 0, ack_num |-> 0, recv_buffer |-> <<>>,
                bind_proc |-> NIL]]
          /\ trace' = [trace EXCEPT ![port] = NoTrace]
          /\ reads' = [reads EXCEPT ![port] = NoReads]
  /\ UNCHANGED <<server, page0, served, arpVars, peer, toPeer, deaf>>

\* socket_accept: the process waits, bound or not.
Accept(p, port) ==
  /\ Step
  /\ proc[p] = "listen"
  /\ proc' = [proc EXCEPT ![p] = "accept"]
  /\ sockets' = IF sockets[port] # NIL /\ sockets[port].state = "LISTENING"
                THEN [sockets EXCEPT ![port].bind_proc = p] ELSE sockets
  /\ UNCHANGED <<server, page0, trace, reads, served, arpVars, peer, toPeer, deaf>>

\* A faulty variant, for the check that a property notices it: the piece stays
\* in the ring.
AfterRecv_Stays(ring) == ring

AfterRecv(ring) == Tail(ring)

\* A piece cut at the length the process asked for.
Cut(piece, len) == SubSeq(piece, 1, IF len > Len(piece) THEN Len(piece) ELSE len)

\* recv: the first used buffer goes to the process.
Recv(p, port, len) ==
  LET piece == Head(sockets[port].recv_buffer)
  IN  /\ Step
      /\ proc[p] = "connected"
      /\ sockets[port].recv_buffer # <<>>
      /\ sockets' = [sockets EXCEPT ![port].recv_buffer = AfterRecv(@)]
      /\ trace' = [trace EXCEPT ![port].got = @ \o Cut(piece, len),
                                ![port].lossy = @ \/ len < Len(piece)]
      /\ reads' = [reads EXCEPT ![port].given = @ \o Cut(piece, len)]
      /\ UNCHANGED <<proc, server, page0, served, arpVars, peer, toPeer, deaf>>

\* An empty ring yields a null pointer, and the process is given what lies
\* there; the ring stays as it is.
RecvNull(p, port, len) ==
  /\ Step
  /\ proc[p] = "connected"
  /\ sockets[port].recv_buffer = <<>>
  /\ reads' = [reads EXCEPT ![port] = [given |-> @.given \o Cut(page0, len), early |-> TRUE]]
  /\ UNCHANGED <<sockets, proc, server, page0, trace, served, arpVars, peer, toPeer, deaf>>

Send(p, port, len) ==
  /\ Step
  /\ proc[p] = "connected"
  /\ Transmit(sockets[port], {Segment(sockets[port], {"ACK"}, len)})
  /\ sockets' = [sockets EXCEPT ![port] = AfterSend(@, len)]
  /\ UNCHANGED <<proc, server, page0, trace, reads, served, ip_addr, heard, peer>>

\* close_socket: FIN and the socket is gone; what comes later finds no socket.
Close(p, port) ==
  /\ Step
  /\ proc[p] = "connected"
  /\ proc' = [proc EXCEPT ![p] = "idle"]
  /\ Transmit(sockets[port], {Segment(sockets[port], {"FIN", "ACK"}, 0)})
  /\ sockets' = [sockets EXCEPT ![port] = NIL]
  /\ trace' = [trace EXCEPT ![port] = NoTrace]
  /\ reads' = [reads EXCEPT ![port] = NoReads]
  /\ UNCHANGED <<server, page0, served, ip_addr, heard, peer>>

\* config_iface: the ARP table keeps the old address.
ConfNet(new) ==
  /\ ArpStep
  /\ ip_addr # new
  /\ ip_addr' = new
  /\ UNCHANGED <<socketVars, items, heard, peer, toPeer, deaf>>

Ping ==
  /\ ArpStep
  /\ items' = Touch(items, locate_ip_addr(items, GW_IP))
  /\ UNCHANGED <<socketVars, ip_addr, heard, peer, toPeer, deaf>>

-----------------------------------------------------------------------------
(* Packets: handle_packet and resolve_packet. *)

\* A request for any address of the table is answered, and counts as a use.
ArpRequest(target) ==
  /\ ArpStep
  /\ locate_ip_addr(items, target) # -1
  /\ items' = Touch(items, locate_ip_addr(items, target))
  /\ UNCHANGED <<socketVars, ip_addr, heard, peer, toPeer, deaf>>

ArpReply(mac, ip) ==
  /\ ArpStep
  /\ items' = append(items, mac, ip)
  /\ heard' = heard \cup {<<mac, ip>>}
  /\ UNCHANGED <<socketVars, ip_addr, peer, toPeer, deaf>>

\* SYN at a listening socket.  The SYN of the answer counts afterwards.
TakeSyn(port, m) ==
  LET s == [sockets[port] EXCEPT !.state = "SYN_RECEIVED", !.dst = m.conn,
              !.ack_num = (m.seq + 1) % SEQ, !.seq_num = 0]
  IN  /\ Step
      /\ m.flags = {"SYN"}
      /\ sockets[port].state = "LISTENING"
      /\ Transmit(s, {Segment(s, {"SYN", "ACK"}, 0)})
      /\ sockets' = [sockets EXCEPT ![port] = [s EXCEPT !.seq_num = 1]]
      /\ trace' = [trace EXCEPT ![port].stray = @ \/ m.conn \in served,
                                ![port].taken = <<>>]
      /\ served' = served \cup {m.conn}
      /\ UNCHANGED <<proc, server, page0, reads, ip_addr, heard, peer>>

\* A faulty variant, for the check that a property notices it: the process is
\* not told.
Answer_Not(p) == UNCHANGED <<proc, server>>

\* msg.send(bind_proc): the process bound by accept goes on.  Without one the
\* message goes to a process at address 0, and the server with it.
Answer(p) ==
  IF p = NIL THEN server' = "gone" /\ UNCHANGED proc
  ELSE proc' = [proc EXCEPT ![p] = "connected"] /\ UNCHANGED server

\* The last ACK of the handshake, whatever its sequence number; data it
\* carries is left for a retransmission.
TakeHandshakeAck(port, m) ==
  /\ Step
  /\ m.flags = {"ACK"}
  /\ sockets[port].state = "SYN_RECEIVED"
  /\ sockets' = [sockets EXCEPT ![port].state = "ESTABLISHED"]
  /\ Answer(sockets[port].bind_proc)
  /\ UNCHANGED <<page0, trace, reads, served, arpVars, peer, toPeer, deaf>>

\* FIN, whatever its sequence number: ACK and FIN|ACK are sent at once, and
\* the FIN does not count.
TakeFin(port, m) ==
  LET s == [sockets[port] EXCEPT !.state = "CLOSE_WAIT",
              !.ack_num = (@ + 1) % SEQ]
  IN  /\ Step
      /\ m.flags = {"FIN", "ACK"}
      /\ \/ /\ sockets[port].state = "ESTABLISHED"
            /\ Transmit(s, {Segment(s, {"ACK"}, 0), Segment(s, {"FIN", "ACK"}, 0)})
            /\ sockets' = [sockets EXCEPT ![port] = s]
         \/ /\ sockets[port].state = "CLOSE_WAIT"
            /\ sockets' = [sockets EXCEPT ![port].state = "CLOSED"]
            /\ UNCHANGED <<items, toPeer, deaf>>
      /\ UNCHANGED <<proc, server, page0, trace, reads, served, ip_addr, heard, peer>>

TakeLastAck(port, m) ==
  /\ Step
  /\ m.flags = {"ACK"}
  /\ sockets[port].state = "CLOSE_WAIT"
  /\ sockets' = [sockets EXCEPT ![port].state = "CLOSED"]
  /\ UNCHANGED <<proc, server, page0, trace, reads, served, arpVars, peer, toPeer, deaf>>

\* A faulty variant, for the check that a property notices it: every byte counts.
RealLen_All(data) == Len(data)

\* The bytes that are not 0 are counted, and as many are taken from the front.
RealLen(data) == Cardinality({i \in DOMAIN data : data[i] \notin ZEROS \cup {PAD}})

\* A faulty variant, for the check that a property notices it: one buffer more.
Store_OneMore(ring, piece) == IF Len(ring) = LEN THEN ring ELSE Append(ring, piece)

\* A full ring yields a null buffer: the length and the bytes are written to
\* address 0 instead.
Store(ring, piece) == IF Len(ring) = LEN - 1 THEN ring ELSE Append(ring, piece)

\* A faulty variant, for the check that a property notices it: the number
\* before the bytes were counted.
DataAck_Before(old, new) == Segment(old, {"ACK"}, 0)

DataAck(old, new) == Segment(new, {"ACK"}, 0)

\* The default case, also reached by an ACK in the remaining states: a segment
\* in sequence is stored and acknowledged, an empty one too; others are
\* dropped without a word.
TakeData(port, m) ==
  LET old == sockets[port]
      piece == SubSeq(m.data, 1, RealLen(m.data))
      s == [old EXCEPT !.recv_buffer = Store(@, piece),
              !.ack_num = (@ + Len(piece)) % SEQ]
  IN  /\ Step
      /\ \/ m.flags = {}
         \/ m.flags = {"ACK"} /\ old.state \in {"LISTENING", "ESTABLISHED", "CLOSED"}
      /\ m.seq = old.ack_num
      /\ Transmit(s, {DataAck(old, s)})
      /\ sockets' = [sockets EXCEPT ![port] = s]
      /\ page0' = IF Len(old.recv_buffer) = LEN - 1 THEN piece ELSE page0
      /\ trace' = [trace EXCEPT
           ![port].taken = @ \o piece,
           ![port].lossy = @ \/ (Len(old.recv_buffer) = LEN - 1 /\ piece # <<>>),
           ![port].stray = @ \/ old.state = "LISTENING"]
      /\ UNCHANGED <<proc, server, reads, served, ip_addr, heard, peer>>

\* A packet for a port without a socket is ignored.
Deliver(m) ==
  LET port == PortOf[m.conn]
  IN  /\ sockets[port] # NIL
      /\ \/ TakeSyn(port, m) \/ TakeHandshakeAck(port, m) \/ TakeFin(port, m)
         \/ TakeLastAck(port, m) \/ TakeData(port, m)

-----------------------------------------------------------------------------

Init ==
  /\ items = set_item(EmptyTable, 0, OWN_MAC, OWN_IP)
  /\ ip_addr = OWN_IP
  /\ sockets = [port \in Ports |-> NIL]
  /\ proc = [p \in Procs |-> "idle"]
  /\ server = "up"
  /\ peer = [c \in Conns |-> [state |-> "idle", sent |-> 0]]
  /\ toPeer = {}
  /\ page0 = JUNK
  /\ trace = [port \in Ports |-> NoTrace]
  /\ reads = [port \in Ports |-> NoReads]
  /\ served = {} /\ heard = {} /\ deaf = FALSE
  /\ steps = 0 /\ arps = 0

Request ==
  \/ \E p \in Procs :
       \/ Listen(p, Uses[p]) \/ Accept(p, Uses[p]) \/ Close(p, Uses[p])
       \/ \E len \in Lengths :
            Recv(p, Uses[p], len) \/ RecvNull(p, Uses[p], len) \/ Send(p, Uses[p], len)
  \/ \E new \in NewIPs : ConfNet(new)
  \/ Ping

Packet ==
  \/ \E c \in Conns : \E m \in OnTheWay(c) : Deliver(m)
  \/ \E host \in Hosts \cup {<<GW_MAC, GW_IP>>} : ArpReply(host[1], host[2])
  \/ \E target \in {OWN_IP, GW_IP} : ArpRequest(target)

RemoteHost ==
  \E c \in Conns :
    PeerSyn(c) \/ PeerOpen(c) \/ PeerData(c) \/ PeerEnd(c)

Next == Request \/ Packet \/ RemoteHost

Spec == Init /\ [][Next]_netVars

-----------------------------------------------------------------------------
(* Properties. *)

\* resolve_packet does not look at who sent a segment (tcp.cc 256): what keeps
\* the bytes of two hosts on a port apart is that their numbers are.  The next
\* number a connection waits for is never one of another connection's, nor an
\* earlier one of its own.
NumbersApart ==
  \A c, d \in Conns : \A i \in 1 .. MaxBytes[c] + 1, j \in 1 .. MaxBytes[d] :
    PortOf[c] = PortOf[d] /\ SeqNo(c, i) = SeqNo(d, j) => c = d /\ i = j

\* The same when the number that a FIN adds is counted as well: bytes that come
\* in sequence after it are stored too (tcp.cc 205-211, 256-271).
NumbersApartAfterFin ==
  \A c, d \in Conns : \A i \in 1 .. MaxBytes[c] + 2, j \in 1 .. MaxBytes[d] :
    PortOf[c] = PortOf[d] /\ SeqNo(c, i) = SeqNo(d, j) => c = d /\ i = j

\* The table, the sockets and the processes keep their ranges: a receive ring
\* never holds LEN buffers, and a socket has a remote host from the SYN on.
NetTypeOK ==
  /\ items \in [Items -> [mac : {mac_zero, OWN_MAC, GW_MAC} \cup {h[1] : h \in Hosts},
                          ip : {ip_zero, OWN_IP, GW_IP} \cup {h[2] : h \in Hosts},
                          ref : Nat]]
  /\ ip_addr \in {OWN_IP} \cup NewIPs
  /\ sockets \in [Ports -> TcpSocket \cup {NIL}]
  /\ \A port \in Ports : sockets[port] # NIL =>
       /\ Len(sockets[port].recv_buffer) < LEN
       /\ (sockets[port].dst = NIL) <=> (sockets[port].state = "LISTENING")
  /\ proc \in [Procs -> {"idle", "listen", "accept", "connected"}]
  /\ page0 \in Seq(Nat)
  /\ trace \in [Ports -> Trace] /\ reads \in [Ports -> ReadLog]

\* Only sockets that exist and have taken a SYN are spoken of below.
Established(port) == sockets[port] # NIL /\ sockets[port].state = "ESTABLISHED"

\* Until a FIN is taken, the bytes acknowledged on a connection are the first
\* ones its host sent, each once, whatever the network lost, repeated or
\* reordered, and whichever bytes are 0 (tcp.cc 256-271).
AckMatchesTaken ==
  \A port \in Ports : Established(port) =>
    LET s == sockets[port]
        n == Len(trace[port].taken)
    IN  /\ s.ack_num = SeqNo(s.dst, n + 1)
        /\ n <= peer[s.dst].sent
        /\ trace[port].taken = [i \in 1 .. n |-> i]

\* A process reads the acknowledged bytes out of its ring in order and without
\* repetition, however often it found the ring empty in between; it reads all
\* of them unless the ring overflowed or it asked for fewer than a buffer held
\* (tcp.cc 264-268, 305-315).  Up to the first recv that finds the ring empty it
\* is given exactly these bytes; that one adds what lies at address 0, which it
\* cannot tell from bytes of the connection.  A segment taken before the SYN,
\* or a SYN of an earlier connection, is excepted.
ReadsFollowStream ==
  \A port \in Ports : sockets[port] # NIL /\ ~trace[port].stray =>
    LET read == trace[port].got \o FlattenSeq(sockets[port].recv_buffer)
    IN  /\ \A i, j \in DOMAIN read : i < j => read[i] < read[j]
        /\ ~trace[port].lossy => read = trace[port].taken
        /\ ~reads[port].early => reads[port].given = trace[port].got

\* A process that accept has bound waits exactly until its connection is
\* established (net/main.cc 107: the reply is sent when the packet arrives).
AcceptAnswered ==
  \A port \in Ports, p \in Procs :
    sockets[port] # NIL /\ sockets[port].bind_proc = p =>
      ((proc[p] = "accept") <=>
         (sockets[port].state \in {"LISTENING", "SYN_RECEIVED"}))

\* What has been taken has been acknowledged on the network as well, unless
\* the gateway was unknown or the interface's address changed after listen:
\* the one acknowledgement is never repeated (tcp.cc 92, 130, 271).
TakenIsAcked ==
  \A port \in Ports : Established(port) /\ trace[port].taken # <<>> /\ ~deaf =>
    \E m \in toPeer : /\ m.conn = sockets[port].dst
                      /\ m.ack = sockets[port].ack_num

\* The sequence numbers a segment covers.
Covers(m) ==
  {(m.seq + k) % SEQ : k \in 0 .. m.len - 1 + (IF "SYN" \in m.flags THEN 1 ELSE 0)}

\* Until a FIN is taken, the segments sent on a connection cover the sequence
\* numbers from 0 on without a gap, and no two of them overlap (tcp.cc 144,
\* 182-186).
OutContiguous ==
  \A port \in Ports :
    Established(port) /\ ~trace[port].stray /\ ~deaf =>
      LET out == {m \in toPeer : m.conn = sockets[port].dst}
      IN  /\ UNION {Covers(m) : m \in out} = 0 .. sockets[port].seq_num - 1
          /\ \A m1, m2 \in out : m1 # m2 => Covers(m1) \cap Covers(m2) = {}

\* As long as no host was heard with two addresses, the ARP table holds
\* exactly the interface's first address and the hosts heard, until there are
\* more of them than items (arp.cc 224-236).
KnownHostsKept ==
  LET known == heard \cup {<<OWN_MAC, OWN_IP>>}
  IN  /\ Cardinality(known) <= NITEMS
      /\ \A h1, h2 \in known : h1[1] = h2[1] => h1 = h2
      => {<<items[i].mac, items[i].ip>> : i \in Items} \ {<<mac_zero, ip_zero>>} = known

=============================================================================
