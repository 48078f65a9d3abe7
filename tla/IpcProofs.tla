------------------------------ MODULE IpcProofs -------------------------------
(***************************************************************************)
(* Proofs about message passing, for every set of processes.               *)
(*                                                                         *)
(* BaseInv holds whoever calls whom: types, the process manager's          *)
(* invariant, and that a server knows whom to reply to.  SafeIpc holds for *)
(* layered servers as long as no reply is taken from behind another sender *)
(* (ReplyBehind).  Links says that the queues are disjoint lists, of       *)
(* whatever sequences; SafeInv says why each node is on its queue          *)
(* (Queued), that the sender of the request a server works on waits for    *)
(* the reply (Serving), where every process is (Placed), what the disk     *)
(* owes (DiskOwes), and the properties themselves.                         *)
(*                                                                         *)
(* StepSummary reads each action of Ipc as what it does to statuses,       *)
(* objects and queues.  Sound(z) is what SafeInv says of one process;      *)
(* FrameLemma shows that a step has to be looked at only where it changes  *)
(* something, and AloneSafe, EnqueuedSafe and TakenSafe put that in the    *)
(* forms the steps need: one process moves, one is queued, one takes a     *)
(* message and wakes a sender.                                             *)
(***************************************************************************)
EXTENDS Ipc, ProcessProofs, NatFacts, FiniteSetTheorems

-----------------------------------------------------------------------------
(* The invariant for every topology. *)

\* A request a server works on came from a process, and none is left when the
\* server goes back to receive; a process past the send of a call knows whom
\* it called.
Asked(p) ==
  /\ obj[p]["loop"].type = "REQ" => obj[p]["loop"].dest \in Procs
  /\ pc[p] = "loop" => obj[p]["loop"].type # "REQ" /\ status[p] # "WAITING_MSG"
  /\ pc[p] \in {"recv", "nestedRecv"} => tgt[p] \in Procs

\* No process is being started: creation is left to module Process.
NoneStarts == start_pc = "none" /\ ~torn

BaseInv == IpcTypeOK /\ ProcInv /\ NoneStarts /\ \A p \in Procs : Asked(p)

-----------------------------------------------------------------------------
(* The invariant for layered servers. *)

\* n is past the send of a call of X, about to wait for it or waiting.
Awaits(n, X) ==
  /\ tgt[n] = X /\ X \in Calls[n]
  /\ \/ status[n] \in Runnable /\ pc[n] \in {"recv", "nestedRecv"}
     \/ /\ status[n] = "WAITING_MSG" /\ pc[n] \in {"idle", "finish"}
        /\ message[n] = "call" /\ Wants(n) = X

AwaitsDisk(p) ==
  /\ p \in DiskServers /\ irq[p]
  /\ status[p] = "WAITING_MSG" /\ pc[p] = "finish"
  /\ message[p] = "call" /\ Wants(p) = INTERRUPT

AwaitsAny(p) ==
  /\ p \in Servers
  /\ status[p] = "WAITING_MSG" /\ pc[p] = "handle"
  /\ message[p] = "loop" /\ Wants(p) = ANY /\ obj[p]["loop"].type # "REQ"

\* Where each process is in its program, and what it waits for.
Placed(p) ==
  /\ p \in Clients => pc[p] \in {"idle", "recv"}
  /\ p \in Servers => pc[p] \in {"loop", "handle", "nestedRecv", "diskWait", "finish"}
  /\ status[p] \in {"WAITING_MSG", "SENDING_MSG"} => p \in Clients \cup Servers
  /\ status[p] = "SENDING_MSG" => pc[p] \in {"idle", "recv", "nestedRecv", "loop"}
  /\ pc[p] \in {"recv", "nestedRecv"} => p \in Clients \cup Servers /\ tgt[p] \in Calls[p]
  /\ pc[p] = "nestedRecv" => obj[p]["loop"].type \in {"REQ", "INTR"}
  /\ pc[p] = "diskWait" => p \in DiskServers /\ status[p] \in Runnable
  /\ obj[p]["loop"].type = "INTR" \/ intr_cnt[p] # 0 => p \in NetServers
  /\ status[p] = "WAITING_MSG" =>
       AwaitsAny(p) \/ AwaitsDisk(p) \/ \E X \in Servers : Awaits(p, X)

\* The call object of a process that goes on after a call.
Answered(p) ==
  p \in Clients \cup Servers /\ pc[p] \in {"idle", "finish"} /\ status[p] \in Runnable =>
    \/ obj[p]["call"] = [type |-> "REPLY", ctx |-> p, dest |-> tgt[p]]
    \/ p \in Clients /\ obj[p]["call"].type \in {"NONE", "POST"}
    \/ p \in DiskServers /\ obj[p]["call"].type = "IRQ"

\* x has a request in d's queue.  The disk interrupt behind it may have woken
\* it early.
Asking(x, d) ==
  /\ message[x] = "call" /\ tgt[x] = d /\ d \in Calls[x]
  /\ obj[x]["call"].type = "REQ" /\ obj[x]["call"].ctx = x
  /\ \/ status[x] = "SENDING_MSG" /\ pc[x] \in {"recv", "nestedRecv"}
     \/ d \in DiskServers /\ Awaits(x, d)

Posting(x, d) ==
  /\ x \in Clients /\ d \in Posts[x]
  /\ status[x] = "SENDING_MSG" /\ pc[x] = "idle"
  /\ message[x] = "call" /\ obj[x]["call"].type = "POST"

\* x has the answer to d's call in d's queue.
Replying(x, d) ==
  /\ x \in Servers
  /\ status[x] = "SENDING_MSG" /\ pc[x] = "loop"
  /\ message[x] = "loop" /\ obj[x]["loop"].type = "REPLY" /\ obj[x]["loop"].ctx = d
  /\ Awaits(d, x) /\ d \notin Senders(x)

\* What each node of a queue is doing there.
Queued(x, d) ==
  IF x = INTERRUPT
  THEN d \in DiskServers /\ pc[d] = "diskWait" /\ ~irq[d]
  ELSE x \in Clients \cup Servers /\ (Asking(x, d) \/ Posting(x, d) \/ Replying(x, d))

\* The request a server works on: its sender waits for this server's reply
\* and has nothing in its queue.
Serving(X) ==
  obj[X]["loop"].type = "REQ" =>
    LET n == obj[X]["loop"].dest
    IN  /\ X \in Servers /\ n \in Clients \cup Servers
        /\ obj[X]["loop"].ctx = n /\ Awaits(n, X) /\ n \notin Senders(X)

\* The disk answers a driver that waits, or its answer is queued.
DiskOwes(d) ==
  /\ irq[d] => pc[d] = "diskWait" \/ AwaitsDisk(d)
  /\ pc[d] = "diskWait" => irq[d] \/ INTERRUPT \in Senders(d)

\* Nothing a waiting process would take is there.
NothingMissed(p) ==
  status[p] = "WAITING_MSG" =>
    /\ Wants(p) \notin Senders(p)
    /\ Wants(p) = ANY => Senders(p) = {} /\ intr_cnt[p] = 0

SafeInv ==
  /\ \A p \in Procs : Placed(p) /\ Answered(p) /\ Serving(p) /\ NothingMissed(p)
  /\ \A d \in DiskServers : DiskOwes(d)
  /\ \A d \in Procs : \A x \in Senders(d) : Queued(x, d)
  /\ \A p \in Procs : status[p] = "SENDING_MSG" => \E d \in Procs : p \in Senders(d)

-----------------------------------------------------------------------------
(* The queues of blocked senders, as the links have them. *)

\* SenderAt and Senders for any heads and links.
WalkAt(heads, links, p, n) ==
  LET at[i \in 0 .. n] == IF i = 0 THEN heads[p]
                          ELSE IF at[i - 1] = NULL THEN NULL ELSE links[at[i - 1]]
  IN  at[n]

Members(heads, links, p) == {WalkAt(heads, links, p, n) : n \in Depths} \ {NULL}

\* The queue of p is the list s of different nodes, and ends.
Chain(heads, links, p, s) ==
  /\ heads[p] = IF s = <<>> THEN NULL ELSE s[1]
  /\ \A i \in 1 .. Len(s) : links[s[i]] = IF i = Len(s) THEN NULL ELSE s[i + 1]
  /\ \A i, j \in 1 .. Len(s) : s[i] = s[j] => i = j

\* Every queue is a list, and no node is on two of them.
Chains(heads, links, q) ==
  /\ q \in [Procs -> Seq(Nodes)]
  /\ \A p \in Procs : Chain(heads, links, p, q[p])
  /\ \A p, r \in Procs : \A i \in 1 .. Len(q[p]), j \in 1 .. Len(q[r]) :
       q[p][i] = q[r][j] => p = r

Links(heads, links) == \E q : Chains(heads, links, q)

\* NULL is no node.
LEMMA NullApart == NULL \notin Nodes /\ INTERRUPT \in Nodes /\ INTERRUPT \notin Procs
  BY IpcAssumption DEF Nodes

\* The function of SenderAt exists: it is defined node after node.
LEMMA WalkUnfold ==
  ASSUME NEW heads, NEW links, NEW p, NEW m \in Nat
  PROVE  \E f : /\ WalkAt(heads, links, p, m) = f[m]
                /\ f[0] = heads[p]
                /\ \A k \in 1 .. m : f[k] = IF f[k - 1] = NULL THEN NULL ELSE links[f[k - 1]]
  <1> DEFINE Next1(x) == IF x = NULL THEN NULL ELSE links[x]
             Body(f, n) == [i \in 0 .. n |-> IF i = 0 THEN heads[p] ELSE Next1(f[i - 1])]
             S == {n \in Nat : \E f : f = Body(f, n)}
  <1>1. 0 \in S
    <2>1. [i \in 0 .. 0 |-> heads[p]] = Body([i \in 0 .. 0 |-> heads[p]], 0)
      OBVIOUS
    <2> QED BY <2>1
  <1>2. ASSUME NEW n \in Nat, n \in S
        PROVE  n + 1 \in S
    <2>1. PICK f : f = Body(f, n)
      BY <1>2
    <2> HIDE DEF Next1
    <2> DEFINE g == [i \in 0 .. n + 1 |-> IF i = 0 THEN heads[p] ELSE Next1(f[i - 1])]
    <2>2. \A i \in 0 .. n : g[i] = f[i]
      <3> SUFFICES ASSUME NEW i \in 0 .. n PROVE g[i] = f[i]
        OBVIOUS
      <3>1. f[i] = IF i = 0 THEN heads[p] ELSE Next1(f[i - 1])
        BY <2>1
      <3> QED BY <3>1
    <2>3. \A i \in 0 .. n + 1 : i # 0 => g[i - 1] = f[i - 1]
      <3> HIDE DEF g
      <3>1. \A i \in 0 .. n + 1 : i # 0 => i - 1 \in 0 .. n
        OBVIOUS
      <3> QED BY <2>2, <3>1, Zenon
    <2>4. \A i \in 0 .. n + 1 : g[i] = IF i = 0 THEN heads[p] ELSE Next1(g[i - 1])
      <3> SUFFICES ASSUME NEW i \in 0 .. n + 1
                   PROVE  g[i] = IF i = 0 THEN heads[p] ELSE Next1(g[i - 1])
        OBVIOUS
      <3>1. g[i] = IF i = 0 THEN heads[p] ELSE Next1(f[i - 1])
        OBVIOUS
      <3> HIDE DEF g
      <3> QED BY <2>3, <3>1
    <2>5. g = [i \in 0 .. n + 1 |-> g[i]]
      OBVIOUS
    <2> HIDE DEF g
    <2>6. g = Body(g, n + 1)
      BY <2>4, <2>5
    <2> QED BY <2>6
  <1> HIDE DEF S
  <1>3. m \in S
    BY <1>1, <1>2, NatSet
  <1> DEFINE h == CHOOSE f : f = Body(f, m)
  <1>4. h = Body(h, m)
    BY <1>3 DEF S
  <1>5. WalkAt(heads, links, p, m) = h[m]
    BY Zenon DEF WalkAt
  <1> HIDE DEF h
  <1>6. /\ h[0] = heads[p]
        /\ \A k \in 1 .. m : h[k] = Next1(h[k - 1])
    <2>1. \A k \in 0 .. m : h[k] = IF k = 0 THEN heads[p] ELSE Next1(h[k - 1])
      BY <1>4, Zenon
    <2>2. 0 \in 0 .. m /\ \A k \in 1 .. m : k \in 0 .. m /\ k # 0
      OBVIOUS
    <2> QED BY <2>1, <2>2, Zenon
  <1> QED BY <1>5, <1>6

\* The walk goes through the list and ends.
LEMMA WalkOfChain ==
  ASSUME NEW heads, NEW links, NEW p, NEW s \in Seq(Nodes), Chain(heads, links, p, s),
         NEW m \in Nat
  PROVE  WalkAt(heads, links, p, m) = IF m < Len(s) THEN s[m + 1] ELSE NULL
  <1>1. PICK f : /\ WalkAt(heads, links, p, m) = f[m]
                 /\ f[0] = heads[p]
                 /\ \A k \in 1 .. m : f[k] = IF f[k - 1] = NULL THEN NULL ELSE links[f[k - 1]]
    BY WalkUnfold
  <1> DEFINE S == {k \in Nat : k <= m => f[k] = IF k < Len(s) THEN s[k + 1] ELSE NULL}
  <1>2. Len(s) \in Nat /\ \A i \in 1 .. Len(s) : s[i] \in Nodes
    OBVIOUS
  <1>3. 0 \in S
    BY <1>1, <1>2 DEF Chain
  <1>4. ASSUME NEW k \in Nat, k \in S
        PROVE  k + 1 \in S
    <2> SUFFICES ASSUME k + 1 <= m
                 PROVE  f[k + 1] = IF k + 1 < Len(s) THEN s[(k + 1) + 1] ELSE NULL
      OBVIOUS
    <2>1. f[k] = IF k < Len(s) THEN s[k + 1] ELSE NULL
      BY <1>4
    <2>2. f[k + 1] = IF f[k] = NULL THEN NULL ELSE links[f[k]]
      <3>1. k + 1 \in 1 .. m /\ (k + 1) - 1 = k
        OBVIOUS
      <3> QED BY <1>1, <3>1
    <2>3. CASE k < Len(s)
      <3>1. k + 1 \in 1 .. Len(s)
        BY <1>2, <2>3
      <3>2. f[k] = s[k + 1] /\ f[k] # NULL
        BY <1>2, <2>1, <2>3, <3>1, NullApart
      <3>3. links[s[k + 1]] = IF k + 1 = Len(s) THEN NULL ELSE s[(k + 1) + 1]
        BY <3>1 DEF Chain
      <3> QED BY <1>2, <2>2, <2>3, <3>2, <3>3
    <2>4. CASE ~(k < Len(s))
      BY <1>2, <2>1, <2>2, <2>4
    <2> QED BY <2>3, <2>4
  <1>5. m \in S
    <2> HIDE DEF S
    <2> QED BY <1>3, <1>4, NatSet
  <1> QED BY <1>1, <1>5

\* A list of different nodes is no longer than there are nodes.
LEMMA ChainShort ==
  ASSUME NEW s \in Seq(Nodes), \A i, j \in 1 .. Len(s) : s[i] = s[j] => i = j
  PROVE  /\ Len(s) <= Cardinality(Procs) + 1 /\ Cardinality(Procs) \in Nat
         /\ Cardinality(Nodes) = Cardinality(Procs) + 1
  <1> DEFINE D == 1 .. Len(s)
  <1>1. DOMAIN s = D /\ Len(s) \in Nat /\ s \in [D -> Nodes]
    OBVIOUS
  <1>2. IsFiniteSet(Nodes) /\ Cardinality(Nodes) = Cardinality(Procs) + 1 /\ Cardinality(Procs) \in Nat
    BY FiniteAssumption, IpcAssumption, FS_AddElement, FS_CardinalityType DEF Nodes
  <1>3. Cardinality(D) = Len(s)
    <2>1. 1 \in Int /\ Len(s) \in Int
      BY <1>1
    <2>2. Cardinality(1 .. Len(s)) = IF 1 > Len(s) THEN 0 ELSE Len(s) - 1 + 1
      BY <2>1, FS_Interval, Zenon
    <2> QED BY <1>1, <2>2
  <1> HIDE DEF D
  <1>4. s \in Injection(D, Nodes)
    BY <1>1, Zenon DEF Injection, IsInjective, D
  <1>5. Cardinality(D) <= Cardinality(Nodes)
    BY <1>2, <1>4, FS_Injection, Zenon
  <1> QED BY <1>2, <1>3, <1>5

\* The members of a queue are the elements of its list, and the walk is over
\* after as many steps as there are nodes.
LEMMA MembersOfChain ==
  ASSUME NEW heads, NEW links, NEW p, NEW s \in Seq(Nodes), Chain(heads, links, p, s)
  PROVE  /\ \A x : x \in Members(heads, links, p) <=> \E i \in 1 .. Len(s) : s[i] = x
         /\ WalkAt(heads, links, p, Cardinality(Nodes)) = NULL
  <1>1. /\ Len(s) <= Cardinality(Procs) + 1 /\ Cardinality(Procs) \in Nat
        /\ Cardinality(Nodes) = Cardinality(Procs) + 1 /\ Len(s) \in Nat
        /\ \A i \in 1 .. Len(s) : s[i] \in Nodes
    BY ChainShort DEF Chain
  <1>2. \A n \in Nat : WalkAt(heads, links, p, n) = IF n < Len(s) THEN s[n + 1] ELSE NULL
    BY WalkOfChain
  <1>3. WalkAt(heads, links, p, Cardinality(Nodes)) = NULL
    <2>1. Cardinality(Nodes) \in Nat /\ ~(Cardinality(Nodes) < Len(s))
      BY <1>1
    <2> QED BY <1>2, <2>1
  <1>4. ASSUME NEW x, x \in Members(heads, links, p)
        PROVE  \E i \in 1 .. Len(s) : s[i] = x
    <2>1. PICK n \in Depths : x = WalkAt(heads, links, p, n) /\ x # NULL
      BY <1>4 DEF Members
    <2>2. n \in Nat
      BY <1>1 DEF Depths
    <2>3. n < Len(s) /\ x = s[n + 1]
      BY <1>2, <2>1, <2>2
    <2>4. n + 1 \in 1 .. Len(s)
      BY <1>1, <2>2, <2>3
    <2> QED BY <2>3, <2>4
  <1>5. ASSUME NEW i \in 1 .. Len(s)
        PROVE  s[i] \in Members(heads, links, p)
    <2>1. i - 1 \in Nat /\ i - 1 < Len(s) /\ (i - 1) + 1 = i /\ i - 1 \in Depths
      BY <1>1 DEF Depths
    <2>2. WalkAt(heads, links, p, i - 1) = s[i]
      BY <1>2, <2>1
    <2>3. s[i] # NULL
      BY <1>1, NullApart
    <2> QED BY <2>1, <2>2, <2>3 DEF Members
  <1> QED BY <1>3, <1>4, <1>5

\* What the lists say of the members: no node is on two queues, the head is a
\* member and missing only from an empty queue, and every walk ends.
LEMMA LinksFacts ==
  ASSUME NEW heads, NEW links, Links(heads, links), NEW p \in Procs
  PROVE  /\ Members(heads, links, p) \subseteq Nodes
         /\ \A r \in Procs : \A x : x \in Members(heads, links, p) /\ x \in Members(heads, links, r) => p = r
         /\ heads[p] = NULL <=> Members(heads, links, p) = {}
         /\ heads[p] # NULL => heads[p] \in Members(heads, links, p)
         /\ WalkAt(heads, links, p, Cardinality(Nodes)) = NULL
  <1>1. PICK q : Chains(heads, links, q)
    BY DEF Links
  <1> DEFINE s == q[p]
  <1>2. /\ s \in Seq(Nodes) /\ Chain(heads, links, p, s)
        /\ \A x : x \in Members(heads, links, p) <=> \E i \in 1 .. Len(s) : s[i] = x
        /\ WalkAt(heads, links, p, Cardinality(Nodes)) = NULL
    <2>1. s \in Seq(Nodes) /\ Chain(heads, links, p, s)
      BY <1>1 DEF Chains
    <2> QED BY <2>1, MembersOfChain
  <1>3. ASSUME NEW r \in Procs, NEW x, x \in Members(heads, links, p), x \in Members(heads, links, r)
        PROVE  p = r
    <2>1. q[r] \in Seq(Nodes) /\ Chain(heads, links, r, q[r])
      BY <1>1 DEF Chains
    <2>2. \E i \in 1 .. Len(q[r]) : q[r][i] = x
      BY <1>3, <2>1, MembersOfChain
    <2>3. \E i \in 1 .. Len(q[p]) : q[p][i] = x
      BY <1>2, <1>3
    <2> QED BY <1>1, <2>2, <2>3, Zenon DEF Chains
  <1> HIDE DEF s
  <1>4. CASE s = <<>>
    <2>1. heads[p] = NULL /\ 1 .. Len(s) = {}
      BY <1>2, <1>4 DEF Chain
    <2> QED BY <1>2, <1>3, <2>1
  <1>5. CASE s # <<>>
    <2>1. 1 \in 1 .. Len(s) /\ heads[p] = s[1] /\ s[1] \in Nodes
      BY <1>2, <1>5 DEF Chain
    <2>2. heads[p] \in Members(heads, links, p) /\ heads[p] # NULL
      BY <1>2, <2>1, NullApart
    <2> QED BY <1>2, <1>3, <2>2
  <1> QED BY <1>4, <1>5

\* A chain does not change when neither its head nor its nodes' links do.
LEMMA ChainKept ==
  ASSUME NEW heads, NEW links, NEW p, NEW s \in Seq(Nodes), Chain(heads, links, p, s),
         NEW h2, NEW l2, h2[p] = heads[p],
         \A i \in 1 .. Len(s) : l2[s[i]] = links[s[i]]
  PROVE  Chain(h2, l2, p, s)
  BY DEF Chain

\* The heads and links h2 and l2 leave the lists of all but p alone, and the
\* list t has no node of theirs.
Leaves(heads, links, q, h2, l2, p, t) ==
  /\ \A r \in Procs \ {p} : h2[r] = heads[r] /\ \A i \in 1 .. Len(q[r]) : l2[q[r][i]] = links[q[r][i]]
  /\ \A r \in Procs \ {p} : \A i \in 1 .. Len(q[r]), j \in 1 .. Len(t) : q[r][i] # t[j]

\* When one queue gets a new list of nodes that are on no other, the queues
\* are lists again.
LEMMA ChainReplaced ==
  ASSUME NEW heads, NEW links, NEW q, Chains(heads, links, q),
         NEW h2, NEW l2, NEW p \in Procs, NEW t \in Seq(Nodes), Chain(h2, l2, p, t),
         Leaves(heads, links, q, h2, l2, p, t)
  PROVE  /\ Links(h2, l2)
         /\ \A x : x \in Members(h2, l2, p) <=> \E i \in 1 .. Len(t) : t[i] = x
         /\ \A r \in Procs \ {p} : Members(h2, l2, r) = Members(heads, links, r)
  <1> DEFINE q2 == [q EXCEPT ![p] = t]
  <1>1. /\ q \in [Procs -> Seq(Nodes)]
        /\ \A r \in Procs : Chain(heads, links, r, q[r])
        /\ \A o, r \in Procs : \A i \in 1 .. Len(q[o]), j \in 1 .. Len(q[r]) :
             q[o][i] = q[r][j] => o = r
    BY DEF Chains
  <1>2. q2 \in [Procs -> Seq(Nodes)] /\ q2[p] = t /\ \A r \in Procs \ {p} : q2[r] = q[r]
    BY <1>1
  <1> HIDE DEF q2
  <1>3. \A r \in Procs \ {p} : Chain(h2, l2, r, q[r])
    <2> TAKE r \in Procs \ {p}
    <2>1. q[r] \in Seq(Nodes) /\ Chain(heads, links, r, q[r]) /\ h2[r] = heads[r]
          /\ \A i \in 1 .. Len(q[r]) : l2[q[r][i]] = links[q[r][i]]
      BY <1>1 DEF Leaves
    <2> QED BY <2>1, ChainKept
  <1>4. \A r \in Procs : Chain(h2, l2, r, q2[r])
    BY <1>2, <1>3
  <1>5. ASSUME NEW o \in Procs, NEW r \in Procs,
               NEW i \in 1 .. Len(q2[o]), NEW j \in 1 .. Len(q2[r]), q2[o][i] = q2[r][j]
        PROVE  o = r
    <2>1. CASE o = p /\ r # p
      BY <1>2, <1>5, <2>1 DEF Leaves
    <2>2. CASE o # p /\ r = p
      BY <1>2, <1>5, <2>2 DEF Leaves
    <2>3. CASE o # p /\ r # p
      BY <1>1, <1>2, <1>5, <2>3
    <2> QED BY <2>1, <2>2, <2>3
  <1>6. Links(h2, l2)
    BY <1>2, <1>4, <1>5 DEF Links, Chains
  <1>7. \A x : x \in Members(h2, l2, p) <=> \E i \in 1 .. Len(t) : t[i] = x
    BY MembersOfChain
  <1>8. ASSUME NEW r \in Procs \ {p}
        PROVE  Members(h2, l2, r) = Members(heads, links, r)
    <2>1. q[r] \in Seq(Nodes) /\ Chain(heads, links, r, q[r]) /\ Chain(h2, l2, r, q[r])
      BY <1>1, <1>3
    <2>2. \A x : x \in Members(h2, l2, r) <=> \E i \in 1 .. Len(q[r]) : q[r][i] = x
      BY <2>1, MembersOfChain
    <2>3. \A x : x \in Members(heads, links, r) <=> \E i \in 1 .. Len(q[r]) : q[r][i] = x
      BY <2>1, MembersOfChain
    <2>4. \A x : x \in Members(h2, l2, r) <=> x \in Members(heads, links, r)
      BY <2>2, <2>3, Zenon
    <2> QED BY <2>4
  <1> QED BY <1>6, <1>7, <1>8

\* From heads and links to h2 and l2, the queue of p gets the nodes S and the
\* other queues keep theirs.
QueueBecomes(heads, links, h2, l2, p, S) ==
  /\ Links(h2, l2) /\ Members(h2, l2, p) = S
  /\ \A r \in Procs \ {p} : Members(h2, l2, r) = Members(heads, links, r)

\* What send and receive do to heads and links.
Push(heads, links, d, x, h2, l2) ==
  h2 = [heads EXCEPT ![d] = x] /\ l2 = [links EXCEPT ![x] = heads[d]]

Pop(heads, links, p, h, h2) ==
  /\ h = heads[p] /\ h # NULL
  /\ h2 = [heads EXCEPT ![p] = IF links[h] = h THEN NULL ELSE links[h]]

Cut(links, n, w, l2) == links[n] = w /\ l2 = [links EXCEPT ![n] = links[w]]

OnNoQueue(heads, links, x) == \A p \in Procs : x \notin Members(heads, links, p)

\* A node that is on no queue becomes the head of d's.
LEMMA PushLinks ==
  ASSUME NEW heads \in [Procs -> Nodes \cup {NULL}], NEW links \in [Nodes -> Nodes \cup {NULL}],
         Links(heads, links), NEW d \in Procs, NEW x \in Nodes,
         OnNoQueue(heads, links, x), NEW h2, NEW l2, Push(heads, links, d, x, h2, l2)
  PROVE  QueueBecomes(heads, links, h2, l2, d, Members(heads, links, d) \cup {x})
  <1>1. PICK q : Chains(heads, links, q)
    BY DEF Links
  <1>2. \A r \in Procs : q[r] \in Seq(Nodes) /\ Chain(heads, links, r, q[r])
    BY <1>1 DEF Chains
  <1>3. \A r \in Procs : \A y : y \in Members(heads, links, r) <=> \E i \in 1 .. Len(q[r]) : q[r][i] = y
    BY <1>2, MembersOfChain
  <1>4. \A r \in Procs : \A i \in 1 .. Len(q[r]) : q[r][i] # x /\ q[r][i] \in Nodes
    BY <1>2, <1>3 DEF OnNoQueue
  <1> DEFINE s == q[d]
             t == <<x>> \o s
  <1>5. s \in Seq(Nodes) /\ Len(s) \in Nat
    BY <1>2
  <1>6. /\ t \in Seq(Nodes) /\ Len(t) = Len(s) + 1
        /\ t[1] = x /\ \A i \in 1 .. Len(s) : t[i + 1] = s[i]
    BY <1>5
  <1>7. h2[d] = x /\ l2[x] = heads[d]
        /\ (\A r \in Procs \ {d} : h2[r] = heads[r]) /\ \A y \in Nodes \ {x} : l2[y] = links[y]
    BY DEF Push
  <1> HIDE DEF s, t
  <1>8. Chain(h2, l2, d, t)
    <2>1. Chain(heads, links, d, s) /\ \A i \in 1 .. Len(s) : s[i] # x /\ s[i] \in Nodes
      BY <1>2, <1>4 DEF s
    <2>2. t # <<>>
      BY <1>5, <1>6
    <2>3. \A i \in 1 .. Len(t) : i # 1 => i - 1 \in 1 .. Len(s) /\ (i - 1) + 1 = i
      BY <1>5, <1>6
    <2>4. ASSUME NEW i \in 1 .. Len(t)
          PROVE  l2[t[i]] = IF i = Len(t) THEN NULL ELSE t[i + 1]
      <3>1. CASE i = 1
        <4>1. l2[t[i]] = IF s = <<>> THEN NULL ELSE s[1]
          BY <1>6, <1>7, <2>1, <3>1 DEF Chain
        <4>2. CASE s = <<>>
          <5>1. Len(t) = 1
            BY <1>6, <4>2
          <5> QED BY <3>1, <4>1, <4>2, <5>1
        <4>3. CASE s # <<>>
          <5>1. 1 \in 1 .. Len(s) /\ Len(t) # 1
            BY <1>5, <1>6, <4>3
          <5>2. t[1 + 1] = s[1]
            BY <1>6, <5>1
          <5> QED BY <3>1, <4>1, <4>3, <5>1, <5>2
        <4> QED BY <4>2, <4>3
      <3>2. CASE i # 1
        <4> DEFINE k == i - 1
        <4>1. k \in 1 .. Len(s) /\ k + 1 = i /\ t[i] = s[k]
          <5>1. k \in 1 .. Len(s) /\ k + 1 = i
            BY <2>3, <3>2
          <5> QED BY <1>6, <5>1
        <4> HIDE DEF k
        <4>2. l2[t[i]] = links[s[k]]
          BY <1>7, <2>1, <4>1
        <4>3. links[s[k]] = IF k = Len(s) THEN NULL ELSE s[k + 1]
          BY <2>1, <4>1 DEF Chain
        <4>4. CASE k = Len(s)
          BY <1>5, <1>6, <4>1, <4>2, <4>3, <4>4
        <4>5. CASE k # Len(s)
          <5>1. k + 1 \in 1 .. Len(s) /\ i # Len(t)
            BY <1>5, <1>6, <4>1, <4>5
          <5>2. t[(k + 1) + 1] = s[k + 1]
            BY <1>6, <5>1
          <5> QED BY <4>1, <4>2, <4>3, <4>5, <5>1, <5>2
        <4> QED BY <4>4, <4>5
      <3> QED BY <3>1, <3>2
    <2>5. ASSUME NEW i \in 1 .. Len(t), NEW j \in 1 .. Len(t), t[i] = t[j]
          PROVE  i = j
      <3>1. ASSUME NEW k \in 1 .. Len(t), k # 1
            PROVE  k - 1 \in 1 .. Len(s) /\ t[k] = s[k - 1] /\ t[k] # x
        <4>1. k - 1 \in 1 .. Len(s) /\ (k - 1) + 1 = k
          BY <2>3, <3>1
        <4> QED BY <1>6, <2>1, <4>1
      <3>2. CASE i # 1 /\ j # 1
        <4>1. i - 1 = j - 1
          <5>1. i - 1 \in 1 .. Len(s) /\ j - 1 \in 1 .. Len(s) /\ s[i - 1] = s[j - 1]
            BY <2>5, <3>1, <3>2
          <5> QED BY <2>1, <5>1, Zenon DEF Chain
        <4> QED BY <4>1
      <3> QED BY <1>6, <2>5, <3>1, <3>2
    <2> QED BY <1>6, <1>7, <2>2, <2>4, <2>5 DEF Chain
  <1>9. \A r \in Procs \ {d} : h2[r] = heads[r] /\ \A i \in 1 .. Len(q[r]) : l2[q[r][i]] = links[q[r][i]]
    BY <1>4, <1>7
  <1>10. \A j \in 1 .. Len(t) : t[j] = x \/ \E i \in 1 .. Len(s) : t[j] = s[i]
    <2> TAKE j \in 1 .. Len(t)
    <2>1. CASE j = 1
      BY <1>6, <2>1
    <2>2. CASE j # 1
      <3>1. j - 1 \in 1 .. Len(s) /\ (j - 1) + 1 = j
        BY <1>5, <1>6, <2>2
      <3> QED BY <1>6, <3>1
    <2> QED BY <2>1, <2>2
  <1>11. \A r \in Procs \ {d} : \A i \in 1 .. Len(q[r]), j \in 1 .. Len(t) : q[r][i] # t[j]
    <2>1. \A r \in Procs \ {d} : \A i \in 1 .. Len(q[r]), j \in 1 .. Len(s) : q[r][i] # s[j]
      BY <1>1 DEF Chains, s
    <2> SUFFICES ASSUME NEW r \in Procs \ {d}, NEW i \in 1 .. Len(q[r]), NEW j \in 1 .. Len(t)
                 PROVE  q[r][i] # t[j]
      OBVIOUS
    <2>2. CASE t[j] = x
      BY <1>4, <2>2
    <2>3. ASSUME NEW k \in 1 .. Len(s), t[j] = s[k]
          PROVE  q[r][i] # t[j]
      BY <2>1, <2>3
    <2> QED BY <1>10, <2>2, <2>3
  <1>12. /\ Links(h2, l2)
         /\ \A y : y \in Members(h2, l2, d) <=> \E i \in 1 .. Len(t) : t[i] = y
         /\ \A r \in Procs \ {d} : Members(h2, l2, r) = Members(heads, links, r)
    <2>1. Leaves(heads, links, q, h2, l2, d, t)
      BY <1>9, <1>11 DEF Leaves
    <2> QED BY <1>1, <1>6, <1>8, <2>1, ChainReplaced
  <1>13. \A y : (\E i \in 1 .. Len(t) : t[i] = y) <=> y = x \/ \E i \in 1 .. Len(s) : s[i] = y
    <2>1. 1 \in 1 .. Len(t) /\ \A i \in 1 .. Len(s) : i + 1 \in 1 .. Len(t)
      BY <1>5, <1>6
    <2>2. ASSUME NEW y, NEW i \in 1 .. Len(t), t[i] = y
          PROVE  y = x \/ \E k \in 1 .. Len(s) : s[k] = y
      BY <1>10, <2>2
    <2>3. ASSUME NEW i \in 1 .. Len(s)
          PROVE  \E k \in 1 .. Len(t) : t[k] = s[i]
      BY <1>6, <2>1, Zenon
    <2>4. \E k \in 1 .. Len(t) : t[k] = x
      BY <1>6, <2>1, Zenon
    <2> QED BY <2>2, <2>3, <2>4
  <1>14. \A y : y \in Members(h2, l2, d) <=> y \in Members(heads, links, d) \cup {x}
    <2>1. \A y : y \in Members(heads, links, d) <=> \E i \in 1 .. Len(s) : s[i] = y
      BY <1>3 DEF s
    <2> QED BY <1>12, <1>13, <2>1
  <1>15. Members(h2, l2, d) = Members(heads, links, d) \cup {x}
    BY <1>14
  <1> QED BY <1>12, <1>15 DEF QueueBecomes

\* The head of p's queue is taken off.  It is not linked to itself.
LEMMA PopLinks ==
  ASSUME NEW heads \in [Procs -> Nodes \cup {NULL}], NEW links \in [Nodes -> Nodes \cup {NULL}],
         Links(heads, links), NEW p \in Procs,
         NEW h, NEW h2, Pop(heads, links, p, h, h2)
  PROVE  QueueBecomes(heads, links, h2, links, p, Members(heads, links, p) \ {h})
  <1>1. PICK q : Chains(heads, links, q)
    BY DEF Links
  <1> DEFINE s == q[p]
             t == Tail(s)
  <1>2. s \in Seq(Nodes) /\ Chain(heads, links, p, s)
    BY <1>1 DEF Chains
  <1>3. s # <<>> /\ h = s[1] /\ Len(s) \in Nat \ {0}
    <2> HIDE DEF s
    <2> QED BY <1>2 DEF Chain, Pop
  <1>4. /\ t \in Seq(Nodes) /\ Len(t) = Len(s) - 1
        /\ \A i \in 1 .. Len(t) : t[i] = s[i + 1]
    <2> HIDE DEF s
    <2> QED BY <1>2, <1>3
  <1>5. \A i \in 1 .. Len(t) : i + 1 \in 1 .. Len(s) /\ i + 1 # 1
    <2> HIDE DEF s, t
    <2> QED BY <1>3, <1>4
  <1>6. h2[p] = (IF links[h] = h THEN NULL ELSE links[h]) /\ \A r \in Procs \ {p} : h2[r] = heads[r]
    BY DEF Pop
  <1>7. \A x : x \in Members(heads, links, p) <=> \E i \in 1 .. Len(s) : s[i] = x
    <2> HIDE DEF s
    <2> QED BY <1>2, MembersOfChain
  <1>8. \A r \in Procs \ {p} : \A i \in 1 .. Len(q[r]), j \in 1 .. Len(s) : q[r][i] # s[j]
    BY <1>1 DEF Chains
  <1> HIDE DEF s, t
  <1>9. Chain(h2, links, p, t)
    <2>1. h2[p] = IF t = <<>> THEN NULL ELSE t[1]
      <3>0. 1 \in 1 .. Len(s)
        BY <1>3
      <3>1. 1 \in 1 .. Len(s) /\ links[s[1]] = IF 1 = Len(s) THEN NULL ELSE s[1 + 1]
        BY <1>2, <3>0, Zenon DEF Chain
      <3>2. CASE Len(s) = 1
        <4>1. t = <<>> /\ links[h] = NULL
          BY <1>3, <1>4, <3>1, <3>2
        <4> QED BY <1>6, <4>1
      <3>3. CASE Len(s) # 1
        <4>1. 1 \in 1 .. Len(t) /\ 1 + 1 \in 1 .. Len(s) /\ t # <<>>
          BY <1>3, <1>4, <3>3
        <4>2. links[h] = t[1] /\ t[1] = s[1 + 1]
          BY <1>3, <1>4, <3>1, <3>3, <4>1
        <4>3. s[1 + 1] # s[1]
          BY <1>2, <3>1, <4>1 DEF Chain
        <4> QED BY <1>3, <1>6, <4>1, <4>2, <4>3
      <3> QED BY <3>2, <3>3
    <2>2. ASSUME NEW i \in 1 .. Len(t)
          PROVE  links[t[i]] = IF i = Len(t) THEN NULL ELSE t[i + 1]
      <3>1. links[s[i + 1]] = IF i + 1 = Len(s) THEN NULL ELSE s[(i + 1) + 1]
        BY <1>2, <1>5 DEF Chain
      <3>2. CASE i = Len(t)
        BY <1>3, <1>4, <3>1, <3>2
      <3>3. CASE i # Len(t)
        <4>1. i + 1 \in 1 .. Len(t) /\ i + 1 # Len(s)
          BY <1>3, <1>4, <3>3
        <4> QED BY <1>4, <3>1, <3>3, <4>1
      <3> QED BY <3>2, <3>3
    <2>3. ASSUME NEW i \in 1 .. Len(t), NEW j \in 1 .. Len(t), t[i] = t[j]
          PROVE  i = j
      <3>1. i + 1 = j + 1
        BY <1>2, <1>4, <1>5, <2>3 DEF Chain
      <3> QED BY <3>1
    <2> QED BY <2>1, <2>2, <2>3 DEF Chain
  <1>10. Leaves(heads, links, q, h2, links, p, t)
    BY <1>4, <1>5, <1>6, <1>8 DEF Leaves
  <1>11. /\ Links(h2, links)
         /\ \A y : y \in Members(h2, links, p) <=> \E i \in 1 .. Len(t) : t[i] = y
         /\ \A r \in Procs \ {p} : Members(h2, links, r) = Members(heads, links, r)
    BY <1>1, <1>4, <1>9, <1>10, ChainReplaced
  <1>12. ASSUME NEW y
         PROVE  (\E i \in 1 .. Len(t) : t[i] = y) <=> (\E i \in 1 .. Len(s) : s[i] = y) /\ y # h
    <2>1. ASSUME NEW i \in 1 .. Len(t), t[i] = y
          PROVE  (\E k \in 1 .. Len(s) : s[k] = y) /\ y # h
      <3>1. i + 1 \in 1 .. Len(s) /\ s[i + 1] = y /\ i + 1 # 1 /\ 1 \in 1 .. Len(s)
        BY <1>3, <1>4, <1>5, <2>1
      <3>2. s[1] # y
        BY <1>2, <3>1 DEF Chain
      <3> QED BY <1>3, <3>1, <3>2
    <2>2. ASSUME NEW i \in 1 .. Len(s), s[i] = y, y # h
          PROVE  \E k \in 1 .. Len(t) : t[k] = y
      <3>1. i - 1 \in 1 .. Len(t) /\ (i - 1) + 1 = i
        BY <1>3, <1>4, <2>2
      <3> QED BY <1>4, <2>2, <3>1
    <2> QED BY <2>1, <2>2
  <1>13. \A y : y \in Members(h2, links, p) <=> y \in Members(heads, links, p) \ {h}
    BY <1>7, <1>11, <1>12
  <1>14. Members(h2, links, p) = Members(heads, links, p) \ {h}
    BY <1>13
  <1> QED BY <1>11, <1>14 DEF QueueBecomes

\* The node w behind n is taken off p's queue.
LEMMA CutLinks ==
  ASSUME NEW heads \in [Procs -> Nodes \cup {NULL}], NEW links \in [Nodes -> Nodes \cup {NULL}],
         Links(heads, links), NEW p \in Procs,
         NEW n \in Members(heads, links, p), NEW w \in Nodes,
         NEW l2, Cut(links, n, w, l2)
  PROVE  /\ QueueBecomes(heads, links, heads, l2, p, Members(heads, links, p) \ {w})
         /\ w \in Members(heads, links, p) /\ n # w
  <1>1. PICK q : Chains(heads, links, q)
    BY DEF Links
  <1> DEFINE s == q[p]
  <1>2. s \in Seq(Nodes) /\ Chain(heads, links, p, s) /\ Len(s) \in Nat
    BY <1>1 DEF Chains
  <1>3. \A x : x \in Members(heads, links, p) <=> \E i \in 1 .. Len(s) : s[i] = x
    <2> HIDE DEF s
    <2> QED BY <1>2, MembersOfChain
  <1>4. \A r \in Procs \ {p} : \A i \in 1 .. Len(q[r]), j \in 1 .. Len(s) : q[r][i] # s[j]
    BY <1>1 DEF Chains
  <1>5. PICK c \in 1 .. Len(s) : s[c] = n
    BY <1>3
  <1>6. \A r \in Procs : \A i \in 1 .. Len(q[r]) : q[r][i] \in Nodes
    BY <1>1 DEF Chains
  <1> HIDE DEF s
  <1>7. c + 1 \in 1 .. Len(s) /\ s[c + 1] = w
    <2>1. w = IF c = Len(s) THEN NULL ELSE s[c + 1]
      BY <1>2, <1>5 DEF Chain, Cut
    <2>2. c # Len(s)
      BY <2>1, NullApart
    <2> QED BY <1>2, <2>1, <2>2
  <1>8. n # w /\ n \in Nodes
    <2>1. c # c + 1 /\ s[c] \in Nodes
      BY <1>2
    <2> QED BY <1>2, <1>5, <1>7, <2>1 DEF Chain
  <1>9. l2[n] = links[w] /\ \A x \in Nodes \ {n} : l2[x] = links[x]
    BY <1>8 DEF Cut
  <1> DEFINE at(k) == IF k <= c THEN k ELSE k + 1
             t == [k \in 1 .. Len(s) - 1 |-> s[at(k)]]
  <1>10. \A k \in 1 .. Len(s) - 1 : at(k) \in 1 .. Len(s) /\ at(k) # c + 1
    BY <1>2, <1>7
  <1>11. t \in Seq(Nodes) /\ Len(t) = Len(s) - 1 /\ \A k \in 1 .. Len(t) : t[k] = s[at(k)]
    <2>1. Len(s) - 1 \in Nat /\ \A k \in 1 .. Len(s) - 1 : s[at(k)] \in Nodes
      BY <1>2, <1>7, <1>10
    <2> HIDE DEF at
    <2>2. t \in Seq(Nodes) /\ Len(t) = Len(s) - 1
      BY <2>1
    <2> QED BY <2>2
  <1> HIDE DEF t
  <1>12. ASSUME NEW i \in 1 .. Len(s), i # c + 1
         PROVE  \E k \in 1 .. Len(t) : at(k) = i
    <2> DEFINE k == IF i <= c THEN i ELSE i - 1
    <2>1. k \in 1 .. Len(t) /\ at(k) = i
      BY <1>2, <1>7, <1>11, <1>12
    <2> HIDE DEF k, at
    <2> QED BY <2>1
  <1>13. Chain(heads, l2, p, t)
    <2>1. heads[p] = IF t = <<>> THEN NULL ELSE t[1]
      <3>1. heads[p] = s[1]
        <4>1. s # <<>>
          BY <1>2, <1>7
        <4> QED BY <1>2, <4>1 DEF Chain
      <3>2. 1 \in 1 .. Len(t) /\ at(1) = 1 /\ t # <<>>
        BY <1>2, <1>7, <1>11
      <3> QED BY <1>11, <3>1, <3>2
    <2>2. ASSUME NEW k \in 1 .. Len(t)
          PROVE  l2[t[k]] = IF k = Len(t) THEN NULL ELSE t[k + 1]
      <3>1. \A i \in 1 .. Len(s) : links[s[i]] = IF i = Len(s) THEN NULL ELSE s[i + 1]
        BY <1>2 DEF Chain
      <3>2. k \in 1 .. Len(s) - 1 /\ k \in Nat
        BY <1>11
      <3>3. at(k) \in 1 .. Len(s) /\ at(k) # c + 1 /\ t[k] = s[at(k)] /\ s[at(k)] \in Nodes
        BY <1>2, <1>10, <1>11, <3>2
      <3>4. k # Len(t) => k + 1 \in 1 .. Len(t) /\ t[k + 1] = s[at(k + 1)]
        <4>1. k # Len(t) => k + 1 \in 1 .. Len(t)
          BY <1>2, <1>11
        <4> QED BY <1>11, <4>1
      <3>5. CASE k = c
        <4>1. l2[t[k]] = links[w]
          BY <1>5, <1>9, <3>3, <3>5
        <4>2. links[w] = IF c + 1 = Len(s) THEN NULL ELSE s[(c + 1) + 1]
          BY <1>7, <3>1
        <4>3. at(k + 1) = (c + 1) + 1
          BY <1>5, <3>5
        <4>4. k = Len(t) <=> c + 1 = Len(s)
          BY <1>2, <1>11, <3>5
        <4> HIDE DEF at
        <4> QED BY <3>4, <4>1, <4>2, <4>3, <4>4
      <3>6. CASE k # c
        <4>1. at(k) # c
          BY <1>5, <3>2, <3>6
        <4>2. s[at(k)] # n
          BY <1>2, <1>5, <3>3, <4>1 DEF Chain
        <4>3. l2[t[k]] = links[s[at(k)]]
          BY <1>9, <3>3, <4>2
        <4>4. links[s[at(k)]] = IF at(k) = Len(s) THEN NULL ELSE s[at(k) + 1]
          BY <3>1, <3>3
        <4>5. at(k) = Len(s) <=> k = Len(t)
          <5>1. c \in Nat /\ c + 1 <= Len(s) /\ Len(t) = Len(s) - 1 /\ k <= Len(s) - 1
            BY <1>2, <1>7, <1>11, <3>2
          <5>2. CASE k < c
            <6>1. at(k) = k
              BY <3>2, <5>1, <5>2
            <6> HIDE DEF at
            <6> QED BY <1>2, <3>2, <5>1, <5>2, <6>1
          <5>3. CASE k > c
            <6>1. at(k) = k + 1
              BY <3>2, <5>1, <5>3
            <6> HIDE DEF at
            <6> QED BY <1>2, <3>2, <5>1, <5>3, <6>1
          <5> QED BY <3>2, <3>6, <5>1, <5>2, <5>3
        <4>6. at(k + 1) = at(k) + 1
          BY <1>5, <3>2, <3>6
        <4> HIDE DEF at
        <4> QED BY <3>4, <4>3, <4>4, <4>5, <4>6
      <3> QED BY <3>5, <3>6
    <2>3. ASSUME NEW i \in 1 .. Len(t), NEW j \in 1 .. Len(t), t[i] = t[j]
          PROVE  i = j
      <3>1. at(i) \in 1 .. Len(s) /\ at(j) \in 1 .. Len(s) /\ s[at(i)] = s[at(j)]
        BY <1>10, <1>11, <2>3
      <3>2. at(i) = at(j)
        <4> HIDE DEF at
        <4> QED BY <1>2, <3>1 DEF Chain
      <3> QED BY <1>5, <3>2
    <2> QED BY <2>1, <2>2, <2>3 DEF Chain
  <1> HIDE DEF at
  <1>14. Leaves(heads, links, q, heads, l2, p, t)
    <2>1. \A r \in Procs \ {p} : \A i \in 1 .. Len(q[r]) : q[r][i] # n /\ q[r][i] \in Nodes
      BY <1>4, <1>5, <1>6
    <2>2. \A r \in Procs \ {p} : \A i \in 1 .. Len(q[r]) : l2[q[r][i]] = links[q[r][i]]
      BY <1>9, <2>1
    <2>3. \A j \in 1 .. Len(t) : at(j) \in 1 .. Len(s) /\ t[j] = s[at(j)]
      BY <1>10, <1>11
    <2>4. \A r \in Procs \ {p} : \A i \in 1 .. Len(q[r]), j \in 1 .. Len(t) : q[r][i] # t[j]
      <3> SUFFICES ASSUME NEW r \in Procs \ {p}, NEW i \in 1 .. Len(q[r]), NEW j \in 1 .. Len(t)
                   PROVE  q[r][i] # t[j]
        OBVIOUS
      <3>1. at(j) \in 1 .. Len(s) /\ t[j] = s[at(j)]
        BY <2>3
      <3>2. q[r][i] # s[at(j)]
        BY <1>4, <3>1
      <3> QED BY <3>1, <3>2
    <2> QED BY <2>2, <2>4, Zenon DEF Leaves
  <1>15. /\ Links(heads, l2)
         /\ \A y : y \in Members(heads, l2, p) <=> \E i \in 1 .. Len(t) : t[i] = y
         /\ \A r \in Procs \ {p} : Members(heads, l2, r) = Members(heads, links, r)
    BY <1>1, <1>11, <1>13, <1>14, ChainReplaced
  <1>16. ASSUME NEW y
         PROVE  (\E i \in 1 .. Len(t) : t[i] = y) <=> (\E i \in 1 .. Len(s) : s[i] = y) /\ y # w
    <2>1. ASSUME NEW i \in 1 .. Len(t), t[i] = y
          PROVE  (\E k \in 1 .. Len(s) : s[k] = y) /\ y # w
      <3>1. at(i) \in 1 .. Len(s) /\ s[at(i)] = y /\ at(i) # c + 1
        BY <1>10, <1>11, <2>1
      <3>2. s[c + 1] # y
        BY <1>2, <1>7, <3>1 DEF Chain
      <3> QED BY <1>7, <3>1, <3>2
    <2>2. ASSUME NEW i \in 1 .. Len(s), s[i] = y, y # w
          PROVE  \E k \in 1 .. Len(t) : t[k] = y
      <3>1. i # c + 1
        BY <1>7, <2>2
      <3>2. PICK k \in 1 .. Len(t) : at(k) = i
        BY <1>12, <3>1
      <3> QED BY <1>11, <2>2, <3>2
    <2> QED BY <2>1, <2>2
  <1>17. \A y : y \in Members(heads, l2, p) <=> y \in Members(heads, links, p) \ {w}
    BY <1>3, <1>15, <1>16
  <1>18. Members(heads, l2, p) = Members(heads, links, p) \ {w}
    BY <1>17
  <1>19. w \in Members(heads, links, p)
    BY <1>3, <1>7
  <1> QED BY <1>8, <1>15, <1>18, <1>19 DEF QueueBecomes

\* Senders(p) before and after a step.
LEMMA SendersAre ==
  ASSUME NEW p
  PROVE  /\ Senders(p) = Members(sendings, next_ready, p)
         /\ Senders(p)' = Members(sendings', next_ready', p)
         /\ \A n : SenderAt(p, n) = WalkAt(sendings, next_ready, p, n)
  <1>1. \A n : SenderAt(p, n) = WalkAt(sendings, next_ready, p, n)
    BY Zenon DEF SenderAt, WalkAt
  <1>2. Senders(p) = Members(sendings, next_ready, p)
    BY <1>1, Zenon DEF Senders, Members
  <1>3. Senders(p)' = Members(sendings', next_ready', p)
    BY Zenon DEF Senders, Members, SenderAt, WalkAt, Depths
  <1> QED BY <1>1, <1>2, <1>3

\* Before(p, w) finds the node in front of w, if w is on the queue and not its
\* head.
LEMMA BeforeFacts ==
  ASSUME Links(sendings, next_ready), NEW p \in Procs, NEW w \in Nodes
  PROVE  /\ Before(p, w) # NULL => Before(p, w) \in Senders(p) /\ next_ready[Before(p, w)] = w
         /\ Before(p, w) = NULL /\ sendings[p] # w => w \notin Senders(p)
  <1> DEFINE hits == {n \in Depths : SenderAt(p, n) # NULL /\ next_ready[SenderAt(p, n)] = w}
  <1>1. Before(p, w) = IF hits = {} THEN NULL ELSE SenderAt(p, Min(hits))
    BY DEF Before
  <1>2. PICK q : Chains(sendings, next_ready, q)
    BY DEF Links
  <1> DEFINE s == q[p]
  <1>3. s \in Seq(Nodes) /\ Chain(sendings, next_ready, p, s) /\ Len(s) \in Nat
    BY <1>2 DEF Chains
  <1> HIDE DEF s
  <1>4. \A n \in Nat : SenderAt(p, n) = IF n < Len(s) THEN s[n + 1] ELSE NULL
    <2>1. \A n \in Nat : WalkAt(sendings, next_ready, p, n) = IF n < Len(s) THEN s[n + 1] ELSE NULL
      BY <1>3, WalkOfChain
    <2> QED BY <2>1, SendersAre
  <1>5. /\ \A x : x \in Senders(p) <=> \E i \in 1 .. Len(s) : s[i] = x
        /\ Len(s) <= Cardinality(Procs) + 1 /\ Cardinality(Procs) \in Nat
    <2>1. \A i, j \in 1 .. Len(s) : s[i] = s[j] => i = j
      BY <1>3 DEF Chain
    <2> QED BY <1>3, <2>1, MembersOfChain, SendersAre, ChainShort
  <1>6. Depths \subseteq Nat /\ hits \subseteq Nat
    BY <1>5 DEF Depths
  <1>7. ASSUME Before(p, w) # NULL
        PROVE  Before(p, w) \in Senders(p) /\ next_ready[Before(p, w)] = w
    <2>1. hits # {} /\ Before(p, w) = SenderAt(p, Min(hits))
      BY <1>1, <1>7
    <2>2. Min(hits) \in hits
      <3> HIDE DEF hits
      <3> QED BY <1>6, <2>1, MinIsLeast
    <2> DEFINE m == Min(hits)
    <2> HIDE DEF m
    <2>3. m \in Depths /\ SenderAt(p, m) # NULL /\ next_ready[SenderAt(p, m)] = w
      BY <2>2 DEF m
    <2>4. Before(p, w) \in Senders(p)
      BY <2>1, <2>3, Zenon DEF Senders, m
    <2> QED BY <2>1, <2>3, <2>4, Zenon DEF m
  <1>8. ASSUME Before(p, w) = NULL, sendings[p] # w, w \in Senders(p)
        PROVE  FALSE
    <2>1. PICK i \in 1 .. Len(s) : s[i] = w
      BY <1>5, <1>8
    <2>2. i # 1
      <3>1. s # <<>>
        BY <1>3
      <3> QED BY <1>3, <1>8, <2>1, <3>1 DEF Chain
    <2> DEFINE k == i - 1
               n == i - 2
    <2>3. /\ k \in 1 .. Len(s) /\ k # Len(s) /\ k + 1 = i
          /\ n \in Nat /\ n < Len(s) /\ n + 1 = k /\ n \in Depths
      BY <1>3, <1>5, <2>2 DEF Depths
    <2> HIDE DEF k, n
    <2>4. SenderAt(p, n) = s[k] /\ s[k] \in Nodes
      BY <1>3, <1>4, <2>3
    <2>5. next_ready[s[k]] = w
      BY <1>3, <2>1, <2>3 DEF Chain
    <2>6. n \in hits
      BY <2>3, <2>4, <2>5, NullApart
    <2>7. Before(p, w) = SenderAt(p, Min(hits)) /\ Min(hits) \in hits
      <3>1. hits # {}
        BY <2>6
      <3>2. Before(p, w) = SenderAt(p, Min(hits))
        BY <1>1, <3>1
      <3> HIDE DEF hits
      <3> QED BY <1>6, <3>1, <3>2, MinIsLeast
    <2>8. SenderAt(p, Min(hits)) # NULL
      BY <2>7, Zenon
    <2> QED BY <1>8, <2>7, <2>8
  <1> QED BY <1>7, <1>8

-----------------------------------------------------------------------------
(* What a step does to the statuses. *)

SameStatus(p) == status'[p] = status[p] \/ (status[p] \in Runnable /\ status'[p] \in Runnable)

\* d is made ready by the process on the CPU or an interrupt.
Woken(d) == status'[d] = "READY" /\ \A p \in Procs \ {d} : status'[p] = status[p]

\* The current process gives up the CPU; whoever gets it was ready.
GaveUp(stat) == status'[cur_proc] = stat /\ \A p \in Procs \ {cur_proc} : SameStatus(p)

\* unblock_proc() of a blocked process.
LEMMA WakeFacts ==
  ASSUME ProcInv, NEW d \in Procs, status[d] \in Blocked, UnblockProc(d)
  PROVE  ProcInv' /\ Woken(d)
  <1>1. status[d] \notin Runnable
    BY DEF Blocked, Runnable
  <1>2. Woken(d)
    BY DEF Woken, UnblockProc, ProcInv, ProcTypeOK
  <1> QED BY <1>1, <1>2, EnqueueFacts

\* Who may run after schedule() is on the lists it was called with.
LEMMA ScheduleStatus ==
  ASSUME ProcInv, ProcInv', NEW stat \in Status \ {"RUNNING"}, NEW lists, Schedule(stat, lists),
         \A p \in Procs \ {cur_proc} :
           Contains(lists[Priority[p]], p) <=> Contains(ready_processes[Priority[p]], p),
         Contains(lists[Priority[cur_proc]], cur_proc) <=> stat \in Runnable
  PROVE  /\ stat \notin Runnable => status'[cur_proc] = stat
         /\ stat \in Runnable => status'[cur_proc] \in Runnable
         /\ \A p \in Procs \ {cur_proc} : SameStatus(p)
  <1> DEFINE next == NextProc(lists)
             left == [status EXCEPT ![cur_proc] = stat]
  <1>1. cur_proc \in Procs /\ status \in [Procs -> Status] /\ status' \in [Procs -> Status]
    BY DEF ProcInv, ProcTypeOK
  <1>2. ready_processes' = lists /\ cur_proc' = next
        /\ (status' = left \/ status' = [left EXCEPT ![next] = "RUNNING"])
        /\ start_pc' = start_pc /\ start_proc' = start_proc
    BY DEF Schedule, Relist, startVars
  <1>3. \A p \in Procs : Contains(lists[Priority[p]], p)
                          <=> status'[p] \in Runnable /\ ~Unlisted(p)
    BY <1>2 DEF ProcInv, ListsMatch, Match, Unlisted
  <1>4. \A p \in Procs : Contains(ready_processes[Priority[p]], p)
                          <=> status[p] \in Runnable /\ ~Unlisted(p)
    BY DEF ProcInv, ListsMatch, Match
  <1>10. \A p \in Procs : Unlisted(p) => status[p] = "READY" /\ status'[p] = "READY" /\ p # cur_proc
    BY <1>1, <1>2 DEF ProcInv, StartReady, Unlisted, OneRunning
  <1>5. left \in [Procs -> Status] /\ left[cur_proc] = stat
        /\ \A p \in Procs \ {cur_proc} : left[p] = status[p]
    BY <1>1
  <1> HIDE DEF left, next
  <1>6. \A p \in Procs : status'[p] = left[p] \/ status'[p] = "RUNNING"
    BY <1>2, <1>5
  <1>7. stat \notin Runnable => status'[cur_proc] = stat
    BY <1>1, <1>3, <1>5, <1>6, <1>10 DEF Runnable
  <1>8. stat \in Runnable => status'[cur_proc] \in Runnable
    BY <1>1, <1>3
  <1>9. ASSUME NEW p \in Procs \ {cur_proc}
        PROVE  SameStatus(p)
    BY <1>3, <1>4, <1>5, <1>6, <1>10 DEF SameStatus, Runnable
  <1> QED BY <1>7, <1>8, <1>9

\* self_block() of any process but init.
LEMMA BlockFacts ==
  ASSUME ProcInv, cur_proc # InitProc, NEW stat \in Blocked, SelfBlock(stat)
  PROVE  ProcInv' /\ GaveUp(stat)
  <1> DEFINE l == Priority[cur_proc]
             s == ready_processes[l]
             lists == [ready_processes EXCEPT ![l] = Unlink(s, cur_proc)]
  <1>1. ProcInv'
    BY SelfBlockFacts
  <1>2. /\ cur_proc \in Procs /\ ready_processes \in [Levels -> Seq(Procs)]
        /\ l \in Levels /\ s \in Seq(Procs) /\ \A p \in Procs : Priority[p] \in Levels
    BY PriorityAssumption DEF ProcInv, ProcTypeOK
  <1>3. Contains(s, cur_proc) /\ \A i, j \in DOMAIN s : s[i] = s[j] => i = j
    BY <1>2, CurrentListed DEF ProcInv, ListsMatch, Match
  <1>4. \A q : Contains(Unlink(s, cur_proc), q) <=> Contains(s, q) /\ q # cur_proc
    BY <1>2, <1>3, UnlinkFacts
  <1>5. Schedule(stat, lists)
    BY DEF SelfBlock
  <1>6. lists[l] = Unlink(s, cur_proc) /\ \A k \in Levels \ {l} : lists[k] = ready_processes[k]
    BY <1>2
  <1>7. stat \in Status \ {"RUNNING"} /\ stat \notin Runnable
    BY DEF Status, Blocked, Runnable
  <1> HIDE DEF lists
  <1>8. \A p \in Procs \ {cur_proc} :
          Contains(lists[Priority[p]], p) <=> Contains(ready_processes[Priority[p]], p)
    BY <1>2, <1>4, <1>6
  <1>9. Contains(lists[Priority[cur_proc]], cur_proc) <=> stat \in Runnable
    BY <1>4, <1>6, <1>7
  <1>10. status'[cur_proc] = stat /\ \A p \in Procs \ {cur_proc} : SameStatus(p)
    BY <1>1, <1>5, <1>7, <1>8, <1>9, ScheduleStatus
  <1> QED BY <1>1, <1>10 DEF GaveUp

\* A tick of the clock.
LEMMA TickFacts ==
  ASSUME ProcInv, TimerHandler
  PROVE  ProcInv' /\ \A p \in Procs : SameStatus(p)
  <1>1. Schedule("READY", ready_processes)
    BY DEF TimerHandler
  <1>2. ProcInv'
    BY <1>1, YieldFacts
  <1>3. cur_proc \in Procs /\ status[cur_proc] \in Runnable
    BY DEF ProcInv, ProcTypeOK, OneRunning, Runnable
  <1>4. Contains(ready_processes[Priority[cur_proc]], cur_proc)
    BY <1>3, CurrentListed
  <1>5. "READY" \in Runnable /\ "READY" \in Status \ {"RUNNING"}
    BY DEF Runnable, Status
  <1>6. status'[cur_proc] \in Runnable /\ \A p \in Procs \ {cur_proc} : SameStatus(p)
    BY <1>1, <1>2, <1>4, <1>5, ScheduleStatus
  <1> QED BY <1>2, <1>3, <1>6 DEF SameStatus

-----------------------------------------------------------------------------
(* What send and receive do. *)

Objs == {"loop", "call"}

IpcVarsOK ==
  /\ sendings \in [Procs -> Nodes \cup {NULL}]
  /\ next_ready \in [Nodes -> Nodes \cup {NULL}]
  /\ message \in [Procs -> Objs]
  /\ obj \in [Procs -> [Objs -> Msg]]
  /\ intr_cnt \in [Procs -> 0 .. 255]

\* Every message object but k of y is as before.
OthersSame(y, k) ==
  \A z \in Procs : \A j \in Objs : z # y \/ j # k => obj'[z][j] = obj[z][j]

\* Object k of y becomes the message r.
LEMMA ObjSet ==
  ASSUME NEW f \in [Procs -> [Objs -> Msg]], NEW y \in Procs, NEW k \in Objs, NEW r \in Msg
  PROVE  /\ [f EXCEPT ![y][k] = r] \in [Procs -> [Objs -> Msg]]
         /\ [f EXCEPT ![y][k] = r][y][k] = r
         /\ \A z \in Procs : \A j \in Objs : z # y \/ j # k => [f EXCEPT ![y][k] = r][z][j] = f[z][j]
  OBVIOUS

\* Type and context of a message are set.
LEMMA MsgFill ==
  ASSUME NEW r \in Msg, NEW t, NEW c
  PROVE  [r EXCEPT !.type = t, !.ctx = c] = [type |-> t, ctx |-> c, dest |-> r.dest]
  <1> DEFINE a == r.type
             b == r.ctx
             e == r.dest
             g == [r EXCEPT !.type = t, !.ctx = c]
  <1>1. r = [type |-> a, ctx |-> b, dest |-> e]
    BY DEF Msg
  <1>2. g = [r EXCEPT !.type = t, !.ctx = c]
    OBVIOUS
  <1> HIDE DEF a, b, e, g
  <1>3. g = [type |-> t, ctx |-> c, dest |-> e]
    BY <1>1, <1>2
  <1> QED BY <1>3 DEF g, e

\* What is known of a message.
LEMMA MsgFacts ==
  ASSUME NEW r \in Msg
  PROVE  /\ r.type \in Types /\ r.ctx \in Procs \cup {NULL} /\ r.dest \in Procs \cup {ANY, INTERRUPT, NULL}
         /\ \A t \in Types, c \in Procs \cup {NULL}, e \in Procs \cup {ANY, INTERRUPT, NULL} :
              [type |-> t, ctx |-> c, dest |-> e] \in Msg
         /\ \A t \in Types : [r EXCEPT !.type = t] = [type |-> t, ctx |-> r.ctx, dest |-> r.dest]
         /\ \A e : [r EXCEPT !.dest = e] = [type |-> r.type, ctx |-> r.ctx, dest |-> e]
  <1>1. /\ r.type \in Types /\ r.ctx \in Procs \cup {NULL} /\ r.dest \in Procs \cup {ANY, INTERRUPT, NULL}
        /\ r = [type |-> r.type, ctx |-> r.ctx, dest |-> r.dest]
    BY DEF Msg
  <1>2. \A t \in Types, c \in Procs \cup {NULL}, e \in Procs \cup {ANY, INTERRUPT, NULL} :
          [type |-> t, ctx |-> c, dest |-> e] \in Msg
    BY DEF Msg
  <1>3. \A t \in Types : [r EXCEPT !.type = t] = [type |-> t, ctx |-> r.ctx, dest |-> r.dest]
    BY <1>1
  <1>4. \A e : [r EXCEPT !.dest = e] = [type |-> r.type, ctx |-> r.ctx, dest |-> e]
    BY <1>1
  <1> QED BY <1>1, <1>2, <1>3, <1>4

\* A message m sent from object o of p reaches d, which waited.
Delivered(p, o, m, d) ==
  /\ IsWaiting(d, p, m.type) /\ d # p /\ Woken(d)
  /\ obj'[p][o] = [type |-> m.type, ctx |-> m.ctx, dest |-> obj[p][o].dest]
  /\ obj'[d][message[d]] = [type |-> m.type, ctx |-> m.ctx, dest |-> p]
  /\ \A z \in Procs : \A j \in Objs :
       (z # p \/ j # o) /\ (z # d \/ j # message[d]) => obj'[z][j] = obj[z][j]
  /\ UNCHANGED <<sendings, next_ready, message, intr_cnt>>

\* Or p is queued with it and gives up the CPU.
Enqueued(p, o, m, d) ==
  /\ ~IsWaiting(d, p, m.type) /\ GaveUp("SENDING_MSG")
  /\ obj'[p][o] = [type |-> m.type, ctx |-> m.ctx, dest |-> obj[p][o].dest]
  /\ OthersSame(p, o)
  /\ message' = [message EXCEPT ![p] = o]
  /\ next_ready' = [next_ready EXCEPT ![p] = sendings[d]]
  /\ sendings' = [sendings EXCEPT ![d] = p]
  /\ UNCHANGED intr_cnt

\* Message::send does one or the other.
LEMMA SendFacts ==
  ASSUME IpcVarsOK, ProcInv, NEW p \in Procs, p = cur_proc, p # InitProc,
         NEW o \in Objs, NEW t \in Types, NEW c \in Procs \cup {NULL}, NEW d \in Procs,
         Send(p, o, [type |-> t, ctx |-> c], d)
  PROVE  /\ ProcInv' /\ IpcVarsOK'
         /\ \/ Delivered(p, o, [type |-> t, ctx |-> c], d)
            \/ Enqueued(p, o, [type |-> t, ctx |-> c], d)
  <1> DEFINE m == [type |-> t, ctx |-> c]
             mine == [type |-> t, ctx |-> c, dest |-> obj[p][o].dest]
             theirs == [type |-> t, ctx |-> c, dest |-> p]
             filled == [obj EXCEPT ![p][o] = [@ EXCEPT !.type = m.type, !.ctx = m.ctx]]
  <1>0. m.type = t /\ m.ctx = c
    OBVIOUS
  <1>1. obj \in [Procs -> [Objs -> Msg]] /\ message \in [Procs -> Objs]
    BY DEF IpcVarsOK
  <1>2. mine \in Msg /\ theirs \in Msg /\ [obj[p][o] EXCEPT !.type = t, !.ctx = c] = mine
    <2> DEFINE r == obj[p][o]
    <2>1. r \in Msg
      BY <1>1
    <2> HIDE DEF r
    <2>2. \A e \in Procs \cup {ANY, INTERRUPT, NULL} : [type |-> t, ctx |-> c, dest |-> e] \in Msg
      BY <2>1, MsgFacts, Zenon
    <2>3. r.dest \in Procs \cup {ANY, INTERRUPT, NULL}
      BY <2>1, MsgFacts, Zenon
    <2>4. [r EXCEPT !.type = t, !.ctx = c] = [type |-> t, ctx |-> c, dest |-> r.dest]
      BY <2>1, MsgFill
    <2> QED BY <2>2, <2>3, <2>4 DEF r
  <1>3. filled = [obj EXCEPT ![p][o] = mine]
    <2>1. filled = [obj EXCEPT ![p][o] = [obj[p][o] EXCEPT !.type = t, !.ctx = c]]
      BY <1>0, <1>1
    <2> QED BY <1>2, <2>1, Zenon
  <1> HIDE DEF mine, filled, theirs
  <1>4. /\ filled \in [Procs -> [Objs -> Msg]] /\ filled[p][o] = mine
        /\ \A z \in Procs : \A j \in Objs : z # p \/ j # o => filled[z][j] = obj[z][j]
    BY <1>1, <1>2, <1>3, ObjSet
  <1>5. \/ /\ IsWaiting(d, p, t)
           /\ obj' = [filled EXCEPT ![d][message[d]] = theirs]
           /\ UnblockProc(d)
           /\ UNCHANGED <<sendings, next_ready, message, intr_cnt>>
        \/ /\ ~IsWaiting(d, p, t)
           /\ obj' = filled
           /\ message' = [message EXCEPT ![p] = o]
           /\ next_ready' = [next_ready EXCEPT ![p] = sendings[d]]
           /\ sendings' = [sendings EXCEPT ![d] = p]
           /\ SelfBlock("SENDING_MSG")
           /\ UNCHANGED intr_cnt
    BY <1>0, Zenon DEF Send, filled, theirs
  <1>6. CASE /\ IsWaiting(d, p, t)
             /\ obj' = [filled EXCEPT ![d][message[d]] = theirs]
             /\ UnblockProc(d)
             /\ UNCHANGED <<sendings, next_ready, message, intr_cnt>>
    <2>1. status[d] = "WAITING_MSG" /\ status[p] = "RUNNING"
      BY <1>6 DEF IsWaiting, ProcInv, OneRunning
    <2>2. d # p /\ status[d] \in Blocked
      BY <2>1 DEF Blocked
    <2>3. ProcInv' /\ Woken(d)
      BY <1>6, <2>2, WakeFacts
    <2>4. message[d] \in Objs
      BY <1>1
    <2>5. /\ obj' \in [Procs -> [Objs -> Msg]] /\ obj'[d][message[d]] = theirs
          /\ \A z \in Procs : \A j \in Objs : z # d \/ j # message[d] => obj'[z][j] = filled[z][j]
      BY <1>2, <1>4, <1>6, <2>4, ObjSet
    <2>6. IpcVarsOK'
      BY <1>6, <2>5 DEF IpcVarsOK
    <2>7. Delivered(p, o, m, d)
      BY <1>0, <1>4, <1>6, <2>2, <2>3, <2>5 DEF Delivered, mine, theirs
    <2> QED BY <2>3, <2>6, <2>7
  <1>7. CASE /\ ~IsWaiting(d, p, t)
             /\ obj' = filled
             /\ message' = [message EXCEPT ![p] = o]
             /\ next_ready' = [next_ready EXCEPT ![p] = sendings[d]]
             /\ sendings' = [sendings EXCEPT ![d] = p]
             /\ SelfBlock("SENDING_MSG")
             /\ UNCHANGED intr_cnt
    <2>1. ProcInv' /\ GaveUp("SENDING_MSG")
      BY <1>7, BlockFacts DEF Blocked
    <2>2. IpcVarsOK'
      BY <1>4, <1>7 DEF IpcVarsOK, Nodes
    <2>3. Enqueued(p, o, m, d)
      BY <1>0, <1>4, <1>7, <2>1 DEF Enqueued, OthersSame, mine
    <2> QED BY <2>1, <2>2, <2>3
  <1> QED BY <1>5, <1>6, <1>7

\* A counted interrupt is received.
GotIntr(p, o, want) ==
  /\ intr_cnt[p] # 0 /\ want = ANY
  /\ \A q \in Procs : status'[q] = status[q]
  /\ obj'[p][o] = [type |-> "INTR", ctx |-> obj[p][o].ctx, dest |-> obj[p][o].dest]
  /\ OthersSame(p, o)
  /\ intr_cnt' = [intr_cnt EXCEPT ![p] = @ - 1]
  /\ UNCHANGED <<sendings, next_ready, message>>

\* The message of s is received and node n remembered, which goes on if it is
\* a blocked sender.
Took(p, o, s, n) ==
  /\ obj'[p][o] = [type |-> Offered(s).type, ctx |-> Offered(s).ctx, dest |-> n]
  /\ OthersSame(p, o)
  /\ IF n \in Procs /\ status[n] = "SENDING_MSG" THEN Woken(n)
     ELSE \A q \in Procs : status'[q] = status[q]
  /\ UNCHANGED <<message, intr_cnt>>

GotHead(p, o, want) ==
  LET h == sendings[p]
  IN  /\ h # NULL /\ want \in {ANY, h}
      /\ ~(intr_cnt[p] # 0 /\ want = ANY)
      /\ Took(p, o, h, h)
      /\ sendings' = [sendings EXCEPT ![p] = IF next_ready[h] = h THEN NULL ELSE next_ready[h]]
      /\ UNCHANGED next_ready

GotBehind(p, o, want) ==
  LET n == Before(p, want)
  IN  /\ want # ANY /\ sendings[p] \notin {NULL, want} /\ n # NULL
      /\ Took(p, o, want, n)
      /\ next_ready' = [next_ready EXCEPT ![n] = next_ready[want]]
      /\ UNCHANGED sendings

\* Nothing is there and p gives up the CPU.
Waits(p, o, want) ==
  /\ ~(intr_cnt[p] # 0 /\ want = ANY)
  /\ sendings[p] = NULL \/ (want \notin {ANY, sendings[p]} /\ Before(p, want) = NULL)
  /\ GaveUp("WAITING_MSG")
  /\ obj'[p][o] = [type |-> obj[p][o].type, ctx |-> obj[p][o].ctx, dest |-> want]
  /\ OthersSame(p, o)
  /\ message' = [message EXCEPT ![p] = o]
  /\ UNCHANGED <<sendings, next_ready, intr_cnt>>

\* The nodes the walk along a queue meets are nodes.
LEMMA WalkType ==
  ASSUME IpcVarsOK, NEW p \in Procs
  PROVE  \A n \in Nat : SenderAt(p, n) \in Nodes \cup {NULL}
  <1> SUFFICES ASSUME NEW n \in Nat PROVE SenderAt(p, n) \in Nodes \cup {NULL}
    OBVIOUS
  <1>1. PICK f : /\ WalkAt(sendings, next_ready, p, n) = f[n]
                 /\ f[0] = sendings[p]
                 /\ \A k \in 1 .. n : f[k] = IF f[k - 1] = NULL THEN NULL ELSE next_ready[f[k - 1]]
    BY WalkUnfold
  <1> DEFINE S == {k \in Nat : k <= n => f[k] \in Nodes \cup {NULL}}
  <1>2. 0 \in S
    BY <1>1 DEF IpcVarsOK
  <1>3. ASSUME NEW k \in Nat, k \in S
        PROVE  k + 1 \in S
    <2> SUFFICES ASSUME k + 1 <= n PROVE f[k + 1] \in Nodes \cup {NULL}
      OBVIOUS
    <2>1. k + 1 \in 1 .. n /\ (k + 1) - 1 = k /\ f[k] \in Nodes \cup {NULL}
      BY <1>3
    <2>2. f[k + 1] = IF f[k] = NULL THEN NULL ELSE next_ready[f[k]]
      BY <1>1, <2>1
    <2> QED BY <2>1, <2>2 DEF IpcVarsOK
  <1>4. n \in S
    <2> HIDE DEF S
    <2> QED BY <1>2, <1>3, NatSet
  <1> QED BY <1>1, <1>4, SendersAre

\* So is the one in front of another.
LEMMA BeforeType ==
  ASSUME IpcVarsOK, NEW p \in Procs, NEW w
  PROVE  Before(p, w) \in Nodes \cup {NULL}
  <1> DEFINE hits == {n \in Depths : SenderAt(p, n) # NULL /\ next_ready[SenderAt(p, n)] = w}
  <1>1. Before(p, w) = IF hits = {} THEN NULL ELSE SenderAt(p, Min(hits))
    BY DEF Before
  <1>2. hits \subseteq Nat
    BY FiniteAssumption, FS_CardinalityType DEF Depths
  <1> HIDE DEF hits
  <1>3. hits # {} => Min(hits) \in Nat
    BY <1>2, MinIsLeast
  <1> QED BY <1>1, <1>3, WalkType

\* Message::receive does one of the four.
LEMMA ReceiveFacts ==
  ASSUME IpcVarsOK, ProcInv, NEW p \in Procs, p = cur_proc, p # InitProc,
         NEW o \in Objs, NEW want \in Procs \cup {ANY, INTERRUPT}, Receive(p, o, want)
  PROVE  /\ ProcInv' /\ IpcVarsOK'
         /\ \/ GotIntr(p, o, want)
            \/ GotHead(p, o, want)
            \/ GotBehind(p, o, want)
            \/ Waits(p, o, want)
  <1>1. /\ obj \in [Procs -> [Objs -> Msg]] /\ message \in [Procs -> Objs] /\ obj[p][o] \in Msg
        /\ sendings \in [Procs -> Nodes \cup {NULL}] /\ next_ready \in [Nodes -> Nodes \cup {NULL}]
        /\ intr_cnt \in [Procs -> 0 .. 255]
    BY DEF IpcVarsOK
  <1>2. /\ obj[p][o].type \in Types /\ obj[p][o].ctx \in Procs \cup {NULL}
        /\ obj[p][o].dest \in Procs \cup {ANY, INTERRUPT, NULL}
    BY <1>1, MsgFacts
  <1>3. CASE ReceiveIntr(p, o, want)
    <2> DEFINE r == [type |-> "INTR", ctx |-> obj[p][o].ctx, dest |-> obj[p][o].dest]
    <2>1. r \in Msg /\ [obj[p][o] EXCEPT !.type = "INTR"] = r
      <3>1. "INTR" \in Types
        BY DEF Types
      <3> QED BY <1>1, <1>2, <3>1, MsgFacts
    <2>2. obj' = [obj EXCEPT ![p][o] = r]
      <3>1. obj' = [obj EXCEPT ![p][o] = [obj[p][o] EXCEPT !.type = "INTR"]]
        BY <1>1, <1>3 DEF ReceiveIntr
      <3> HIDE DEF r
      <3> QED BY <2>1, <3>1, Zenon
    <2> HIDE DEF r
    <2>3. /\ obj' \in [Procs -> [Objs -> Msg]] /\ obj'[p][o] = r
          /\ \A z \in Procs : \A j \in Objs : z # p \/ j # o => obj'[z][j] = obj[z][j]
      BY <1>1, <2>1, <2>2, ObjSet
    <2>4. intr_cnt[p] # 0 /\ want = ANY /\ intr_cnt' = [intr_cnt EXCEPT ![p] = @ - 1]
          /\ UNCHANGED <<procVars, sendings, next_ready, message>>
      BY <1>3 DEF ReceiveIntr
    <2>5. intr_cnt' \in [Procs -> 0 .. 255]
      <3>1. intr_cnt[p] - 1 \in 0 .. 255
        BY <1>1, <2>4
      <3> QED BY <1>1, <2>4, <3>1
    <2>6. ProcInv' /\ \A q \in Procs : status'[q] = status[q]
      BY <2>4, ProcInvNext DEF procVars
    <2>7. IpcVarsOK'
      BY <2>3, <2>4, <2>5 DEF IpcVarsOK
    <2>8. GotIntr(p, o, want)
      BY <2>3, <2>4, <2>6 DEF GotIntr, OthersSame, r
    <2> QED BY <2>6, <2>7, <2>8
  <1>4. ASSUME NEW s \in Nodes, NEW n \in Nodes, Take(p, o, s, n)
        PROVE  /\ ProcInv' /\ Took(p, o, s, n)
               /\ obj' \in [Procs -> [Objs -> Msg]]
    <2> DEFINE r == [type |-> Offered(s).type, ctx |-> Offered(s).ctx, dest |-> n]
    <2>1. Offered(s) \in Msg
      <3>1. CASE s = INTERRUPT
        <4>1. NoMsg \in Msg /\ "IRQ" \in Types /\ NULL \in Procs \cup {NULL}
          BY DEF NoMsg, Msg, Types
        <4>2. NoMsg.ctx = NULL /\ NoMsg.dest = NULL
          BY DEF NoMsg
        <4>3. [NoMsg EXCEPT !.type = "IRQ"] = [type |-> "IRQ", ctx |-> NULL, dest |-> NULL]
          BY DEF NoMsg
        <4> QED BY <3>1, <4>1, <4>3 DEF Offered, Msg
      <3>2. CASE s # INTERRUPT
        BY <1>1, <3>2 DEF Offered, Nodes
      <3> QED BY <3>1, <3>2
    <2>2. r \in Msg
      <3>1. n \in Procs \cup {ANY, INTERRUPT, NULL}
        BY DEF Nodes
      <3> QED BY <2>1, <3>1, MsgFacts
    <2>3. obj' = [obj EXCEPT ![p][o] = r]
      BY <1>4 DEF Take
    <2> HIDE DEF r
    <2>4. /\ obj' \in [Procs -> [Objs -> Msg]] /\ obj'[p][o] = r
          /\ \A z \in Procs : \A j \in Objs : z # p \/ j # o => obj'[z][j] = obj[z][j]
      BY <1>1, <2>2, <2>3, ObjSet
    <2>5. CASE n \in Procs /\ status[n] = "SENDING_MSG"
      <3>1. UnblockProc(n) /\ UNCHANGED <<message, intr_cnt>>
        BY <1>4, <2>5 DEF Take
      <3>2. ProcInv' /\ Woken(n)
        BY <2>5, <3>1, WakeFacts DEF Blocked
      <3> QED BY <2>4, <2>5, <3>1, <3>2 DEF Took, OthersSame, r
    <2>6. CASE ~(n \in Procs /\ status[n] = "SENDING_MSG")
      <3>1. UNCHANGED procVars /\ UNCHANGED <<message, intr_cnt>>
        BY <1>4, <2>6 DEF Take
      <3>2. ProcInv' /\ \A q \in Procs : status'[q] = status[q]
        BY <3>1, ProcInvNext DEF procVars
      <3> QED BY <2>4, <2>6, <3>1, <3>2 DEF Took, OthersSame, r
    <2> QED BY <2>5, <2>6
  <1>5. CASE ReceiveHead(p, o, want)
    <2> DEFINE h == sendings[p]
    <2>1. /\ h # NULL /\ want \in {ANY, h} /\ ~(intr_cnt[p] # 0 /\ want = ANY)
          /\ Take(p, o, h, h)
          /\ sendings' = [sendings EXCEPT ![p] = IF next_ready[h] = h THEN NULL ELSE next_ready[h]]
          /\ UNCHANGED next_ready
      BY <1>5 DEF ReceiveHead
    <2>2. h \in Nodes /\ next_ready[h] \in Nodes \cup {NULL}
      BY <1>1, <2>1
    <2> HIDE DEF h
    <2>3. ProcInv' /\ Took(p, o, h, h) /\ obj' \in [Procs -> [Objs -> Msg]]
      BY <1>4, <2>1, <2>2
    <2>4. IpcVarsOK'
      BY <1>1, <2>1, <2>2, <2>3 DEF IpcVarsOK, Took
    <2>5. GotHead(p, o, want)
      BY <2>1, <2>3 DEF GotHead, h
    <2> QED BY <2>3, <2>4, <2>5
  <1>6. CASE ReceiveBehind(p, o, want)
    <2> DEFINE n == Before(p, want)
    <2>1. /\ want # ANY /\ sendings[p] \notin {NULL, want} /\ n # NULL
          /\ Take(p, o, want, n)
          /\ next_ready' = [next_ready EXCEPT ![n] = next_ready[want]]
          /\ UNCHANGED sendings
      BY <1>6 DEF ReceiveBehind
    <2>2. n \in Nodes /\ want \in Nodes
      BY <2>1, BeforeType DEF Nodes
    <2> HIDE DEF n
    <2>3. ProcInv' /\ Took(p, o, want, n) /\ obj' \in [Procs -> [Objs -> Msg]]
      BY <1>4, <2>1, <2>2
    <2>4. IpcVarsOK'
      BY <1>1, <2>1, <2>2, <2>3 DEF IpcVarsOK, Took
    <2>5. GotBehind(p, o, want)
      BY <2>1, <2>3 DEF GotBehind, n
    <2> QED BY <2>3, <2>4, <2>5
  <1>7. CASE ReceiveBlock(p, o, want)
    <2> DEFINE r == [type |-> obj[p][o].type, ctx |-> obj[p][o].ctx, dest |-> want]
    <2>1. r \in Msg /\ [obj[p][o] EXCEPT !.dest = want] = r
      BY <1>1, <1>2, MsgFacts
    <2>2. obj' = [obj EXCEPT ![p][o] = r]
      <3>1. obj' = [obj EXCEPT ![p][o] = [obj[p][o] EXCEPT !.dest = want]]
        BY <1>1, <1>7 DEF ReceiveBlock
      <3> HIDE DEF r
      <3> QED BY <2>1, <3>1, Zenon
    <2> HIDE DEF r
    <2>3. /\ obj' \in [Procs -> [Objs -> Msg]] /\ obj'[p][o] = r
          /\ \A z \in Procs : \A j \in Objs : z # p \/ j # o => obj'[z][j] = obj[z][j]
      BY <1>1, <2>1, <2>2, ObjSet
    <2>4. /\ ~(intr_cnt[p] # 0 /\ want = ANY)
          /\ sendings[p] = NULL \/ (want \notin {ANY, sendings[p]} /\ Before(p, want) = NULL)
          /\ message' = [message EXCEPT ![p] = o]
          /\ SelfBlock("WAITING_MSG")
          /\ UNCHANGED <<sendings, next_ready, intr_cnt>>
      BY <1>7 DEF ReceiveBlock
    <2>5. ProcInv' /\ GaveUp("WAITING_MSG")
      BY <2>4, BlockFacts DEF Blocked
    <2>6. IpcVarsOK'
      BY <1>1, <2>3, <2>4 DEF IpcVarsOK
    <2>7. Waits(p, o, want)
      BY <2>3, <2>4, <2>5 DEF Waits, OthersSame, r
    <2> QED BY <2>5, <2>6, <2>7
  <1> QED BY <1>3, <1>5, <1>6, <1>7 DEF Receive

\* The disk interrupt reaches the driver that waits for it.
IrqDelivered(d) ==
  /\ IsWaiting(d, INTERRUPT, "IRQ") /\ Woken(d)
  /\ obj'[d][message[d]] = [type |-> "IRQ", ctx |-> NULL, dest |-> INTERRUPT]
  /\ OthersSame(d, message[d])
  /\ UNCHANGED <<sendings, next_ready, message, intr_cnt>>

\* Or it is queued.
IrqQueued(d) ==
  /\ ~IsWaiting(d, INTERRUPT, "IRQ")
  /\ \A q \in Procs : status'[q] = status[q]
  /\ next_ready' = [next_ready EXCEPT ![INTERRUPT] = sendings[d]]
  /\ sendings' = [sendings EXCEPT ![d] = INTERRUPT]
  /\ UNCHANGED <<message, obj, intr_cnt>>

\* The disk handler does one or the other.
LEMMA IrqFacts ==
  ASSUME IpcVarsOK, ProcInv, NEW d \in Procs, SendInterrupt(d)
  PROVE  ProcInv' /\ IpcVarsOK' /\ (IrqDelivered(d) \/ IrqQueued(d))
  <1>1. /\ obj \in [Procs -> [Objs -> Msg]] /\ message[d] \in Objs
        /\ sendings \in [Procs -> Nodes \cup {NULL}] /\ next_ready \in [Nodes -> Nodes \cup {NULL}]
    BY DEF IpcVarsOK
  <1> DEFINE r == [type |-> "IRQ", ctx |-> NULL, dest |-> INTERRUPT]
  <1>2. r \in Msg
    BY DEF Msg, Types
  <1>3. \/ /\ IsWaiting(d, INTERRUPT, "IRQ") /\ obj' = [obj EXCEPT ![d][message[d]] = r]
           /\ UnblockProc(d) /\ UNCHANGED <<sendings, next_ready, message, intr_cnt>>
        \/ /\ ~IsWaiting(d, INTERRUPT, "IRQ")
           /\ next_ready' = [next_ready EXCEPT ![INTERRUPT] = sendings[d]]
           /\ sendings' = [sendings EXCEPT ![d] = INTERRUPT]
           /\ UNCHANGED <<procVars, message, obj, intr_cnt>>
    BY DEF SendInterrupt
  <1> HIDE DEF r
  <1>4. CASE /\ IsWaiting(d, INTERRUPT, "IRQ") /\ obj' = [obj EXCEPT ![d][message[d]] = r]
             /\ UnblockProc(d) /\ UNCHANGED <<sendings, next_ready, message, intr_cnt>>
    <2>1. status[d] \in Blocked
      BY <1>4 DEF IsWaiting, Blocked
    <2>2. ProcInv' /\ Woken(d)
      BY <1>4, <2>1, WakeFacts
    <2>3. /\ obj' \in [Procs -> [Objs -> Msg]] /\ obj'[d][message[d]] = r
          /\ \A z \in Procs : \A j \in Objs : z # d \/ j # message[d] => obj'[z][j] = obj[z][j]
      BY <1>1, <1>2, <1>4, ObjSet
    <2>4. IpcVarsOK'
      BY <1>4, <2>3 DEF IpcVarsOK
    <2>5. IrqDelivered(d)
      BY <1>4, <2>2, <2>3 DEF IrqDelivered, OthersSame, r
    <2> QED BY <2>2, <2>4, <2>5
  <1>5. CASE /\ ~IsWaiting(d, INTERRUPT, "IRQ")
             /\ next_ready' = [next_ready EXCEPT ![INTERRUPT] = sendings[d]]
             /\ sendings' = [sendings EXCEPT ![d] = INTERRUPT]
             /\ UNCHANGED <<procVars, message, obj, intr_cnt>>
    <2>1. ProcInv' /\ \A q \in Procs : status'[q] = status[q]
      BY <1>5, ProcInvNext DEF procVars
    <2>2. IpcVarsOK'
      BY <1>1, <1>5, NullApart DEF IpcVarsOK
    <2> QED BY <1>5, <2>1, <2>2 DEF IrqQueued
  <1> QED BY <1>3, <1>4, <1>5

\* The network interrupt is counted, and wakes a server that waits for anyone.
NetCounted(d) ==
  /\ intr_cnt' = [intr_cnt EXCEPT ![d] = (@ + 1) % 256]
  /\ IF status[d] = "WAITING_MSG" /\ Wants(d) = ANY
     THEN /\ Woken(d) /\ OthersSame(d, message[d])
          /\ LET r == obj[d][message[d]]
             IN  obj'[d][message[d]] = [type |-> "INTR", ctx |-> r.ctx, dest |-> r.dest]
     ELSE (\A q \in Procs : status'[q] = status[q]) /\ UNCHANGED obj
  /\ UNCHANGED <<sendings, next_ready, message>>

\* The network handler does that.
LEMMA NetIrqFacts ==
  ASSUME IpcVarsOK, ProcInv, NEW d \in Procs, SendInterruptNet(d)
  PROVE  ProcInv' /\ IpcVarsOK' /\ NetCounted(d)
  <1> DEFINE g == obj[d][message[d]]
             r == [type |-> "INTR", ctx |-> g.ctx, dest |-> g.dest]
  <1>1. /\ obj \in [Procs -> [Objs -> Msg]] /\ message[d] \in Objs /\ g \in Msg
        /\ intr_cnt \in [Procs -> 0 .. 255]
    BY DEF IpcVarsOK
  <1>2. /\ intr_cnt' = [intr_cnt EXCEPT ![d] = (@ + 1) % 256]
        /\ UNCHANGED <<sendings, next_ready, message>>
    BY DEF SendInterruptNet
  <1>3. intr_cnt' \in [Procs -> 0 .. 255]
    <2>1. (intr_cnt[d] + 1) % 256 \in 0 .. 255
      BY <1>1
    <2> QED BY <1>1, <1>2, <2>1
  <1>4. r \in Msg /\ [g EXCEPT !.type = "INTR"] = r
    <2> HIDE DEF g
    <2>1. "INTR" \in Types
      BY DEF Types
    <2> QED BY <1>1, <2>1, MsgFacts
  <1>5. CASE status[d] = "WAITING_MSG" /\ Wants(d) = ANY
    <2>1. obj' = [obj EXCEPT ![d][message[d]].type = "INTR"] /\ UnblockProc(d)
      BY <1>5 DEF SendInterruptNet, Wants
    <2>2. obj' = [obj EXCEPT ![d][message[d]] = r]
      <3>1. obj' = [obj EXCEPT ![d][message[d]] = [obj[d][message[d]] EXCEPT !.type = "INTR"]]
        BY <1>1, <2>1
      <3> QED BY <1>4, <3>1
    <2> HIDE DEF r
    <2>3. /\ obj' \in [Procs -> [Objs -> Msg]] /\ obj'[d][message[d]] = r
          /\ \A z \in Procs : \A j \in Objs : z # d \/ j # message[d] => obj'[z][j] = obj[z][j]
      BY <1>1, <1>4, <2>2, ObjSet
    <2>4. ProcInv' /\ Woken(d)
      BY <1>5, <2>1, WakeFacts DEF Blocked
    <2>5. IpcVarsOK'
      BY <1>2, <1>3, <2>3 DEF IpcVarsOK
    <2> QED BY <1>2, <1>5, <2>3, <2>4, <2>5 DEF NetCounted, OthersSame, r
  <1>6. CASE ~(status[d] = "WAITING_MSG" /\ Wants(d) = ANY)
    <2>1. UNCHANGED obj /\ UNCHANGED procVars
      BY <1>6 DEF SendInterruptNet, Wants
    <2>2. ProcInv' /\ \A q \in Procs : status'[q] = status[q]
      BY <2>1, ProcInvNext DEF procVars
    <2>3. IpcVarsOK'
      BY <1>2, <1>3, <2>1 DEF IpcVarsOK
    <2> QED BY <1>2, <1>6, <2>1, <2>2, <2>3 DEF NetCounted
  <1> QED BY <1>5, <1>6

-----------------------------------------------------------------------------
(* The steps, summed up. *)

Labels == {"idle", "recv", "loop", "handle", "nestedRecv", "diskWait", "finish"}

\* The current process p sends and goes on at label.
SendStep(p, o, t, c, d, label) ==
  /\ p = cur_proc /\ p \in Clients \cup Servers /\ d \in Procs
  /\ \/ Delivered(p, o, [type |-> t, ctx |-> c], d)
     \/ Enqueued(p, o, [type |-> t, ctx |-> c], d)
  /\ pc' = [pc EXCEPT ![p] = label]
  /\ UNCHANGED irq

\* The current process p receives and goes on at label.
ReceiveStep(p, o, want, label) ==
  /\ p = cur_proc /\ p \in Clients \cup Servers
  /\ \/ GotIntr(p, o, want)
     \/ GotHead(p, o, want)
     \/ GotBehind(p, o, want)
     \/ Waits(p, o, want)
  /\ pc' = [pc EXCEPT ![p] = label]
  /\ UNCHANGED <<tgt, irq>>

\* The steps of Next, with what their calls of the kernel did.
DidCall(p, q) ==
  /\ pc[p] = "idle" /\ tgt' = [tgt EXCEPT ![p] = q]
  /\ SendStep(p, "call", "REQ", p, q, "recv")

DidPost(p, q) ==
  /\ pc[p] = "idle" /\ tgt' = tgt
  /\ SendStep(p, "call", "POST", p, q, "idle")

DidNestedCall(p, q) ==
  /\ pc[p] = "handle" /\ obj[p]["loop"].type \in {"REQ", "INTR"}
  /\ tgt' = [tgt EXCEPT ![p] = q]
  /\ SendStep(p, "call", "REQ", p, q, "nestedRecv")

DidDiskCommand(p) ==
  /\ p = cur_proc /\ pc[p] = "handle" /\ obj[p]["loop"].type = "REQ"
  /\ irq' = [irq EXCEPT ![p] = TRUE] /\ pc' = [pc EXCEPT ![p] = "diskWait"]
  /\ (\A q \in Procs : status'[q] = status[q]) /\ UNCHANGED <<ipcVars, tgt>>

DidReply(p) ==
  /\ pc[p] \in {"handle", "finish"} /\ obj[p]["loop"].type = "REQ" /\ tgt' = tgt
  /\ SendStep(p, "loop", "REPLY", obj[p]["loop"].ctx, obj[p]["loop"].dest, "loop")

DidForget(p) ==
  /\ p = cur_proc /\ pc[p] \in {"handle", "finish"} /\ obj[p]["loop"].type # "REQ"
  /\ pc' = [pc EXCEPT ![p] = "loop"]
  /\ (\A q \in Procs : status'[q] = status[q]) /\ UNCHANGED <<ipcVars, tgt, irq>>

Ticked == (\A p \in Procs : SameStatus(p)) /\ UNCHANGED <<ipcVars, pc, tgt, irq>>

DidDiskIrq(d) ==
  /\ irq[d] /\ irq' = [irq EXCEPT ![d] = FALSE]
  /\ IrqDelivered(d) \/ IrqQueued(d)
  /\ UNCHANGED <<pc, tgt>>

DidNetIrq(d) == NetCounted(d) /\ UNCHANGED <<pc, tgt, irq>>

Summary ==
  \/ \E p \in Clients : \E q \in Calls[p] : DidCall(p, q)
  \/ \E p \in Clients : \E q \in Posts[p] : DidPost(p, q)
  \/ \E p \in Clients : pc[p] = "recv" /\ ReceiveStep(p, "call", tgt[p], "idle")
  \/ \E p \in Servers : pc[p] = "loop" /\ ReceiveStep(p, "loop", ANY, "handle")
  \/ \E p \in Servers : \E q \in Calls[p] : DidNestedCall(p, q)
  \/ \E p \in Servers : pc[p] = "nestedRecv" /\ ReceiveStep(p, "call", tgt[p], "finish")
  \/ \E p \in DiskServers : DidDiskCommand(p)
  \/ \E p \in Servers : pc[p] = "diskWait" /\ ReceiveStep(p, "call", INTERRUPT, "finish")
  \/ \E p \in Servers : DidReply(p)
  \/ \E p \in Servers : DidForget(p)
  \/ Ticked
  \/ \E d \in DiskServers : DidDiskIrq(d)
  \/ \E d \in NetServers : DidNetIrq(d)

\* Who there is.
LEMMA ProcSets ==
  /\ Clients \subseteq Procs /\ Servers \subseteq Procs /\ Clients \cap Servers = {}
  /\ DiskServers \subseteq Servers /\ NetServers \subseteq Servers
  /\ InitProc \notin Clients \cup Servers
  /\ \A p \in Clients \cup Servers : Calls[p] \subseteq Servers
  /\ \A p \in Clients : Posts[p] \subseteq Servers
  BY IpcAssumption

\* Every step is one of these, and keeps the variables of the processes and of
\* the messages in order.
LEMMA StepSummary ==
  ASSUME BaseInv, Next
  PROVE  ProcInv' /\ IpcVarsOK' /\ Summary
  <1>1. /\ ProcInv /\ IpcVarsOK /\ cur_proc \in Procs
        /\ tgt \in [Procs -> Procs \cup {NULL}] /\ obj \in [Procs -> [Objs -> Msg]]
    BY DEF BaseInv, IpcTypeOK, IpcVarsOK, Objs, ProcTypeOK
  <1>2. /\ "loop" \in Objs /\ "call" \in Objs
        /\ "REQ" \in Types /\ "POST" \in Types /\ "REPLY" \in Types
    BY DEF Objs, Types
  <1>3. ASSUME NEW p \in Clients \cup Servers, p = cur_proc, NEW o \in Objs, NEW t \in Types,
               NEW c \in Procs \cup {NULL}, NEW d \in Procs, NEW label,
               Send(p, o, [type |-> t, ctx |-> c], d), Goto(p, label), UNCHANGED <<irq, intrs>>
        PROVE  ProcInv' /\ IpcVarsOK' /\ SendStep(p, o, t, c, d, label)
    <2>1. p \in Procs /\ p # InitProc
      BY ProcSets
    <2>2. /\ ProcInv' /\ IpcVarsOK'
          /\ \/ Delivered(p, o, [type |-> t, ctx |-> c], d)
             \/ Enqueued(p, o, [type |-> t, ctx |-> c], d)
      BY <1>1, <1>3, <2>1, SendFacts
    <2> QED BY <1>3, <2>2 DEF SendStep, Goto
  <1>4. ASSUME NEW p \in Clients \cup Servers, p = cur_proc, NEW o \in Objs,
               NEW want \in Procs \cup {ANY, INTERRUPT}, NEW label,
               Receive(p, o, want), Goto(p, label), UNCHANGED <<tgt, envVars>>
        PROVE  ProcInv' /\ IpcVarsOK' /\ ReceiveStep(p, o, want, label)
    <2>1. p \in Procs /\ p # InitProc
      BY ProcSets
    <2>2. /\ ProcInv' /\ IpcVarsOK'
          /\ \/ GotIntr(p, o, want)
             \/ GotHead(p, o, want)
             \/ GotBehind(p, o, want)
             \/ Waits(p, o, want)
      BY <1>1, <1>4, <2>1, ReceiveFacts
    <2> QED BY <1>4, <2>2 DEF ReceiveStep, Goto, envVars
  <1>5. ASSUME UNCHANGED <<procVars, ipcVars>>
        PROVE  ProcInv' /\ IpcVarsOK' /\ \A q \in Procs : status'[q] = status[q]
    <2>1. ProcInv' /\ status' = status
      BY <1>1, <1>5, ProcInvNext DEF procVars
    <2> QED BY <1>1, <1>5, <2>1 DEF IpcVarsOK, ipcVars
  <1>6. ASSUME NEW p \in Procs, Step(p)
        PROVE  ProcInv' /\ IpcVarsOK' /\ Summary
    <2>1. p = cur_proc
      BY <1>6 DEF Step
    <2>2. CASE p \in Clients /\ \E q \in Calls[p] : Call(p, q)
      <3>1. PICK q \in Calls[p] : Call(p, q)
        BY <2>2
      <3>2. p \in Clients \cup Servers /\ q \in Procs
        BY <2>2, ProcSets
      <3>3. ProcInv' /\ IpcVarsOK' /\ SendStep(p, "call", "REQ", p, q, "recv")
        BY <1>2, <1>3, <2>1, <3>1, <3>2, Zenon DEF Call
      <3>4. DidCall(p, q)
        BY <3>1, <3>3 DEF Call, DidCall
      <3> QED BY <2>2, <3>1, <3>3, <3>4 DEF Summary
    <2>3. CASE p \in Clients /\ \E q \in Posts[p] : Post(p, q)
      <3>1. PICK q \in Posts[p] : Post(p, q)
        BY <2>3
      <3>2. p \in Clients \cup Servers /\ q \in Procs /\ pc[p] = "idle"
        BY <2>3, <3>1, ProcSets DEF Post
      <3>3. Goto(p, "idle")
        BY <3>1, <3>2 DEF Post, Goto, BaseInv, IpcTypeOK
      <3>4. ProcInv' /\ IpcVarsOK' /\ SendStep(p, "call", "POST", p, q, "idle")
        BY <1>2, <1>3, <2>1, <3>1, <3>2, <3>3 DEF Post
      <3>5. DidPost(p, q)
        BY <3>1, <3>4 DEF Post, DidPost
      <3> QED BY <2>3, <3>1, <3>4, <3>5 DEF Summary
    <2>4. CASE p \in Clients /\ CallReceive(p)
      <3>1. tgt[p] \in Procs /\ pc[p] = "recv" /\ p \in Clients \cup Servers
        BY <2>4 DEF CallReceive, BaseInv, Asked
      <3>2. ProcInv' /\ IpcVarsOK' /\ ReceiveStep(p, "call", tgt[p], "idle")
        BY <1>2, <1>4, <2>1, <2>4, <3>1 DEF CallReceive
      <3> QED BY <2>4, <3>1, <3>2 DEF Summary
    <2>5. CASE p \in Servers /\ ServerReceive(p)
      <3>1. pc[p] = "loop" /\ p \in Clients \cup Servers /\ ANY \in Procs \cup {ANY, INTERRUPT}
        BY <2>5 DEF ServerReceive
      <3>2. ProcInv' /\ IpcVarsOK' /\ ReceiveStep(p, "loop", ANY, "handle")
        BY <1>2, <1>4, <2>1, <2>5, <3>1 DEF ServerReceive
      <3> QED BY <2>5, <3>1, <3>2 DEF Summary
    <2>6. CASE p \in Servers /\ \E q \in Calls[p] : NestedCall(p, q)
      <3>1. PICK q \in Calls[p] : NestedCall(p, q)
        BY <2>6
      <3>2. p \in Clients \cup Servers /\ q \in Procs
        BY <2>6, ProcSets
      <3>3. ProcInv' /\ IpcVarsOK' /\ SendStep(p, "call", "REQ", p, q, "nestedRecv")
        BY <1>2, <1>3, <2>1, <3>1, <3>2 DEF NestedCall, envVars
      <3>4. DidNestedCall(p, q)
        BY <3>1, <3>3 DEF NestedCall, DidNestedCall
      <3> QED BY <2>6, <3>1, <3>3, <3>4 DEF Summary
    <2>7. CASE p \in Servers /\ NestedReceive(p)
      <3>1. tgt[p] \in Procs /\ pc[p] = "nestedRecv" /\ p \in Clients \cup Servers
        BY <2>7 DEF NestedReceive, BaseInv, Asked
      <3>2. ProcInv' /\ IpcVarsOK' /\ ReceiveStep(p, "call", tgt[p], "finish")
        BY <1>2, <1>4, <2>1, <2>7, <3>1 DEF NestedReceive
      <3> QED BY <2>7, <3>1, <3>2 DEF Summary
    <2>8. CASE p \in Servers /\ DiskCommand(p)
      <3>1. ProcInv' /\ IpcVarsOK' /\ \A q \in Procs : status'[q] = status[q]
        BY <1>5, <2>8 DEF DiskCommand
      <3>2. p \in DiskServers /\ DidDiskCommand(p)
        BY <2>1, <2>8, <3>1 DEF DiskCommand, DidDiskCommand, Goto
      <3> QED BY <3>1, <3>2 DEF Summary
    <2>9. CASE p \in Servers /\ DiskReceive(p)
      <3>1. pc[p] = "diskWait" /\ p \in Clients \cup Servers /\ INTERRUPT \in Procs \cup {ANY, INTERRUPT}
        BY <2>9 DEF DiskReceive
      <3>2. ProcInv' /\ IpcVarsOK' /\ ReceiveStep(p, "call", INTERRUPT, "finish")
        BY <1>2, <1>4, <2>1, <2>9, <3>1 DEF DiskReceive
      <3> QED BY <2>9, <3>1, <3>2 DEF Summary
    <2>10. CASE p \in Servers /\ Reply(p)
      <3> DEFINE m == obj[p]["loop"]
      <3>1. /\ pc[p] \in {"handle", "finish"} /\ m.type = "REQ" /\ UNCHANGED <<tgt, envVars>>
            /\ Send(p, "loop", [type |-> "REPLY", ctx |-> m.ctx], m.dest) /\ Goto(p, "loop")
        BY <2>10 DEF Reply
      <3>2. m.ctx \in Procs \cup {NULL} /\ m.dest \in Procs /\ p \in Clients \cup Servers
        BY <1>1, <1>2, <2>10, <3>1, MsgFacts DEF BaseInv, Asked
      <3> HIDE DEF m
      <3>3. ProcInv' /\ IpcVarsOK' /\ SendStep(p, "loop", "REPLY", m.ctx, m.dest, "loop")
        BY <1>2, <1>3, <2>1, <3>1, <3>2 DEF envVars
      <3>4. DidReply(p)
        BY <3>1, <3>3 DEF DidReply, m
      <3> QED BY <2>10, <3>3, <3>4 DEF Summary
    <2>11. CASE p \in Servers /\ Forget(p)
      <3>1. ProcInv' /\ IpcVarsOK' /\ \A q \in Procs : status'[q] = status[q]
        BY <1>5, <2>11 DEF Forget
      <3>2. DidForget(p)
        BY <2>1, <2>11, <3>1 DEF Forget, DidForget, Goto, envVars
      <3> QED BY <2>11, <3>1, <3>2 DEF Summary
    <2> QED BY <1>6, <2>2, <2>3, <2>4, <2>5, <2>6, <2>7, <2>8, <2>9, <2>10, <2>11, Zenon DEF Step
  <1>7. CASE Tick
    <2>1. ProcInv' /\ \A p \in Procs : SameStatus(p)
      BY <1>1, <1>7, TickFacts DEF Tick
    <2>2. UNCHANGED <<ipcVars, pc, tgt, irq>>
      BY <1>7 DEF Tick, envVars
    <2>3. IpcVarsOK'
      BY <1>1, <2>2 DEF IpcVarsOK, ipcVars
    <2> QED BY <2>1, <2>2, <2>3 DEF Summary, Ticked
  <1>8. ASSUME NEW d \in DiskServers, DiskIrq(d)
        PROVE  ProcInv' /\ IpcVarsOK' /\ Summary
    <2>1. ProcInv' /\ IpcVarsOK' /\ (IrqDelivered(d) \/ IrqQueued(d))
      BY <1>1, <1>8, IrqFacts, ProcSets DEF DiskIrq
    <2>2. DidDiskIrq(d)
      BY <1>8, <2>1 DEF DiskIrq, DidDiskIrq
    <2> QED BY <2>1, <2>2 DEF Summary
  <1>9. ASSUME NEW d \in NetServers, NetIrq(d)
        PROVE  ProcInv' /\ IpcVarsOK' /\ Summary
    <2>1. ProcInv' /\ IpcVarsOK' /\ NetCounted(d)
      BY <1>1, <1>9, NetIrqFacts, ProcSets DEF NetIrq
    <2>2. DidNetIrq(d)
      BY <1>9, <2>1 DEF NetIrq, DidNetIrq
    <2> QED BY <2>1, <2>2 DEF Summary
  <1> QED BY <1>6, <1>7, <1>8, <1>9 DEF Next

-----------------------------------------------------------------------------
(* Type correctness, and the ready lists under message passing. *)

\* The variables of the programs and of the devices keep their types.
LEMMA ProgramTypes ==
  ASSUME BaseInv, Next
  PROVE  /\ pc' \in [Procs -> Labels] /\ tgt' \in [Procs -> Procs \cup {NULL}]
         /\ irq' \in [DiskServers -> BOOLEAN]
         /\ calls' \in [Clients -> 0 .. MaxCalls] /\ intrs' \in 0 .. MaxIntrs
  <1>1. /\ pc \in [Procs -> Labels] /\ tgt \in [Procs -> Procs \cup {NULL}]
        /\ irq \in [DiskServers -> BOOLEAN]
        /\ calls \in [Clients -> 0 .. MaxCalls] /\ intrs \in 0 .. MaxIntrs
        /\ MaxCalls \in Nat /\ MaxIntrs \in Nat
    BY IpcAssumption DEF BaseInv, IpcTypeOK, Labels
  <1>2. ASSUME NEW p \in Procs, Step(p)
        PROVE  /\ tgt' \in [Procs -> Procs \cup {NULL}]
               /\ irq' \in [DiskServers -> BOOLEAN]
               /\ calls' \in [Clients -> 0 .. MaxCalls] /\ intrs' = intrs
               /\ \E label \in Labels : pc' = [pc EXCEPT ![p] = label]
    <2>1. CASE p \in Clients /\ \E q \in Calls[p] : Call(p, q)
      <3>1. PICK q \in Calls[p] : Call(p, q)
        BY <2>1
      <3>2. q \in Procs
        BY <2>1, ProcSets
      <3> QED BY <1>1, <2>1, <3>1, <3>2 DEF Call, Goto, Labels
    <2>2. CASE p \in Clients /\ \E q \in Posts[p] : Post(p, q)
      <3>1. pc' = [pc EXCEPT ![p] = pc[p]] /\ pc[p] \in Labels
        BY <1>1, <2>2 DEF Post
      <3> QED BY <1>1, <2>2, <3>1 DEF Post
    <2>3. CASE p \in Clients /\ CallReceive(p)
      BY <1>1, <2>3 DEF CallReceive, Goto, envVars, Labels
    <2>4. CASE p \in Servers /\ ServerReceive(p)
      BY <1>1, <2>4 DEF ServerReceive, Goto, envVars, Labels
    <2>5. CASE p \in Servers /\ \E q \in Calls[p] : NestedCall(p, q)
      <3>1. PICK q \in Calls[p] : NestedCall(p, q)
        BY <2>5
      <3>2. q \in Procs
        BY <2>5, ProcSets
      <3> QED BY <1>1, <3>1, <3>2 DEF NestedCall, Goto, envVars, Labels
    <2>6. CASE p \in Servers /\ NestedReceive(p)
      BY <1>1, <2>6 DEF NestedReceive, Goto, envVars, Labels
    <2>7. CASE p \in Servers /\ DiskCommand(p)
      BY <1>1, <2>7 DEF DiskCommand, Goto, Labels
    <2>8. CASE p \in Servers /\ DiskReceive(p)
      BY <1>1, <2>8 DEF DiskReceive, Goto, envVars, Labels
    <2>9. CASE p \in Servers /\ Reply(p)
      BY <1>1, <2>9 DEF Reply, Goto, envVars, Labels
    <2>10. CASE p \in Servers /\ Forget(p)
      BY <1>1, <2>10 DEF Forget, Goto, envVars, Labels
    <2> QED BY <1>2, <2>1, <2>2, <2>3, <2>4, <2>5, <2>6, <2>7, <2>8, <2>9, <2>10, Zenon DEF Step
  <1>3. ASSUME NEW p \in Procs, Step(p)
        PROVE  pc' \in [Procs -> Labels]
    BY <1>1, <1>2, <1>3
  <1>4. CASE Tick
    BY <1>1, <1>4 DEF Tick, envVars
  <1>5. CASE \E d \in DiskServers : DiskIrq(d)
    BY <1>1, <1>5 DEF DiskIrq
  <1>6. CASE \E d \in NetServers : NetIrq(d)
    BY <1>1, <1>6 DEF NetIrq
  <1> QED BY <1>1, <1>2, <1>3, <1>4, <1>5, <1>6 DEF Next

\* A process whose label, target, loop object and status a step leaves alone,
\* a wait that ends set aside, is as well asked as before.
LEMMA AskedKept ==
  ASSUME NEW z, Asked(z), pc'[z] = pc[z], tgt'[z] = tgt[z],
         obj'[z]["loop"] = obj[z]["loop"], SameStatus(z) \/ status'[z] # "WAITING_MSG"
  PROVE  Asked(z)'
  BY DEF Asked, SameStatus, Runnable

\* A send leaves every process well asked.
LEMMA SendAsked ==
  ASSUME BaseInv, NEW p, NEW o \in Objs, NEW t, NEW c, NEW d, NEW label,
         SendStep(p, o, t, c, d, label),
         \A z \in Procs \ {p} : tgt'[z] = tgt[z],
         label \in {"recv", "nestedRecv"} => tgt'[p] \in Procs,
         o = "call" => label # "loop",
         o = "loop" => t = "REPLY"
  PROVE  \A z \in Procs : Asked(z)'
  <1>1. /\ p \in Procs /\ d \in Procs /\ p = cur_proc
        /\ pc \in [Procs -> Labels] /\ obj \in [Procs -> [Objs -> Msg]] /\ message \in [Procs -> Objs]
    BY ProcSets DEF SendStep, BaseInv, IpcTypeOK, Labels, Objs
  <1>2. pc'[p] = label /\ \A z \in Procs \ {p} : pc'[z] = pc[z]
    BY <1>1 DEF SendStep
  <1>3. status[p] = "RUNNING"
    BY <1>1 DEF BaseInv, ProcInv, OneRunning
  <1>4. Asked(p) /\ Asked(d) /\ \A z \in Procs : Asked(z)
    BY <1>1 DEF BaseInv
  <1> DEFINE m == [type |-> t, ctx |-> c]
  <1>5. m.type = t /\ m.ctx = c
    OBVIOUS
  <1> HIDE DEF m
  <1>6. "loop" \in Objs /\ o \in {"loop", "call"}
    BY DEF Objs
  <1>7. CASE Delivered(p, o, m, d)
    <2>1. /\ status[d] = "WAITING_MSG" /\ d # p /\ status'[d] = "READY"
          /\ \A z \in Procs \ {d} : status'[z] = status[z]
          /\ obj'[p][o] = [type |-> t, ctx |-> c, dest |-> obj[p][o].dest]
          /\ obj'[d][message[d]] = [type |-> t, ctx |-> c, dest |-> p]
          /\ \A z \in Procs : \A j \in Objs :
               (z # p \/ j # o) /\ (z # d \/ j # message[d]) => obj'[z][j] = obj[z][j]
      BY <1>5, <1>7 DEF Delivered, IsWaiting, Woken
    <2>2. ASSUME NEW z \in Procs \ {p, d} PROVE Asked(z)'
      <3>1. obj'[z]["loop"] = obj[z]["loop"] /\ SameStatus(z) /\ pc'[z] = pc[z] /\ tgt'[z] = tgt[z]
        BY <1>2, <1>6, <2>1 DEF SameStatus
      <3> QED BY <1>4, <3>1, AskedKept
    <2>3. Asked(p)'
      <3>1. o = "call" => obj'[p]["loop"] = obj[p]["loop"]
        BY <1>1, <1>6, <2>1
      <3>2. o = "loop" => obj'[p]["loop"].type = "REPLY"
        BY <2>1
      <3> QED BY <1>1, <1>2, <1>3, <1>4, <1>6, <2>1, <3>1, <3>2 DEF Asked
    <2>4. Asked(d)'
      <3>1. pc[d] # "loop" /\ pc'[d] = pc[d] /\ tgt'[d] = tgt[d]
        BY <1>1, <1>2, <1>4, <2>1 DEF Asked
      <3>2. obj'[d]["loop"] = obj[d]["loop"] \/ obj'[d]["loop"].dest = p
        BY <1>1, <1>6, <2>1
      <3> QED BY <1>1, <1>4, <3>1, <3>2 DEF Asked
    <2> QED BY <2>2, <2>3, <2>4
  <1>8. CASE Enqueued(p, o, m, d)
    <2>1. /\ status'[p] = "SENDING_MSG" /\ \A z \in Procs \ {p} : SameStatus(z)
          /\ obj'[p][o] = [type |-> t, ctx |-> c, dest |-> obj[p][o].dest]
          /\ \A z \in Procs : \A j \in Objs : z # p \/ j # o => obj'[z][j] = obj[z][j]
      BY <1>1, <1>5, <1>8 DEF Enqueued, GaveUp, OthersSame
    <2>2. ASSUME NEW z \in Procs \ {p} PROVE Asked(z)'
      <3>1. obj'[z]["loop"] = obj[z]["loop"] /\ SameStatus(z) /\ pc'[z] = pc[z] /\ tgt'[z] = tgt[z]
        BY <1>2, <1>6, <2>1
      <3> QED BY <1>4, <3>1, AskedKept
    <2>3. Asked(p)'
      <3>1. o = "call" => obj'[p]["loop"] = obj[p]["loop"]
        BY <1>1, <1>6, <2>1
      <3>2. o = "loop" => obj'[p]["loop"].type = "REPLY"
        BY <2>1
      <3> QED BY <1>2, <1>4, <1>6, <2>1, <3>1, <3>2 DEF Asked
    <2> QED BY <2>2, <2>3
  <1> QED BY <1>7, <1>8 DEF SendStep, m

\* So does a receive.
LEMMA ReceiveAsked ==
  ASSUME BaseInv, NEW p, NEW o \in Objs, NEW want, NEW label,
         ReceiveStep(p, o, want, label), label \in {"idle", "handle", "finish"},
         o = "loop" => pc[p] = "loop" /\ want = ANY
  PROVE  \A z \in Procs : Asked(z)'
  <1>1. /\ p \in Procs /\ p = cur_proc /\ tgt' = tgt
        /\ pc \in [Procs -> Labels] /\ obj \in [Procs -> [Objs -> Msg]]
        /\ sendings \in [Procs -> Nodes \cup {NULL}]
    BY ProcSets DEF ReceiveStep, BaseInv, IpcTypeOK, Labels, Objs
  <1>2. pc'[p] = label /\ \A z \in Procs \ {p} : pc'[z] = pc[z]
    BY <1>1 DEF ReceiveStep
  <1>3. \A z \in Procs : Asked(z)
    BY DEF BaseInv
  <1>4. "loop" \in Objs /\ o \in {"loop", "call"}
    BY DEF Objs
  <1>5. OthersSame(p, o)
    BY DEF ReceiveStep, GotIntr, GotHead, GotBehind, Took, Waits
  <1>6. \A z \in Procs \ {p} : SameStatus(z) \/ status'[z] # "WAITING_MSG"
    <2>1. CASE GotIntr(p, o, want)
      BY <2>1 DEF GotIntr, SameStatus
    <2>2. ASSUME NEW s, NEW n, Took(p, o, s, n)
          PROVE  \A z \in Procs \ {p} : SameStatus(z) \/ status'[z] # "WAITING_MSG"
      BY <2>2 DEF Took, Woken, SameStatus
    <2>3. CASE Waits(p, o, want)
      BY <1>1, <2>3 DEF Waits, GaveUp
    <2> QED BY <2>1, <2>2, <2>3 DEF ReceiveStep, GotHead, GotBehind
  <1>7. ASSUME NEW z \in Procs \ {p} PROVE Asked(z)'
    <2>1. obj'[z]["loop"] = obj[z]["loop"] /\ pc'[z] = pc[z] /\ tgt'[z] = tgt[z]
      BY <1>1, <1>2, <1>4, <1>5 DEF OthersSame
    <2> QED BY <1>3, <1>6, <2>1, AskedKept
  <1>8. Asked(p)'
    <2> SUFFICES obj'[p]["loop"].type = "REQ" => obj'[p]["loop"].dest \in Procs
      BY <1>2 DEF Asked
    <2>1. CASE o = "call"
      <3>1. obj'[p]["loop"] = obj[p]["loop"]
        BY <1>1, <1>4, <1>5, <2>1 DEF OthersSame
      <3> QED BY <1>1, <1>3, <3>1 DEF Asked
    <2>2. CASE o = "loop"
      <3>1. want = ANY /\ obj[p]["loop"].type # "REQ"
        BY <1>1, <1>3, <2>2 DEF Asked
      <3>2. CASE GotIntr(p, o, want)
        BY <2>2, <3>2 DEF GotIntr
      <3>3. CASE GotHead(p, o, want)
        <4>1. /\ sendings[p] # NULL
              /\ obj'[p]["loop"] = [type |-> Offered(sendings[p]).type,
                                    ctx |-> Offered(sendings[p]).ctx, dest |-> sendings[p]]
          BY <2>2, <3>3 DEF GotHead, Took
        <4>2. sendings[p] = INTERRUPT => Offered(sendings[p]).type = "IRQ"
          BY DEF Offered, NoMsg
        <4>3. sendings[p] \in Procs \cup {INTERRUPT}
          BY <1>1, <4>1 DEF Nodes
        <4> QED BY <4>1, <4>2, <4>3
      <3>4. CASE GotBehind(p, o, want)
        BY <3>1, <3>4 DEF GotBehind
      <3>5. CASE Waits(p, o, want)
        BY <2>2, <3>1, <3>5 DEF Waits
      <3> QED BY <3>2, <3>3, <3>4, <3>5 DEF ReceiveStep
    <2> QED BY <1>4, <2>1, <2>2
  <1> QED BY <1>7, <1>8

\* A step of the programs or of a device leaves every process well asked.
LEMMA AskedNext ==
  ASSUME BaseInv, Summary
  PROVE  \A z \in Procs : Asked(z)'
  <1>1. /\ \A z \in Procs : Asked(z)
        /\ tgt \in [Procs -> Procs \cup {NULL}] /\ pc \in [Procs -> Labels]
        /\ obj \in [Procs -> [Objs -> Msg]] /\ message \in [Procs -> Objs]
        /\ "loop" \in Objs /\ "call" \in Objs
    BY DEF BaseInv, IpcTypeOK, Labels, Objs
  <1>2. ASSUME NEW p \in Clients, NEW q \in Calls[p], DidCall(p, q)
        PROVE  \A z \in Procs : Asked(z)'
    <2>1. p \in Procs /\ q \in Procs
      BY ProcSets
    <2>2. tgt'[p] \in Procs /\ \A z \in Procs \ {p} : tgt'[z] = tgt[z]
      BY <1>1, <1>2, <2>1 DEF DidCall
    <2> QED BY <1>1, <1>2, <2>2, SendAsked DEF DidCall
  <1>3. ASSUME NEW p \in Clients, NEW q \in Posts[p], DidPost(p, q)
        PROVE  \A z \in Procs : Asked(z)'
    BY <1>1, <1>3, SendAsked DEF DidPost
  <1>4. ASSUME NEW p \in Clients, pc[p] = "recv", ReceiveStep(p, "call", tgt[p], "idle")
        PROVE  \A z \in Procs : Asked(z)'
    BY <1>1, <1>4, ReceiveAsked
  <1>5. ASSUME NEW p \in Servers, pc[p] = "loop", ReceiveStep(p, "loop", ANY, "handle")
        PROVE  \A z \in Procs : Asked(z)'
    BY <1>1, <1>5, ReceiveAsked
  <1>6. ASSUME NEW p \in Servers, NEW q \in Calls[p], DidNestedCall(p, q)
        PROVE  \A z \in Procs : Asked(z)'
    <2>1. p \in Procs /\ q \in Procs
      BY ProcSets
    <2>2. tgt'[p] \in Procs /\ \A z \in Procs \ {p} : tgt'[z] = tgt[z]
      BY <1>1, <1>6, <2>1 DEF DidNestedCall
    <2> QED BY <1>1, <1>6, <2>2, SendAsked DEF DidNestedCall
  <1>7. ASSUME NEW p \in Servers, pc[p] = "nestedRecv", ReceiveStep(p, "call", tgt[p], "finish")
        PROVE  \A z \in Procs : Asked(z)'
    BY <1>1, <1>7, ReceiveAsked
  <1>8. ASSUME NEW p \in DiskServers, DidDiskCommand(p)
        PROVE  \A z \in Procs : Asked(z)'
    <2> SUFFICES ASSUME NEW z \in Procs PROVE Asked(z)'
      OBVIOUS
    <2>1. p \in Procs
      BY ProcSets
    <2>2. /\ obj' = obj /\ tgt' = tgt /\ status'[z] = status[z]
          /\ pc'[z] = IF z = p THEN "diskWait" ELSE pc[z]
      BY <1>1, <1>8, <2>1 DEF DidDiskCommand, ipcVars
    <2> QED BY <1>1, <2>2 DEF Asked
  <1>9. ASSUME NEW p \in Servers, pc[p] = "diskWait", ReceiveStep(p, "call", INTERRUPT, "finish")
        PROVE  \A z \in Procs : Asked(z)'
    BY <1>1, <1>9, ReceiveAsked
  <1>10. ASSUME NEW p \in Servers, DidReply(p)
         PROVE  \A z \in Procs : Asked(z)'
    BY <1>1, <1>10, SendAsked DEF DidReply
  <1>11. ASSUME NEW p \in Servers, DidForget(p)
         PROVE  \A z \in Procs : Asked(z)'
    <2> SUFFICES ASSUME NEW z \in Procs PROVE Asked(z)'
      OBVIOUS
    <2>1. p \in Procs /\ status[p] = "RUNNING"
      BY <1>11, ProcSets DEF DidForget, BaseInv, ProcInv, OneRunning
    <2>2. /\ obj' = obj /\ tgt' = tgt /\ status'[z] = status[z]
          /\ pc'[z] = IF z = p THEN "loop" ELSE pc[z]
      BY <1>1, <1>11, <2>1 DEF DidForget, ipcVars
    <2>3. obj[p]["loop"].type # "REQ"
      BY <1>11 DEF DidForget
    <2> QED BY <1>1, <2>1, <2>2, <2>3 DEF Asked
  <1>12. CASE Ticked
    BY <1>1, <1>12, AskedKept DEF Ticked, ipcVars
  <1>13. ASSUME NEW d \in DiskServers, DidDiskIrq(d)
         PROVE  \A z \in Procs : Asked(z)'
    <2> SUFFICES ASSUME NEW z \in Procs PROVE Asked(z)'
      OBVIOUS
    <2>1. d \in Procs /\ pc' = pc /\ tgt' = tgt
      BY <1>13, ProcSets DEF DidDiskIrq
    <2>2. CASE IrqQueued(d)
      BY <1>1, <2>1, <2>2, AskedKept DEF IrqQueued, SameStatus
    <2>3. CASE IrqDelivered(d)
      <3>1. /\ status[d] = "WAITING_MSG" /\ status'[d] = "READY"
            /\ \A y \in Procs \ {d} : status'[y] = status[y]
            /\ obj'[d][message[d]].type = "IRQ" /\ OthersSame(d, message[d])
        BY <2>3 DEF IrqDelivered, IsWaiting, Woken
      <3>2. CASE z # d
        BY <1>1, <2>1, <3>1, <3>2, AskedKept DEF SameStatus, OthersSame
      <3>3. CASE z = d
        <4>1. obj'[d]["loop"] = obj[d]["loop"] \/ obj'[d]["loop"].type = "IRQ"
          BY <1>1, <2>1, <3>1 DEF OthersSame
        <4> QED BY <1>1, <2>1, <3>1, <3>3, <4>1 DEF Asked
      <3> QED BY <3>2, <3>3
    <2> QED BY <1>13, <2>2, <2>3 DEF DidDiskIrq
  <1>14. ASSUME NEW d \in NetServers, DidNetIrq(d)
         PROVE  \A z \in Procs : Asked(z)'
    <2> SUFFICES ASSUME NEW z \in Procs PROVE Asked(z)'
      OBVIOUS
    <2>1. d \in Procs /\ pc' = pc /\ tgt' = tgt
      BY <1>14, ProcSets DEF DidNetIrq
    <2>2. CASE ~(status[d] = "WAITING_MSG" /\ Wants(d) = ANY)
      BY <1>1, <1>14, <2>1, <2>2, AskedKept DEF DidNetIrq, NetCounted, SameStatus
    <2>3. CASE status[d] = "WAITING_MSG" /\ Wants(d) = ANY
      <3>1. /\ status'[d] = "READY" /\ \A y \in Procs \ {d} : status'[y] = status[y]
            /\ obj'[d][message[d]].type = "INTR" /\ OthersSame(d, message[d])
        BY <1>14, <2>3 DEF DidNetIrq, NetCounted, Woken
      <3>2. CASE z # d
        BY <1>1, <2>1, <3>1, <3>2, AskedKept DEF SameStatus, OthersSame
      <3>3. CASE z = d
        <4>1. obj'[d]["loop"] = obj[d]["loop"] \/ obj'[d]["loop"].type = "INTR"
          BY <1>1, <2>1, <3>1 DEF OthersSame
        <4> QED BY <1>1, <2>1, <2>3, <3>1, <3>3, <4>1 DEF Asked
      <3> QED BY <3>2, <3>3
    <2> QED BY <2>2, <2>3
  <1> QED BY <1>2, <1>3, <1>4, <1>5, <1>6, <1>7, <1>8, <1>9, <1>10, <1>11, <1>12, <1>13, <1>14 DEF Summary

\* The system starts in order.
LEMMA BaseInit == Init => BaseInv
  <1> SUFFICES ASSUME Init PROVE BaseInv
    OBVIOUS
  <1>1. ProcInv
    BY ProcInvInit DEF Init
  <1>2. NoMsg \in Msg /\ NoMsg.type = "NONE"
    BY DEF NoMsg, Msg, Types
  <1>3. obj = [p \in Procs |-> [o \in {"loop", "call"} |-> NoMsg]]
    BY DEF Init
  <1> HIDE DEF NoMsg
  <1>4. obj \in [Procs -> [{"loop", "call"} -> Msg]] /\ \A p \in Procs : obj[p]["loop"].type = "NONE"
    BY <1>2, <1>3
  <1>5. IpcTypeOK
    BY <1>1, <1>4, IpcAssumption DEF Init, IpcTypeOK, ProcInv
  <1>6. \A p \in Procs : status[p] # "WAITING_MSG" /\ pc[p] \in {"idle", "loop"}
    BY DEF Init, ProcInit
  <1>7. NoneStarts
    BY DEF Init, ProcInit, NoneStarts
  <1> QED BY <1>1, <1>4, <1>5, <1>6, <1>7 DEF BaseInv, Asked

\* No step starts a process.
LEMMA NoneStartsNext == NoneStarts /\ Next => NoneStarts'
  <1> SUFFICES ASSUME NoneStarts, Next PROVE NoneStarts'
    OBVIOUS
  <1>1. ASSUME UNCHANGED procVars PROVE NoneStarts'
    BY <1>1 DEF procVars, NoneStarts
  <1>2. ASSUME NEW stat, NEW lists, Schedule(stat, lists) PROVE NoneStarts'
    BY <1>2 DEF Schedule, Relist, startVars, NoneStarts
  <1>3. ASSUME NEW stat, SelfBlock(stat) PROVE NoneStarts'
    BY <1>2, <1>3 DEF SelfBlock
  <1>4. ASSUME NEW d, UnblockProc(d) PROVE NoneStarts'
    BY <1>4 DEF UnblockProc, Relist, startVars, NoneStarts
  <1>5. ASSUME NEW p, NEW o, NEW m, NEW d, Send(p, o, m, d) PROVE NoneStarts'
    BY <1>3, <1>4, <1>5 DEF Send
  <1>6. ASSUME NEW p, NEW o, NEW want, Receive(p, o, want) PROVE NoneStarts'
    <2>1. ASSUME NEW s, NEW n, Take(p, o, s, n) PROVE NoneStarts'
      BY <1>1, <1>4, <2>1 DEF Take
    <2>2. CASE ReceiveIntr(p, o, want)
      BY <1>1, <2>2 DEF ReceiveIntr
    <2>3. CASE ReceiveHead(p, o, want)
      BY <2>1, <2>3 DEF ReceiveHead
    <2>4. CASE ReceiveBehind(p, o, want)
      BY <2>1, <2>4 DEF ReceiveBehind
    <2>5. CASE ReceiveBlock(p, o, want)
      BY <1>3, <2>5 DEF ReceiveBlock
    <2> QED BY <1>6, <2>2, <2>3, <2>4, <2>5 DEF Receive
  <1>7. ASSUME NEW p \in Procs, Step(p) PROVE NoneStarts'
    <2>1. CASE (\E q \in Calls[p] : Call(p, q) \/ NestedCall(p, q)) \/ (\E q \in Posts[p] : Post(p, q))
      BY <1>5, <2>1 DEF Call, NestedCall, Post
    <2>2. CASE CallReceive(p) \/ ServerReceive(p) \/ NestedReceive(p) \/ DiskReceive(p)
      BY <1>6, <2>2 DEF CallReceive, ServerReceive, NestedReceive, DiskReceive
    <2>3. CASE Reply(p)
      BY <1>5, <2>3 DEF Reply
    <2>4. CASE DiskCommand(p) \/ Forget(p)
      BY <1>1, <2>4 DEF DiskCommand, Forget
    <2> QED BY <1>7, <2>1, <2>2, <2>3, <2>4 DEF Step
  <1>8. CASE Tick
    BY <1>2, <1>8 DEF Tick, TimerHandler
  <1>9. ASSUME NEW d \in DiskServers, DiskIrq(d) PROVE NoneStarts'
    BY <1>1, <1>4, <1>9 DEF DiskIrq, SendInterrupt
  <1>10. ASSUME NEW d \in NetServers, NetIrq(d) PROVE NoneStarts'
    BY <1>1, <1>4, <1>10 DEF NetIrq, SendInterruptNet
  <1> QED BY <1>7, <1>8, <1>9, <1>10 DEF Next

\* Every step keeps it in order.
LEMMA BaseNext == BaseInv /\ [Next]_vars => BaseInv'
  <1> SUFFICES ASSUME BaseInv, [Next]_vars PROVE BaseInv'
    OBVIOUS
  <1>1. CASE Next
    <2>1. ProcInv' /\ IpcVarsOK' /\ Summary
      BY <1>1, StepSummary
    <2>2. \A z \in Procs : Asked(z)'
      BY <2>1, AskedNext
    <2>3. IpcTypeOK'
      BY <1>1, <2>1, ProgramTypes DEF IpcTypeOK, IpcVarsOK, ProcInv, Objs, Labels
    <2>4. NoneStarts'
      BY <1>1, NoneStartsNext DEF BaseInv
    <2> QED BY <2>1, <2>2, <2>3, <2>4 DEF BaseInv
  <1>2. CASE UNCHANGED vars
    <2>1. ProcInv'
      BY <1>2, ProcInvNext DEF vars, procVars, BaseInv
    <2>2. IpcTypeOK'
      BY <1>2, <2>1 DEF vars, ipcVars, envVars, BaseInv, IpcTypeOK, ProcInv
    <2>3. \A z \in Procs : Asked(z)'
      BY <1>2 DEF vars, procVars, ipcVars, BaseInv, Asked
    <2>4. NoneStarts'
      BY <1>2 DEF vars, procVars, BaseInv, NoneStarts
    <2> QED BY <2>1, <2>2, <2>3, <2>4 DEF BaseInv
  <1> QED BY <1>1, <1>2

\* Whoever calls whom, the variables of message passing hold what they are
\* declared for, the processes are managed as ProcInv says, and a server knows
\* whom to reply to.
THEOREM IpcInvariant == Spec => []BaseInv
  <1>1. Init => BaseInv
    BY BaseInit
  <1>2. BaseInv /\ [Next]_vars => BaseInv'
    BY BaseNext
  <1> QED BY <1>1, <1>2, PTL DEF Spec

\* The variables of Message::send and receive keep their types, whoever calls
\* whom: the queues link processes and INTERRUPT_PCB only, every process
\* blocks with one of its two objects, and the interrupt counter is a byte.
THEOREM IpcTypeCorrect == Spec => []IpcTypeOK
  <1>1. BaseInv => IpcTypeOK
    BY DEF BaseInv
  <1> QED BY <1>1, IpcInvariant, PTL

\* send, receive and the interrupt handlers never make a process ready that is
\* on a ready list already and never block init: the ready lists match the
\* statuses under message passing as well.
THEOREM IpcKeepsReadyLists == Spec => []ReadyListsMatchStatus
  <1>1. BaseInv => ReadyListsMatchStatus
    BY DEF BaseInv, ProcInv, ListsMatch, Match, ReadyListsMatchStatus
  <1> QED BY <1>1, IpcInvariant, PTL

-----------------------------------------------------------------------------
(* The invariant of layered servers, step by step. *)

SafeIpc == Layered /\ BaseInv /\ Links(sendings, next_ready) /\ SafeInv

\* All that the invariant says of one process.
Sound(z) ==
  /\ Placed(z) /\ Answered(z) /\ Serving(z) /\ NothingMissed(z)
  /\ z \in DiskServers => DiskOwes(z)
  /\ \A x \in Senders(z) : Queued(x, z)
  /\ status[z] = "SENDING_MSG" => \E d \in Procs : z \in Senders(d)

\* A step leaves z alone; it may get or lose the CPU.
SameView(z) ==
  /\ pc'[z] = pc[z] /\ tgt'[z] = tgt[z] /\ message'[z] = message[z]
  /\ obj'[z]["loop"] = obj[z]["loop"] /\ obj'[z]["call"] = obj[z]["call"]
  /\ intr_cnt'[z] = intr_cnt[z] /\ (z \in DiskServers => irq'[z] = irq[z])
  /\ SameStatus(z)

\* The types the cases below use.
LEMMA IpcTypes ==
  ASSUME BaseInv
  PROVE  /\ status \in [Procs -> Status] /\ pc \in [Procs -> Labels]
         /\ tgt \in [Procs -> Procs \cup {NULL}] /\ message \in [Procs -> Objs]
         /\ obj \in [Procs -> [Objs -> Msg]] /\ intr_cnt \in [Procs -> 0 .. 255]
         /\ irq \in [DiskServers -> BOOLEAN] /\ cur_proc \in Procs
         /\ sendings \in [Procs -> Nodes \cup {NULL}] /\ next_ready \in [Nodes -> Nodes \cup {NULL}]
         /\ status[cur_proc] = "RUNNING"
  BY DEF BaseInv, IpcTypeOK, ProcTypeOK, ProcInv, OneRunning, Labels, Objs

\* The invariant is that every process is sound.
LEMMA SoundAll == SafeInv <=> \A z \in Procs : Sound(z)
  BY ProcSets DEF SafeInv, Sound

\* A process left alone does what it did.
LEMMA ViewKept ==
  ASSUME NEW z \in Procs, message[z] \in Objs, SameView(z)
  PROVE  /\ \A X : Awaits(z, X)' <=> Awaits(z, X)
         /\ AwaitsDisk(z)' <=> AwaitsDisk(z)
         /\ AwaitsAny(z)' <=> AwaitsAny(z)
         /\ \A d : Asking(z, d)' <=> Asking(z, d)
         /\ \A d : Posting(z, d)' <=> Posting(z, d)
         /\ Placed(z) => Placed(z)'
         /\ Answered(z) => Answered(z)'
         /\ Wants(z)' = Wants(z)
         /\ status'[z] = "WAITING_MSG" <=> status[z] = "WAITING_MSG"
         /\ status'[z] = "SENDING_MSG" <=> status[z] = "SENDING_MSG"
  <1>1. /\ pc'[z] = pc[z] /\ tgt'[z] = tgt[z] /\ message'[z] = message[z]
        /\ obj'[z]["loop"] = obj[z]["loop"] /\ obj'[z]["call"] = obj[z]["call"]
        /\ intr_cnt'[z] = intr_cnt[z] /\ (z \in DiskServers => irq'[z] = irq[z])
    BY DEF SameView
  <1>2. /\ status'[z] = "WAITING_MSG" <=> status[z] = "WAITING_MSG"
        /\ status'[z] = "SENDING_MSG" <=> status[z] = "SENDING_MSG"
        /\ status'[z] \in Runnable <=> status[z] \in Runnable
    BY DEF SameView, SameStatus, Runnable
  <1>3. Wants(z)' = Wants(z)
    BY <1>1 DEF Wants, Objs
  <1>4. \A X : Awaits(z, X)' <=> Awaits(z, X)
    BY <1>1, <1>2, <1>3 DEF Awaits
  <1>5. (AwaitsDisk(z)' <=> AwaitsDisk(z)) /\ (AwaitsAny(z)' <=> AwaitsAny(z))
    BY <1>1, <1>2, <1>3 DEF AwaitsDisk, AwaitsAny
  <1>6. (\A d : Asking(z, d)' <=> Asking(z, d)) /\ (\A d : Posting(z, d)' <=> Posting(z, d))
    BY <1>1, <1>2, <1>4 DEF Asking, Posting
  <1>7. Placed(z) => Placed(z)'
    BY <1>1, <1>2, <1>4, <1>5 DEF Placed
  <1>8. Answered(z) => Answered(z)'
    BY <1>1, <1>2 DEF Answered
  <1> QED BY <1>2, <1>3, <1>4, <1>5, <1>6, <1>7, <1>8

\* When every process outside C is left alone and keeps its queue, only the
\* processes of C and what refers to them have to be looked at.
LEMMA FrameLemma ==
  ASSUME BaseInv, SafeInv, NEW C \in SUBSET Procs,
         \A z \in Procs \ C : SameView(z) /\ Senders(z)' = Senders(z),
         \A c \in C : Sound(c)',
         \A z \in Procs \ C : \A c \in C :
           /\ obj[z]["loop"].type = "REQ" /\ obj[z]["loop"].dest = c => Awaits(c, z)'
           /\ c \in Senders(z) => Queued(c, z)',
         \A c \in C : \A z \in Senders(c) : z \in C \/ z \in Senders(c)' \/ z = INTERRUPT,
         \A z \in Procs : Senders(z) \subseteq Nodes
  PROVE  SafeInv'
  <1>1. message \in [Procs -> Objs]
    BY IpcTypes
  <1>2. ASSUME NEW z \in Procs \ C PROVE Sound(z)'
    <2>1. Sound(z) /\ SameView(z) /\ Senders(z)' = Senders(z) /\ message[z] \in Objs
      BY <1>1, SoundAll
    <2>2. Placed(z)' /\ Answered(z)'
      BY <2>1, ViewKept DEF Sound
    <2>3. NothingMissed(z)'
      BY <2>1, ViewKept DEF Sound, NothingMissed, SameView
    <2>4. ASSUME z \in DiskServers PROVE DiskOwes(z)'
      BY <2>1, <2>4, ViewKept DEF Sound, DiskOwes, SameView
    <2>5. Serving(z)'
      <3> SUFFICES ASSUME obj[z]["loop"].type = "REQ" PROVE Serving(z)'
        BY <2>1 DEF Serving, SameView
      <3>0. PICK n : n = obj[z]["loop"].dest
        OBVIOUS
      <3>1. z \in Servers /\ n \in Clients \cup Servers /\ obj[z]["loop"].ctx = n
            /\ Awaits(n, z) /\ n \notin Senders(z)
        BY <2>1, <3>0 DEF Sound, Serving
      <3>2. n \in Procs
        BY <3>1, ProcSets
      <3>3. Awaits(n, z)'
        <4>1. CASE n \in C
          BY <3>0, <4>1
        <4>2. CASE n \notin C
          <5>1. SameView(n) /\ message[n] \in Objs
            BY <1>1, <3>2, <4>2
          <5> QED BY <3>1, <3>2, <5>1, ViewKept
        <4> QED BY <4>1, <4>2
      <3>4. obj'[z]["loop"] = obj[z]["loop"]
        BY <2>1 DEF SameView
      <3> QED BY <2>1, <3>0, <3>1, <3>3, <3>4 DEF Serving
    <2>6. ASSUME NEW x \in Senders(z) PROVE Queued(x, z)'
      <3>1. Queued(x, z) /\ x \in Nodes
        BY <2>1 DEF Sound
      <3>2. CASE x = INTERRUPT
        BY <2>1, <3>1, <3>2 DEF Queued, SameView
      <3>3. CASE x # INTERRUPT /\ x \in C
        BY <3>3
      <3>4. CASE x # INTERRUPT /\ x \notin C
        <4>1. x \in Procs /\ SameView(x) /\ message[x] \in Objs /\ Senders(x)' = Senders(x)
          BY <1>1, <3>1, <3>4 DEF Nodes
        <4>2. x \in Clients \cup Servers /\ (Asking(x, z) \/ Posting(x, z) \/ Replying(x, z))
          BY <3>1, <3>4 DEF Queued
        <4>3. Asking(x, z) \/ Posting(x, z) => Asking(x, z)' \/ Posting(x, z)'
          BY <4>1, ViewKept
        <4>4. Replying(x, z) => Replying(x, z)'
          <5>1. status[x] = "SENDING_MSG" <=> status'[x] = "SENDING_MSG"
            BY <4>1, ViewKept
          <5>2. Awaits(z, x) <=> Awaits(z, x)'
            BY <2>1, ViewKept
          <5> QED BY <4>1, <5>1, <5>2 DEF Replying, SameView
        <4> QED BY <3>4, <4>2, <4>3, <4>4 DEF Queued
      <3> QED BY <3>2, <3>3, <3>4
    <2>7. ASSUME status'[z] = "SENDING_MSG" PROVE \E d \in Procs : z \in Senders(d)'
      <3>1. status[z] = "SENDING_MSG"
        BY <2>1, <2>7, ViewKept
      <3>2. PICK d \in Procs : z \in Senders(d)
        BY <2>1, <3>1 DEF Sound
      <3>3. z # INTERRUPT
        BY NullApart
      <3> QED BY <3>2, <3>3
    <2> QED BY <2>1, <2>2, <2>3, <2>4, <2>5, <2>6, <2>7 DEF Sound
  <1>3. \A z \in Procs : Sound(z)'
    BY <1>2
  <1> QED BY <1>3, ProcSets DEF SafeInv, Sound

\* A process that runs outside a call, or waits for anyone or the disk, is
\* awaited by nobody for a reply and on no queue.
LEMMA Alone ==
  ASSUME BaseInv, SafeInv, NEW c \in Procs,
         \/ status[c] \in Runnable /\ pc[c] \notin {"recv", "nestedRecv"}
         \/ AwaitsAny(c)
         \/ AwaitsDisk(c)
  PROVE  /\ \A X \in Procs : ~Awaits(c, X)
         /\ \A d \in Procs : c \notin Senders(d)
  <1>1. ASSUME NEW X \in Procs PROVE ~Awaits(c, X)
    <2>1. X # ANY /\ X # INTERRUPT
      BY IpcAssumption
    <2> QED BY <2>1 DEF Awaits, AwaitsAny, AwaitsDisk, Runnable
  <1>2. ASSUME NEW d \in Procs, c \in Senders(d) PROVE FALSE
    <2>1. Queued(c, d) /\ c # INTERRUPT
      BY <1>2, NullApart DEF SafeInv
    <2>2. status[c] # "SENDING_MSG"
      BY DEF AwaitsAny, AwaitsDisk, Runnable
    <2> QED BY <1>1, <2>1, <2>2 DEF Queued, Asking, Posting, Replying
  <1> QED BY <1>1, <1>2

\* What the queues look like in a state of the invariant.
LEMMA QueueFacts ==
  ASSUME SafeIpc
  PROVE  /\ \A z \in Procs : Senders(z) \subseteq Nodes
         /\ \A y, z \in Procs : \A x : x \in Senders(y) /\ x \in Senders(z) => y = z
         /\ \A z \in Procs : sendings[z] = NULL <=> Senders(z) = {}
         /\ \A z \in Procs : sendings[z] # NULL => sendings[z] \in Senders(z)
  <1>1. Links(sendings, next_ready)
    BY DEF SafeIpc
  <1> QED BY <1>1, LinksFacts, SendersAre

\* Queues whose links do not change.
LEMMA SendersKept ==
  ASSUME UNCHANGED <<sendings, next_ready>>, NEW z
  PROVE  Senders(z)' = Senders(z)
  <1>1. sendings' = sendings /\ next_ready' = next_ready
    OBVIOUS
  <1> QED BY <1>1, SendersAre

\* A delivered message changes the views of the sender and the receiver only.
LEMMA DeliveredView ==
  ASSUME BaseInv, NEW p \in Procs, NEW o \in Objs, NEW t, NEW c, NEW d \in Procs, NEW label,
         SendStep(p, o, t, c, d, label), Delivered(p, o, [type |-> t, ctx |-> c], d),
         \A z \in Procs \ {p} : tgt'[z] = tgt[z]
  PROVE  /\ p # d /\ \A z \in Procs \ {p, d} : SameView(z)
         /\ status[p] = "RUNNING" /\ status'[p] = "RUNNING" /\ pc'[p] = label
         /\ obj'[p][o] = [type |-> t, ctx |-> c, dest |-> obj[p][o].dest]
         /\ \A j \in Objs \ {o} : obj'[p][j] = obj[p][j]
         /\ status[d] = "WAITING_MSG" /\ status'[d] = "READY"
         /\ (Wants(d) \in {ANY, p} \/ t = "REPLY") /\ pc'[d] = pc[d]
         /\ obj'[d][message[d]] = [type |-> t, ctx |-> c, dest |-> p]
         /\ \A j \in Objs \ {message[d]} : obj'[d][j] = obj[d][j]
         /\ message' = message /\ intr_cnt' = intr_cnt /\ irq' = irq
         /\ UNCHANGED <<sendings, next_ready>>
         /\ \A z \in Procs : Senders(z)' = Senders(z)
  <1> DEFINE m == [type |-> t, ctx |-> c]
  <1>1. m.type = t /\ m.ctx = c
    OBVIOUS
  <1> HIDE DEF m
  <1>2. Delivered(p, o, m, d)
    BY DEF m
  <1>3. /\ p # d
        /\ obj'[p][o] = [type |-> t, ctx |-> c, dest |-> obj[p][o].dest]
        /\ status[d] = "WAITING_MSG" /\ status'[d] = "READY"
        /\ (Wants(d) \in {ANY, p} \/ t = "REPLY")
        /\ obj'[d][message[d]] = [type |-> t, ctx |-> c, dest |-> p]
        /\ \A z \in Procs : \A j \in Objs :
             (z # p \/ j # o) /\ (z # d \/ j # message[d]) => obj'[z][j] = obj[z][j]
        /\ \A z \in Procs \ {d} : status'[z] = status[z]
        /\ message' = message /\ intr_cnt' = intr_cnt
        /\ UNCHANGED <<sendings, next_ready>>
    BY <1>1, <1>2 DEF Delivered, IsWaiting, Woken, Wants
  <1>4. p = cur_proc /\ pc' = [pc EXCEPT ![p] = label] /\ irq' = irq
    BY DEF SendStep
  <1>5. status[p] = "RUNNING" /\ pc \in [Procs -> Labels]
    BY <1>4, IpcTypes
  <1>6. \A z \in Procs \ {p, d} : SameView(z)
    <2> SUFFICES ASSUME NEW z \in Procs \ {p, d} PROVE SameView(z)
      OBVIOUS
    <2>1. "loop" \in Objs /\ "call" \in Objs
      BY DEF Objs
    <2> QED BY <1>3, <1>4, <1>5, <2>1 DEF SameView, SameStatus
  <1>7. \A z \in Procs : Senders(z)' = Senders(z)
    BY <1>3, SendersKept
  <1> QED BY <1>3, <1>4, <1>5, <1>6, <1>7

\* A send that blocks changes the view of the sender, which is now at the head
\* of the receiver's queue.
LEMMA EnqueuedView ==
  ASSUME SafeIpc, NEW p \in Procs, NEW o \in Objs, NEW t, NEW c, NEW d \in Procs, NEW label,
         SendStep(p, o, t, c, d, label), Enqueued(p, o, [type |-> t, ctx |-> c], d),
         \A z \in Procs \ {p} : tgt'[z] = tgt[z],
         pc[p] \notin {"recv", "nestedRecv"}
  PROVE  /\ \A z \in Procs \ {p} : SameView(z)
         /\ status[p] = "RUNNING" /\ status'[p] = "SENDING_MSG" /\ pc'[p] = label
         /\ obj'[p][o] = [type |-> t, ctx |-> c, dest |-> obj[p][o].dest]
         /\ \A j \in Objs \ {o} : obj'[p][j] = obj[p][j]
         /\ message'[p] = o /\ intr_cnt' = intr_cnt /\ irq' = irq
         /\ status[d] = "WAITING_MSG" => Wants(d) \notin {ANY, p} /\ t # "REPLY"
         /\ Senders(d)' = Senders(d) \cup {p}
         /\ \A z \in Procs \ {d} : Senders(z)' = Senders(z)
         /\ Links(sendings, next_ready)'
  <1> DEFINE m == [type |-> t, ctx |-> c]
  <1>1. m.type = t /\ m.ctx = c
    OBVIOUS
  <1> HIDE DEF m
  <1>2. Enqueued(p, o, m, d) /\ BaseInv
    BY DEF m, SafeIpc
  <1>3. p = cur_proc /\ pc' = [pc EXCEPT ![p] = label] /\ irq' = irq
    BY DEF SendStep
  <1>4. /\ status[p] = "RUNNING" /\ pc \in [Procs -> Labels] /\ message \in [Procs -> Objs]
        /\ sendings \in [Procs -> Nodes \cup {NULL}] /\ next_ready \in [Nodes -> Nodes \cup {NULL}]
    BY <1>2, <1>3, IpcTypes
  <1>5. /\ status'[p] = "SENDING_MSG" /\ \A z \in Procs \ {p} : SameStatus(z)
        /\ obj'[p][o] = [type |-> t, ctx |-> c, dest |-> obj[p][o].dest]
        /\ \A z \in Procs : \A j \in Objs : z # p \/ j # o => obj'[z][j] = obj[z][j]
        /\ status[d] = "WAITING_MSG" => Wants(d) \notin {ANY, p} /\ t # "REPLY"
        /\ message' = [message EXCEPT ![p] = o] /\ intr_cnt' = intr_cnt
        /\ next_ready' = [next_ready EXCEPT ![p] = sendings[d]]
        /\ sendings' = [sendings EXCEPT ![d] = p]
    BY <1>1, <1>2, <1>3 DEF Enqueued, GaveUp, OthersSame, IsWaiting, Wants
  <1>6. \A z \in Procs \ {p} : SameView(z)
    <2> SUFFICES ASSUME NEW z \in Procs \ {p} PROVE SameView(z)
      OBVIOUS
    <2>1. "loop" \in Objs /\ "call" \in Objs
      BY DEF Objs
    <2> QED BY <1>3, <1>4, <1>5, <2>1 DEF SameView
  <1>7. OnNoQueue(sendings, next_ready, p)
    <2>1. status[p] \in Runnable /\ SafeInv
      BY <1>4 DEF Runnable, SafeIpc
    <2>2. \A z \in Procs : p \notin Senders(z)
      BY <1>2, <2>1, Alone
    <2> QED BY <2>2, SendersAre DEF OnNoQueue
  <1>8. Links(sendings, next_ready) /\ p \in Nodes
    BY DEF SafeIpc, Nodes
  <1>9. QueueBecomes(sendings, next_ready, sendings', next_ready', d,
                     Members(sendings, next_ready, d) \cup {p})
    <2>1. Push(sendings, next_ready, d, p, sendings', next_ready')
      BY <1>5 DEF Push
    <2> QED BY <1>4, <1>7, <1>8, <2>1, PushLinks
  <1>10. Links(sendings, next_ready)'
    BY <1>9 DEF QueueBecomes, Links, Chains, Chain
  <1>11. Senders(d)' = Senders(d) \cup {p} /\ \A z \in Procs \ {d} : Senders(z)' = Senders(z)
    BY <1>9, SendersAre DEF QueueBecomes
  <1> QED BY <1>3, <1>4, <1>5, <1>6, <1>10, <1>11

\* A node that is left alone is on a queue for the reason it was.
LEMMA QueuedKept ==
  ASSUME BaseInv, NEW x \in Procs, NEW z \in Procs, Queued(x, z), SameView(x),
         \A X : Awaits(z, X) => Awaits(z, X)', z \in Senders(x)' => z \in Senders(x)
  PROVE  Queued(x, z)'
  <1>1. x # INTERRUPT /\ message[x] \in Objs
    BY NullApart, IpcTypes
  <1>2. x \in Clients \cup Servers /\ (Asking(x, z) \/ Posting(x, z) \/ Replying(x, z))
    BY <1>1 DEF Queued
  <1>3. Asking(x, z) \/ Posting(x, z) => Asking(x, z)' \/ Posting(x, z)'
    BY <1>1, ViewKept
  <1>4. Replying(x, z) => Replying(x, z)'
    <2>1. status[x] = "SENDING_MSG" <=> status'[x] = "SENDING_MSG"
      BY <1>1, ViewKept
    <2> QED BY <2>1 DEF Replying, SameView
  <1> QED BY <1>1, <1>2, <1>3, <1>4 DEF Queued

\* A request is served on while its sender waits and sends nothing else.
LEMMA ServingKept ==
  ASSUME BaseInv, NEW z \in Procs, Serving(z), obj'[z]["loop"] = obj[z]["loop"],
         \A n \in Procs : Awaits(n, z) => Awaits(n, z)' /\ (n \in Senders(z)' => n \in Senders(z))
  PROVE  Serving(z)'
  <1> SUFFICES ASSUME obj[z]["loop"].type = "REQ" PROVE Serving(z)'
    BY DEF Serving
  <1>1. PICK n : n = obj[z]["loop"].dest
    OBVIOUS
  <1>2. /\ z \in Servers /\ n \in Clients \cup Servers /\ obj[z]["loop"].ctx = n
        /\ Awaits(n, z) /\ n \notin Senders(z)
    BY <1>1 DEF Serving
  <1>3. n \in Procs
    BY <1>2, ProcSets
  <1>4. Awaits(n, z)' /\ n \notin Senders(z)'
    BY <1>2, <1>3
  <1> QED BY <1>1, <1>2, <1>4 DEF Serving

\* A process that runs outside a call.
LEMMA RunningFacts ==
  ASSUME SafeIpc, NEW p \in Procs, p = cur_proc, pc[p] \in {"idle", "loop", "handle", "finish"}
  PROVE  /\ status[p] = "RUNNING"
         /\ \A X \in Procs : ~Awaits(p, X)
         /\ \A d \in Procs : p \notin Senders(d)
         /\ p \in DiskServers => ~irq[p]
         /\ INTERRUPT \notin Senders(p)
         /\ \A z \in Procs : Sound(z)
  <1>1. BaseInv /\ SafeInv
    BY DEF SafeIpc
  <1>2. status[p] = "RUNNING" /\ status[p] \in Runnable
    BY <1>1, IpcTypes DEF Runnable
  <1>3. (\A X \in Procs : ~Awaits(p, X)) /\ (\A d \in Procs : p \notin Senders(d))
    BY <1>1, <1>2, Alone
  <1>4. \A z \in Procs : Sound(z)
    BY <1>1, SoundAll
  <1>5. p \in DiskServers => ~irq[p]
    BY <1>2, <1>4 DEF Sound, DiskOwes, AwaitsDisk
  <1>6. INTERRUPT \notin Senders(p)
    BY <1>4 DEF Sound, Queued
  <1> QED BY <1>2, <1>3, <1>4, <1>5, <1>6

\* A process that sends a request or a post.
Sends(p, q, t, label) ==
  /\ p \in Clients \cup Servers /\ pc[p] \in {"idle", "handle"}
  /\ \/ /\ t = "REQ" /\ q \in Calls[p] /\ tgt' = [tgt EXCEPT ![p] = q]
        /\ label \in {"recv", "nestedRecv"}
        /\ label = "recv" <=> p \in Clients
        /\ p \in Servers => obj[p]["loop"].type \in {"REQ", "INTR"}
     \/ /\ t = "POST" /\ p \in Clients /\ q \in Posts[p] /\ tgt' = tgt
        /\ label = "idle"
  /\ SendStep(p, "call", t, p, q, label)

\* What is known of it and of the server it sends to.
LEMMA SendsFacts ==
  ASSUME SafeIpc, NEW p, NEW q, NEW t, NEW label, Sends(p, q, t, label)
  PROVE  /\ p \in Procs /\ q \in Servers /\ q \in Procs /\ p # q
         /\ \A z \in Procs \ {p} : tgt'[z] = tgt[z]
         /\ t = "REQ" => tgt'[p] = q
         /\ p = cur_proc /\ status[p] = "RUNNING" /\ pc[p] \notin {"recv", "nestedRecv"}
         /\ \A X \in Procs : ~Awaits(p, X)
         /\ \A d \in Procs : p \notin Senders(d)
         /\ p \in DiskServers => ~irq[p]
         /\ INTERRUPT \notin Senders(p)
         /\ \A z \in Procs : Sound(z)
         /\ ~Awaits(q, p)
  <1>1. BaseInv /\ SafeInv /\ Layered
    BY DEF SafeIpc
  <1>2. p \in Procs /\ q \in Servers /\ q \in Procs
    BY ProcSets DEF Sends
  <1>3. p # q
    <2>1. p \in Servers => t = "REQ"
      BY ProcSets DEF Sends
    <2> QED BY <1>1, <1>2, <2>1, ProcSets DEF Sends, Layered
  <1>4. p = cur_proc /\ pc[p] \in {"idle", "handle"}
    BY DEF Sends, SendStep
  <1>5. (\A z \in Procs \ {p} : tgt'[z] = tgt[z]) /\ (t = "REQ" => tgt'[p] = q)
    BY <1>1, <1>2, IpcTypes DEF Sends
  <1>6. ~Awaits(q, p)
    <2> SUFFICES ASSUME Awaits(q, p) PROVE FALSE
      OBVIOUS
    <2>1. p \in Calls[q] /\ p \in Servers
      BY <1>2, ProcSets DEF Awaits
    <2>2. q \in Calls[p]
      BY <2>1, ProcSets DEF Sends
    <2> QED BY <1>1, <1>2, <2>1, <2>2 DEF Layered
  <1> QED BY <1>2, <1>3, <1>4, <1>5, <1>6, RunningFacts

\* A send that blocks keeps the invariant, if the sender has a place there and
\* on the queue.
LEMMA EnqueuedSafe ==
  ASSUME SafeIpc, NEW p \in Procs, NEW o \in Objs, NEW t, NEW c, NEW q \in Procs, NEW label,
         p # q, pc[p] \in {"idle", "loop", "handle", "finish"},
         SendStep(p, o, t, c, q, label), Enqueued(p, o, [type |-> t, ctx |-> c], q),
         \A z \in Procs \ {p} : tgt'[z] = tgt[z],
         label # "diskWait", Placed(p)', Queued(p, q)',
         obj'[p]["loop"] = obj[p]["loop"] \/ obj'[p]["loop"].type # "REQ"
  PROVE  SafeInv' /\ Links(sendings, next_ready)'
  <1>1. BaseInv /\ SafeInv /\ "call" \in Objs /\ "loop" \in Objs /\ p = cur_proc
    BY DEF SafeIpc, Objs, SendStep
  <1>3. /\ \A X \in Procs : ~Awaits(p, X)
        /\ \A d \in Procs : p \notin Senders(d)
        /\ p \in DiskServers => ~irq[p]
        /\ INTERRUPT \notin Senders(p)
        /\ \A z \in Procs : Sound(z)
    BY <1>1, RunningFacts
  <1>4. /\ \A z \in Procs \ {p} : SameView(z)
        /\ status'[p] = "SENDING_MSG" /\ pc'[p] = label /\ irq' = irq
        /\ status[q] = "WAITING_MSG" => Wants(q) \notin {ANY, p}
        /\ Senders(q)' = Senders(q) \cup {p}
        /\ \A z \in Procs \ {q} : Senders(z)' = Senders(z)
        /\ Links(sendings, next_ready)'
    <2>1. pc[p] \notin {"recv", "nestedRecv"}
      OBVIOUS
    <2>2. /\ \A z \in Procs \ {p} : SameView(z)
          /\ status[p] = "RUNNING" /\ status'[p] = "SENDING_MSG" /\ pc'[p] = label
          /\ obj'[p][o] = [type |-> t, ctx |-> c, dest |-> obj[p][o].dest]
          /\ \A j \in Objs \ {o} : obj'[p][j] = obj[p][j]
          /\ message'[p] = o /\ intr_cnt' = intr_cnt /\ irq' = irq
          /\ status[q] = "WAITING_MSG" => Wants(q) \notin {ANY, p} /\ t # "REPLY"
          /\ Senders(q)' = Senders(q) \cup {p}
          /\ \A z \in Procs \ {q} : Senders(z)' = Senders(z)
          /\ Links(sendings, next_ready)'
      BY <2>1, EnqueuedView, Zenon
    <2> QED BY <2>2
  <1>5. \A z \in Procs : Senders(z) \subseteq Nodes
    BY QueueFacts
  <1>6. ASSUME NEW z \in Procs \ {p}
        PROVE  /\ \A X : Awaits(z, X)' <=> Awaits(z, X)
               /\ message[z] \in Objs /\ SameView(z) /\ Sound(z)
    BY <1>1, <1>3, <1>4, IpcTypes, ViewKept
  <1>7. ASSUME NEW x \in Procs \ {p}, NEW z \in Procs \ {p}, Queued(x, z)
        PROVE  Queued(x, z)'
    <2>1. z \in Senders(x)' => z \in Senders(x)
      BY <1>4
    <2> QED BY <1>1, <1>6, <1>7, <2>1, QueuedKept
  <1>8. ASSUME NEW z \in Procs
        PROVE  Serving(z)'
    <2>1. CASE obj'[z]["loop"] = obj[z]["loop"]
      <3>1. ASSUME NEW n \in Procs, Awaits(n, z)
            PROVE  Awaits(n, z)' /\ (n \in Senders(z)' => n \in Senders(z))
        <4>1. n # p
          BY <1>3, <3>1
        <4> QED BY <1>4, <1>6, <3>1, <4>1
      <3> QED BY <1>1, <1>3, <2>1, <3>1, ServingKept DEF Sound
    <2>2. CASE obj'[z]["loop"].type # "REQ"
      BY <2>2 DEF Serving
    <2>3. z # p => obj'[z]["loop"] = obj[z]["loop"]
      BY <1>4 DEF SameView
    <2> QED BY <2>1, <2>2, <2>3
  <1>9. Sound(p)'
    <2>1. Answered(p)' /\ NothingMissed(p)'
      BY <1>4 DEF Answered, NothingMissed, Runnable
    <2>2. p \in DiskServers => DiskOwes(p)'
      BY <1>3, <1>4 DEF DiskOwes
    <2>3. ASSUME NEW x \in Senders(p)' PROVE Queued(x, p)'
      <3>1. x \in Senders(p) /\ x # INTERRUPT /\ x # p /\ x \in Procs /\ Queued(x, p)
        BY <1>3, <1>4, <1>5, <2>3 DEF Sound, Nodes
      <3>2. Asking(x, p) \/ Posting(x, p)
        BY <1>3, <3>1 DEF Queued, Replying
      <3>3. Asking(x, p)' \/ Posting(x, p)'
        BY <1>6, <3>1, <3>2, ViewKept
      <3> QED BY <3>1, <3>3 DEF Queued
    <2>4. \E d \in Procs : p \in Senders(d)'
      BY <1>4
    <2> QED BY <1>8, <2>1, <2>2, <2>3, <2>4 DEF Sound
  <1>10. Sound(q)'
    <2>1. Placed(q)' /\ Answered(q)' /\ SameView(q) /\ Sound(q)
      BY <1>6, ViewKept DEF Sound
    <2>2. NothingMissed(q)'
      BY <1>4, <1>6, <2>1, ViewKept DEF NothingMissed, Sound
    <2>3. q \in DiskServers => DiskOwes(q)'
      <3>1. AwaitsDisk(q)' <=> AwaitsDisk(q)
        BY <1>6, ViewKept
      <3> QED BY <1>4, <2>1, <3>1 DEF DiskOwes, Sound, SameView
    <2>4. ASSUME NEW x \in Senders(q)' PROVE Queued(x, q)'
      <3>1. CASE x = p
        BY <3>1
      <3>2. CASE x # p /\ x = INTERRUPT
        <4>1. Queued(x, q)
          BY <1>4, <2>1, <2>4, <3>2 DEF Sound
        <4> QED BY <2>1, <3>2, <4>1 DEF Queued, SameView
      <3>3. CASE x # p /\ x # INTERRUPT
        <4>1. x \in Senders(q) /\ x \in Procs /\ Queued(x, q)
          BY <1>4, <1>5, <2>1, <2>4, <3>3 DEF Sound, Nodes
        <4> QED BY <1>7, <3>3, <4>1
      <3> QED BY <3>1, <3>2, <3>3
    <2>5. status'[q] = "SENDING_MSG" => \E d \in Procs : q \in Senders(d)'
      <3>1. status'[q] = "SENDING_MSG" <=> status[q] = "SENDING_MSG"
        BY <1>6, ViewKept
      <3> QED BY <1>4, <2>1, <3>1 DEF Sound
    <2> QED BY <1>8, <2>1, <2>2, <2>3, <2>4, <2>5 DEF Sound
  <1>11. SafeInv'
    <2> DEFINE C == {p, q}
    <2>1. \A z \in Procs \ C : SameView(z) /\ Senders(z)' = Senders(z)
      BY <1>4
    <2>2. \A r \in C : Sound(r)'
      BY <1>9, <1>10
    <2>3. ASSUME NEW z \in Procs \ C, NEW r \in C
          PROVE  /\ obj[z]["loop"].type = "REQ" /\ obj[z]["loop"].dest = r => Awaits(r, z)'
                 /\ r \in Senders(z) => Queued(r, z)'
      <3>1. obj[z]["loop"].type = "REQ" /\ obj[z]["loop"].dest = r => Awaits(r, z)
        BY <1>3 DEF Sound, Serving
      <3>2. CASE r = p
        BY <1>3, <3>1, <3>2
      <3>3. CASE r = q
        <4>1. r \in Senders(z) => Queued(r, z)
          BY <1>3 DEF Sound
        <4> QED BY <1>6, <1>7, <3>1, <3>3, <4>1
      <3> QED BY <3>2, <3>3
    <2>4. \A r \in C : \A z \in Senders(r) : z \in Senders(r)'
      BY <1>4
    <2>5. C \in SUBSET Procs
      OBVIOUS
    <2> HIDE DEF C
    <2> QED BY <1>1, <1>5, <2>1, <2>2, <2>3, <2>4, <2>5, FrameLemma
  <1> QED BY <1>4, <1>11

\* A request or post that blocks.
LEMMA SendsEnqueued ==
  ASSUME SafeIpc, NEW p, NEW q, NEW t, NEW label, Sends(p, q, t, label),
         Enqueued(p, "call", [type |-> t, ctx |-> p], q)
  PROVE  SafeInv' /\ Links(sendings, next_ready)'
  <1>1. "call" \in Objs /\ "loop" \in Objs /\ "loop" # "call"
    BY DEF Objs
  <1>2. /\ p \in Procs /\ q \in Servers /\ q \in Procs /\ p # q
        /\ \A z \in Procs \ {p} : tgt'[z] = tgt[z]
        /\ t = "REQ" => tgt'[p] = q
        /\ pc[p] \in {"idle", "handle"} /\ SendStep(p, "call", t, p, q, label)
        /\ Sound(p) /\ label # "diskWait"
    BY SendsFacts DEF Sends
  <1>3. /\ status'[p] = "SENDING_MSG" /\ pc'[p] = label
        /\ obj'[p]["call"] = [type |-> t, ctx |-> p, dest |-> obj[p]["call"].dest]
        /\ obj'[p]["loop"] = obj[p]["loop"]
        /\ message'[p] = "call" /\ intr_cnt' = intr_cnt
    BY <1>1, <1>2, EnqueuedView
  <1>4. Placed(p)'
    BY <1>2, <1>3, ProcSets DEF Sound, Placed, Sends, Runnable
  <1>5. Queued(p, q)'
    <2>1. Asking(p, q)' \/ Posting(p, q)'
      BY <1>2, <1>3 DEF Asking, Posting, Sends
    <2>2. p # INTERRUPT /\ p \in Clients \cup Servers
      BY <1>2, NullApart DEF Sends
    <2> QED BY <2>1, <2>2 DEF Queued
  <1> QED BY <1>1, <1>2, <1>3, <1>4, <1>5, EnqueuedSafe

\* Links that do not change are links.
LEMMA LinksKept ==
  ASSUME SafeIpc, UNCHANGED <<sendings, next_ready>>
  PROVE  Links(sendings, next_ready)'
  BY DEF SafeIpc, Links, Chains, Chain

\* Nobody waits for the sender of a request, so a server that takes it at once
\* waits for anyone.
LEMMA TakesAny ==
  ASSUME SafeIpc, NEW p, NEW q, NEW t, NEW label, Sends(p, q, t, label),
         status[q] = "WAITING_MSG", Wants(q) \in {ANY, p}
  PROVE  AwaitsAny(q)
  <1>1. p \in Procs /\ q \in Procs /\ ~Awaits(q, p) /\ Sound(q)
    BY SendsFacts
  <1>2. AwaitsAny(q) \/ AwaitsDisk(q) \/ \E X \in Servers : Awaits(q, X)
    BY <1>1 DEF Sound, Placed
  <1>3. ~AwaitsDisk(q)
    BY <1>1, IpcAssumption DEF AwaitsDisk
  <1>4. ASSUME NEW X \in Servers, Awaits(q, X) PROVE FALSE
    <2>1. Wants(q) = X /\ X # ANY
      BY <1>4, IpcAssumption DEF Awaits, Runnable
    <2> QED BY <1>1, <1>4, <2>1
  <1> QED BY <1>2, <1>3, <1>4

\* A request or post that the server takes at once.
LEMMA SendsDelivered ==
  ASSUME SafeIpc, NEW p, NEW q, NEW t, NEW label, Sends(p, q, t, label),
         Delivered(p, "call", [type |-> t, ctx |-> p], q)
  PROVE  SafeInv' /\ Links(sendings, next_ready)'
  <1>1. BaseInv /\ SafeInv /\ "call" \in Objs /\ "loop" \in Objs /\ "loop" # "call"
    BY DEF SafeIpc, Objs
  <1>2. /\ p \in Procs /\ q \in Servers /\ q \in Procs /\ p # q
        /\ \A z \in Procs \ {p} : tgt'[z] = tgt[z]
        /\ t = "REQ" => tgt'[p] = q
        /\ pc[p] \notin {"recv", "nestedRecv"} /\ SendStep(p, "call", t, p, q, label)
        /\ t \in {"REQ", "POST"} /\ p \in Clients \cup Servers
    BY SendsFacts DEF Sends
  <1>3. /\ \A X \in Procs : ~Awaits(p, X)
        /\ \A d \in Procs : p \notin Senders(d)
        /\ p \in DiskServers => ~irq[p]
        /\ INTERRUPT \notin Senders(p)
        /\ \A z \in Procs : Sound(z)
    BY SendsFacts
  <1>4. /\ \A z \in Procs \ {p, q} : SameView(z)
        /\ status'[p] = "RUNNING" /\ pc'[p] = label
        /\ obj'[p]["call"] = [type |-> t, ctx |-> p, dest |-> obj[p]["call"].dest]
        /\ obj'[p]["loop"] = obj[p]["loop"]
        /\ status[q] = "WAITING_MSG" /\ status'[q] = "READY"
        /\ Wants(q) \in {ANY, p} /\ pc'[q] = pc[q]
        /\ obj'[q][message[q]] = [type |-> t, ctx |-> p, dest |-> p]
        /\ \A j \in Objs \ {message[q]} : obj'[q][j] = obj[q][j]
        /\ message' = message /\ intr_cnt' = intr_cnt /\ irq' = irq
        /\ UNCHANGED <<sendings, next_ready>>
        /\ \A z \in Procs : Senders(z)' = Senders(z)
    BY <1>1, <1>2, DeliveredView
  <1>5. AwaitsAny(q)
    BY <1>4, TakesAny
  <1>6. /\ \A X \in Procs : ~Awaits(q, X)
        /\ \A d \in Procs : q \notin Senders(d)
    BY <1>1, <1>2, <1>5, Alone
  <1>7. pc[q] = "handle" /\ message[q] = "loop" /\ Senders(q) = {} /\ intr_cnt[q] = 0
    BY <1>2, <1>3, <1>4, <1>5 DEF AwaitsAny, Sound, NothingMissed
  <1>8. \A z \in Procs : Senders(z) \subseteq Nodes
    BY QueueFacts
  <1>9. t = "REQ" => Awaits(p, q)'
    BY <1>2, <1>4 DEF Awaits, Sends, Runnable
  <1>10. Sound(p)'
    <2>1. Placed(p)'
      <3>1. Placed(p)
        BY <1>2, <1>3 DEF Sound
      <3> QED BY <1>2, <1>4, <3>1, ProcSets DEF Placed, Sends, Runnable
    <2>2. Answered(p)' /\ NothingMissed(p)'
      BY <1>4, ProcSets DEF Answered, NothingMissed, Sends
    <2>3. p \in DiskServers => DiskOwes(p)'
      BY <1>3, <1>4 DEF DiskOwes, Sends
    <2>4. ASSUME NEW x \in Senders(p)' PROVE Queued(x, p)'
      <3>1. x \in Senders(p) /\ x # INTERRUPT /\ x # p /\ x # q /\ x \in Procs /\ Queued(x, p)
        BY <1>2, <1>3, <1>4, <1>6, <1>8, <2>4 DEF Sound, Nodes
      <3>2. SameView(x) /\ message[x] \in Objs
        BY <1>1, <1>4, <3>1, IpcTypes
      <3>3. Asking(x, p) \/ Posting(x, p)
        BY <1>3, <3>1 DEF Queued, Replying
      <3>4. Asking(x, p)' \/ Posting(x, p)'
        BY <3>1, <3>2, <3>3, ViewKept
      <3> QED BY <3>1, <3>4 DEF Queued
    <2>5. Serving(p)'
      <3>1. ASSUME NEW n \in Procs, Awaits(n, p) PROVE Awaits(n, p)'
        <4>1. n # p /\ n # q
          BY <1>2, <1>3, <1>6, <3>1
        <4>2. SameView(n) /\ message[n] \in Objs
          BY <1>1, <1>4, <4>1, IpcTypes
        <4> QED BY <3>1, <4>2, ViewKept
      <3> QED BY <1>1, <1>2, <1>3, <1>4, <3>1, ServingKept DEF Sound
    <2> QED BY <1>4, <2>1, <2>2, <2>3, <2>4, <2>5 DEF Sound
  <1>11. Sound(q)'
    <2>1. obj'[q]["loop"] = [type |-> t, ctx |-> p, dest |-> p] /\ obj'[q]["call"] = obj[q]["call"]
      BY <1>1, <1>4, <1>7
    <2>2. Placed(q)'
      <3>1. Placed(q)
        BY <1>2, <1>3 DEF Sound
      <3> QED BY <1>2, <1>4, <1>7, <2>1, <3>1 DEF Placed
    <2>3. Answered(q)' /\ NothingMissed(q)'
      BY <1>4, <1>7 DEF Answered, NothingMissed
    <2>4. q \in DiskServers => DiskOwes(q)'
      BY <1>2, <1>3, <1>4, <1>5, <1>7, IpcAssumption DEF DiskOwes, Sound, AwaitsDisk
    <2>5. Serving(q)'
      BY <1>2, <1>4, <1>7, <1>9, <2>1 DEF Serving
    <2> QED BY <1>2, <1>4, <1>7, <2>2, <2>3, <2>4, <2>5 DEF Sound
  <1>12. SafeInv'
    <2> DEFINE C == {p, q}
    <2>1. \A z \in Procs \ C : SameView(z) /\ Senders(z)' = Senders(z)
      BY <1>4
    <2>2. \A c \in C : Sound(c)'
      BY <1>10, <1>11
    <2>3. ASSUME NEW z \in Procs \ C, NEW c \in C
          PROVE  /\ obj[z]["loop"].type = "REQ" /\ obj[z]["loop"].dest = c => Awaits(c, z)'
                 /\ c \in Senders(z) => Queued(c, z)'
      <3>1. obj[z]["loop"].type = "REQ" /\ obj[z]["loop"].dest = c => Awaits(c, z)
        BY <1>3 DEF Sound, Serving
      <3> QED BY <1>3, <1>6, <3>1
    <2>4. \A c \in C : \A z \in Senders(c) : z \in Senders(c)'
      BY <1>2, <1>4
    <2>5. C \in SUBSET Procs
      BY <1>2
    <2> HIDE DEF C
    <2> QED BY <1>1, <1>8, <2>1, <2>2, <2>3, <2>4, <2>5, FrameLemma
  <1> QED BY <1>4, <1>12, LinksKept

\* What is known of a server that replies and of the process n it replies to.
LEMMA ReplyFacts ==
  ASSUME SafeIpc, NEW p \in Servers, NEW n, n = obj[p]["loop"].dest, DidReply(p)
  PROVE  /\ p \in Procs /\ n \in Procs /\ p # n /\ n \in Clients \cup Servers
         /\ SendStep(p, "loop", "REPLY", n, n, "loop") /\ tgt' = tgt
         /\ p = cur_proc /\ pc[p] \in {"handle", "finish"}
         /\ Awaits(n, p) /\ n \notin Senders(p)
         /\ \A z \in Procs : Sound(z)
  <1>1. p \in Procs /\ p = cur_proc /\ pc[p] \in {"handle", "finish"} /\ tgt' = tgt
        /\ obj[p]["loop"].type = "REQ"
    BY ProcSets DEF DidReply, SendStep
  <1>2. \A z \in Procs : Sound(z)
    BY SoundAll DEF SafeIpc
  <1>3. n \in Clients \cup Servers /\ obj[p]["loop"].ctx = n /\ Awaits(n, p) /\ n \notin Senders(p)
    BY <1>1, <1>2 DEF Sound, Serving
  <1>4. n \in Procs /\ n # p
    BY <1>1, <1>3, RunningFacts, ProcSets
  <1>5. SendStep(p, "loop", "REPLY", n, n, "loop")
    BY <1>3 DEF DidReply
  <1> QED BY <1>1, <1>2, <1>3, <1>4, <1>5

\* A reply to a process that does not wait yet.
LEMMA ReplyEnqueued ==
  ASSUME SafeIpc, NEW p \in Servers, NEW n, n = obj[p]["loop"].dest, DidReply(p),
         Enqueued(p, "loop", [type |-> "REPLY", ctx |-> n], n)
  PROVE  SafeInv' /\ Links(sendings, next_ready)'
  <1>1. "call" \in Objs /\ "loop" \in Objs /\ "loop" # "call" /\ BaseInv
    BY DEF Objs, SafeIpc
  <1>2. /\ p \in Procs /\ n \in Procs /\ p # n
        /\ SendStep(p, "loop", "REPLY", n, n, "loop") /\ tgt' = tgt
        /\ pc[p] \in {"handle", "finish"}
        /\ Awaits(n, p) /\ n \notin Senders(p) /\ Sound(p)
    BY ReplyFacts
  <1>3. /\ \A z \in Procs \ {p} : SameView(z)
        /\ status'[p] = "SENDING_MSG" /\ pc'[p] = "loop"
        /\ obj'[p]["loop"] = [type |-> "REPLY", ctx |-> n, dest |-> obj[p]["loop"].dest]
        /\ message'[p] = "loop" /\ intr_cnt' = intr_cnt
        /\ \A z \in Procs \ {n} : Senders(z)' = Senders(z)
    BY <1>1, <1>2, EnqueuedView
  <1>4. Placed(p)'
    BY <1>2, <1>3, ProcSets DEF Sound, Placed, Runnable
  <1>5. Queued(p, n)'
    <2>1. Awaits(n, p)'
      BY <1>1, <1>2, <1>3, IpcTypes, ViewKept
    <2>2. Replying(p, n)'
      BY <1>2, <1>3, <2>1 DEF Replying
    <2> QED BY <1>2, <2>2, NullApart DEF Queued
  <1> QED BY <1>1, <1>2, <1>3, <1>4, <1>5, EnqueuedSafe

\* A reply to a process that waits for it.
LEMMA ReplyDelivered ==
  ASSUME SafeIpc, NEW p \in Servers, NEW n, n = obj[p]["loop"].dest, DidReply(p),
         Delivered(p, "loop", [type |-> "REPLY", ctx |-> n], n)
  PROVE  SafeInv' /\ Links(sendings, next_ready)'
  <1>1. "call" \in Objs /\ "loop" \in Objs /\ "loop" # "call" /\ BaseInv /\ SafeInv
    BY DEF Objs, SafeIpc
  <1>2. /\ p \in Procs /\ n \in Procs /\ p # n /\ n \in Clients \cup Servers
        /\ SendStep(p, "loop", "REPLY", n, n, "loop") /\ tgt' = tgt
        /\ p = cur_proc /\ pc[p] \in {"handle", "finish"}
        /\ Awaits(n, p) /\ n \notin Senders(p)
    BY ReplyFacts
  <1>3. /\ \A X \in Procs : ~Awaits(p, X)
        /\ \A d \in Procs : p \notin Senders(d)
        /\ p \in DiskServers => ~irq[p]
        /\ INTERRUPT \notin Senders(p)
        /\ \A z \in Procs : Sound(z)
    BY <1>2, RunningFacts
  <1>4. /\ \A z \in Procs \ {p, n} : SameView(z)
        /\ status'[p] = "RUNNING" /\ pc'[p] = "loop"
        /\ obj'[p]["loop"] = [type |-> "REPLY", ctx |-> n, dest |-> obj[p]["loop"].dest]
        /\ status[n] = "WAITING_MSG" /\ status'[n] = "READY" /\ pc'[n] = pc[n]
        /\ obj'[n][message[n]] = [type |-> "REPLY", ctx |-> n, dest |-> p]
        /\ \A j \in Objs \ {message[n]} : obj'[n][j] = obj[n][j]
        /\ message' = message /\ intr_cnt' = intr_cnt /\ irq' = irq
        /\ UNCHANGED <<sendings, next_ready>>
        /\ \A z \in Procs : Senders(z)' = Senders(z)
    BY <1>1, <1>2, DeliveredView
  <1>5. pc[n] \in {"idle", "finish"} /\ message[n] = "call" /\ Wants(n) = p /\ tgt[n] = p
    BY <1>2, <1>4 DEF Awaits, Runnable
  <1>6. \A X \in Procs : Awaits(n, X) => X = p
    BY <1>5 DEF Awaits
  <1>7. \A d \in Procs : n \notin Senders(d)
    <2> SUFFICES ASSUME NEW d \in Procs, n \in Senders(d) PROVE FALSE
      OBVIOUS
    <2>1. Queued(n, d) /\ n # INTERRUPT
      BY <1>2, <1>3, NullApart DEF Sound
    <2>2. Awaits(n, d)
      BY <1>4, <2>1 DEF Queued, Asking, Posting, Replying
    <2> QED BY <1>2, <1>6, <2>2
  <1>8. \A z \in Procs : Senders(z) \subseteq Nodes
    BY QueueFacts
  <1>9. ASSUME NEW z \in {p, n}, NEW x \in Senders(z)' PROVE Queued(x, z)'
    <2>1. x \in Senders(z) /\ x # p /\ x # n /\ Queued(x, z) /\ x \in Nodes
      BY <1>2, <1>3, <1>4, <1>7, <1>8 DEF Sound
    <2>2. x # INTERRUPT
      BY <1>3, <1>5, <2>1 DEF Queued
    <2>3. x \in Procs /\ SameView(x) /\ message[x] \in Objs
      BY <1>1, <1>4, <2>1, <2>2, IpcTypes DEF Nodes
    <2>4. Asking(x, z) \/ Posting(x, z)
      BY <1>3, <1>6, <2>1, <2>2, <2>3 DEF Queued, Replying
    <2>5. Asking(x, z)' \/ Posting(x, z)'
      BY <2>3, <2>4, ViewKept
    <2> QED BY <2>1, <2>2, <2>5 DEF Queued
  <1>10. Sound(p)'
    <2>1. Placed(p)'
      BY <1>2, <1>3, <1>4, ProcSets DEF Sound, Placed
    <2>2. Answered(p)' /\ NothingMissed(p)' /\ Serving(p)'
      BY <1>4 DEF Answered, NothingMissed, Serving
    <2>3. p \in DiskServers => DiskOwes(p)'
      BY <1>3, <1>4 DEF DiskOwes
    <2> QED BY <1>4, <1>9, <2>1, <2>2, <2>3 DEF Sound
  <1>11. Sound(n)'
    <2>1. /\ obj'[n]["call"] = [type |-> "REPLY", ctx |-> n, dest |-> tgt'[n]]
          /\ obj'[n]["loop"] = obj[n]["loop"]
      BY <1>1, <1>2, <1>4, <1>5, SMTT(30)
    <2>2. Placed(n)'
      BY <1>2, <1>3, <1>4, <1>5, <2>1 DEF Sound, Placed
    <2>3. Answered(n)' /\ NothingMissed(n)'
      BY <1>4, <2>1 DEF Answered, NothingMissed
    <2>4. n \in DiskServers => DiskOwes(n)'
      BY <1>2, <1>3, <1>4, <1>5, NullApart DEF Sound, DiskOwes, AwaitsDisk
    <2>5. Serving(n)'
      <3>1. ASSUME NEW m \in Procs, Awaits(m, n) PROVE Awaits(m, n)'
        <4>1. m # p /\ m # n
          BY <1>2, <1>3, <1>6, <3>1
        <4>2. SameView(m) /\ message[m] \in Objs
          BY <1>1, <1>4, <4>1, IpcTypes
        <4> QED BY <3>1, <4>2, ViewKept
      <3> QED BY <1>1, <1>2, <1>3, <1>4, <2>1, <3>1, ServingKept DEF Sound
    <2> QED BY <1>4, <1>9, <2>2, <2>3, <2>4, <2>5 DEF Sound
  <1>12. SafeInv'
    <2> DEFINE C == {p, n}
    <2>1. \A z \in Procs \ C : SameView(z) /\ Senders(z)' = Senders(z)
      BY <1>4
    <2>2. \A c \in C : Sound(c)'
      BY <1>10, <1>11
    <2>3. ASSUME NEW z \in Procs \ C, NEW c \in C
          PROVE  /\ obj[z]["loop"].type = "REQ" /\ obj[z]["loop"].dest = c => Awaits(c, z)'
                 /\ c \in Senders(z) => Queued(c, z)'
      <3>1. obj[z]["loop"].type = "REQ" /\ obj[z]["loop"].dest = c => Awaits(c, z)
        BY <1>3 DEF Sound, Serving
      <3> QED BY <1>3, <1>6, <1>7, <3>1
    <2>4. \A c \in C : \A z \in Senders(c) : z \in Senders(c)'
      BY <1>2, <1>4
    <2>5. C \in SUBSET Procs
      BY <1>2
    <2> HIDE DEF C
    <2> QED BY <1>1, <1>8, <2>1, <2>2, <2>3, <2>4, <2>5, FrameLemma
  <1> QED BY <1>4, <1>12, LinksKept

\* Only the view of p changes, and no queue.
MovesAlone(p) ==
  /\ \A z \in Procs \ {p} : SameView(z)
  /\ \A z \in Procs : Senders(z)' = Senders(z)
  /\ Placed(p)' /\ Answered(p)' /\ NothingMissed(p)'
  /\ p \in DiskServers => DiskOwes(p)'
  /\ obj'[p]["loop"] = obj[p]["loop"] \/ obj'[p]["loop"].type # "REQ"
  /\ \A X \in Procs : Awaits(p, X) => Awaits(p, X)'
  /\ \A d \in Procs : p \in Senders(d) => Queued(p, d)'
  /\ INTERRUPT \in Senders(p) => Queued(INTERRUPT, p)'
  /\ status'[p] = "SENDING_MSG" => status[p] = "SENDING_MSG"

\* Then the other processes keep what the invariant says of them.
LEMMA AloneSafe ==
  ASSUME SafeIpc, NEW p \in Procs, MovesAlone(p)
  PROVE  SafeInv'
  <1>1. BaseInv /\ SafeInv /\ \A z \in Procs : Sound(z)
    BY SoundAll DEF SafeIpc
  <1>2. /\ \A z \in Procs \ {p} : SameView(z)
        /\ \A z \in Procs : Senders(z)' = Senders(z)
        /\ \A X \in Procs : Awaits(p, X) => Awaits(p, X)'
        /\ \A d \in Procs : p \in Senders(d) => Queued(p, d)'
    BY DEF MovesAlone
  <1>3. \A z \in Procs : Senders(z) \subseteq Nodes
    BY QueueFacts
  <1>4. ASSUME NEW n \in Procs, NEW X \in Procs, Awaits(n, X) PROVE Awaits(n, X)'
    <2>1. CASE n = p
      BY <1>2, <1>4, <2>1
    <2>2. CASE n # p
      <3>1. SameView(n) /\ message[n] \in Objs
        BY <1>1, <1>2, <2>2, IpcTypes
      <3> QED BY <1>4, <3>1, ViewKept
    <2> QED BY <2>1, <2>2
  <1>5. Sound(p)'
    <2>1. ASSUME NEW x \in Senders(p)' PROVE Queued(x, p)'
      <3>1. x \in Senders(p) /\ x \in Nodes /\ Queued(x, p)
        BY <1>1, <1>2, <1>3, <2>1 DEF Sound
      <3>2. CASE x = INTERRUPT
        BY <3>1, <3>2 DEF MovesAlone
      <3>3. CASE x = p
        BY <1>2, <3>1, <3>3
      <3>4. CASE x # INTERRUPT /\ x # p
        <4>1. x \in Procs /\ SameView(x) /\ message[x] \in Objs
          BY <1>1, <1>2, <3>1, <3>4, IpcTypes DEF Nodes
        <4>2. Asking(x, p) \/ Posting(x, p) => Asking(x, p)' \/ Posting(x, p)'
          BY <4>1, ViewKept
        <4>3. Replying(x, p) => Replying(x, p)'
          <5>1. status[x] = "SENDING_MSG" <=> status'[x] = "SENDING_MSG"
            BY <4>1, ViewKept
          <5>2. Awaits(p, x) => Awaits(p, x)'
            BY <1>2, <4>1
          <5>3. Senders(x)' = Senders(x)
            BY <1>2, <4>1
          <5> QED BY <4>1, <5>1, <5>2, <5>3 DEF Replying, SameView
        <4> QED BY <3>1, <3>4, <4>2, <4>3 DEF Queued
      <3> QED BY <3>2, <3>3, <3>4
    <2>2. Serving(p)'
      <3>1. CASE obj'[p]["loop"] = obj[p]["loop"]
        <4>1. \A n \in Procs : Awaits(n, p) => Awaits(n, p)' /\ (n \in Senders(p)' => n \in Senders(p))
          BY <1>2, <1>4
        <4> QED BY <1>1, <3>1, <4>1, ServingKept DEF Sound
      <3>2. CASE obj'[p]["loop"].type # "REQ"
        BY <3>2 DEF Serving
      <3> QED BY <3>1, <3>2 DEF MovesAlone
    <2>3. ASSUME status'[p] = "SENDING_MSG" PROVE \E d \in Procs : p \in Senders(d)'
      <3>1. PICK d \in Procs : p \in Senders(d)
        BY <1>1, <2>3 DEF MovesAlone, Sound
      <3> QED BY <1>2, <3>1
    <2> QED BY <2>1, <2>2, <2>3 DEF Sound, MovesAlone
  <1>6. ASSUME NEW z \in Procs \ {p}, NEW c \in {p}
        PROVE  /\ obj[z]["loop"].type = "REQ" /\ obj[z]["loop"].dest = c => Awaits(c, z)'
               /\ c \in Senders(z) => Queued(c, z)'
    <2>1. obj[z]["loop"].type = "REQ" /\ obj[z]["loop"].dest = c => Awaits(c, z)
      BY <1>1 DEF Sound, Serving
    <2> QED BY <1>2, <2>1
  <1>7. {p} \in SUBSET Procs /\ \A c \in {p} : \A z \in Senders(c) : z \in Senders(c)'
    BY <1>2
  <1> QED BY <1>1, <1>2, <1>3, <1>5, <1>6, <1>7, FrameLemma

\* n is left alone, but if it is a blocked sender it goes on.
Nudged(n) ==
  /\ pc'[n] = pc[n] /\ tgt'[n] = tgt[n] /\ message'[n] = message[n]
  /\ obj'[n]["loop"] = obj[n]["loop"] /\ obj'[n]["call"] = obj[n]["call"]
  /\ intr_cnt'[n] = intr_cnt[n] /\ (n \in DiskServers => irq'[n] = irq[n])
  /\ status'[n] = IF status[n] = "SENDING_MSG" THEN "READY" ELSE status[n]

\* The running process p has taken the message w off its queue and n, w itself
\* or the node in front of it, was woken.
TakenView(p, w, n) ==
  /\ \A z \in Procs \ {p, n} : SameView(z)
  /\ n \in Procs => Nudged(n)
  /\ status'[p] = "RUNNING" /\ w \in {n, INTERRUPT} /\ n # p
  /\ n \in Senders(p) /\ Senders(p)' = Senders(p) \ {w}
  /\ \A z \in Procs \ {p} : Senders(z)' = Senders(z)

\* p and n are where they should be, and nobody refers to p any more.
TakenWell(p, n) ==
  /\ Placed(p)' /\ Answered(p)' /\ Serving(p)'
  /\ p \in DiskServers => DiskOwes(p)'
  /\ n \in Procs => Placed(n)' /\ Answered(n)' /\ (n \in Senders(p)' => Queued(n, p)')
  /\ INTERRUPT \notin Senders(p)'
  /\ \A x \in Senders(p)' : ~Replying(x, p)
  /\ \A d \in Procs : p \notin Senders(d)
  /\ \A z \in Procs \ {p} : obj[z]["loop"].type = "REQ" => obj[z]["loop"].dest # p

\* A process that is woken awaits what it awaited.
LEMMA NudgedFacts ==
  ASSUME NEW n \in Procs, message[n] \in Objs, Nudged(n)
  PROVE  /\ \A X : Awaits(n, X) => Awaits(n, X)'
         /\ status[n] # "SENDING_MSG" => SameView(n)
         /\ status'[n] # "SENDING_MSG"
  <1>1. Wants(n)' = Wants(n)
    BY DEF Nudged, Wants, Objs
  <1> QED BY <1>1 DEF Nudged, Awaits, SameView, SameStatus, Runnable

\* Then the other processes keep what the invariant says of them.
LEMMA TakenSafe ==
  ASSUME SafeIpc, NEW p \in Procs, NEW w \in Nodes, NEW n \in Nodes,
         TakenView(p, w, n), TakenWell(p, n)
  PROVE  SafeInv'
  <1>1. BaseInv /\ SafeInv /\ \A z \in Procs : Sound(z)
    BY SoundAll DEF SafeIpc
  <1>2. /\ \A z \in Procs \ {p, n} : SameView(z)
        /\ n \in Procs => Nudged(n)
        /\ status'[p] = "RUNNING" /\ w \in {n, INTERRUPT} /\ n # p
        /\ n \in Senders(p) /\ Senders(p)' = Senders(p) \ {w}
        /\ \A z \in Procs \ {p} : Senders(z)' = Senders(z)
    BY DEF TakenView
  <1>3. /\ \A z \in Procs : Senders(z) \subseteq Nodes
        /\ \A z \in Procs \ {p} : n \notin Senders(z)
    BY <1>2, QueueFacts
  <1>4. /\ \A d \in Procs : p \notin Senders(d)
        /\ \A z \in Procs \ {p} : obj[z]["loop"].type = "REQ" => obj[z]["loop"].dest # p
    BY DEF TakenWell
  <1>5. ASSUME NEW m \in Procs \ {p}, NEW X, Awaits(m, X) PROVE Awaits(m, X)'
    <2>1. message[m] \in Objs
      BY <1>1, IpcTypes
    <2>2. CASE m = n
      BY <1>2, <1>5, <2>1, <2>2, NudgedFacts
    <2>3. CASE m # n
      <3>1. SameView(m)
        BY <1>2, <2>3
      <3> QED BY <1>5, <2>1, <3>1, ViewKept
    <2> QED BY <2>2, <2>3
  <1>6. Sound(p)'
    <2>1. ASSUME NEW x \in Senders(p)' PROVE Queued(x, p)'
      <3>1. x \in Senders(p) /\ x \in Nodes /\ Queued(x, p) /\ x # INTERRUPT /\ x # p /\ ~Replying(x, p)
        BY <1>1, <1>2, <1>3, <1>4, <2>1 DEF Sound, TakenWell
      <3>2. CASE x = n
        BY <2>1, <3>1, <3>2 DEF TakenWell, Nodes
      <3>3. CASE x # n
        <4>1. x \in Procs /\ SameView(x) /\ message[x] \in Objs
          BY <1>1, <1>2, <3>1, <3>3, IpcTypes DEF Nodes
        <4>2. Asking(x, p)' \/ Posting(x, p)'
          BY <3>1, <4>1, ViewKept DEF Queued
        <4> QED BY <3>1, <4>2 DEF Queued
      <3> QED BY <3>2, <3>3
    <2> QED BY <1>2, <2>1 DEF Sound, TakenWell, NothingMissed
  <1>7. ASSUME n \in Procs PROVE Sound(n)'
    <2>1. Nudged(n) /\ message[n] \in Objs /\ Sound(n) /\ n # p /\ Senders(n)' = Senders(n)
      BY <1>1, <1>2, <1>7, IpcTypes
    <2>2. Placed(n)' /\ Answered(n)'
      BY <1>7 DEF TakenWell
    <2>3. NothingMissed(n)' /\ (n \in DiskServers => DiskOwes(n)')
      <3>1. CASE status[n] = "SENDING_MSG"
        <4>1. pc[n] # "diskWait" /\ ~AwaitsDisk(n)
          BY <2>1, <3>1 DEF Sound, Placed, AwaitsDisk
        <4>2. n \in DiskServers => ~irq[n]
          BY <2>1, <4>1 DEF Sound, DiskOwes
        <4> QED BY <2>1, <3>1, <4>1, <4>2 DEF NothingMissed, DiskOwes, Nudged
      <3>2. CASE status[n] # "SENDING_MSG"
        <4>1. SameView(n)
          BY <1>7, <2>1, <3>2, NudgedFacts
        <4>2. /\ Wants(n)' = Wants(n) /\ (status'[n] = "WAITING_MSG" <=> status[n] = "WAITING_MSG")
              /\ AwaitsDisk(n)' <=> AwaitsDisk(n)
          BY <1>7, <2>1, <4>1, ViewKept
        <4> QED BY <2>1, <4>2 DEF NothingMissed, DiskOwes, Sound, Nudged
      <3> QED BY <3>1, <3>2
    <2>4. Serving(n)'
      <3> SUFFICES ASSUME obj[n]["loop"].type = "REQ" PROVE Serving(n)'
        BY <2>1 DEF Serving, Nudged
      <3>1. PICK m : m = obj[n]["loop"].dest
        OBVIOUS
      <3>2. /\ n \in Servers /\ m \in Clients \cup Servers /\ obj[n]["loop"].ctx = m
            /\ Awaits(m, n) /\ m \notin Senders(n)
        BY <2>1, <3>1 DEF Sound, Serving
      <3>3. m \in Procs \ {p}
        BY <1>4, <1>7, <2>1, <3>1, <3>2, ProcSets
      <3>4. Awaits(m, n)'
        BY <1>5, <3>2, <3>3
      <3>5. obj'[n]["loop"] = obj[n]["loop"]
        BY <2>1 DEF Nudged
      <3> QED BY <2>1, <3>1, <3>2, <3>4, <3>5 DEF Serving
    <2>5. ASSUME NEW x \in Senders(n)' PROVE Queued(x, n)'
      <3>1. x \in Senders(n) /\ x \in Nodes /\ Queued(x, n) /\ x # p /\ x # n
        BY <1>3, <1>4, <1>7, <2>1, <2>5 DEF Sound
      <3>2. CASE x = INTERRUPT
        BY <2>1, <3>1, <3>2 DEF Queued, Nudged
      <3>3. CASE x # INTERRUPT
        <4>1. x \in Procs /\ SameView(x) /\ Senders(x)' = Senders(x)
          BY <1>2, <3>1, <3>3 DEF Nodes
        <4>2. \A X : Awaits(n, X) => Awaits(n, X)'
          BY <1>5, <1>7, <2>1
        <4> QED BY <1>1, <1>7, <3>1, <4>1, <4>2, QueuedKept
      <3> QED BY <3>2, <3>3
    <2>6. status'[n] # "SENDING_MSG"
      BY <1>7, <2>1, NudgedFacts
    <2> QED BY <2>2, <2>3, <2>4, <2>5, <2>6 DEF Sound
  <1> DEFINE C == {p, n} \cap Procs
  <1>8. \A z \in Procs \ C : SameView(z) /\ Senders(z)' = Senders(z)
    BY <1>2
  <1>9. \A c \in C : Sound(c)'
    BY <1>6, <1>7
  <1>10. ASSUME NEW z \in Procs \ C, NEW c \in C
         PROVE  /\ obj[z]["loop"].type = "REQ" /\ obj[z]["loop"].dest = c => Awaits(c, z)'
                /\ c \in Senders(z) => Queued(c, z)'
    <2>1. obj[z]["loop"].type = "REQ" /\ obj[z]["loop"].dest = c => Awaits(c, z)
      BY <1>1 DEF Sound, Serving
    <2>2. z # p
      OBVIOUS
    <2>3. CASE c = p
      BY <1>4, <2>2, <2>3
    <2>4. CASE c = n
      BY <1>2, <1>3, <1>5, <2>1, <2>2, <2>4
    <2> QED BY <2>3, <2>4
  <1>11. \A c \in C : \A z \in Senders(c) : z \in C \/ z \in Senders(c)' \/ z = INTERRUPT
    BY <1>2, <1>3 DEF Nodes
  <1>12. C \in SUBSET Procs
    OBVIOUS
  <1> HIDE DEF C
  <1> QED BY <1>1, <1>3, <1>8, <1>9, <1>10, <1>11, <1>12, FrameLemma

\* A receive that blocks changes the view of the receiver only; nothing it
\* would take is on its queue.
LEMMA WaitsView ==
  ASSUME SafeIpc, NEW p \in Procs, NEW o \in Objs, NEW want \in Procs \cup {ANY, INTERRUPT}, NEW label,
         ReceiveStep(p, o, want, label), Waits(p, o, want)
  PROVE  /\ \A z \in Procs \ {p} : SameView(z)
         /\ status'[p] = "WAITING_MSG" /\ pc'[p] = label /\ tgt' = tgt /\ irq' = irq
         /\ obj'[p][o] = [type |-> obj[p][o].type, ctx |-> obj[p][o].ctx, dest |-> want]
         /\ \A j \in Objs \ {o} : obj'[p][j] = obj[p][j]
         /\ message'[p] = o /\ intr_cnt' = intr_cnt
         /\ \A z \in Procs : Senders(z)' = Senders(z)
         /\ want = ANY => Senders(p) = {} /\ intr_cnt[p] = 0
         /\ want \notin Senders(p)
         /\ Links(sendings, next_ready)'
  <1>1. BaseInv /\ p = cur_proc /\ pc' = [pc EXCEPT ![p] = label] /\ tgt' = tgt /\ irq' = irq
    BY DEF SafeIpc, ReceiveStep
  <1>2. /\ status'[p] = "WAITING_MSG" /\ \A z \in Procs \ {p} : SameStatus(z)
        /\ obj'[p][o] = [type |-> obj[p][o].type, ctx |-> obj[p][o].ctx, dest |-> want]
        /\ \A z \in Procs : \A j \in Objs : z # p \/ j # o => obj'[z][j] = obj[z][j]
        /\ message' = [message EXCEPT ![p] = o] /\ intr_cnt' = intr_cnt
        /\ UNCHANGED <<sendings, next_ready>>
        /\ ~(intr_cnt[p] # 0 /\ want = ANY)
        /\ sendings[p] = NULL \/ (want \notin {ANY, sendings[p]} /\ Before(p, want) = NULL)
    BY <1>1 DEF Waits, GaveUp, OthersSame
  <1>3. pc \in [Procs -> Labels] /\ message \in [Procs -> Objs]
    BY <1>1, IpcTypes
  <1>4. \A z \in Procs \ {p} : SameView(z)
    <2> SUFFICES ASSUME NEW z \in Procs \ {p} PROVE SameView(z)
      OBVIOUS
    <2>1. "loop" \in Objs /\ "call" \in Objs
      BY DEF Objs
    <2> QED BY <1>1, <1>2, <1>3, <2>1 DEF SameView
  <1>5. \A z \in Procs : Senders(z)' = Senders(z)
    BY <1>2, SendersKept
  <1>6. sendings[p] = NULL => Senders(p) = {}
    BY QueueFacts
  <1>7. want \notin Senders(p)
    <2>1. CASE sendings[p] = NULL
      BY <1>6, <2>1
    <2>2. CASE sendings[p] # NULL
      <3>1. want \in Nodes /\ Before(p, want) = NULL /\ sendings[p] # want
        BY <1>2, <2>2 DEF Nodes
      <3>2. Links(sendings, next_ready)
        BY DEF SafeIpc
      <3> QED BY <3>1, <3>2, BeforeFacts
    <2> QED BY <2>1, <2>2
  <1>8. Links(sendings, next_ready)'
    BY <1>2, LinksKept
  <1> QED BY <1>1, <1>2, <1>3, <1>4, <1>5, <1>6, <1>7, <1>8

\* The views after a message was taken and node n woken.
LEMMA TookView ==
  ASSUME BaseInv, NEW p \in Procs, NEW o \in Objs, NEW want, NEW label, NEW s, NEW n \in Nodes,
         ReceiveStep(p, o, want, label), Took(p, o, s, n)
  PROVE  /\ \A z \in Procs \ {p, n} : SameView(z)
         /\ n \in Procs /\ n # p => Nudged(n)
         /\ status[p] = "RUNNING" /\ status'[p] = "RUNNING"
         /\ pc'[p] = label /\ tgt' = tgt /\ irq' = irq /\ message' = message /\ intr_cnt' = intr_cnt
         /\ obj'[p][o] = [type |-> Offered(s).type, ctx |-> Offered(s).ctx, dest |-> n]
         /\ \A j \in Objs \ {o} : obj'[p][j] = obj[p][j]
  <1>1. p = cur_proc /\ pc' = [pc EXCEPT ![p] = label] /\ tgt' = tgt /\ irq' = irq
    BY DEF ReceiveStep
  <1>2. /\ status[p] = "RUNNING" /\ pc \in [Procs -> Labels]
        /\ "loop" \in Objs /\ "call" \in Objs
    BY <1>1, IpcTypes DEF Objs
  <1>3. /\ obj'[p][o] = [type |-> Offered(s).type, ctx |-> Offered(s).ctx, dest |-> n]
        /\ \A z \in Procs : \A j \in Objs : z # p \/ j # o => obj'[z][j] = obj[z][j]
        /\ message' = message /\ intr_cnt' = intr_cnt
    BY DEF Took, OthersSame
  <1>4. /\ \A z \in Procs \ {n} : status'[z] = status[z]
        /\ n \in Procs => status'[n] = IF status[n] = "SENDING_MSG" THEN "READY" ELSE status[n]
    BY DEF Took, Woken
  <1>5. status'[p] = "RUNNING"
    BY <1>2, <1>4
  <1>6. \A z \in Procs \ {p, n} : SameView(z)
    <2> SUFFICES ASSUME NEW z \in Procs \ {p, n} PROVE SameView(z)
      OBVIOUS
    <2> QED BY <1>1, <1>2, <1>3, <1>4 DEF SameView, SameStatus
  <1>7. n \in Procs /\ n # p => Nudged(n)
    BY <1>1, <1>2, <1>3, <1>4 DEF Nudged
  <1> QED BY <1>1, <1>2, <1>3, <1>5, <1>6, <1>7

\* The head of the queue was taken.
LEMMA HeadView ==
  ASSUME SafeIpc, NEW p \in Procs, NEW o \in Objs, NEW want, NEW label, NEW h, h = sendings[p],
         ReceiveStep(p, o, want, label), GotHead(p, o, want)
  PROVE  /\ h \in Nodes /\ want \in {ANY, h} /\ Took(p, o, h, h)
         /\ ~(intr_cnt[p] # 0 /\ want = ANY)
         /\ h \in Senders(p) /\ Senders(p)' = Senders(p) \ {h}
         /\ \A z \in Procs \ {p} : Senders(z)' = Senders(z)
         /\ Links(sendings, next_ready)'
         /\ h # p => TakenView(p, h, h)
  <1>1. BaseInv /\ Links(sendings, next_ready)
    BY DEF SafeIpc
  <1>2. /\ h # NULL /\ want \in {ANY, h} /\ Took(p, o, h, h) /\ ~(intr_cnt[p] # 0 /\ want = ANY)
        /\ sendings' = [sendings EXCEPT ![p] = IF next_ready[h] = h THEN NULL ELSE next_ready[h]]
        /\ next_ready' = next_ready
    BY DEF GotHead
  <1>3. /\ sendings \in [Procs -> Nodes \cup {NULL}] /\ next_ready \in [Nodes -> Nodes \cup {NULL}]
        /\ h \in Nodes
    BY <1>1, <1>2, IpcTypes
  <1>4. QueueBecomes(sendings, next_ready, sendings', next_ready, p, Members(sendings, next_ready, p) \ {h})
    <2>1. Pop(sendings, next_ready, p, h, sendings')
      BY <1>2 DEF Pop
    <2> QED BY <1>1, <1>3, <2>1, PopLinks
  <1>5. QueueBecomes(sendings, next_ready, sendings', next_ready', p, Members(sendings, next_ready, p) \ {h})
    BY <1>2, <1>4
  <1>6. Links(sendings, next_ready)'
    BY <1>5 DEF QueueBecomes, Links, Chains, Chain
  <1>7. Senders(p)' = Senders(p) \ {h} /\ \A z \in Procs \ {p} : Senders(z)' = Senders(z)
    BY <1>5, SendersAre DEF QueueBecomes
  <1>8. h \in Senders(p)
    BY <1>2, QueueFacts
  <1>9. h # p => TakenView(p, h, h)
    BY <1>1, <1>2, <1>3, <1>7, <1>8, TookView DEF TakenView
  <1> QED BY <1>2, <1>3, <1>6, <1>7, <1>8, <1>9

\* The node behind n was taken.
LEMMA BehindView ==
  ASSUME SafeIpc, NEW p \in Procs, NEW o \in Objs, NEW want \in Nodes, NEW label, NEW n, n = Before(p, want),
         ReceiveStep(p, o, want, label), GotBehind(p, o, want)
  PROVE  /\ n \in Nodes /\ n # want /\ Took(p, o, want, n)
         /\ n \in Senders(p) /\ want \in Senders(p) /\ Senders(p)' = Senders(p) \ {want}
         /\ \A z \in Procs \ {p} : Senders(z)' = Senders(z)
         /\ Links(sendings, next_ready)'
  <1>1. BaseInv /\ Links(sendings, next_ready)
    BY DEF SafeIpc
  <1>2. /\ n # NULL /\ Took(p, o, want, n)
        /\ next_ready' = [next_ready EXCEPT ![n] = next_ready[want]]
        /\ sendings' = sendings
    BY DEF GotBehind
  <1>3. sendings \in [Procs -> Nodes \cup {NULL}] /\ next_ready \in [Nodes -> Nodes \cup {NULL}]
    BY <1>1, IpcTypes
  <1>4. n \in Senders(p) /\ next_ready[n] = want /\ n \in Nodes
    BY <1>1, <1>2, BeforeFacts, QueueFacts
  <1>5. n \in Members(sendings, next_ready, p)
    BY <1>4, SendersAre
  <1>6. /\ QueueBecomes(sendings, next_ready, sendings, next_ready', p,
                        Members(sendings, next_ready, p) \ {want})
        /\ want \in Members(sendings, next_ready, p) /\ n # want
    <2>1. Cut(next_ready, n, want, next_ready')
      BY <1>2, <1>4 DEF Cut
    <2> QED BY <1>1, <1>3, <1>5, <2>1, CutLinks
  <1>7. QueueBecomes(sendings, next_ready, sendings', next_ready', p,
                     Members(sendings, next_ready, p) \ {want})
    BY <1>2, <1>6
  <1>8. Links(sendings, next_ready)'
    BY <1>7 DEF QueueBecomes, Links, Chains, Chain
  <1>9. /\ Senders(p)' = Senders(p) \ {want} /\ want \in Senders(p)
        /\ \A z \in Procs \ {p} : Senders(z)' = Senders(z)
    BY <1>6, <1>7, SendersAre DEF QueueBecomes
  <1> QED BY <1>2, <1>4, <1>6, <1>8, <1>9

\* A process past its send receives the reply to its call.
ReceivesReply(p, X, label) ==
  /\ p \in Clients \cup Servers /\ pc[p] \in {"recv", "nestedRecv"}
  /\ label \in {"idle", "finish"} /\ (label = "idle" <=> p \in Clients)
  /\ X = tgt[p] /\ ReceiveStep(p, "call", X, label)

\* What is known of it and of the server X it waits for.  Whatever X has on
\* the queue is the reply.
LEMMA ReplyWaitFacts ==
  ASSUME SafeIpc, NEW p, NEW X, NEW label, ReceivesReply(p, X, label)
  PROVE  /\ p \in Procs /\ X \in Procs /\ X \in Servers /\ X \in Calls[p] /\ p # X /\ X # ANY
         /\ p = cur_proc /\ status[p] = "RUNNING"
         /\ Awaits(p, X) /\ \A Y : Awaits(p, Y) => Y = X
         /\ p \in DiskServers => ~irq[p]
         /\ INTERRUPT \notin Senders(p)
         /\ \A z \in Procs : Sound(z)
         /\ X \in Senders(p) => Replying(X, p)
         /\ p \notin Senders(p)
  <1>1. BaseInv /\ SafeInv /\ Layered /\ \A z \in Procs : Sound(z)
    BY SoundAll DEF SafeIpc
  <1>2. p \in Procs /\ p = cur_proc /\ status[p] = "RUNNING" /\ X = tgt[p]
    BY <1>1, ProcSets, IpcTypes DEF ReceivesReply, ReceiveStep
  <1>3. X \in Calls[p]
    BY <1>1, <1>2 DEF Sound, Placed, ReceivesReply
  <1>4. X \in Servers /\ X \in Procs /\ X # ANY
    BY <1>3, ProcSets, IpcAssumption DEF ReceivesReply
  <1>5. p \notin Calls[X]
    <2> SUFFICES ASSUME p \in Calls[X] PROVE FALSE
      OBVIOUS
    <2>1. p \in Servers
      BY <1>4, ProcSets
    <2> QED BY <1>1, <1>3, <1>4, <2>1 DEF Layered
  <1>6. p # X
    BY <1>3, <1>5
  <1>7. Awaits(p, X) /\ \A Y : Awaits(p, Y) => Y = X
    BY <1>2, <1>3 DEF Awaits, ReceivesReply, Runnable
  <1>8. (p \in DiskServers => ~irq[p]) /\ INTERRUPT \notin Senders(p)
    BY <1>1, <1>2 DEF Sound, DiskOwes, AwaitsDisk, Queued, ReceivesReply
  <1>9. X \in Senders(p) => Replying(X, p)
    <2>1. X \in Senders(p) => Queued(X, p) /\ X # INTERRUPT
      BY <1>1, <1>2, <1>4, NullApart DEF Sound
    <2> QED BY <1>4, <1>5, <2>1, ProcSets DEF Queued, Asking, Posting
  <1>10. p \notin Senders(p)
    <2> SUFFICES ASSUME p \in Senders(p) PROVE FALSE
      OBVIOUS
    <2>1. Queued(p, p) /\ p # INTERRUPT
      BY <1>1, <1>2, NullApart DEF Sound
    <2>2. Awaits(p, p)
      BY <1>2, <2>1 DEF Queued, Asking, Posting, Replying
    <2> QED BY <1>6, <1>7, <2>2
  <1> QED BY <1>1, <1>2, <1>3, <1>4, <1>6, <1>7, <1>8, <1>9, <1>10

\* The reply is not there yet.
LEMMA ReplyWaits ==
  ASSUME SafeIpc, NEW p, NEW X, NEW label, ReceivesReply(p, X, label), Waits(p, "call", X)
  PROVE  SafeInv' /\ Links(sendings, next_ready)'
  <1>1. "call" \in Objs /\ "loop" \in Objs /\ "loop" # "call" /\ BaseInv
    BY DEF Objs, SafeIpc
  <1>2. /\ p \in Procs /\ X \in Procs /\ X \in Servers /\ X \in Calls[p] /\ X # ANY
        /\ status[p] = "RUNNING" /\ Awaits(p, X) /\ \A Y : Awaits(p, Y) => Y = X
        /\ p \in DiskServers => ~irq[p]
        /\ INTERRUPT \notin Senders(p)
        /\ \A z \in Procs : Sound(z)
    BY ReplyWaitFacts
  <1>3. /\ pc[p] \in {"recv", "nestedRecv"} /\ label \in {"idle", "finish"} /\ p \in Clients \cup Servers
        /\ label = "idle" <=> p \in Clients
        /\ X = tgt[p] /\ ReceiveStep(p, "call", X, label)
    BY DEF ReceivesReply
  <1>4. /\ \A z \in Procs \ {p} : SameView(z)
        /\ status'[p] = "WAITING_MSG" /\ pc'[p] = label /\ tgt' = tgt /\ irq' = irq
        /\ obj'[p]["call"] = [type |-> obj[p]["call"].type, ctx |-> obj[p]["call"].ctx, dest |-> X]
        /\ obj'[p]["loop"] = obj[p]["loop"]
        /\ message'[p] = "call" /\ intr_cnt' = intr_cnt
        /\ \A z \in Procs : Senders(z)' = Senders(z)
        /\ X \notin Senders(p)
        /\ Links(sendings, next_ready)'
    BY <1>1, <1>2, <1>3, WaitsView
  <1>5. Wants(p)' = X
    BY <1>4 DEF Wants
  <1>6. Awaits(p, X)'
    BY <1>2, <1>3, <1>4, <1>5 DEF Awaits
  <1>7. Placed(p)'
    <2>1. \E Y \in Servers : Awaits(p, Y)'
      BY <1>2, <1>6
    <2> QED BY <1>2, <1>3, <1>4, <2>1, ProcSets DEF Sound, Placed
  <1>8. Answered(p)' /\ NothingMissed(p)'
    BY <1>2, <1>4, <1>5 DEF Answered, NothingMissed, Runnable
  <1>9. p \in DiskServers => DiskOwes(p)'
    BY <1>2, <1>3, <1>4 DEF DiskOwes
  <1>10. ASSUME NEW d \in Procs, p \in Senders(d) PROVE Queued(p, d)'
    <2>1. Queued(p, d) /\ p # INTERRUPT
      BY <1>2, <1>10, NullApart DEF Sound
    <2>2. Asking(p, d) /\ Awaits(p, d)
      BY <1>2, <2>1 DEF Queued, Asking, Posting, Replying
    <2>3. d = X
      BY <1>2, <2>2
    <2>4. Asking(p, d)'
      BY <1>2, <1>4, <1>6, <2>2, <2>3 DEF Asking
    <2> QED BY <1>3, <2>1, <2>4 DEF Queued
  <1>11. MovesAlone(p)
    BY <1>2, <1>4, <1>6, <1>7, <1>8, <1>9, <1>10 DEF MovesAlone
  <1> QED BY <1>2, <1>4, <1>11, AloneSafe

\* The reply is at the head of the queue.
LEMMA ReplyTaken ==
  ASSUME SafeIpc, NEW p, NEW X, NEW label, ReceivesReply(p, X, label), GotHead(p, "call", X)
  PROVE  SafeInv' /\ Links(sendings, next_ready)'
  <1>1. "call" \in Objs /\ "loop" \in Objs /\ "loop" # "call" /\ BaseInv
    BY DEF Objs, SafeIpc
  <1>2. /\ p \in Procs /\ X \in Procs /\ X \in Servers /\ X \in Calls[p] /\ p # X /\ X # ANY
        /\ status[p] = "RUNNING" /\ Awaits(p, X) /\ \A Y : Awaits(p, Y) => Y = X
        /\ p \in DiskServers => ~irq[p]
        /\ INTERRUPT \notin Senders(p)
        /\ \A z \in Procs : Sound(z)
        /\ X \in Senders(p) => Replying(X, p)
    BY ReplyWaitFacts
  <1>3. /\ pc[p] \in {"recv", "nestedRecv"} /\ label \in {"idle", "finish"} /\ p \in Clients \cup Servers
        /\ label = "idle" <=> p \in Clients
        /\ X = tgt[p] /\ ReceiveStep(p, "call", X, label)
    BY DEF ReceivesReply
  <1>4. /\ X \in Nodes /\ Took(p, "call", X, X) /\ X \in Senders(p) /\ Senders(p)' = Senders(p) \ {X}
        /\ Links(sendings, next_ready)' /\ TakenView(p, X, X)
    <2>1. PICK h : h = sendings[p]
      OBVIOUS
    <2>2. X = h
      BY <1>2, <2>1 DEF GotHead
    <2> QED BY <1>1, <1>2, <1>3, <2>1, <2>2, HeadView
  <1>5. /\ status'[p] = "RUNNING" /\ pc'[p] = label /\ tgt' = tgt /\ irq' = irq
        /\ message' = message /\ intr_cnt' = intr_cnt
        /\ obj'[p]["call"] = [type |-> Offered(X).type, ctx |-> Offered(X).ctx, dest |-> X]
        /\ obj'[p]["loop"] = obj[p]["loop"]
        /\ \A z \in Procs \ {p, X} : SameView(z)
        /\ Nudged(X)
    BY <1>1, <1>2, <1>3, <1>4, TookView
  <1>6. Replying(X, p)
    BY <1>2, <1>4
  <1>7. /\ status[X] = "SENDING_MSG" /\ pc[X] = "loop" /\ message[X] = "loop"
        /\ obj[X]["loop"].type = "REPLY" /\ obj[X]["loop"].ctx = p /\ p \notin Senders(X)
    BY <1>6 DEF Replying
  <1>8. obj'[p]["call"] = [type |-> "REPLY", ctx |-> p, dest |-> X]
    BY <1>2, <1>5, <1>7, NullApart DEF Offered
  <1>9. \A d \in Procs : p \notin Senders(d)
    <2> SUFFICES ASSUME NEW d \in Procs, p \in Senders(d) PROVE FALSE
      OBVIOUS
    <2>1. Queued(p, d) /\ p # INTERRUPT
      BY <1>2, NullApart DEF Sound
    <2>2. Awaits(p, d)
      BY <1>2, <2>1 DEF Queued, Asking, Posting, Replying
    <2> QED BY <1>2, <1>7, <2>2
  <1>10. Placed(p)' /\ Answered(p)'
    BY <1>2, <1>3, <1>5, <1>8 DEF Sound, Placed, Answered
  <1>11. p \in DiskServers => DiskOwes(p)'
    BY <1>2, <1>3, <1>5 DEF DiskOwes
  <1>12. Serving(p)'
    <2>1. ASSUME NEW m \in Procs, Awaits(m, p)
          PROVE  Awaits(m, p)' /\ (m \in Senders(p)' => m \in Senders(p))
      <3>1. m # p /\ message[m] \in Objs
        BY <1>1, <1>2, <2>1, IpcTypes
      <3>2. m # X => SameView(m)
        BY <1>5, <3>1
      <3>3. Awaits(m, p)'
        BY <1>5, <2>1, <3>1, <3>2, NudgedFacts, ViewKept
      <3> QED BY <1>4, <3>3
    <2> QED BY <1>1, <1>2, <1>5, <2>1, ServingKept DEF Sound
  <1>13. Placed(X)' /\ Answered(X)'
    BY <1>2, <1>5, <1>7 DEF Sound, Placed, Answered, Nudged
  <1>14. \A x \in Senders(p)' : ~Replying(x, p)
    BY <1>2, <1>4 DEF Replying
  <1>15. ASSUME NEW z \in Procs \ {p}, obj[z]["loop"].type = "REQ" PROVE obj[z]["loop"].dest # p
    <2> SUFFICES ASSUME obj[z]["loop"].dest = p PROVE FALSE
      OBVIOUS
    <2>1. Awaits(p, z)
      BY <1>2, <1>15 DEF Sound, Serving
    <2> QED BY <1>2, <1>7, <1>15, <2>1
  <1>16. TakenWell(p, X)
    BY <1>2, <1>4, <1>9, <1>10, <1>11, <1>12, <1>13, <1>14, <1>15 DEF TakenWell
  <1> QED BY <1>2, <1>4, <1>16, TakenSafe

\* A reply that is taken from behind another message is what ReplyBehind says.
LEMMA TakenBehind ==
  ASSUME SafeIpc, NEW p, NEW X, NEW label, ReceivesReply(p, X, label), GotBehind(p, "call", X)
  PROVE  ReplyBehind
  <1>1. p \in Procs /\ p = cur_proc
    BY ReplyWaitFacts
  <1> QED BY <1>1 DEF ReceivesReply, GotBehind, ReplyBehind

\* A server at the top of its loop.
TopOfLoop(p) == p \in Servers /\ pc[p] = "loop" /\ ReceiveStep(p, "loop", ANY, "handle")

\* What is known of it.
LEMMA TopFacts ==
  ASSUME SafeIpc, NEW p, TopOfLoop(p)
  PROVE  /\ p \in Procs /\ p = cur_proc /\ status[p] = "RUNNING" /\ ANY # INTERRUPT
         /\ "call" \in Objs /\ "loop" \in Objs /\ "loop" # "call" /\ BaseInv
         /\ \A X \in Procs : ~Awaits(p, X)
         /\ \A d \in Procs : p \notin Senders(d)
         /\ p \in DiskServers => ~irq[p]
         /\ INTERRUPT \notin Senders(p)
         /\ \A z \in Procs : Sound(z)
         /\ \A x \in Senders(p) : ~Replying(x, p)
         /\ \A z \in Procs : obj[z]["loop"].type = "REQ" => obj[z]["loop"].dest # p
         /\ obj[p]["loop"].type # "REQ"
  <1>1. p \in Procs /\ p = cur_proc /\ pc[p] = "loop" /\ BaseInv
    BY ProcSets DEF TopOfLoop, ReceiveStep, SafeIpc
  <1>2. /\ status[p] = "RUNNING"
        /\ \A X \in Procs : ~Awaits(p, X)
        /\ \A d \in Procs : p \notin Senders(d)
        /\ p \in DiskServers => ~irq[p]
        /\ INTERRUPT \notin Senders(p)
        /\ \A z \in Procs : Sound(z)
    BY <1>1, RunningFacts
  <1>3. \A x \in Senders(p) : ~Replying(x, p)
    BY <1>2, ProcSets DEF Replying
  <1>4. \A z \in Procs : obj[z]["loop"].type = "REQ" => obj[z]["loop"].dest # p
    BY <1>2, ProcSets DEF Sound, Serving
  <1>5. obj[p]["loop"].type # "REQ"
    BY <1>1 DEF BaseInv, Asked
  <1>6. "call" \in Objs /\ "loop" \in Objs /\ "loop" # "call" /\ ANY # INTERRUPT
    BY IpcAssumption DEF Objs
  <1> QED BY <1>1, <1>2, <1>3, <1>4, <1>5, <1>6

\* It finds a counted interrupt.
LEMMA TopIntr ==
  ASSUME SafeIpc, NEW p, TopOfLoop(p), GotIntr(p, "loop", ANY)
  PROVE  SafeInv' /\ Links(sendings, next_ready)'
  <1>1. /\ p \in Procs /\ status[p] = "RUNNING" /\ "call" \in Objs /\ "loop" \in Objs /\ BaseInv
        /\ \A X \in Procs : ~Awaits(p, X)
        /\ \A d \in Procs : p \notin Senders(d)
        /\ p \in DiskServers => ~irq[p]
        /\ INTERRUPT \notin Senders(p) /\ Sound(p)
    BY TopFacts
  <1>2. /\ intr_cnt[p] # 0 /\ \A z \in Procs : status'[z] = status[z]
        /\ obj'[p]["loop"].type = "INTR" /\ obj'[p]["call"] = obj[p]["call"]
        /\ \A z \in Procs \ {p} : obj'[z]["loop"] = obj[z]["loop"] /\ obj'[z]["call"] = obj[z]["call"]
        /\ \A z \in Procs \ {p} : intr_cnt'[z] = intr_cnt[z]
        /\ UNCHANGED <<sendings, next_ready>> /\ message' = message
    BY <1>1, IpcTypes DEF GotIntr, OthersSame
  <1>3. pc' = [pc EXCEPT ![p] = "handle"] /\ tgt' = tgt /\ irq' = irq /\ pc'[p] = "handle"
    BY <1>1, IpcTypes DEF TopOfLoop, ReceiveStep
  <1>4. \A z \in Procs \ {p} : SameView(z)
    BY <1>1, <1>2, <1>3, IpcTypes DEF SameView, SameStatus
  <1>5. \A z \in Procs : Senders(z)' = Senders(z)
    BY <1>2, SendersKept
  <1>6. p \in NetServers /\ p \in Servers /\ p \notin Clients
    BY <1>1, <1>2, ProcSets DEF Sound, Placed, TopOfLoop
  <1>7. Placed(p)'
    BY <1>1, <1>2, <1>3, <1>6 DEF Sound, Placed
  <1>8. Answered(p)' /\ NothingMissed(p)' /\ (p \in DiskServers => DiskOwes(p)')
    BY <1>1, <1>2, <1>3 DEF Answered, NothingMissed, DiskOwes
  <1>9. MovesAlone(p)
    BY <1>1, <1>2, <1>4, <1>5, <1>7, <1>8 DEF MovesAlone
  <1> QED BY <1>1, <1>2, <1>9, AloneSafe, LinksKept

\* It finds nothing.
LEMMA TopWaits ==
  ASSUME SafeIpc, NEW p, TopOfLoop(p), Waits(p, "loop", ANY)
  PROVE  SafeInv' /\ Links(sendings, next_ready)'
  <1>1. /\ p \in Procs /\ status[p] = "RUNNING"
        /\ "call" \in Objs /\ "loop" \in Objs /\ "loop" # "call" /\ BaseInv
        /\ \A X \in Procs : ~Awaits(p, X)
        /\ \A d \in Procs : p \notin Senders(d)
        /\ p \in DiskServers => ~irq[p]
        /\ INTERRUPT \notin Senders(p) /\ Sound(p)
        /\ obj[p]["loop"].type # "REQ"
    BY TopFacts
  <1>2. p \in Servers /\ p \notin Clients /\ ReceiveStep(p, "loop", ANY, "handle")
    BY ProcSets DEF TopOfLoop
  <1>3. /\ \A z \in Procs \ {p} : SameView(z)
        /\ status'[p] = "WAITING_MSG" /\ pc'[p] = "handle" /\ tgt' = tgt /\ irq' = irq
        /\ obj'[p]["loop"] = [type |-> obj[p]["loop"].type, ctx |-> obj[p]["loop"].ctx, dest |-> ANY]
        /\ obj'[p]["call"] = obj[p]["call"]
        /\ message'[p] = "loop" /\ intr_cnt' = intr_cnt
        /\ \A z \in Procs : Senders(z)' = Senders(z)
        /\ Senders(p) = {} /\ intr_cnt[p] = 0
        /\ Links(sendings, next_ready)'
    BY <1>1, <1>2, WaitsView
  <1>4. Wants(p)' = ANY /\ obj'[p]["loop"].type = obj[p]["loop"].type
    BY <1>3 DEF Wants
  <1>5. AwaitsAny(p)'
    BY <1>1, <1>2, <1>3, <1>4 DEF AwaitsAny
  <1>6. Placed(p)'
    BY <1>1, <1>2, <1>3, <1>4, <1>5 DEF Sound, Placed
  <1>7. Answered(p)' /\ NothingMissed(p)' /\ (p \in DiskServers => DiskOwes(p)')
    BY <1>1, <1>3, <1>4 DEF Answered, NothingMissed, DiskOwes
  <1>8. MovesAlone(p)
    BY <1>1, <1>3, <1>4, <1>6, <1>7 DEF MovesAlone
  <1> QED BY <1>1, <1>3, <1>8, AloneSafe

\* It takes the message at the head of its queue, a request or a post.
LEMMA TopTaken ==
  ASSUME SafeIpc, NEW p, TopOfLoop(p), GotHead(p, "loop", ANY)
  PROVE  SafeInv' /\ Links(sendings, next_ready)'
  <1>1. /\ p \in Procs /\ status[p] = "RUNNING"
        /\ "call" \in Objs /\ "loop" \in Objs /\ "loop" # "call" /\ BaseInv
        /\ \A X \in Procs : ~Awaits(p, X)
        /\ \A d \in Procs : p \notin Senders(d)
        /\ p \in DiskServers => ~irq[p]
        /\ INTERRUPT \notin Senders(p)
        /\ \A z \in Procs : Sound(z)
        /\ \A x \in Senders(p) : ~Replying(x, p)
        /\ \A z \in Procs : obj[z]["loop"].type = "REQ" => obj[z]["loop"].dest # p
    BY TopFacts
  <1>2. p \in Servers /\ p \notin Clients /\ ReceiveStep(p, "loop", ANY, "handle")
    BY ProcSets DEF TopOfLoop
  <1>3. PICK h : h = sendings[p]
    OBVIOUS
  <1>4. /\ h \in Nodes /\ Took(p, "loop", h, h) /\ h \in Senders(p) /\ Senders(p)' = Senders(p) \ {h}
        /\ Links(sendings, next_ready)' /\ (h # p => TakenView(p, h, h))
    BY <1>1, <1>2, <1>3, HeadView
  <1>5. h # p /\ h # INTERRUPT /\ h \in Procs /\ Sound(h) /\ message[h] \in Objs
    BY <1>1, <1>4, IpcTypes DEF Nodes
  <1>6. /\ status'[p] = "RUNNING" /\ pc'[p] = "handle" /\ tgt' = tgt /\ irq' = irq
        /\ message' = message /\ intr_cnt' = intr_cnt
        /\ obj'[p]["loop"] = [type |-> Offered(h).type, ctx |-> Offered(h).ctx, dest |-> h]
        /\ obj'[p]["call"] = obj[p]["call"]
        /\ Nudged(h)
    BY <1>1, <1>2, <1>4, <1>5, TookView
  <1>7. h \in Clients \cup Servers /\ (Asking(h, p) \/ Posting(h, p)) /\ Queued(h, p)
    BY <1>1, <1>4, <1>5 DEF Sound, Queued
  <1>8. /\ message[h] = "call" /\ obj[h]["call"].type \in {"REQ", "POST"}
        /\ Offered(h) = obj[h]["call"]
    BY <1>5, <1>7 DEF Asking, Posting, Offered
  <1>9. obj'[p]["loop"].type \in {"REQ", "POST"} /\ obj'[p]["loop"].dest = h
        /\ obj'[p]["loop"].type = obj[h]["call"].type /\ obj'[p]["loop"].ctx = obj[h]["call"].ctx
    BY <1>6, <1>8
  <1>10. Placed(p)' /\ Answered(p)' /\ (p \in DiskServers => DiskOwes(p)')
    BY <1>1, <1>2, <1>6, <1>9 DEF Sound, Placed, Answered, DiskOwes
  <1>11. h \notin Senders(p)'
    BY <1>4
  <1>12. ASSUME Asking(h, p) PROVE Awaits(h, p)'
    <2>1. CASE status[h] = "SENDING_MSG"
      BY <1>6, <1>12, <2>1 DEF Asking, Awaits, Nudged, Runnable
    <2>2. CASE status[h] # "SENDING_MSG"
      <3>1. Awaits(h, p)
        BY <1>12, <2>2 DEF Asking
      <3> QED BY <1>5, <1>6, <3>1, NudgedFacts
    <2> QED BY <2>1, <2>2
  <1>13. Serving(p)'
    <2>1. CASE Asking(h, p)
      <3>1. Awaits(h, p)' /\ obj'[p]["loop"].ctx = h
        BY <1>9, <1>12, <2>1 DEF Asking
      <3> QED BY <1>2, <1>7, <1>9, <1>11, <3>1 DEF Serving
    <2>2. CASE Posting(h, p)
      BY <1>9, <2>2 DEF Serving, Posting
    <2> QED BY <1>7, <2>1, <2>2
  <1>14. Placed(h)' /\ Answered(h)'
    <2>1. CASE status[h] = "SENDING_MSG"
      <3>1. pc[h] \in {"idle", "recv", "nestedRecv"} /\ (pc[h] = "idle" => Posting(h, p))
        BY <1>7, <2>1 DEF Asking, Posting, Awaits, Runnable
      <3> QED BY <1>5, <1>6, <2>1, <3>1 DEF Sound, Placed, Answered, Nudged, Posting
    <2>2. CASE status[h] # "SENDING_MSG"
      <3>1. SameView(h)
        BY <1>5, <1>6, <2>2, NudgedFacts
      <3> QED BY <1>5, <3>1, ViewKept DEF Sound
    <2> QED BY <2>1, <2>2
  <1>15. TakenWell(p, h)
    BY <1>1, <1>4, <1>10, <1>11, <1>13, <1>14 DEF TakenWell
  <1> QED BY <1>1, <1>4, <1>5, <1>15, TakenSafe

\* So every receive of a server loop keeps the invariant.
LEMMA TopSafe ==
  ASSUME SafeIpc, NEW p, TopOfLoop(p)
  PROVE  SafeInv' /\ Links(sendings, next_ready)'
  <1>1. ~GotBehind(p, "loop", ANY)
    BY DEF GotBehind
  <1> QED BY <1>1, TopIntr, TopTaken, TopWaits DEF TopOfLoop, ReceiveStep

\* The disk driver waits for the disk.
AtDisk(p) == p \in Servers /\ pc[p] = "diskWait" /\ ReceiveStep(p, "call", INTERRUPT, "finish")

\* What is known of it.
LEMMA DiskFacts ==
  ASSUME SafeIpc, NEW p, AtDisk(p)
  PROVE  /\ p \in Procs /\ p \in DiskServers /\ p \in Servers /\ p \notin Clients
         /\ status[p] = "RUNNING" /\ INTERRUPT \in Nodes /\ INTERRUPT # ANY /\ INTERRUPT \notin Procs
         /\ "call" \in Objs /\ "loop" \in Objs /\ "loop" # "call" /\ BaseInv
         /\ \A X \in Procs : ~Awaits(p, X)
         /\ \A d \in Procs : p \notin Senders(d)
         /\ \A z \in Procs : Sound(z)
         /\ \A x \in Senders(p) : ~Replying(x, p)
         /\ \A z \in Procs : obj[z]["loop"].type = "REQ" => obj[z]["loop"].dest # p
  <1>1. p \in Procs /\ p = cur_proc /\ pc[p] = "diskWait" /\ BaseInv /\ SafeInv
        /\ p \in Servers /\ p \notin Clients
    BY ProcSets DEF AtDisk, ReceiveStep, SafeIpc
  <1>2. status[p] = "RUNNING" /\ status[p] \in Runnable
    BY <1>1, IpcTypes DEF Runnable
  <1>3. (\A X \in Procs : ~Awaits(p, X)) /\ (\A d \in Procs : p \notin Senders(d))
    BY <1>1, <1>2, Alone
  <1>4. \A z \in Procs : Sound(z)
    BY <1>1, SoundAll
  <1>5. p \in DiskServers
    BY <1>1, <1>4 DEF Sound, Placed
  <1>6. \A x \in Senders(p) : ~Replying(x, p)
    BY <1>3, ProcSets DEF Replying
  <1>7. \A z \in Procs : obj[z]["loop"].type = "REQ" => obj[z]["loop"].dest # p
    BY <1>3, <1>4 DEF Sound, Serving
  <1>8. /\ "call" \in Objs /\ "loop" \in Objs /\ "loop" # "call"
        /\ INTERRUPT \in Nodes /\ INTERRUPT # ANY /\ INTERRUPT \notin Procs
    BY IpcAssumption, NullApart DEF Objs
  <1> QED BY <1>1, <1>2, <1>3, <1>4, <1>5, <1>6, <1>7, <1>8

\* The disk has not answered yet.
LEMMA DiskWaits ==
  ASSUME SafeIpc, NEW p, AtDisk(p), Waits(p, "call", INTERRUPT)
  PROVE  SafeInv' /\ Links(sendings, next_ready)'
  <1>1. /\ p \in Procs /\ p \in DiskServers /\ p \in Servers /\ p \notin Clients
        /\ INTERRUPT # ANY
        /\ "call" \in Objs /\ "loop" \in Objs /\ "loop" # "call" /\ BaseInv
        /\ \A X \in Procs : ~Awaits(p, X)
        /\ \A d \in Procs : p \notin Senders(d)
        /\ Sound(p)
    BY DiskFacts
  <1>2. pc[p] = "diskWait" /\ ReceiveStep(p, "call", INTERRUPT, "finish")
    BY DEF AtDisk
  <1>3. /\ \A z \in Procs \ {p} : SameView(z)
        /\ status'[p] = "WAITING_MSG" /\ pc'[p] = "finish" /\ tgt' = tgt /\ irq' = irq
        /\ obj'[p]["call"] = [type |-> obj[p]["call"].type, ctx |-> obj[p]["call"].ctx, dest |-> INTERRUPT]
        /\ obj'[p]["loop"] = obj[p]["loop"]
        /\ message'[p] = "call" /\ intr_cnt' = intr_cnt
        /\ \A z \in Procs : Senders(z)' = Senders(z)
        /\ INTERRUPT \notin Senders(p)
        /\ Links(sendings, next_ready)'
    BY <1>1, <1>2, WaitsView
  <1>4. irq[p] /\ Wants(p)' = INTERRUPT
    BY <1>1, <1>2, <1>3 DEF Sound, DiskOwes, Wants
  <1>5. AwaitsDisk(p)'
    BY <1>1, <1>3, <1>4 DEF AwaitsDisk
  <1>6. Placed(p)'
    BY <1>1, <1>3, <1>5 DEF Sound, Placed
  <1>7. Answered(p)' /\ NothingMissed(p)' /\ DiskOwes(p)'
    BY <1>1, <1>3, <1>4, <1>5 DEF Answered, NothingMissed, DiskOwes, Runnable
  <1>8. MovesAlone(p)
    BY <1>1, <1>3, <1>6, <1>7 DEF MovesAlone
  <1> QED BY <1>1, <1>3, <1>8, AloneSafe

\* The driver has taken the answer off its queue, and node n, the answer or
\* the request in front of it, was woken.
LEMMA DiskTaken ==
  ASSUME SafeIpc, NEW p, AtDisk(p), NEW n \in Nodes, Took(p, "call", INTERRUPT, n),
         n \in Senders(p), INTERRUPT \in Senders(p), Senders(p)' = Senders(p) \ {INTERRUPT},
         \A z \in Procs \ {p} : Senders(z)' = Senders(z)
  PROVE  SafeInv'
  <1>1. /\ p \in Procs /\ p \in DiskServers /\ p \in Servers /\ p \notin Clients
        /\ INTERRUPT \in Nodes /\ INTERRUPT \notin Procs
        /\ "call" \in Objs /\ "loop" \in Objs /\ "loop" # "call" /\ BaseInv
        /\ \A X \in Procs : ~Awaits(p, X)
        /\ \A d \in Procs : p \notin Senders(d)
        /\ \A z \in Procs : Sound(z)
        /\ \A x \in Senders(p) : ~Replying(x, p)
        /\ \A z \in Procs : obj[z]["loop"].type = "REQ" => obj[z]["loop"].dest # p
    BY DiskFacts
  <1>2. pc[p] = "diskWait" /\ ReceiveStep(p, "call", INTERRUPT, "finish")
    BY DEF AtDisk
  <1>3. n # p
    BY <1>1
  <1>4. /\ \A z \in Procs \ {p, n} : SameView(z)
        /\ n \in Procs => Nudged(n)
        /\ status'[p] = "RUNNING"
        /\ pc'[p] = "finish" /\ tgt' = tgt /\ irq' = irq /\ message' = message /\ intr_cnt' = intr_cnt
        /\ obj'[p]["call"] = [type |-> Offered(INTERRUPT).type, ctx |-> Offered(INTERRUPT).ctx, dest |-> n]
        /\ obj'[p]["loop"] = obj[p]["loop"]
    BY <1>1, <1>2, <1>3, TookView
  <1>5. obj'[p]["call"].type = "IRQ"
    BY <1>4 DEF Offered, NoMsg
  <1>6. ~irq[p]
    BY <1>1 DEF Sound, Queued
  <1>7. TakenView(p, INTERRUPT, n)
    BY <1>3, <1>4 DEF TakenView
  <1>8. Placed(p)' /\ Answered(p)' /\ DiskOwes(p)'
    BY <1>1, <1>2, <1>4, <1>5, <1>6 DEF Sound, Placed, Answered, DiskOwes
  <1>9. ASSUME NEW m \in Procs, Awaits(m, p) PROVE Awaits(m, p)'
    <2>1. m # p /\ message[m] \in Objs
      BY <1>1, <1>9, IpcTypes
    <2>2. m # n => SameView(m)
      BY <1>4, <2>1
    <2> QED BY <1>4, <1>9, <2>1, <2>2, NudgedFacts, ViewKept
  <1>10. Serving(p)'
    BY <1>1, <1>4, <1>9, ServingKept DEF Sound
  <1>11. ASSUME n \in Procs PROVE Placed(n)' /\ Answered(n)' /\ Queued(n, p)'
    <2>1. Sound(n) /\ Queued(n, p) /\ Nudged(n) /\ message[n] \in Objs /\ n # INTERRUPT
      BY <1>1, <1>4, <1>11, IpcTypes DEF Sound
    <2>2. n \in Clients \cup Servers /\ Asking(n, p)
      <3>1. n \in Clients \cup Servers /\ (Asking(n, p) \/ Posting(n, p))
        BY <1>1, <2>1 DEF Queued
      <3>2. ~Posting(n, p)
        BY <1>1 DEF SafeIpc, Layered, Posting
      <3> QED BY <3>1, <3>2
    <2>3. CASE status[n] = "SENDING_MSG"
      <3>1. pc[n] \in {"recv", "nestedRecv"} /\ status'[n] = "READY"
        BY <2>1, <2>2, <2>3 DEF Asking, Awaits, Runnable, Nudged
      <3>2. Awaits(n, p)'
        BY <2>1, <2>2, <3>1 DEF Asking, Awaits, Nudged, Runnable
      <3>3. Asking(n, p)'
        BY <1>1, <2>1, <2>2, <3>2 DEF Asking, Nudged
      <3>4. Placed(n)' /\ Answered(n)'
        BY <2>1, <3>1 DEF Sound, Placed, Answered, Nudged
      <3> QED BY <2>1, <2>2, <3>3, <3>4 DEF Queued
    <2>4. CASE status[n] # "SENDING_MSG"
      <3>1. SameView(n)
        BY <1>11, <2>1, <2>4, NudgedFacts
      <3>2. Asking(n, p)' /\ Placed(n)' /\ Answered(n)'
        BY <1>11, <2>1, <2>2, <3>1, ViewKept DEF Sound
      <3> QED BY <2>1, <2>2, <3>2 DEF Queued
    <2> QED BY <2>3, <2>4
  <1>12. TakenWell(p, n)
    BY <1>1, <1>8, <1>10, <1>11 DEF TakenWell
  <1> QED BY <1>1, <1>7, <1>12, TakenSafe

\* So every receive of the driver keeps the invariant.
LEMMA DiskSafe ==
  ASSUME SafeIpc, NEW p, AtDisk(p)
  PROVE  SafeInv' /\ Links(sendings, next_ready)'
  <1>1. p \in Procs /\ INTERRUPT \in Nodes /\ INTERRUPT # ANY /\ "call" \in Objs
    BY DiskFacts
  <1>2. ReceiveStep(p, "call", INTERRUPT, "finish")
    BY DEF AtDisk
  <1>3. CASE GotHead(p, "call", INTERRUPT)
    <2>1. PICK h : h = sendings[p]
      OBVIOUS
    <2>2. h = INTERRUPT
      BY <1>1, <1>3, <2>1 DEF GotHead
    <2>3. /\ Took(p, "call", INTERRUPT, INTERRUPT) /\ INTERRUPT \in Senders(p)
          /\ Senders(p)' = Senders(p) \ {INTERRUPT}
          /\ \A z \in Procs \ {p} : Senders(z)' = Senders(z)
          /\ Links(sendings, next_ready)'
      BY <1>1, <1>2, <1>3, <2>1, <2>2, HeadView
    <2> QED BY <1>1, <2>3, DiskTaken
  <1>4. CASE GotBehind(p, "call", INTERRUPT)
    <2>1. PICK n : n = Before(p, INTERRUPT)
      OBVIOUS
    <2>2. /\ n \in Nodes /\ Took(p, "call", INTERRUPT, n)
          /\ n \in Senders(p) /\ INTERRUPT \in Senders(p)
          /\ Senders(p)' = Senders(p) \ {INTERRUPT}
          /\ \A z \in Procs \ {p} : Senders(z)' = Senders(z)
          /\ Links(sendings, next_ready)'
      BY <1>1, <1>2, <1>4, <2>1, BehindView
    <2> QED BY <2>2, DiskTaken
  <1>5. CASE Waits(p, "call", INTERRUPT)
    BY <1>5, DiskWaits
  <1>6. ~GotIntr(p, "call", INTERRUPT)
    BY <1>1 DEF GotIntr
  <1> QED BY <1>2, <1>3, <1>4, <1>5, <1>6 DEF ReceiveStep

\* The running process p, outside a call, goes on without a message.
Continues(p, label) ==
  /\ p \in Servers /\ p = cur_proc /\ pc[p] \in {"handle", "finish"}
  /\ pc' = [pc EXCEPT ![p] = label]
  /\ (\A q \in Procs : status'[q] = status[q]) /\ UNCHANGED <<ipcVars, tgt>>

\* The others are left alone.
LEMMA ContinuesView ==
  ASSUME SafeIpc, NEW p, NEW label, Continues(p, label), \A z \in DiskServers \ {p} : irq'[z] = irq[z]
  PROVE  /\ p \in Procs /\ p \notin Clients /\ status'[p] = "RUNNING" /\ pc'[p] = label
         /\ \A z \in Procs \ {p} : SameView(z)
         /\ \A z \in Procs : Senders(z)' = Senders(z)
         /\ obj' = obj /\ message' = message /\ intr_cnt' = intr_cnt /\ tgt' = tgt
         /\ \A X \in Procs : ~Awaits(p, X)
         /\ \A d \in Procs : p \notin Senders(d)
         /\ p \in DiskServers => ~irq[p]
         /\ INTERRUPT \notin Senders(p)
         /\ Sound(p) /\ Links(sendings, next_ready)'
  <1>1. /\ p \in Procs /\ p \notin Clients /\ p = cur_proc /\ BaseInv
        /\ pc[p] \in {"idle", "loop", "handle", "finish"}
    BY ProcSets DEF Continues, SafeIpc
  <1>2. /\ status[p] = "RUNNING"
        /\ \A X \in Procs : ~Awaits(p, X)
        /\ \A d \in Procs : p \notin Senders(d)
        /\ p \in DiskServers => ~irq[p]
        /\ INTERRUPT \notin Senders(p)
        /\ Sound(p)
    BY <1>1, RunningFacts
  <1>3. /\ obj' = obj /\ message' = message /\ intr_cnt' = intr_cnt /\ tgt' = tgt
        /\ pc' = [pc EXCEPT ![p] = label] /\ \A z \in Procs : status'[z] = status[z]
        /\ UNCHANGED <<sendings, next_ready>>
    BY DEF Continues, ipcVars
  <1>4. pc'[p] = label /\ \A z \in Procs \ {p} : SameView(z)
    BY <1>1, <1>3, IpcTypes DEF SameView, SameStatus
  <1>5. Links(sendings, next_ready)' /\ \A z \in Procs : Senders(z)' = Senders(z)
    BY <1>3, SendersKept, LinksKept
  <1> QED BY <1>1, <1>2, <1>3, <1>4, <1>5

\* The driver commands the disk.
LEMMA CommandSafe ==
  ASSUME SafeIpc, NEW p \in DiskServers, DidDiskCommand(p)
  PROVE  SafeInv' /\ Links(sendings, next_ready)'
  <1>1. Continues(p, "diskWait") /\ irq' = [irq EXCEPT ![p] = TRUE]
    BY ProcSets DEF DidDiskCommand, Continues
  <1>2. irq'[p] = TRUE /\ \A z \in DiskServers \ {p} : irq'[z] = irq[z]
    BY <1>1, IpcTypes DEF SafeIpc
  <1>3. /\ p \in Procs /\ p \notin Clients /\ status'[p] = "RUNNING" /\ pc'[p] = "diskWait"
        /\ \A z \in Procs \ {p} : SameView(z)
        /\ \A z \in Procs : Senders(z)' = Senders(z)
        /\ obj' = obj /\ message' = message /\ intr_cnt' = intr_cnt /\ tgt' = tgt
        /\ \A X \in Procs : ~Awaits(p, X)
        /\ \A d \in Procs : p \notin Senders(d)
        /\ INTERRUPT \notin Senders(p)
        /\ Sound(p) /\ Links(sendings, next_ready)'
    BY <1>1, <1>2, ContinuesView
  <1>4. Placed(p)' /\ Answered(p)' /\ NothingMissed(p)' /\ DiskOwes(p)'
    BY <1>2, <1>3 DEF Sound, Placed, Answered, NothingMissed, DiskOwes, Runnable
  <1>5. MovesAlone(p)
    BY <1>3, <1>4 DEF MovesAlone
  <1> QED BY <1>3, <1>5, AloneSafe

\* A server forgets an interrupt or a post.
LEMMA ForgetSafe ==
  ASSUME SafeIpc, NEW p \in Servers, DidForget(p)
  PROVE  SafeInv' /\ Links(sendings, next_ready)'
  <1>1. Continues(p, "loop") /\ irq' = irq
    BY DEF DidForget, Continues
  <1>2. /\ p \in Procs /\ p \notin Clients /\ status'[p] = "RUNNING" /\ pc'[p] = "loop"
        /\ \A z \in Procs \ {p} : SameView(z)
        /\ \A z \in Procs : Senders(z)' = Senders(z)
        /\ obj' = obj /\ message' = message /\ intr_cnt' = intr_cnt /\ tgt' = tgt
        /\ \A X \in Procs : ~Awaits(p, X)
        /\ \A d \in Procs : p \notin Senders(d)
        /\ p \in DiskServers => ~irq[p]
        /\ INTERRUPT \notin Senders(p)
        /\ Sound(p) /\ Links(sendings, next_ready)'
    BY <1>1, ContinuesView
  <1>3. Placed(p)' /\ Answered(p)' /\ NothingMissed(p)' /\ (p \in DiskServers => DiskOwes(p)')
    BY <1>1, <1>2 DEF Sound, Placed, Answered, NothingMissed, DiskOwes
  <1>4. MovesAlone(p)
    BY <1>2, <1>3 DEF MovesAlone
  <1> QED BY <1>2, <1>4, AloneSafe

\* Another process gets the CPU, or none.
LEMMA TickSafe ==
  ASSUME SafeIpc, Ticked
  PROVE  SafeInv' /\ Links(sendings, next_ready)'
  <1>1. UNCHANGED <<sendings, next_ready>> /\ BaseInv /\ SafeInv
    BY DEF Ticked, ipcVars, SafeIpc
  <1>2. \A z \in Procs : SameView(z)
    BY DEF Ticked, ipcVars, SameView
  <1>3. \A z \in Procs : Senders(z)' = Senders(z) /\ Senders(z) \subseteq Nodes
    BY <1>1, SendersKept, QueueFacts
  <1>4. PICK C \in SUBSET Procs : C = {}
    OBVIOUS
  <1>5. SafeInv'
    BY <1>1, <1>2, <1>3, <1>4, FrameLemma
  <1> QED BY <1>1, <1>5, LinksKept

\* The network card interrupts: a server that waits for anyone goes on.
LEMMA NetIrqSafe ==
  ASSUME SafeIpc, NEW d \in NetServers, DidNetIrq(d)
  PROVE  SafeInv' /\ Links(sendings, next_ready)'
  <1>1. /\ d \in Procs /\ d \in Servers /\ d \notin Clients /\ BaseInv /\ SafeInv
        /\ "call" \in Objs /\ "loop" \in Objs /\ "loop" # "call"
    BY ProcSets DEF SafeIpc, Objs
  <1>2. /\ pc' = pc /\ tgt' = tgt /\ irq' = irq /\ message' = message
        /\ UNCHANGED <<sendings, next_ready>>
        /\ \A z \in Procs \ {d} : intr_cnt'[z] = intr_cnt[z]
    BY <1>1, IpcTypes DEF DidNetIrq, NetCounted
  <1>3. \A z \in Procs : Senders(z)' = Senders(z)
    BY <1>2, SendersKept
  <1>4. /\ \A z \in Procs : Sound(z)
        /\ message[d] \in Objs
    BY <1>1, SoundAll, IpcTypes
  <1>5. CASE status[d] = "WAITING_MSG" /\ Wants(d) = ANY
    <2>1. AwaitsAny(d)
      <3>1. ~AwaitsDisk(d) /\ \A X \in Servers : ~Awaits(d, X)
        BY <1>5, ProcSets, IpcAssumption DEF AwaitsDisk, Awaits, Runnable
      <3> QED BY <1>1, <1>4, <1>5, <3>1 DEF Sound, Placed
    <2>2. message[d] = "loop" /\ pc[d] = "handle"
      BY <2>1 DEF AwaitsAny
    <2>3. /\ status'[d] = "READY" /\ \A z \in Procs \ {d} : status'[z] = status[z]
          /\ obj'[d]["loop"].type = "INTR" /\ obj'[d]["call"] = obj[d]["call"]
          /\ \A z \in Procs \ {d} : obj'[z]["loop"] = obj[z]["loop"] /\ obj'[z]["call"] = obj[z]["call"]
      BY <1>1, <1>5, <2>2 DEF DidNetIrq, NetCounted, Woken, OthersSame
    <2>4. \A z \in Procs \ {d} : SameView(z)
      BY <1>2, <2>3 DEF SameView, SameStatus
    <2>5. (\A X \in Procs : ~Awaits(d, X)) /\ (\A z \in Procs : d \notin Senders(z))
      BY <1>1, <2>1, Alone
    <2>6. Placed(d)' /\ Answered(d)' /\ NothingMissed(d)'
      BY <1>1, <1>2, <1>4, <2>2, <2>3 DEF Sound, Placed, Answered, NothingMissed
    <2>7. d \in DiskServers => ~irq[d]
      BY <1>1, <1>4, <1>5, <2>2, IpcAssumption DEF Sound, DiskOwes, AwaitsDisk
    <2>8. (d \in DiskServers => DiskOwes(d)') /\ INTERRUPT \notin Senders(d)
      BY <1>1, <1>2, <1>4, <2>2, <2>7 DEF DiskOwes, Sound, Queued
    <2>9. MovesAlone(d)
      BY <1>1, <1>3, <2>3, <2>4, <2>5, <2>6, <2>8 DEF MovesAlone
    <2> QED BY <1>1, <1>2, <2>9, AloneSafe, LinksKept
  <1>6. CASE ~(status[d] = "WAITING_MSG" /\ Wants(d) = ANY)
    <2>1. obj' = obj /\ \A z \in Procs : status'[z] = status[z]
      BY <1>6 DEF DidNetIrq, NetCounted
    <2>2. \A z \in Procs \ {d} : SameView(z)
      BY <1>2, <2>1 DEF SameView, SameStatus
    <2>3. Wants(d)' = Wants(d)
      BY <1>2, <2>1 DEF Wants
    <2>4. \A X : Awaits(d, X)' <=> Awaits(d, X)
      BY <1>1, <1>2, <2>1, <2>3 DEF Awaits
    <2>5. (AwaitsDisk(d)' <=> AwaitsDisk(d)) /\ (AwaitsAny(d)' <=> AwaitsAny(d))
      BY <1>1, <1>2, <2>1, <2>3 DEF AwaitsDisk, AwaitsAny
    <2>6. Placed(d)' /\ Answered(d)' /\ NothingMissed(d)' /\ (d \in DiskServers => DiskOwes(d)')
      BY <1>1, <1>2, <1>3, <1>4, <1>6, <2>1, <2>3, <2>4, <2>5
         DEF Sound, Placed, Answered, NothingMissed, DiskOwes
    <2>7. ASSUME NEW z \in Procs, d \in Senders(z) PROVE Queued(d, z)'
      <3>1. Queued(d, z) /\ d # INTERRUPT
        BY <1>1, <1>4, <2>7, NullApart DEF Sound
      <3>2. d \in Clients \cup Servers /\ (Asking(d, z) \/ Posting(d, z) \/ Replying(d, z))
        BY <3>1 DEF Queued
      <3>3. Asking(d, z) => Asking(d, z)'
        BY <1>1, <1>2, <2>1, <2>4 DEF Asking
      <3>4. Posting(d, z) => Posting(d, z)'
        BY <1>1, <1>2, <2>1 DEF Posting
      <3>5. ASSUME Replying(d, z) PROVE Replying(d, z)'
        <4>1. z # d
          BY <1>1, <3>5, ProcSets DEF Replying, Awaits, SafeIpc, Layered
        <4>2. Awaits(z, d)'
          BY <1>1, <2>2, <3>5, <4>1, ViewKept, IpcTypes DEF Replying
        <4> QED BY <1>1, <1>2, <1>3, <2>1, <3>5, <4>2 DEF Replying
      <3> QED BY <3>1, <3>2, <3>3, <3>4, <3>5 DEF Queued
    <2>8. INTERRUPT \in Senders(d) => Queued(INTERRUPT, d)'
      BY <1>1, <1>2, <1>4 DEF Sound, Queued
    <2>9. MovesAlone(d)
      BY <1>1, <1>3, <2>1, <2>2, <2>4, <2>6, <2>7, <2>8 DEF MovesAlone
    <2> QED BY <1>1, <1>2, <2>9, AloneSafe, LinksKept
  <1> QED BY <1>5, <1>6

\* The disk answers the driver that waits for it.
LEMMA IrqDeliveredSafe ==
  ASSUME SafeIpc, NEW d \in DiskServers, DidDiskIrq(d), IrqDelivered(d)
  PROVE  SafeInv' /\ Links(sendings, next_ready)'
  <1>1. /\ d \in Procs /\ d \in Servers /\ d \notin Clients /\ BaseInv /\ SafeInv
        /\ "call" \in Objs /\ "loop" \in Objs /\ "loop" # "call"
    BY ProcSets DEF SafeIpc, Objs
  <1>2. \A z \in Procs : Sound(z)
    BY <1>1, SoundAll
  <1>3. irq[d] /\ status[d] = "WAITING_MSG"
    BY DEF DidDiskIrq, IrqDelivered, IsWaiting
  <1>4. AwaitsDisk(d)
    BY <1>1, <1>2, <1>3 DEF Sound, DiskOwes, Placed, Runnable
  <1>5. message[d] = "call" /\ pc[d] = "finish"
    BY <1>4 DEF AwaitsDisk
  <1>6. /\ status'[d] = "READY" /\ \A z \in Procs \ {d} : status'[z] = status[z]
        /\ obj'[d]["call"].type = "IRQ" /\ obj'[d]["loop"] = obj[d]["loop"]
        /\ \A z \in Procs \ {d} : obj'[z]["loop"] = obj[z]["loop"] /\ obj'[z]["call"] = obj[z]["call"]
        /\ message' = message /\ intr_cnt' = intr_cnt /\ UNCHANGED <<sendings, next_ready>>
    BY <1>1, <1>5 DEF IrqDelivered, Woken, OthersSame
  <1>7. /\ pc' = pc /\ tgt' = tgt
        /\ irq'[d] = FALSE /\ \A z \in DiskServers \ {d} : irq'[z] = irq[z]
    BY <1>1, IpcTypes DEF DidDiskIrq
  <1>8. \A z \in Procs \ {d} : SameView(z)
    BY <1>6, <1>7 DEF SameView, SameStatus
  <1>9. \A z \in Procs : Senders(z)' = Senders(z)
    BY <1>6, SendersKept
  <1>10. (\A X \in Procs : ~Awaits(d, X)) /\ (\A z \in Procs : d \notin Senders(z))
    BY <1>1, <1>4, Alone
  <1>11. Placed(d)' /\ Answered(d)' /\ NothingMissed(d)' /\ DiskOwes(d)'
    BY <1>1, <1>2, <1>5, <1>6, <1>7 DEF Sound, Placed, Answered, NothingMissed, DiskOwes
  <1>12. INTERRUPT \notin Senders(d)
    BY <1>1, <1>2, <1>5 DEF Sound, Queued
  <1>13. MovesAlone(d)
    BY <1>1, <1>6, <1>8, <1>9, <1>10, <1>11, <1>12 DEF MovesAlone
  <1> QED BY <1>1, <1>6, <1>13, AloneSafe, LinksKept

\* The disk answers before the driver waits.
LEMMA IrqQueuedSafe ==
  ASSUME SafeIpc, NEW d \in DiskServers, DidDiskIrq(d), IrqQueued(d)
  PROVE  SafeInv' /\ Links(sendings, next_ready)'
  <1>1. /\ d \in Procs /\ d \in Servers /\ d \notin Clients /\ BaseInv /\ SafeInv /\ Layered
        /\ Links(sendings, next_ready) /\ INTERRUPT \in Nodes /\ INTERRUPT \notin Procs
    BY ProcSets, NullApart DEF SafeIpc
  <1>2. (\A z \in Procs : Sound(z)) /\ irq[d]
    BY <1>1, SoundAll DEF DidDiskIrq
  <1>3. pc[d] = "diskWait"
    <2>1. ~AwaitsDisk(d)
      BY DEF AwaitsDisk, IrqQueued, IsWaiting, Wants
    <2> QED BY <1>1, <1>2, <2>1 DEF Sound, DiskOwes
  <1>4. status[d] \in Runnable
    BY <1>1, <1>2, <1>3 DEF Sound, Placed
  <1>5. (\A X \in Procs : ~Awaits(d, X)) /\ (\A z \in Procs : d \notin Senders(z))
    BY <1>1, <1>3, <1>4, Alone
  <1>6. /\ \A z \in Procs : status'[z] = status[z]
        /\ message' = message /\ obj' = obj /\ intr_cnt' = intr_cnt /\ pc' = pc /\ tgt' = tgt
        /\ next_ready' = [next_ready EXCEPT ![INTERRUPT] = sendings[d]]
        /\ sendings' = [sendings EXCEPT ![d] = INTERRUPT]
    BY DEF IrqQueued, DidDiskIrq
  <1>7. irq'[d] = FALSE /\ \A z \in DiskServers \ {d} : irq'[z] = irq[z]
    BY <1>1, IpcTypes DEF DidDiskIrq
  <1>8. \A z \in Procs \ {d} : SameView(z)
    BY <1>6, <1>7 DEF SameView, SameStatus
  <1>9. OnNoQueue(sendings, next_ready, INTERRUPT)
    <2>1. ASSUME NEW z \in Procs, INTERRUPT \in Senders(z) PROVE FALSE
      <3>1. z \in DiskServers /\ ~irq[z]
        BY <1>2, <2>1 DEF Sound, Queued
      <3> QED BY <1>1, <1>2, <3>1 DEF Layered
    <2> QED BY <2>1, SendersAre DEF OnNoQueue
  <1>10. QueueBecomes(sendings, next_ready, sendings', next_ready', d,
                      Members(sendings, next_ready, d) \cup {INTERRUPT})
    <2>1. Push(sendings, next_ready, d, INTERRUPT, sendings', next_ready')
      BY <1>6 DEF Push
    <2>2. sendings \in [Procs -> Nodes \cup {NULL}] /\ next_ready \in [Nodes -> Nodes \cup {NULL}]
      BY <1>1, IpcTypes
    <2> QED BY <1>1, <1>9, <2>1, <2>2, PushLinks
  <1>11. Links(sendings, next_ready)'
    BY <1>10 DEF QueueBecomes, Links, Chains, Chain
  <1>12. /\ Senders(d)' = Senders(d) \cup {INTERRUPT}
         /\ \A z \in Procs \ {d} : Senders(z)' = Senders(z)
    BY <1>10, SendersAre DEF QueueBecomes
  <1>13. \A z \in Procs : Senders(z) \subseteq Nodes
    BY QueueFacts
  <1>14. ASSUME NEW n \in Procs, Awaits(n, d) PROVE Awaits(n, d)'
    <2>1. n # d /\ message[n] \in Objs
      BY <1>1, <1>5, <1>14, IpcTypes
    <2> QED BY <1>8, <1>14, <2>1, ViewKept
  <1>15. Sound(d)'
    <2>1. Placed(d)' /\ Answered(d)' /\ NothingMissed(d)' /\ DiskOwes(d)'
      BY <1>1, <1>2, <1>3, <1>4, <1>6, <1>7, <1>12
         DEF Sound, Placed, Answered, NothingMissed, DiskOwes, Runnable
    <2>2. Serving(d)'
      <3>1. \A n \in Procs : n \in Senders(d)' => n \in Senders(d)
        BY <1>1, <1>12
      <3> QED BY <1>1, <1>2, <1>6, <1>14, <3>1, ServingKept DEF Sound
    <2>3. ASSUME NEW x \in Senders(d)' PROVE Queued(x, d)'
      <3>1. CASE x = INTERRUPT
        BY <1>3, <1>6, <1>7, <3>1 DEF Queued
      <3>2. CASE x # INTERRUPT
        <4>1. x \in Senders(d) /\ x \in Procs /\ x # d /\ SameView(x) /\ Queued(x, d)
          BY <1>1, <1>2, <1>5, <1>8, <1>12, <1>13, <2>3, <3>2 DEF Nodes, Sound
        <4>2. message[x] \in Objs /\ ~Replying(x, d)
          BY <1>1, <1>5, <4>1, IpcTypes DEF Replying
        <4>3. Asking(x, d)' \/ Posting(x, d)'
          BY <3>2, <4>1, <4>2, ViewKept DEF Queued
        <4> QED BY <3>2, <4>1, <4>3 DEF Queued
      <3> QED BY <3>1, <3>2
    <2>4. status'[d] # "SENDING_MSG"
      BY <1>1, <1>4, <1>6 DEF Runnable
    <2> QED BY <2>1, <2>2, <2>3, <2>4 DEF Sound
  <1>16. ASSUME NEW z \in Procs \ {d}, NEW c \in {d}
         PROVE  /\ obj[z]["loop"].type = "REQ" /\ obj[z]["loop"].dest = c => Awaits(c, z)'
                /\ c \in Senders(z) => Queued(c, z)'
    <2>1. obj[z]["loop"].type = "REQ" /\ obj[z]["loop"].dest = c => Awaits(c, z)
      BY <1>2 DEF Sound, Serving
    <2> QED BY <1>5, <2>1
  <1>17. {d} \in SUBSET Procs /\ \A c \in {d} : Sound(c)' /\ \A z \in Senders(c) : z \in Senders(c)'
    <2>1. \A c \in {d} : c = d
      OBVIOUS
    <2> QED BY <1>1, <1>12, <1>15, <2>1
  <1>18. SafeInv'
    <2>1. \A z \in Procs \ {d} : SameView(z) /\ Senders(z)' = Senders(z)
      BY <1>8, <1>12
    <2> QED BY <1>1, <1>13, <1>16, <1>17, <2>1, FrameLemma
  <1> QED BY <1>11, <1>18

-----------------------------------------------------------------------------
(* The theorems for layered servers. *)

\* Layered servers start in order: no queue has anybody on it.
LEMMA SafeInit == Layered /\ Init => SafeIpc
  <1> SUFFICES ASSUME Layered, Init PROVE SafeIpc
    OBVIOUS
  <1>1. BaseInv
    BY BaseInit
  <1>2. /\ sendings = [p \in Procs |-> NULL] /\ intr_cnt = [p \in Procs |-> 0]
        /\ pc = [p \in Procs |-> IF p \in Servers THEN "loop" ELSE "idle"]
        /\ irq = [p \in DiskServers |-> FALSE]
    BY DEF Init
  <1>3. Links(sendings, next_ready)
    <2> DEFINE q == [p \in Procs |-> <<>>]
    <2>1. q \in [Procs -> Seq(Nodes)]
      OBVIOUS
    <2>2. \A p \in Procs : q[p] = <<>> /\ Len(q[p]) = 0
      OBVIOUS
    <2> HIDE DEF q
    <2>3. \A p \in Procs : Chain(sendings, next_ready, p, q[p])
      BY <1>2, <2>2 DEF Chain
    <2>4. Chains(sendings, next_ready, q)
      BY <2>1, <2>2, <2>3 DEF Chains
    <2> QED BY <2>4 DEF Links
  <1>4. \A z \in Procs : Senders(z) = {}
    BY <1>2, <1>3, LinksFacts, SendersAre
  <1>5. \A z \in Procs : obj[z]["loop"].type = "NONE" /\ obj[z]["call"].type = "NONE"
    <2>1. NoMsg.type = "NONE" /\ obj = [p \in Procs |-> [o \in {"loop", "call"} |-> NoMsg]]
      BY DEF NoMsg, Init
    <2> HIDE DEF NoMsg
    <2> QED BY <2>1
  <1>6. \A z \in Procs : status[z] \notin {"WAITING_MSG", "SENDING_MSG"}
    BY DEF Init, ProcInit
  <1>7. ASSUME NEW z \in Procs PROVE Sound(z)
    <2>1. Placed(z) /\ Answered(z)
      BY <1>2, <1>5, <1>6, <1>7, ProcSets DEF Placed, Answered
    <2>2. Serving(z) /\ NothingMissed(z) /\ (z \in DiskServers => DiskOwes(z))
      BY <1>2, <1>5, <1>6, <1>7 DEF Serving, NothingMissed, DiskOwes
    <2> QED BY <1>4, <1>6, <2>1, <2>2 DEF Sound
  <1> QED BY <1>1, <1>3, <1>7, SoundAll DEF SafeIpc

\* Every step keeps it in order.
LEMMA SafeNext == SafeIpc /\ ~ReplyBehind /\ [Next]_vars => SafeIpc'
  <1> SUFFICES ASSUME SafeIpc, ~ReplyBehind, [Next]_vars PROVE SafeIpc'
    OBVIOUS
  <1>1. BaseInv /\ BaseInv' /\ Layered /\ Layered'
    BY BaseNext DEF SafeIpc, Layered
  <1>2. ASSUME Next PROVE SafeInv' /\ Links(sendings, next_ready)'
    <2>1. Summary
      BY <1>1, <1>2, StepSummary
    <2>2. ASSUME NEW p, NEW q, NEW t, NEW label, Sends(p, q, t, label)
          PROVE  SafeInv' /\ Links(sendings, next_ready)'
      <3>1. \/ Delivered(p, "call", [type |-> t, ctx |-> p], q)
            \/ Enqueued(p, "call", [type |-> t, ctx |-> p], q)
        BY <2>2 DEF Sends, SendStep
      <3> QED BY <2>2, <3>1, SendsDelivered, SendsEnqueued
    <2>3. ASSUME NEW p, NEW X, NEW label, ReceivesReply(p, X, label)
          PROVE  SafeInv' /\ Links(sendings, next_ready)'
      <3>1. X # ANY
        BY <2>3, ReplyWaitFacts
      <3>2. GotHead(p, "call", X) \/ GotBehind(p, "call", X) \/ Waits(p, "call", X)
        BY <2>3, <3>1 DEF ReceivesReply, ReceiveStep, GotIntr
      <3> QED BY <2>3, <3>2, ReplyTaken, TakenBehind, ReplyWaits
    <2>4. ASSUME NEW p \in Clients, NEW q \in Calls[p], DidCall(p, q)
          PROVE  SafeInv' /\ Links(sendings, next_ready)'
      <3>1. Sends(p, q, "REQ", "recv")
        BY <2>4, ProcSets DEF DidCall, Sends
      <3> QED BY <2>2, <3>1
    <2>5. ASSUME NEW p \in Clients, NEW q \in Posts[p], DidPost(p, q)
          PROVE  SafeInv' /\ Links(sendings, next_ready)'
      <3>1. Sends(p, q, "POST", "idle")
        BY <2>5 DEF DidPost, Sends
      <3> QED BY <2>2, <3>1
    <2>6. ASSUME NEW p \in Servers, NEW q \in Calls[p], DidNestedCall(p, q)
          PROVE  SafeInv' /\ Links(sendings, next_ready)'
      <3>1. Sends(p, q, "REQ", "nestedRecv")
        BY <2>6, ProcSets DEF DidNestedCall, Sends
      <3> QED BY <2>2, <3>1
    <2>7. ASSUME NEW p \in Clients, pc[p] = "recv", ReceiveStep(p, "call", tgt[p], "idle")
          PROVE  SafeInv' /\ Links(sendings, next_ready)'
      <3>1. PICK X : X = tgt[p]
        OBVIOUS
      <3>2. ReceivesReply(p, X, "idle")
        BY <2>7, <3>1 DEF ReceivesReply
      <3> QED BY <2>3, <3>2
    <2>8. ASSUME NEW p \in Servers, pc[p] = "nestedRecv", ReceiveStep(p, "call", tgt[p], "finish")
          PROVE  SafeInv' /\ Links(sendings, next_ready)'
      <3>1. PICK X : X = tgt[p]
        OBVIOUS
      <3>2. ReceivesReply(p, X, "finish")
        BY <2>8, <3>1, ProcSets DEF ReceivesReply
      <3> QED BY <2>3, <3>2
    <2>9. ASSUME NEW p \in Servers, pc[p] = "loop", ReceiveStep(p, "loop", ANY, "handle")
          PROVE  SafeInv' /\ Links(sendings, next_ready)'
      BY <2>9, TopSafe DEF TopOfLoop
    <2>10. ASSUME NEW p \in Servers, pc[p] = "diskWait", ReceiveStep(p, "call", INTERRUPT, "finish")
           PROVE  SafeInv' /\ Links(sendings, next_ready)'
      BY <2>10, DiskSafe DEF AtDisk
    <2>11. ASSUME NEW p \in Servers, DidReply(p) PROVE SafeInv' /\ Links(sendings, next_ready)'
      <3>1. PICK n : n = obj[p]["loop"].dest
        OBVIOUS
      <3>2. SendStep(p, "loop", "REPLY", n, n, "loop")
        BY <2>11, <3>1, ReplyFacts
      <3>3. \/ Delivered(p, "loop", [type |-> "REPLY", ctx |-> n], n)
            \/ Enqueued(p, "loop", [type |-> "REPLY", ctx |-> n], n)
        BY <3>2 DEF SendStep
      <3> QED BY <2>11, <3>1, <3>3, ReplyDelivered, ReplyEnqueued
    <2>12. ASSUME NEW d \in DiskServers, DidDiskIrq(d) PROVE SafeInv' /\ Links(sendings, next_ready)'
      BY <2>12, IrqDeliveredSafe, IrqQueuedSafe DEF DidDiskIrq
    <2> QED BY <2>1, <2>4, <2>5, <2>6, <2>7, <2>8, <2>9, <2>10, <2>11, <2>12,
               CommandSafe, ForgetSafe, TickSafe, NetIrqSafe DEF Summary
  <1>3. ASSUME UNCHANGED vars PROVE SafeInv' /\ Links(sendings, next_ready)'
    <2>1. Ticked
      BY <1>3 DEF vars, procVars, envVars, Ticked, SameStatus
    <2> QED BY <2>1, TickSafe
  <1> QED BY <1>1, <1>2, <1>3 DEF SafeIpc

\* Where no two servers call each other and one driver waits for the disk,
\* SafeIpc holds as long as no reply is taken from behind another sender: the
\* queues are lists that end, what is on them is a request, a post, a reply or
\* the answer of the disk, and the sender of the request a server works on
\* waits for its reply.  Taking a reply from behind is the one way out.
THEOREM SafeInvariant == Layered /\ Spec /\ []~ReplyBehind => []SafeIpc
  <1>1. Layered /\ Init => SafeIpc
    BY SafeInit
  <1>2. SafeIpc /\ ~ReplyBehind /\ [Next]_vars => SafeIpc'
    BY SafeNext
  <1> QED BY <1>1, <1>2, PTL DEF Spec

\* A process that blocks in Message::send is on the queue of exactly one
\* receiver until it is woken, whoever calls whom in layers, also when the
\* disk interrupt is taken from the middle of a queue: a sender is lost only
\* where a reply is taken from behind another sender (run ipc_behind).
THEOREM SenderStaysQueued == Layered /\ Spec /\ []~ReplyBehind => []BlockedSenderIsQueued
  <1>1. ASSUME SafeIpc PROVE BlockedSenderIsQueued
    <2> SUFFICES ASSUME NEW p \in Procs, status[p] = "SENDING_MSG"
                 PROVE  \E d \in Procs : p \in Senders(d) /\ \A e \in Procs \ {d} : p \notin Senders(e)
      BY DEF BlockedSenderIsQueued
    <2>1. PICK d \in Procs : p \in Senders(d)
      BY <1>1 DEF SafeIpc, SafeInv
    <2>2. \A e \in Procs \ {d} : p \notin Senders(e)
      BY <1>1, <2>1, QueueFacts
    <2> QED BY <2>1, <2>2
  <1> QED BY <1>1, SafeInvariant, PTL

\* The queues of blocked senders have no circle, although one INTERRUPT_PCB is
\* linked into them again and again: the loops of receive() that walk them
\* with interrupts off end, as long as no reply is taken from behind.
THEOREM QueuesEnd == Layered /\ Spec /\ []~ReplyBehind => []SendingsEnd
  <1>1. ASSUME SafeIpc PROVE SendingsEnd
    <2>1. Links(sendings, next_ready)
      BY <1>1 DEF SafeIpc
    <2>2. \A p \in Procs : WalkAt(sendings, next_ready, p, Cardinality(Nodes)) = NULL
      BY <2>1, LinksFacts
    <2> QED BY <2>2, SendersAre DEF SendingsEnd
  <1> QED BY <1>1, SafeInvariant, PTL

\* No process blocks in receive() or stays blocked while what it waits for is
\* there: a queued sender, a counted interrupt, or the answer of the disk that
\* came before the driver waited for it; as long as no reply is taken from
\* behind another sender.
THEOREM NoWakeupIsMissed == Layered /\ Spec /\ []~ReplyBehind => []NoMissedWakeup
  <1>1. ASSUME SafeIpc PROVE NoMissedWakeup
    <2> SUFFICES ASSUME NEW p \in Procs, status[p] = "WAITING_MSG"
                 PROVE  /\ Wants(p) = ANY => sendings[p] = NULL /\ intr_cnt[p] = 0
                        /\ Wants(p) \notin Senders(p)
                        /\ Wants(p) = INTERRUPT => irq[p]
      BY DEF NoMissedWakeup
    <2>1. NothingMissed(p) /\ Placed(p)
      BY <1>1 DEF SafeIpc, SafeInv
    <2>2. Wants(p) \notin Senders(p) /\ (Wants(p) = ANY => sendings[p] = NULL /\ intr_cnt[p] = 0)
      BY <1>1, <2>1, QueueFacts DEF NothingMissed
    <2>3. ASSUME Wants(p) = INTERRUPT PROVE irq[p]
      <3>1. ~AwaitsAny(p) /\ \A X \in Servers : ~Awaits(p, X)
        BY <2>3, ProcSets, IpcAssumption DEF AwaitsAny, Awaits, Runnable
      <3> QED BY <2>1, <3>1 DEF Placed, AwaitsDisk
    <2> QED BY <2>2, <2>3
  <1> QED BY <1>1, SafeInvariant, PTL

\* send_then_recv returns with the reply to its own call, from the server it
\* called: send() delivers a reply without looking at whom the receiver waits
\* for, and no reply to another call is under way to it as long as none is
\* taken from behind another sender.
THEOREM CallGetsItsReply == Layered /\ Spec /\ []~ReplyBehind => []ReplyMatchesCall
  <1>1. ASSUME SafeIpc PROVE ReplyMatchesCall
    <2>1. \A p \in Procs : Answered(p)
      BY <1>1 DEF SafeIpc, SafeInv
    <2> QED BY <2>1, ProcSets DEF ReplyMatchesCall, Answered
  <1> QED BY <1>1, SafeInvariant, PTL

-----------------------------------------------------------------------------
(* Message passing uses the process manager as Process.tla says. *)

\* A send wakes a process that waits or blocks the sender.
LEMMA SendManages ==
  ASSUME NoneStarts, NEW p, p = cur_proc, p # InitProc, NEW o, NEW m, NEW d \in Procs,
         Send(p, o, m, d)
  PROVE  [ProcNext]_procVars
  <1>1. CASE IsWaiting(d, p, m.type)
    <2>1. status[d] = "WAITING_MSG" /\ UnblockProc(d)
      BY <1>1 DEF Send, IsWaiting
    <2> QED BY <2>1 DEF ProcNext, Unblock, NoneStarts
  <1>2. CASE ~IsWaiting(d, p, m.type)
    <2>1. SelfBlock("SENDING_MSG")
      BY <1>2 DEF Send
    <2> QED BY <2>1 DEF ProcNext, Block, Blocked, MayLeave, NoneStarts
  <1> QED BY <1>1, <1>2

\* A receive wakes a blocked sender, blocks the receiver or does neither.
LEMMA ReceiveManages ==
  ASSUME NoneStarts, NEW p, p = cur_proc, p # InitProc, NEW o, NEW want, Receive(p, o, want)
  PROVE  [ProcNext]_procVars
  <1>1. ASSUME NEW s, NEW n, Take(p, o, s, n) PROVE [ProcNext]_procVars
    <2>1. CASE n \in Procs /\ status[n] = "SENDING_MSG"
      BY <1>1, <2>1 DEF Take, ProcNext, Unblock, NoneStarts
    <2>2. CASE ~(n \in Procs /\ status[n] = "SENDING_MSG")
      BY <1>1, <2>2 DEF Take
    <2> QED BY <2>1, <2>2
  <1>2. CASE ReceiveIntr(p, o, want)
    BY <1>2 DEF ReceiveIntr
  <1>3. CASE ReceiveHead(p, o, want)
    <2>1. Take(p, o, sendings[p], sendings[p])
      BY <1>3 DEF ReceiveHead
    <2> QED BY <1>1, <2>1
  <1>4. CASE ReceiveBehind(p, o, want)
    <2>1. Take(p, o, want, Before(p, want))
      BY <1>4 DEF ReceiveBehind
    <2> QED BY <1>1, <2>1
  <1>5. CASE ReceiveBlock(p, o, want)
    <2>1. SelfBlock("WAITING_MSG")
      BY <1>5 DEF ReceiveBlock
    <2> QED BY <2>1 DEF ProcNext, Block, Blocked, MayLeave, NoneStarts
  <1> QED BY <1>2, <1>3, <1>4, <1>5 DEF Receive

\* Every step of the programs and of the interrupt handlers is a step of the
\* process manager or leaves it alone.
LEMMA NextManages == BaseInv /\ [Next]_vars => [ProcNext]_procVars
  <1> SUFFICES ASSUME BaseInv, [Next]_vars PROVE [ProcNext]_procVars
    OBVIOUS
  <1>1. CASE UNCHANGED vars
    BY <1>1 DEF vars
  <1>2. ASSUME NEW p \in Procs, Step(p) PROVE [ProcNext]_procVars
    <2>1. p = cur_proc /\ p # InitProc /\ p \in Clients \cup Servers
      BY <1>2, ProcSets DEF Step
    <2>2. CASE \E q \in Calls[p] : Call(p, q) \/ NestedCall(p, q)
      <3>1. PICK q \in Calls[p] : Call(p, q) \/ NestedCall(p, q)
        BY <2>2
      <3>2. q \in Procs
        BY <2>1, ProcSets
      <3> QED BY <2>1, <3>1, <3>2, SendManages DEF Call, NestedCall, BaseInv
    <2>3. CASE p \in Clients /\ \E q \in Posts[p] : Post(p, q)
      <3>1. PICK q \in Posts[p] : Post(p, q)
        BY <2>3
      <3>2. q \in Procs
        BY <2>3, ProcSets
      <3> QED BY <2>1, <3>1, <3>2, SendManages DEF Post, BaseInv
    <2>4. CASE CallReceive(p) \/ ServerReceive(p) \/ NestedReceive(p) \/ DiskReceive(p)
      BY <2>1, <2>4, ReceiveManages DEF BaseInv, CallReceive, ServerReceive, NestedReceive, DiskReceive
    <2>5. CASE Reply(p)
      <3>1. obj[p]["loop"].dest \in Procs
        BY <2>5 DEF Reply, BaseInv, Asked
      <3> QED BY <2>1, <2>5, <3>1, SendManages DEF Reply, BaseInv
    <2>6. CASE DiskCommand(p) \/ Forget(p)
      BY <2>6 DEF DiskCommand, Forget
    <2> QED BY <1>2, <2>2, <2>3, <2>4, <2>5, <2>6 DEF Step
  <1>3. CASE Tick
    BY <1>3 DEF Tick, ProcNext, BaseInv, NoneStarts
  <1>4. ASSUME NEW d \in DiskServers, DiskIrq(d) PROVE [ProcNext]_procVars
    <2>1. d \in Procs /\ SendInterrupt(d)
      BY <1>4, ProcSets DEF DiskIrq
    <2> QED BY <2>1 DEF SendInterrupt, IsWaiting, ProcNext, Unblock, BaseInv, NoneStarts
  <1>5. ASSUME NEW d \in NetServers, NetIrq(d) PROVE [ProcNext]_procVars
    <2>1. d \in Procs /\ SendInterruptNet(d)
      BY <1>5, ProcSets DEF NetIrq
    <2> QED BY <2>1 DEF SendInterruptNet, ProcNext, Unblock, BaseInv, NoneStarts
  <1> QED BY <1>1, <1>2, <1>3, <1>4, <1>5 DEF Next

\* Message passing implements the safety part of the process manager's
\* specification: it never makes a process ready that is not blocked in a
\* message wait, and only a process other than init, on the CPU, blocks.
\* What is proved of every such use in ProcessProofs holds under it.
THEOREM IpcUsesProcesses == Spec => ProcInit /\ [][ProcNext]_procVars
  <1>1. Init => ProcInit
    BY DEF Init
  <1>2. BaseInv /\ [Next]_vars => [ProcNext]_procVars
    BY NextManages
  <1> QED BY <1>1, <1>2, IpcInvariant, PTL DEF Spec

=============================================================================
