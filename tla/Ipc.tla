--------------------------------- MODULE Ipc ---------------------------------
(***************************************************************************)
(* Message passing between processes: Message::send and Message::receive   *)
(* of kernel/ipc.cc, entered through the system call gate, with the client *)
(* calls of lib/all_syscall.cc, the server loops of dr, fs and net and the *)
(* two device interrupts that send messages.                               *)
(*                                                                         *)
(* The gate is an interrupt gate, so a user process sends or receives with *)
(* interrupts off: the call is atomic up to the point where it gives up    *)
(* the CPU, and send_then_recv goes on to its receive before anything else *)
(* can happen.  Module IpcKernel adds the kernel process, which calls the  *)
(* same functions with interrupts on.                                      *)
(*                                                                         *)
(* A message is a type and a context; the context is abstracted to the     *)
(* process whose request it belongs to.  A process has two message         *)
(* objects: "loop", the one its server loop receives into and replies      *)
(* from, and "call", the one it calls other servers with.                  *)
(***************************************************************************)
EXTENDS Process

CONSTANTS
  Clients,       \* processes that only call servers
  Servers,       \* processes that loop on receive(ANY)
  DiskServers,   \* servers that wait for the disk interrupt while they work
  NetServers,    \* servers the network card interrupts
  Calls,         \* the servers each process calls and waits for
  Posts,         \* the servers each client sends to without waiting
  MaxCalls,      \* bound: calls and posts of each client
  MaxIntrs,      \* bound: network interrupts
  ANY, INTERRUPT, NULL

ASSUME IpcAssumption ==
  /\ Clients \subseteq Procs \ {InitProc}
  /\ Servers \subseteq Procs \ (Clients \cup {InitProc})
  /\ DiskServers \cup NetServers \subseteq Servers
  /\ Calls \in [Clients \cup Servers -> SUBSET Servers]
  /\ Posts \in [Clients -> SUBSET Servers]
  /\ MaxCalls \in Nat /\ MaxIntrs \in Nat
  /\ ANY \notin Procs /\ INTERRUPT \notin Procs \cup {ANY}
  /\ NULL \notin Procs \cup {ANY, INTERRUPT}

\* The process table has 64 entries.
ASSUME FiniteAssumption == IsFiniteSet(Procs)

VARIABLES
  sendings,     \* pcb.sendings: the head of the queue of blocked senders
  next_ready,   \* pcb.next_ready: the links of those queues
  message,      \* pcb.message: which object the process blocked with
  obj,          \* the message objects of each process
  intr_cnt,     \* pcb.intr_cnt, an unsigned char
  pc,           \* where each process is in its program
  tgt,          \* the server of the call in progress
  irq,          \* the disk has a command to answer
  calls,        \* calls and posts each client has made
  intrs         \* network interrupts so far

ipcVars == <<sendings, next_ready, message, obj, intr_cnt>>
envVars == <<irq, calls, intrs>>
vars == <<procVars, ipcVars, pc, tgt, envVars>>

Nodes == Procs \cup {INTERRUPT}
Types == {"NONE", "REQ", "POST", "REPLY", "INTR", "IRQ", "DONE"}
Msg == [type : Types, ctx : Procs \cup {NULL}, dest : Procs \cup {ANY, INTERRUPT, NULL}]
NoMsg == [type |-> "NONE", ctx |-> NULL, dest |-> NULL]

-----------------------------------------------------------------------------
(* Message::send *)

\* A faulty variant, for the check that a property notices it: ANY not looked at.
IsWaiting_NoAny(d, src, type) ==
  /\ status[d] = "WAITING_MSG"
  /\ obj[d][message[d]].dest = src \/ type = "REPLY"

\* "That girl is waiting me?": d waits for anyone, for src, or gets a reply.
IsWaiting(d, src, type) ==
  /\ status[d] = "WAITING_MSG"
  /\ obj[d][message[d]].dest \in {ANY, src} \/ type = "REPLY"

\* The current process p sends m from its object o to d: d gets a copy and is
\* made ready, or p becomes the head of d's sendings and blocks.
Send(p, o, m, d) ==
  LET filled == [obj EXCEPT ![p][o] = [@ EXCEPT !.type = m.type, !.ctx = m.ctx]]
  IN  \/ /\ IsWaiting(d, p, m.type)
         /\ obj' = [filled EXCEPT
                      ![d][message[d]] = [type |-> m.type, ctx |-> m.ctx, dest |-> p]]
         /\ UnblockProc(d)
         /\ UNCHANGED <<sendings, next_ready, message, intr_cnt>>
      \/ /\ ~IsWaiting(d, p, m.type)
         /\ obj' = filled
         /\ message' = [message EXCEPT ![p] = o]
         /\ next_ready' = [next_ready EXCEPT ![p] = sendings[d]]
         /\ sendings' = [sendings EXCEPT ![d] = p]
         /\ SelfBlock("SENDING_MSG")
         /\ UNCHANGED intr_cnt

\* The disk handler sends as INTERRUPT: it has no process to block, and its
\* one INTERRUPT_PCB is linked into the queue instead.
SendInterrupt(d) ==
  \/ /\ IsWaiting(d, INTERRUPT, "IRQ")
     /\ obj' = [obj EXCEPT
                  ![d][message[d]] = [type |-> "IRQ", ctx |-> NULL, dest |-> INTERRUPT]]
     /\ UnblockProc(d)
     /\ UNCHANGED <<sendings, next_ready, message, intr_cnt>>
  \/ /\ ~IsWaiting(d, INTERRUPT, "IRQ")
     /\ next_ready' = [next_ready EXCEPT ![INTERRUPT] = sendings[d]]
     /\ sendings' = [sendings EXCEPT ![d] = INTERRUPT]
     /\ UNCHANGED <<procVars, message, obj, intr_cnt>>

\* The network handler sends as INTERRUPT_NET: it counts the interrupt, and
\* also wakes a process that waits for anyone.
SendInterruptNet(d) ==
  /\ intr_cnt' = [intr_cnt EXCEPT ![d] = (@ + 1) % 256]
  /\ IF status[d] = "WAITING_MSG" /\ obj[d][message[d]].dest = ANY
     THEN obj' = [obj EXCEPT ![d][message[d]].type = "INTR"] /\ UnblockProc(d)
     ELSE UNCHANGED <<obj, procVars>>
  /\ UNCHANGED <<sendings, next_ready, message>>

-----------------------------------------------------------------------------
(* Message::receive *)

\* The n-th node of p's sendings, from 0; NULL past the end.
SenderAt(p, n) ==
  LET at[i \in 0 .. n] == IF i = 0 THEN sendings[p]
                          ELSE IF at[i - 1] = NULL THEN NULL ELSE next_ready[at[i - 1]]
  IN  at[n]

Depths == 0 .. Cardinality(Procs)

Senders(p) == {SenderAt(p, n) : n \in Depths} \ {NULL}

\* The node before want in p's sendings, NULL when want is not behind the head.
Before(p, want) ==
  LET hits == {n \in Depths : SenderAt(p, n) # NULL /\ next_ready[SenderAt(p, n)] = want}
  IN  IF hits = {} THEN NULL ELSE SenderAt(p, Min(hits))

\* What the sender s offers; INTERRUPT_PCB has no message of its own.
Offered(s) == IF s = INTERRUPT THEN [NoMsg EXCEPT !.type = "IRQ"] ELSE obj[s][message[s]]

\* A faulty variant, for the check that a property notices it: no test of the status.
Take_Always(p, o, s, n) ==
  /\ obj' = [obj EXCEPT ![p][o] = [type |-> Offered(s).type, ctx |-> Offered(s).ctx, dest |-> n]]
  /\ IF n \in Procs THEN UnblockProc(n) ELSE UNCHANGED procVars
  /\ UNCHANGED <<message, intr_cnt>>

\* A faulty variant, for the check that a property notices it: no wake-up.
Take_NoWake(p, o, s, n) ==
  /\ obj' = [obj EXCEPT ![p][o] = [type |-> Offered(s).type, ctx |-> Offered(s).ctx, dest |-> n]]
  /\ UNCHANGED <<procVars, message, intr_cnt>>

\* Copy the message of s and remember node n as where it came from; if n is a
\* blocked sender it goes on.
Take(p, o, s, n) ==
  /\ obj' = [obj EXCEPT ![p][o] = [type |-> Offered(s).type, ctx |-> Offered(s).ctx, dest |-> n]]
  /\ IF n \in Procs /\ status[n] = "SENDING_MSG" THEN UnblockProc(n) ELSE UNCHANGED procVars
  /\ UNCHANGED <<message, intr_cnt>>

\* A faulty variant, for the check that a property notices it: the counter not looked at.
ReceiveIntr_Uncounted(p, o, want) ==
  /\ want = ANY
  /\ obj' = [obj EXCEPT ![p][o].type = "INTR"]
  /\ intr_cnt' = [intr_cnt EXCEPT ![p] = @ - 1]
  /\ UNCHANGED <<procVars, sendings, next_ready, message>>

\* A pending network interrupt comes before every message.
ReceiveIntr(p, o, want) ==
  /\ intr_cnt[p] # 0 /\ want = ANY
  /\ obj' = [obj EXCEPT ![p][o].type = "INTR"]
  /\ intr_cnt' = [intr_cnt EXCEPT ![p] = @ - 1]
  /\ UNCHANGED <<procVars, sendings, next_ready, message>>

\* A faulty variant, for the check that a property notices it: the whole queue goes.
ReceiveHead_All(p, o, want) ==
  LET h == sendings[p]
  IN  /\ ~(intr_cnt[p] # 0 /\ want = ANY)
      /\ h # NULL /\ want \in {ANY, h}
      /\ Take(p, o, h, h)
      /\ sendings' = [sendings EXCEPT ![p] = NULL]
      /\ UNCHANGED next_ready

\* The head of the queue is wanted.  An INTERRUPT_PCB linked to itself is the
\* whole queue.
ReceiveHead(p, o, want) ==
  LET h == sendings[p]
  IN  /\ ~(intr_cnt[p] # 0 /\ want = ANY)
      /\ h # NULL /\ want \in {ANY, h}
      /\ Take(p, o, h, h)
      /\ sendings' = [sendings EXCEPT ![p] = IF next_ready[h] = h THEN NULL ELSE next_ready[h]]
      /\ UNCHANGED next_ready

\* The wanted sender is further back: its message is copied and it is unlinked,
\* but the node in front of it is the one that is remembered and unblocked.
ReceiveBehind(p, o, want) ==
  LET n == Before(p, want)
  IN  /\ want # ANY /\ sendings[p] \notin {NULL, want}
      /\ n # NULL
      /\ Take(p, o, want, n)
      /\ next_ready' = [next_ready EXCEPT ![n] = next_ready[want]]
      /\ UNCHANGED sendings

\* Nobody wanted is there: wait.
ReceiveBlock(p, o, want) ==
  /\ ~(intr_cnt[p] # 0 /\ want = ANY)
  /\ sendings[p] = NULL \/ (want \notin {ANY, sendings[p]} /\ Before(p, want) = NULL)
  /\ obj' = [obj EXCEPT ![p][o].dest = want]
  /\ message' = [message EXCEPT ![p] = o]
  /\ SelfBlock("WAITING_MSG")
  /\ UNCHANGED <<sendings, next_ready, intr_cnt>>

Receive(p, o, want) ==
  \/ ReceiveIntr(p, o, want)
  \/ ReceiveHead(p, o, want)
  \/ ReceiveBehind(p, o, want)
  \/ ReceiveBlock(p, o, want)

-----------------------------------------------------------------------------
(* The programs.  Every step is taken by the process on the CPU. *)

Goto(p, label) == pc' = [pc EXCEPT ![p] = label]

\* In "recv" the process is inside the system call, past its send.
UserMode == pc[cur_proc] \notin {"recv", "nestedRecv"}

\* send_then_recv(q) of a client, up to the end of the send.
Call(p, q) ==
  /\ pc[p] = "idle" /\ calls[p] < MaxCalls
  /\ calls' = [calls EXCEPT ![p] = @ + 1]
  /\ tgt' = [tgt EXCEPT ![p] = q]
  /\ Send(p, "call", [type |-> "REQ", ctx |-> p], q)
  /\ Goto(p, "recv")
  /\ UNCHANGED <<irq, intrs>>

\* The receive of send_then_recv; when it blocks, it returns on wake-up.
CallReceive(p) ==
  /\ pc[p] = "recv"
  /\ Receive(p, "call", tgt[p])
  /\ Goto(p, "idle")
  /\ UNCHANGED <<tgt, envVars>>

\* A plain send, which no reply answers (create_process, tell_fs).
Post(p, q) ==
  /\ pc[p] = "idle" /\ calls[p] < MaxCalls
  /\ calls' = [calls EXCEPT ![p] = @ + 1]
  /\ Send(p, "call", [type |-> "POST", ctx |-> p], q)
  /\ UNCHANGED <<pc, tgt, irq, intrs>>

\* The top of a server loop.
ServerReceive(p) ==
  /\ pc[p] = "loop"
  /\ Receive(p, "loop", ANY)
  /\ Goto(p, "handle")
  /\ UNCHANGED <<tgt, envVars>>

\* A faulty variant, for the check that a property notices it: a call for a
\* request is sent from the object that holds the request.
NestedCall_OneObject(p, q) ==
  /\ pc[p] = "handle" /\ obj[p]["loop"].type = "REQ"
  /\ tgt' = [tgt EXCEPT ![p] = q]
  /\ Send(p, "loop", [type |-> "REQ", ctx |-> p], q)
  /\ Goto(p, "nestedRecv")
  /\ UNCHANGED envVars

\* A server needs another one for the request or the packet it works on.  The
\* posts only set a variable of the server (CUR_USER).
NestedCall(p, q) ==
  /\ pc[p] = "handle" /\ obj[p]["loop"].type \in {"REQ", "INTR"}
  /\ tgt' = [tgt EXCEPT ![p] = q]
  /\ Send(p, "call", [type |-> "REQ", ctx |-> p], q)
  /\ Goto(p, "nestedRecv")
  /\ UNCHANGED envVars

NestedReceive(p) ==
  /\ pc[p] = "nestedRecv"
  /\ Receive(p, "call", tgt[p])
  /\ Goto(p, "finish")
  /\ UNCHANGED <<tgt, envVars>>

\* The disk driver starts a transfer, then waits for the disk in a system call
\* of its own: the interrupt may come first.
DiskCommand(p) ==
  /\ p \in DiskServers
  /\ pc[p] = "handle" /\ obj[p]["loop"].type = "REQ"
  /\ irq' = [irq EXCEPT ![p] = TRUE]
  /\ Goto(p, "diskWait")
  /\ UNCHANGED <<procVars, ipcVars, tgt, calls, intrs>>

\* A faulty variant, for the check that a property notices it: no wait for the disk.
DiskReceive_NoWait(p) ==
  /\ pc[p] = "diskWait"
  /\ Goto(p, "finish")
  /\ UNCHANGED <<procVars, ipcVars, tgt, envVars>>

DiskReceive(p) ==
  /\ pc[p] = "diskWait"
  /\ Receive(p, "call", INTERRUPT)
  /\ Goto(p, "finish")
  /\ UNCHANGED <<tgt, envVars>>

\* The end of a server's loop body: a request is replied to.
Reply(p) ==
  LET m == obj[p]["loop"]
  IN  /\ pc[p] \in {"handle", "finish"} /\ m.type = "REQ"
      /\ Send(p, "loop", [type |-> "REPLY", ctx |-> m.ctx], m.dest)
      /\ Goto(p, "loop")
      /\ UNCHANGED <<tgt, envVars>>

\* Interrupts, posts and whatever is not a request get no reply.
Forget(p) ==
  /\ pc[p] \in {"handle", "finish"} /\ obj[p]["loop"].type # "REQ"
  /\ Goto(p, "loop")
  /\ UNCHANGED <<procVars, ipcVars, tgt, envVars>>

Step(p) ==
  /\ p = cur_proc
  /\ \/ p \in Clients /\ \/ \E q \in Calls[p] : Call(p, q)
                         \/ \E q \in Posts[p] : Post(p, q)
                         \/ CallReceive(p)
     \/ p \in Servers /\ \/ ServerReceive(p)
                         \/ \E q \in Calls[p] : NestedCall(p, q)
                         \/ NestedReceive(p)
                         \/ DiskCommand(p)
                         \/ DiskReceive(p)
                         \/ Reply(p)
                         \/ Forget(p)

-----------------------------------------------------------------------------
(* Interrupts, which find the CPU in user mode. *)

Tick == UserMode /\ TimerHandler /\ UNCHANGED <<ipcVars, pc, tgt, envVars>>

DiskIrq(d) ==
  /\ UserMode /\ irq[d]
  /\ irq' = [irq EXCEPT ![d] = FALSE]
  /\ SendInterrupt(d)
  /\ UNCHANGED <<pc, tgt, calls, intrs>>

NetIrq(d) ==
  /\ UserMode /\ intrs < MaxIntrs
  /\ intrs' = intrs + 1
  /\ SendInterruptNet(d)
  /\ UNCHANGED <<pc, tgt, irq, calls>>

-----------------------------------------------------------------------------

Init ==
  /\ ProcInit
  /\ sendings = [p \in Procs |-> NULL]
  /\ next_ready = [n \in Nodes |-> NULL]
  /\ message = [p \in Procs |-> "call"]
  /\ obj = [p \in Procs |-> [o \in {"loop", "call"} |-> NoMsg]]
  /\ intr_cnt = [p \in Procs |-> 0]
  /\ pc = [p \in Procs |-> IF p \in Servers THEN "loop" ELSE "idle"]
  /\ tgt = [p \in Procs |-> NULL]
  /\ irq = [p \in DiskServers |-> FALSE]
  /\ calls = [p \in Clients |-> 0]
  /\ intrs = 0

Next ==
  \/ \E p \in Procs : Step(p)
  \/ Tick
  \/ \E d \in DiskServers : DiskIrq(d)
  \/ \E d \in NetServers : NetIrq(d)

\* The clock ticks, the disk answers, a server that gets the CPU again and
\* again executes its next instruction, and a system call in progress goes on.
\* No client has to call, and the network card has to do nothing.
Fairness ==
  /\ WF_vars(Tick)
  /\ \A d \in DiskServers : SF_vars(DiskIrq(d))
  /\ \A p \in Servers : SF_vars(Step(p))
  /\ \A p \in Clients : WF_vars(p = cur_proc /\ CallReceive(p))

Spec == Init /\ [][Next]_vars /\ Fairness

-----------------------------------------------------------------------------
(* What the theorems ask of the processes and of a run. *)

\* Who may call whom: no two servers call each other, there is one disk, as
\* there is one INTERRUPT_PCB, and nobody posts to its driver.
Layered ==
  /\ \A p, q \in Servers : ~(q \in Calls[p] /\ p \in Calls[q])
  /\ \A d, e \in DiskServers : d = e
  /\ \A p \in Clients : Posts[p] \cap DiskServers = {}

\* The current process comes to receive the reply to its call and finds it
\* queued behind another sender, which receive() would unlink and wake in its
\* place (ipc.cc 142-158).
ReplyBehind ==
  \E p \in Procs :
    /\ p = cur_proc /\ pc[p] \in {"recv", "nestedRecv"}
    /\ sendings[p] \notin {NULL, tgt[p]}
    /\ Before(p, tgt[p]) # NULL

-----------------------------------------------------------------------------
(* Properties. *)

IpcTypeOK ==
  /\ ProcTypeOK
  /\ sendings \in [Procs -> Nodes \cup {NULL}]
  /\ next_ready \in [Nodes -> Nodes \cup {NULL}]
  /\ message \in [Procs -> {"loop", "call"}]
  /\ obj \in [Procs -> [{"loop", "call"} -> Msg]]
  /\ intr_cnt \in [Procs -> 0 .. 255]
  /\ pc \in [Procs -> {"idle", "recv", "loop", "handle", "nestedRecv", "diskWait", "finish"}]
  /\ tgt \in [Procs -> Procs \cup {NULL}]
  /\ irq \in [DiskServers -> BOOLEAN]
  /\ calls \in [Clients -> 0 .. MaxCalls]
  /\ intrs \in 0 .. MaxIntrs

\* What p asked receive() for when it blocked.
Wants(p) == obj[p][message[p]].dest

\* Nothing a process waits for is already there: no sender it would take, no
\* counted interrupt and, for INTERRUPT, no disk answer that has come and gone.
\* A missed one would be waited for until somebody else sends.
NoMissedWakeup ==
  \A p \in Procs : status[p] = "WAITING_MSG" =>
    /\ Wants(p) = ANY => sendings[p] = NULL /\ intr_cnt[p] = 0
    /\ Wants(p) \notin Senders(p)
    /\ Wants(p) = INTERRUPT => irq[p]

\* "Block self, and append to dest's sending queue." (ipc.cc 105): a process
\* blocked in a send is on the queue of exactly one receiver, where a receive
\* can find it; otherwise nothing would ever wake it.
BlockedSenderIsQueued ==
  \A p \in Procs : status[p] = "SENDING_MSG" =>
    \E d \in Procs : /\ p \in Senders(d)
                     /\ \A e \in Procs \ {d} : p \notin Senders(e)

\* The queues of blocked senders end: receive() walks them with interrupts off
\* and would never come back from a circle (ipc.cc 96, 130 and 144).
SendingsEnd == \A p \in Procs : SenderAt(p, Cardinality(Nodes)) = NULL

\* A call returns with the reply to that very call, from the server called,
\* although a reply is accepted from anyone and requests overtake each other.
ReplyMatchesCall ==
  \A p \in Clients \cup Servers :
    pc[p] \in {"idle", "finish"} /\ status[p] \in Runnable =>
      LET m == obj[p]["call"]
      IN  \/ m = [type |-> "REPLY", ctx |-> p, dest |-> tgt[p]]
          \/ p \in Clients /\ m.type \in {"NONE", "POST"}
          \/ p \in DiskServers /\ m.type = "IRQ"
          \/ p \in Servers /\ pc[p] = "idle"

InCall(p) == pc[p] = "recv" \/ (pc[p] = "idle" /\ status[p] = "WAITING_MSG")

\* Every call of a client is answered, through the servers behind the one it
\* calls, the disk, preemption and passed-over levels.
CallsReturn == \A p \in Clients : InCall(p) ~> ~InCall(p)

=============================================================================
