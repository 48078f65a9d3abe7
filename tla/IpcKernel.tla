------------------------------ MODULE IpcKernel ------------------------------
(***************************************************************************)
(* The kernel process (kernel_work of kernel/main.cc) as one more server.  *)
(* It runs in ring 0 and calls Message::receive and Message::reply as      *)
(* ordinary functions with interrupts on (execute_func, process.cc 52),    *)
(* so a timer tick may take the CPU away between two of their statements.  *)
(* Only self_block and unblock_proc turn interrupts off.                   *)
(*                                                                         *)
(* Each step below is a run of statements after which the model lets the   *)
(* tick in; the code can be interrupted in more places, never in fewer.    *)
(***************************************************************************)
EXTENDS Ipc

KR == KernelProc   \* one of Servers, no device server

VARIABLE local   \* prev_sender in receive, dst_status in send

kernelVars == <<vars, local>>

\* receive: prev_sender = src->sendings.
KernelLook ==
  /\ pc[KR] = "loop"
  /\ local' = sendings[KR]
  /\ Goto(KR, IF sendings[KR] = NULL THEN "kernelBlock" ELSE "kernelTake")
  /\ UNCHANGED <<procVars, ipcVars, tgt, envVars>>

\* receive: copy the message of the sender seen, drop whoever heads the queue
\* now, unblock the sender seen.
KernelTake ==
  LET h == sendings[KR]
  IN  /\ pc[KR] = "kernelTake"
      /\ Take(KR, "loop", local, local)
      /\ sendings' = [sendings EXCEPT ![KR] = IF next_ready[h] = h THEN NULL ELSE next_ready[h]]
      /\ Goto(KR, "handle")
      /\ UNCHANGED <<next_ready, tgt, envVars, local>>

\* receive: the queue was empty, block.
KernelBlock ==
  /\ pc[KR] = "kernelBlock"
  /\ obj' = [obj EXCEPT ![KR]["loop"].dest = ANY]
  /\ message' = [message EXCEPT ![KR] = "loop"]
  /\ SelfBlock("WAITING_MSG")
  /\ Goto(KR, "handle")
  /\ UNCHANGED <<sendings, next_ready, intr_cnt, tgt, envVars, local>>

\* send, called by reply: dst_status = dst->status.  A post is not replied to.
KernelStatus ==
  LET m == obj[KR]["loop"]
  IN  /\ pc[KR] = "handle"
      /\ IF m.type = "REQ"
         THEN local' = status[m.dest] /\ Goto(KR, "kernelSend")
         ELSE Goto(KR, "loop") /\ UNCHANGED local
      /\ UNCHANGED <<procVars, ipcVars, tgt, envVars>>

\* send: decide on the status read before.  The kernel's reply leaves the type
\* alone, so it is never REPLY.
KernelSend ==
  LET m == obj[KR]["loop"]
      d == m.dest
  IN  /\ pc[KR] = "kernelSend"
      /\ IF local = "WAITING_MSG" /\ obj[d][message[d]].dest \in {ANY, KR}
         THEN /\ obj' = [obj EXCEPT
                ![d][message[d]] = [type |-> "DONE", ctx |-> m.ctx, dest |-> KR]]
              /\ UnblockProc(d)
              /\ UNCHANGED <<sendings, next_ready, message>>
         ELSE /\ message' = [message EXCEPT ![KR] = "loop"]
              /\ next_ready' = [next_ready EXCEPT ![KR] = sendings[d]]
              /\ sendings' = [sendings EXCEPT ![d] = KR]
              /\ SelfBlock("SENDING_MSG")
              /\ UNCHANGED obj
      /\ Goto(KR, "loop")
      /\ UNCHANGED <<intr_cnt, tgt, envVars, local>>

KernelStep ==
  /\ cur_proc = KR
  /\ KernelLook \/ KernelTake \/ KernelBlock \/ KernelStatus \/ KernelSend

KernelInit == Init /\ local = NULL

KernelNext ==
  \/ \E p \in Procs \ {KR} : Step(p) /\ UNCHANGED local
  \/ Tick /\ UNCHANGED local
  \/ KernelStep

KernelSpec == KernelInit /\ [][KernelNext]_kernelVars

-----------------------------------------------------------------------------

\* "Sendings queue is empty, Block self." (ipc.cc 164): a process that waits
\* for anyone has nobody in its queue.  A sender there would not wake it, and
\* neither would go on until a third process sends.
QueueEmptyWhenBlocked ==
  \A p \in Procs :
    status[p] = "WAITING_MSG" /\ Wants(p) = ANY => sendings[p] = NULL

=============================================================================
