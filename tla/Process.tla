------------------------------- MODULE Process -------------------------------
(***************************************************************************)
(* The process manager of the kernel: kernel/process.cc, with the timer    *)
(* interrupt of kernel/timer.cc that drives it.                            *)
(*                                                                         *)
(* Every process has a status and, while it may run, a place in the ready  *)
(* list of its priority level.  schedule() scans the levels from the       *)
(* highest one (0 = PRIORITY_A) and passes over one of the three highest   *)
(* when its max_rounds budget is used up.  The ready lists are sequences   *)
(* here; module CycleList shows that the pointer lists of the code are     *)
(* sequences as long as nothing is inserted twice, which is what           *)
(* ReadyListsMatchStatus establishes for this use of them.                 *)
(*                                                                         *)
(* schedule(), self_block() and unblock_proc() run with interrupts off, so *)
(* each is part of one atomic step.  The status WAITING_MID of the code is *)
(* set and replaced inside one self_block() and is never seen.             *)
(*                                                                         *)
(* start_userprocess() runs in the kernel process with interrupts on: the  *)
(* new process is READY before it is on its list, and the CPU may be taken *)
(* away between the assignments of CycleList::append().  Another change of *)
(* the same list in that window leaves it torn: a later removal loses what *)
(* was inserted in between.  The model says nothing of a torn list.        *)
(***************************************************************************)
EXTENDS Naturals, Sequences, FiniteSets, SequencesExt

CONSTANTS
  Procs,       \* every process that may ever exist
  InitProc,    \* the init process, which spins in main() and never blocks
  KernelProc,  \* the kernel process, which creates processes
  BootLists,   \* the ready lists as main() leaves them, one for each level
  Priority,    \* the priority level of each process
  MaxRounds    \* scheduling rounds a level gets before it is passed over (10)

PRIORITY_KIND == 5
BUDGETED == 3      \* levels below this one are bounded by max_rounds

Levels == 0 .. PRIORITY_KIND - 1

ASSUME PriorityAssumption ==
  /\ InitProc \in Procs
  /\ Priority \in [Procs -> Levels]
  /\ Priority[InitProc] = PRIORITY_KIND - 1

ASSUME BootAssumption ==
  /\ BootLists \in [Levels -> Seq(Procs)]
  /\ Contains(BootLists[PRIORITY_KIND - 1], InitProc)
  /\ \A l \in Levels : \A i, j \in DOMAIN BootLists[l] :
       /\ Priority[BootLists[l][i]] = l
       /\ BootLists[l][i] = BootLists[l][j] => i = j

ASSUME RoundsAssumption == MaxRounds \in Nat \ {0}

VARIABLES
  cur_proc,          \* the process on the CPU
  status,            \* struct pcb's status; FREE before the process exists
  ready_processes,   \* one ready list for each level
  max_rounds,        \* rounds left for each budgeted level
  max_priority,      \* the level the scan starts from
  start_pc,          \* where the kernel process is in start_userprocess()
  start_proc,        \* the process it is starting, or started last
  torn               \* a ready list was changed in the middle of its append()

startVars == <<start_pc, start_proc>>
procVars == <<cur_proc, status, ready_processes, max_rounds, max_priority,
              start_pc, start_proc, torn>>

Blocked == {"BLOCKED", "WAITING_MSG", "SENDING_MSG"}
Runnable == {"RUNNING", "READY"}
Status == Blocked \cup Runnable \cup {"FREE"}

\* READY, and not on a list yet.
Unlisted(p) == p = start_proc /\ start_pc \in {"list", "link"}

\* The ready lists become those given.
Relist(lists) ==
  LET l == Priority[start_proc]
  IN  /\ ready_processes' = lists
      /\ torn' = (torn \/ (start_pc \in {"link", "tail"} /\ lists[l] # ready_processes[l]))

-----------------------------------------------------------------------------
(* Picking the next process. *)

\* The scan passes over a budgeted level that has no round left.
PassedOver(l) == l < BUDGETED /\ max_rounds[l] = 0

\* A faulty variant, for the check that a property notices it: no pass-over.
Candidates_NoBudget(lists) ==
  {l \in max_priority .. PRIORITY_KIND - 1 : lists[l] # <<>>}

Candidates(lists) ==
  {l \in max_priority .. PRIORITY_KIND - 1 : ~PassedOver(l) /\ lists[l] # <<>>}

\* The level the scan stops at; PRIORITY_KIND when every list it looked at is empty.
ChosenLevel(lists) ==
  IF Candidates(lists) = {} THEN PRIORITY_KIND
  ELSE CHOOSE l \in Candidates(lists) : \A m \in Candidates(lists) : l <= m

\* CycleList::next_elem on the element of the current process.  That element
\* may just have left the list: its own next pointer still leads to the
\* process that followed it, or to the tail, which wraps to the first one.
NextElem(lists) ==
  LET l == Priority[cur_proc]
      old == ready_processes[l]
      here == CHOOSE i \in DOMAIN old : old[i] = cur_proc
  IN  IF here = Len(old) THEN Head(lists[l]) ELSE old[here + 1]

\* A faulty variant, for the check that a property notices it: always the head.
NextProc_Head(lists) ==
  LET l == ChosenLevel(lists) IN IF l = PRIORITY_KIND THEN cur_proc ELSE Head(lists[l])

\* The process schedule() switches to; the current one when it finds none.
NextProc(lists) ==
  LET l == ChosenLevel(lists)
  IN  IF l = PRIORITY_KIND THEN cur_proc
      ELSE IF l = Priority[cur_proc] THEN NextElem(lists)
      ELSE Head(lists[l])

\* A faulty variant, for the check that a property notices it: turns cost nothing.
RoundsAfter_Free(lists) == max_rounds

\* Levels passed over get a new budget; a turn within one level costs a round.
RoundsAfter(lists) ==
  LET l == ChosenLevel(lists)
  IN  [k \in 0 .. BUDGETED - 1 |->
         IF k >= max_priority /\ k < l /\ PassedOver(k) THEN MaxRounds
         ELSE IF k = l /\ k = Priority[cur_proc] THEN max_rounds[k] - 1
         ELSE max_rounds[k]]

\* schedule(), called with the current process left in status stat and the
\* ready lists as given.
Schedule(stat, lists) ==
  LET next == NextProc(lists)
      left == [status EXCEPT ![cur_proc] = stat]
  IN  /\ Relist(lists)
      /\ max_rounds' = RoundsAfter(lists)
      /\ cur_proc' = next
      /\ status' = IF ChosenLevel(lists) = PRIORITY_KIND THEN left
                   ELSE [left EXCEPT ![next] = "RUNNING"]
      /\ UNCHANGED <<max_priority, startVars>>

-----------------------------------------------------------------------------
(* What the rest of the kernel calls. *)

\* A faulty variant, for the check that a property notices it: stays on the list.
SelfBlock_Stays(stat) == Schedule(stat, ready_processes)

\* The list s without its element p.
Unlink(s, p) == RemoveAt(s, CHOOSE i \in DOMAIN s : s[i] = p)

\* self_block(): the current process leaves its ready list and the CPU.
SelfBlock(stat) ==
  LET l == Priority[cur_proc]
  IN  Schedule(stat, [ready_processes EXCEPT ![l] = Unlink(@, cur_proc)])

\* The ready lists with p behind the others of its level.
Enlisted(p) == [ready_processes EXCEPT ![Priority[p]] = Append(@, p)]

\* The scan starts from the level of p at the latest.
Raise(p) ==
  max_priority' = IF Priority[p] < max_priority THEN Priority[p] ELSE max_priority

\* unblock_proc(): the caller stays on the CPU.
UnblockProc(p) ==
  /\ status' = [status EXCEPT ![p] = "READY"]
  /\ Relist(Enlisted(p))
  /\ Raise(p)
  /\ UNCHANGED <<cur_proc, max_rounds, startVars>>

\* start_userprocess(), reached from create_process() in the kernel process.
\* The four assignments of append() are the steps StartLink (the own links of
\* the element), StartAppend (the list leads to it) and StartTail.
KernelAt(from, to) ==
  /\ cur_proc = KernelProc
  /\ start_pc = from /\ start_pc' = to

StartProcess(p) ==
  /\ status[p] = "FREE"
  /\ KernelAt("none", "list")
  /\ start_proc' = p
  /\ status' = [status EXCEPT ![p] = "READY"]
  /\ UNCHANGED <<cur_proc, ready_processes, max_rounds, max_priority, torn>>

StartLink ==
  /\ KernelAt("list", "link")
  /\ UNCHANGED <<cur_proc, status, ready_processes, max_rounds, max_priority, start_proc, torn>>

StartAppend ==
  /\ KernelAt("link", "tail")
  /\ ready_processes' = Enlisted(start_proc)
  /\ UNCHANGED <<cur_proc, status, max_rounds, max_priority, start_proc, torn>>

StartTail ==
  /\ KernelAt("tail", "level")
  /\ UNCHANGED <<cur_proc, status, ready_processes, max_rounds, max_priority, start_proc, torn>>

StartLevel ==
  /\ KernelAt("level", "none")
  /\ Raise(start_proc)
  /\ UNCHANGED <<cur_proc, status, ready_processes, max_rounds, start_proc, torn>>

\* proc_yield().
ProcYield == Schedule("READY", ready_processes)

\* timer_handler() once the ticks of the process are used up.  They are never
\* refilled, so from then on every tick calls schedule(); an earlier tick only
\* counts down.
TimerHandler == Schedule("READY", ready_processes)

-----------------------------------------------------------------------------
(* The process manager alone: any process but InitProc may block whenever  *)
(* it runs, and any message wait may end whenever another process or an    *)
(* interrupt handler runs.                                                 *)

ProcInit ==
  /\ cur_proc = InitProc
  /\ status = [p \in Procs |->
                 IF p = InitProc THEN "RUNNING"
                 ELSE IF Contains(BootLists[Priority[p]], p) THEN "READY" ELSE "FREE"]
  /\ ready_processes = BootLists
  /\ max_rounds = [l \in 0 .. BUDGETED - 1 |-> MaxRounds]
  /\ max_priority = CHOOSE l \in Levels :
       BootLists[l] # <<>> /\ \A k \in Levels : k < l => BootLists[k] = <<>>
  /\ start_pc = "none" /\ start_proc = InitProc
  /\ torn = FALSE

\* The current process does not give up the CPU in start_userprocess().
MayLeave == cur_proc = KernelProc => start_pc = "none"

Yield == MayLeave /\ ProcYield

\* A faulty variant, for the check that a property notices it: init may block.
Block_Init == MayLeave /\ \E stat \in Blocked : SelfBlock(stat)

Block == cur_proc # InitProc /\ MayLeave /\ \E stat \in Blocked : SelfBlock(stat)

Unblock(p) == status[p] \in {"WAITING_MSG", "SENDING_MSG"} /\ UnblockProc(p)

Start ==
  \/ \E p \in Procs : StartProcess(p)
  \/ StartLink
  \/ StartAppend
  \/ StartTail
  \/ StartLevel

ProcNext ==
  \/ /\ ~torn
     /\ \/ TimerHandler
        \/ Yield
        \/ Block
        \/ \E p \in Procs : Unblock(p)
        \/ Start
  \/ torn /\ UNCHANGED procVars

\* The timer interrupt keeps coming; nothing else is promised.
ProcSpec == ProcInit /\ [][ProcNext]_procVars /\ WF_procVars(~torn /\ TimerHandler)

-----------------------------------------------------------------------------
(* Properties. *)

ProcTypeOK ==
  /\ cur_proc \in Procs
  /\ status \in [Procs -> Status]
  /\ ready_processes \in [Levels -> Seq(Procs)]
  /\ max_rounds \in [0 .. BUDGETED - 1 -> 0 .. MaxRounds]
  /\ max_priority \in Levels
  /\ start_pc \in {"none", "list", "link", "tail", "level"}
  /\ start_proc \in Procs
  /\ torn \in BOOLEAN

\* A process is on the ready list of its own level exactly once while it may
\* run and on no list otherwise, whatever order of blocking, waking and
\* preemption (process.cc 151, 278 and 312); only the one being started is
\* READY before it is on its list (process.cc 69 and 237).  An element that is
\* appended twice would tie the pointer list into a loop.
ReadyListsMatchStatus ==
  ~torn =>
    /\ \A p \in Procs : Contains(ready_processes[Priority[p]], p)
                           <=> status[p] \in Runnable /\ ~Unlisted(p)
    /\ \A l \in Levels : \A i, j \in DOMAIN ready_processes[l] :
         /\ Priority[ready_processes[l][i]] = l
         /\ ready_processes[l][i] = ready_processes[l][j] => i = j

\* schedule() always finds a process and hands the CPU to it alone, so the
\* branch that prints "NULL" and returns to a blocked caller is not reached
\* (process.cc 173-192 relies on InitProc being ready at any time).
OneRunning == \A p \in Procs : status[p] = "RUNNING" <=> p = cur_proc

\* Within the highest level the turns reach every ready process, although
\* get_elem(0) restarts from the head of the list after each pass-over.
TopLevelProgress ==
  \A p \in Procs : Priority[p] = 0 => (status[p] = "READY" ~> status[p] # "READY" \/ torn)

\* The budget lets one process of the next level run while the level above
\* stays busy (process.cc 158-161).
NextLevelProgress ==
  \A p \in Procs :
    (Priority[p] = 1 /\ \A q \in Procs : Priority[q] = 1 => q = p) =>
      (status[p] = "READY" ~> status[p] # "READY" \/ torn)

\* "Prevent the low priority process starve." (process.cc 14): a ready process
\* of any level but InitProc's gets the CPU at some time.
LowPriorityRuns ==
  \A p \in Procs : Priority[p] < PRIORITY_KIND - 1 =>
      (status[p] = "READY" ~> status[p] # "READY" \/ torn)

=============================================================================
