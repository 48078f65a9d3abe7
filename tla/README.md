# Shmily: specifications, model checks and proofs

Shmily is a 32-bit micro-kernel operating system in C++. The kernel schedules
processes and passes messages; memory, files, devices and the network are
servers in processes of their own. This directory holds TLA+ modules for the
parts whose correctness depends on interleaving, ordering or limits, the TLC
configurations that check them, and theorems checked by TLAPS.

Run a check with `tlc -config process.cfg MCProcess`, a proof with
`tlapm ProcessProofs.tla`.

## 1. Inventory

| Component | State | Operations | Interacts with | Hard because |
|---|---|---|---|---|
| Process manager (`kernel/process.cc`, `timer.cc`) | `cur_proc`, `status`, five ready lists, `max_rounds`, `max_priority` | `schedule`, `self_block`, `unblock_proc`, `proc_yield`, start of a process, timer tick | called by message passing and by interrupts | preemption anywhere in user mode; an element is removed and then followed; starvation |
| Message passing (`kernel/ipc.cc`, `lib/syscall.cc`, `lib/all_syscall.cc`) | `pcb.sendings`, `next_ready`, `message`, `intr_cnt`, the message objects | `send`, `receive`, `send_then_recv`, `reply` | every process; disk and network interrupts send messages too | rendezvous, lost wake-ups, queue surgery, replies from anyone |
| Kernel process (`kernel/main.cc`) | its message | eight requests | every client | runs the same functions with interrupts on |
| Cycle list (`lib/cycle_list.cc`) | links inside the elements | append, push, remove, pop, next | ready lists, memory server | links are never cleared |
| Packet ring (`lib/indirect_ring_buffer.cc`) | `head`, `tail` | take a free buffer, take a used one | written by the network card's handler, read by the network server; also per TCP socket | two sides without a lock; full ring |
| Network card (`dr/ne2k.cc`) and packet branch of `net/main.cc` | card memory, interrupt status, `intr_cnt` | handler loop, packet copy, one message per pass | ring, message passing | messages and packets are counted separately |
| Disk driver (`dr/disk.cc`, `dr/main.cc`) | one command in progress | read, write, identify, handler | file system | interrupt against wait |
| Keyboard (`dr/keyboard.cc`, `lib/ring_buffer.cc`) | ring of characters | handler, polling terminal | terminal | overrun |
| Memory server (`mm/`) | two-bit page map, lists of pages with small blocks | malloc, free | all processes | a page is counted, moved and given back |
| File system (`fs/`) | inode and block bitmaps, inodes, directories, open files | make, remove, open, read, write, seek | driver, memory server | cached copies; several disk writes per operation |
| TCP (`net/tcp.cc`) | sockets by port, sequence numbers, receive rings | listen, accept, connect, send, recv, close, packets | IP, clients | packets before accept, lost packets |
| ARP, IP, UDP, ICMP, DNS, routes (`net/`) | ARP cache | packets | TCP, driver | eviction |
| Terminal (`terminal/`) | input line, user | commands | all servers | none of its own |
| Locks (`kernel/sync.cc`) | counters and queues | acquire, release | not linked into the kernel | - |
| Boot, paging, tables, strings, printing | - | set-up | - | - |

What makes each of them correct:

* process manager: a process is on its ready list exactly while it may run;
  somebody always runs; ready processes get the CPU;
* message passing: no wake-up is missed; a blocked sender can be found; queues
  end; a call returns, with its own reply;
* lists and rings: they are the sequence or bounded queue their users think;
* receive path: packets are seen in order, not overwritten while in use, and
  not left lying;
* memory server: no address is handed out twice, no memory lies behind two of
  them, all of it comes back;
* file system: bitmaps, inodes, directories and open files agree after every
  request; a file goes only when it is removed; files survive a restart;
* TCP: bytes are acknowledged and delivered in order, once; accept is answered;
  what is sent has no gap;
* ARP: the hosts heard are known, the gateway above all.

`PROJECT.json` lists the hazards line by line under `hazards`.

## 2. Plan

Done:

1. `Process`, `Ipc`, `IpcKernel`, `CycleList`, `IndirectRingBuffer`, `NetRx`.
2. `DoublebitMap` and `Memory`, which implement the abstract `Heap`.
3. `FileSystem`: what is on disk and what is in memory, with restarts.
4. `Net` with `Arp`: sockets, interface and ARP table against remote hosts and a
   network that loses, repeats and reorders.
5. Proofs of the safety properties of `Process`, `Ipc`, `CycleList`, `NetRx`,
   `Memory`, `FileSystem` and `Net`, with the refinements of `AbstractList`,
   `LossyQueue` and `Heap`. Every invariant that a passing run checks has a
   theorem.

Left:

6. Driver details: sectors of one transfer, `wait_disk`, the keyboard ring; the
   current directory and `exec` of the file server.

## 3. Modules

`Process` models process.cc statement by statement at the level of lists. The
ready lists are sequences; `Schedule(stat, lists)` is `schedule()` entered with
the current process in status `stat`, `SelfBlock`, `UnblockProc`,
`ProcYield` and `TimerHandler` are its callers. `WAITING_MID` is
set and replaced within one `self_block` and does not appear. `ticks` counts
down once and is never refilled, after which each tick calls `schedule()`; the
earlier ticks do nothing else and are left out, which also covers every length
of that first phase. On its own (`ProcNext`) any process but init may block, and
any process that waits for a message may be woken, at any time.
`start_userprocess` runs in the kernel process with interrupts on and is cut
where a tick can fall so that others see the difference: the new process is
READY (`StartProcess`), `append` sets the element's own links (`StartLink`),
lets the list lead to it (`StartAppend`) and sets the end (`StartTail`), and
`max_priority` is raised (`StartLevel`). A change of the same list by somebody else between the
assignments of `append` leaves links that `CycleList` says nothing of; `torn`
marks it, and nothing follows. A user process is created at most once per name;
the table of 64 processes is not modelled.

`Ipc` extends `Process` with the message functions. The system call gate is an
interrupt gate (`interrupt.cc` 170), so a user process is not interrupted in a
call: one step is one call up to the point where it gives up the CPU, and
`send_then_recv` has two such parts, with no interrupt between them
(`UserMode`). The queue of blocked senders is kept as the code keeps it, as
links through `next_ready`, with `INTERRUPT_PCB` as an extra node, because its
faults would vanish in a sequence. Message contents are reduced to a type and
the process whose request it is. `Step` gives clients and servers their
programs: a client calls or posts; a server receives from anyone, may start a
disk transfer or call another server, and replies. `wait_disk` is taken to
find the disk ready at once, and a transfer has one sector. `Layered` and
`ReplyBehind` are hypotheses of theorems; no action depends on them.

`IpcKernel` adds the kernel process, whose `receive` and `reply` are cut into
the steps between which a tick can take the CPU away.

`CycleList` has the links of `cycle_list.cc`; `AbstractList` is the sequence it
implements, and `Walk` reads that sequence from the links, as far as they stay
among the elements and never further than there are elements.
`IndirectRingBuffer` has head and tail; `NetRx` puts the card, the handler and
the network server around it; `LossyQueue` is the bounded queue they implement.
A full ring makes the handler write through a null pointer, and an empty one
makes the server handle what lies there: `page0` is that memory, and `NetHandle`
takes it for a packet as net/main.cc 42-45 does. `dropped` collects what was
written there, for the property that has to except it. The handler runs with
interrupts off, so the server stands still meanwhile (`handler = "off"` in its
guards); the card does not.

`Memory` models memory.cc over `DoublebitMap`. The virtual pages are the map's
slots, `phyaddr_bmap` the physical pages, `pte` and `pde` the page tables with
the present bit as "not NULL", `header` the small_mem_header at the start of a
page cut into blocks, and `mem_desc` the list of such pages of each class.
`MallocPages`, `MallocFromFirst` and `MallocFromNew` are the three ways through
malloc, `FreePages` and `FreeBlock` the two through free. `get_elem` ignores its
index (cycle_list.cc), hence the one page in `FirstHasRoom`; the count of blocks
with the division before the subtraction is `WrongBlockCount`. `vaddr2pte` lacks
its return; the model takes the value the build leaves in the result register.
`Heap` is what clients count on. `held` is the clients' side: they free what
they hold, once.

Boot maps the pages up to 0x20ffff to themselves (kernel/page.cc 30) and the pool
starts at 0x200000 (memory.cc 23, 33): its first pages, `PREMAPPED` of them, are
mapped before anybody asks. `malloc_page` marks a new physical page for such a
page and `map_vir_phy` keeps the old mapping, in a branch whose comment says
"Should not exists." (memory.cc 97-98); the physical page it really has is not
marked, and goes to another virtual page later. So two virtual pages in use may
be the same memory. Nor does `free_page` tell the processor: `reach` has every
physical page that a virtual page has been mapped to, any of which it may still
use. The model keeps all of this. What is claimed of malloc is therefore about
virtual addresses, `SharingConfined` says which physical pages cannot be shared,
and where the server's own headers, free blocks or page tables come to lie in
memory that a page in use has too (`DataAtRisk`), or an allocation fails, `wild`
is set and nothing more is claimed.

`FileSystem` models the requests of fs/main.cc. A request is answered before the
next is received, so it is one step; the disk writes inside it keep their order
as nested state functions (`sync_inode(allocate_block(...), ...)`), each named
for the function of the code. `fs` is the partition: super block magic, inode
table, data blocks, the two bitmaps on disk, and their copies in memory; `fdt`
holds the open files with their copies of inodes. A data block is a row of
directory entries, or `DATA` for the bytes of a file, whose values no property
needs; of a free block only whether it still has something in it is kept
(`Leftover`). Five things the code does without noticing lead out of what it
defines: it uses inode or bit -1, it writes file data to sector 0, it indexes
`inode->sectors` past its end (`InBounds`), it grows a directory into a block
with old content, or it follows a path through a file and reads the file's bytes
as entries (`ThroughFile`). `fs.wild` marks them, and only `Restart` follows.

Neither the server nor the terminal (terminal.cc 318-341) checks that a file
command names a file, rmdir a directory, or that a file is not open twice or
removed while open. Such a request is modelled with what it does: cpfile of a
directory gives its blocks two owners, rmdir of a small file removes it. It sets
`misused`; after it the types and the bitmaps are still claimed, the tree is
not, and only `Restart` follows. A request that changes nothing is not misused,
whatever it names. `Restart` is `init_fs` on what the disk holds, between two
requests; a cut of power inside one is not modelled. The names clients send are
none of "", "." and ".." (`NamesAssumption`): the terminal resolves those.

`Arp` has the operators of ArpCacheTable, `Net` the network server around it:
an action for each request of net/main.cc and, under `Deliver`, for each case of
`TcpFactory::resolve_packet`. The receive ring of a socket is a sequence that
drops when it has `LEN - 1` pieces; that the ring buffer is such a queue is what
`RefinesLossyQueue` of run `netrx` shows. Remote hosts are the environment:
`OnTheWay(c)` is everything host `c` may have sent so far, in every cut of its
bytes, and stays deliverable for ever, which makes loss, repetition and
reordering. What reaches a remote host is `toPeer`. `server = "gone"` is a
message to a process at address 0; nothing follows it. `Recv` takes the first
piece of a ring; on an empty one (`RecvNull`) the process gets what lies at
address 0 (tcp.cc 305-315), which is the piece an overflow dropped there last
(`page0`), as often as it asks. The ghosts: `trace`
records the bytes acknowledged and taken from the ring on a port and two
reservations, `lossy` (bytes acknowledged and dropped) and `stray` (a segment
taken before any SYN, or a SYN of an earlier connection); `reads` has all that
recv handed out and whether some recv found the ring empty (`early`); `deaf` says that some segment could not reach
its host, because the gateway was unknown or the address had changed.

In every module the operators named `..._Something` next to a definition are
faulty variants of it; each property is shown to fail with one of them.

## 4. Runs

| Run | Result | Shows |
|---|---|---|
| `process` | passes, 55,138 states | lists, statuses and CPU agree under every order of tick, yield, block, wake and creation, step by step, until a list is torn; every ready process of the top level gets a turn, and so does a lone process of the next level while the top is busy |
| `process_starve` | violated | with the levels `main()` uses, `dr` and `fs` alternate for ever without using up a round, and `mm` and the terminal stay ready and never run, against the comment at process.cc 14 |
| `ipc` | passes, 384,418 states | with terminal, file system, driver and network server: no missed wake-up, blocked senders are queued once, queues end, replies match calls |
| `ipc_live` | passes, 81,923 states | every call of the terminal returns |
| `ipc_behind` | violated | once the terminal calls the network server too, the receive from the middle of a queue (ipc.cc 142-158) wakes the wrong process and leaves the sender blocked for ever |
| `ipc_kernel` | violated | the kernel process blocks with a sender in its queue (ipc.cc 114-165 with interrupts on) |
| `cyclelist` | passes, 9,160 states | the links implement a sequence, and the stale link that `schedule()` follows names the successor |
| `netrx` | passes, 46,034 states | packets are handled in the order they came, but for those a full ring dropped at address 0 (`PacketsInOrder`); no overwriting, loss only when full; the messages cover the packets unless one pass stored several |
| `memory` | passes, 500,766 states | the pages and blocks handed out are disjoint in virtual addresses and long enough (`RefinesHeap`); map and page tables agree (`MapsAgree`); a block is free or held, never both, never lost (`FreeListsExact`); only physical pages that boot mapped come to be shared (`SharingConfined`); all until `wild` |
| `fs` | passes, 244,530 states | unless the last request was misused: names lead to allocated inodes, one each (`PathsLive`); no block has two owners or is free while in use (`NoSharedBlock`); names are unique; bitmaps on disk and in memory agree between requests; an open file's copy of its inode is the one on disk; a file goes only when removed or moved (`FilesKept`) |
| `fs_restart` | violated | a restart installs the mounted partition again: init_fs looks for "hmily" (fs.cc 61), "Shmily" is written (fs.cc 111) |
| `net` | passes, 443,472 states | see below |

Run `net`: while a connection is established, the bytes acknowledged are the
first ones its host sent (`AckMatchesTaken`), the acknowledgement was sent with
the right number (`TakenIsAcked`, unless `deaf`), and the segments sent cover
their numbers without gap or overlap (`OutContiguous`, unless `deaf` or
`stray`). A process takes out of its ring what was acknowledged, in order, and
all of it unless `lossy`; until a recv finds the ring empty, that is exactly what
it is given (`ReadsFollowStream`, unless `stray`). A process bound by accept waits
exactly as long as the handshake lasts (`AcceptAnswered`). The ARP table holds
the hosts heard while they fit and none has two addresses (`KnownHostsKept`).
The conditions are not slack: each was needed. A FIN is taken whatever its
number and the FIN|ACK sent is not counted, so the stream properties end there;
a host with two addresses is appended again and again and pushes out the
gateway; after `conf_net` the checksum still covers the old address.

`BlockedSenderIsQueued` passes in `ipc` and is violated in `ipc_behind`. The
difference is the topology. The network server works on a packet for nobody's
request and calls the driver; the driver's reply finds it not yet waiting and
queues, and if the terminal may call the network server at that moment it queues
in front of the reply. In `ipc` the terminal calls only the file system, which
works for the terminal alone; the branch is taken there for the disk interrupt,
which has no process to lose.

Bounds. `process`: two processes at level A, the kernel process at B, two
created at D, and init, with two rounds: two at a level make the rotation
visible, two rounds are the fewest in which a budget is neither always nor never
used up, and the second process created finds the first on the list.
`process_starve`, `ipc_behind` and `ipc_kernel` use the budget of ten. One call
and one network interrupt are enough for `ipc_behind`. `ipc`:
two calls or posts of the terminal and two network interrupts, so that a request
can overtake an earlier one and an interrupt can find the server waiting, busy
and queued for; budget 1, so that passing over happens early. `ipc_live`: the
same without posts and with one interrupt, to keep the liveness graph small.
`cyclelist`: four elements, so that an element in the middle has neighbours on
both sides that are not the sentinels. `netrx`: three buffers and six packets, so
that the ring fills, wraps and overflows, also while the last buffer is in use.
`memory`: six pages, six to a page table with the pool starting in the middle of
one, so that half of them need a second table; three pages mapped by boot; two
classes with three blocks and one block to a page, requests for both, for one
page, two and three; seven calls of malloc exhaust the memory, leave holes
between runs and make pages share memory. As in the code, five times the blocks of a page is less than
`WrongBlockCount`. `fs`: directories with two sectors of three entries, so that
"." and ".." leave one place and the root grows into a second block; files of up
to three bytes over two sectors of two; five inodes and six blocks, which seven
requests use up; one descriptor, two users. `fs_restart` needs three requests.
`net`: one port, two processes that use it one after the other or both at once,
two connection attempts; three bytes for the first, one of them 0, numbered
across the end of the sequence numbers; a ring of three buffers, of which two
can be full; an ARP table of three items, for the interface, the gateway and a
host, so that one more evicts one; seven socket steps, which reach from listen
over data to an overflow or to close, or over close to the next accept. An
overflow and then a read of the empty ring takes ten, and is left to the proof.
The processes are symmetric.

Fairness. The timer keeps ticking (weak fairness of `TimerHandler` and `Tick`).
In `Ipc` the disk answers, a server that gets the CPU again and again executes
its next instruction (strong fairness, since ticks take the CPU away in
between), and a call in progress goes on; clients need not call and the card
need not interrupt. `NetRx`, `Memory`, `FileSystem` and `Net` have safety
properties only. That the network server empties its ring is not claimed: it
would need CPU time, which `process_starve` shows a process of its level may
never get. A request of the other servers is one step that always ends, and for
TCP the code has no timer that would make anything happen again.

Deadlock is not checked in `memory` (it ends when memory is exhausted or the
calls are used up) and `net` (likewise, and when the server is gone); in `fs` a
restart is always possible.

What the passing runs say about doubts in the code: `net/main.cc` 42 suspects
that the buffer is given back too early. It is, but the ring never fills its
last buffer, and the buffer in use is always that one (`HeldBufferKept`).

## 5. Proofs

`ProcessProofs` (every set of processes, all priorities, every budget):

* `ProcTypeCorrect`, `ReadyListsStayRight`, `AlwaysOneRunning`: the three
  invariants of run `process`. Alone none of them is inductive: `schedule()`
  follows the current process's link, which only makes sense if that process is
  on its list exactly once, which needs the lists to match the statuses, which
  needs the process on the CPU to be the one marked running. `ProcInv` is their
  conjunction with `InitRunnable`, the fact the comment at process.cc 177 states:
  with init runnable the scan stops at a list that is not empty. `ScheduleFacts`
  shows this for `schedule()` once, for any status and lists that agree;
  `YieldFacts`, `SelfBlockFacts`, `EnqueueFacts` and `StartFacts` supply the
  agreement; the process being started is on no list until `StartAppend`. They
  hold until a list is torn.
  `UnlinkFacts` and `AppendFacts` say what removing and appending do to a list.
* Assumed: init exists, at the lowest level and on its list after boot; the lists
  after boot hold each process at most once and at its level; a positive budget.

`IpcProofs` (every finite set of processes, every number of calls and
interrupts):

* `IpcTypeCorrect` and `IpcKeepsReadyLists` hold whoever calls whom. `BaseInv`
  is the invariant of `ProcessProofs` with the types of the message functions
  and the fact that a request a server works on came from a process.
* `IpcUsesProcesses`: whatever the message functions do to statuses and ready
  lists is a step of `Process`: they wake only who waits, and only the process on
  the CPU blocks, never init. So `ProcNext` left nothing out.
* `SenderStaysQueued`, `QueuesEnd`, `NoWakeupIsMissed`, `CallGetsItsReply`: the
  properties of run `ipc`. They are stated for servers that are `Layered`: no two
  call each other, there is one disk and nobody posts to its driver. The servers
  of the system are, and TLC evaluates it for both topologies of `MCIpc`. They
  hold as long as no reply is taken from behind another sender (`ReplyBehind`).
  In `ipc_behind` that happens, and the property fails; the theorems say that it
  is the only way in which it can.
* The invariant is `SafeIpc`. That a blocked sender is queued is not inductive:
  a receive from the middle of a queue loses the sender in front. So the
  invariant has to say which nodes can be on one queue together. `Queued` gives
  the reason each node is there (a call, a post, a reply to a caller not waiting
  yet, the disk's interrupt), `Serving` that the caller of the request in work
  waits for the reply, `Placed` where a process can block, `DiskOwes` that a
  driver waiting for the disk gets its answer, and `Links` that the links spell
  disjoint lists. `StepSummary` reads each action as a change of statuses,
  objects and queues; `FrameLemma` then asks for the invariant only at the
  processes a step touches.

`CycleListProofs` (every finite set of elements):

* `LinksStayAgreed`, `ListIsSequence` (every step is one of `AbstractList`) and
  `StaleNextStaysUseful`, the link `schedule()` follows after a removal.
* `LinksAgree` speaks of walks and cannot be carried over a step by itself. The
  invariant `ListInv` has a sequence of different elements whose neighbours the
  links name in both directions (`Spine`). `InsertSpine` and `RemoveSpine` show
  what four assignments, or two, make of it; `WalkOf`, that the walk along a
  spine is the sequence.
* Assumed: the sentinels, the null pointer and the elements differ.

`NetRxProofs` (every ring of at least two buffers, every number of packets):

* `RxTypeCorrect`, `HeldBufferIsKept`: types and that no step writes the buffer
  in use. The strengthening is `HeldBehindTail`: that buffer is the one just
  behind `tail`. `FreeBufferFacts` shows that a free buffer never is.
* `PacketsStayInOrder`: with the buffers between `tail` and `head` in order of
  arrival, behind all that was seen and before all that is to come (`OrderInv`),
  leaving aside what was dropped, none of which is in the ring.
* `RingIsLossyQueue`: those buffers, read from `tail`, are the queue of
  `LossyQueue`, in every step of card, handler and server.
* `MessagesCoverPackets`, for fewer than 256 packets: below that the unsigned
  char `intr_cnt` cannot wrap (`CountBelow`: it counts no more than what came).
* Assumed: at least two buffers, and a null pointer that is not a buffer.

`MemoryProofs` (every number of pages, classes and calls, every length of page,
header and block with room for the largest block behind the header):

* `MemTypeCorrect`, `MapsStayInStep`, `FreeListsStayExact`, and `MemoryIsHeap`:
  every malloc and free is one of `Heap`, so what is handed out is disjoint in
  virtual addresses and as long as asked, however many pages boot mapped.
* `MapsAgree` and `FreeListsExact` compare sets; `MemInv` says the same of each
  page: a page in use is mapped, and a mapped page that is not in use is one of
  boot's (`MappedOK`), a run is marked so that its first page tells its length
  and no two runs meet (`RunsOK`), a block is free or held by one client and long
  enough (`BlocksOK`), the lists hold the cut pages (`ListsOK`).
* `SharingStaysConfined` needs of it only the types and the marks of runs.
  `MapOneCases` has the three things a round of `malloc_page` can do to the
  tables; `ConfinedPages` is the induction over the rounds.
* Assumed: a null pointer that is no page and no header; `RoomAssumption`.

`NetProofs` (every set of ports, processes, hosts and connections, every ring,
ARP table and number of steps):

* `NetTypeCorrect` and `AcceptsAreAnswered` from `NetInv`, which knows of each
  socket which process waits on it.
* `AcknowledgedIsSent`, if `NumbersApart`: the number a connection waits for is
  none of another connection's on its port, nor an earlier one of its own.
  `resolve_packet` does not look at who sent a segment (tcp.cc 256), so nothing
  else tells them apart. `StreamInv` relates `ack_num`, what was taken and what
  the host has sent. `MCNet` assumes it of its instance, where the numbers wrap.
* `ReadsAreInOrder`, if `NumbersApartAfterFin`. What is read is not a matter of
  established connections alone: in CLOSE_WAIT and CLOSED a segment in sequence
  is still stored, and a FIN has moved the number on by one that is no byte's, so
  `StreamInv` does not hold there and the numbers must be apart one further.
  `ReadInv` says of each socket that what was read, with the ring behind it
  (`Read`), rises, is what was taken unless `lossy`, and lies before the number
  the socket waits for (`Expects`), which passes the last byte by one, or two
  after a FIN (`Limit`). `FlattenAppend` and `FlattenTail` say what the two ends
  of the ring are in that sequence; `RisingCut`, that a read cut short leaves the
  rest in order.
* `TakenIsAcknowledged` (`AckedInv`), and `SentIsContiguous` if all that can be
  sent fits in the sequence numbers (`OutInv`, `ServedInv`).
* `HostsAreKept`, if no host has the address 0, by which the table marks a free
  item: `HostsInv`, the table holds exactly the known hosts while they fit.
* Assumed: the null pointer is no process, connection or socket.

`FileSystemProofs` (partitions, directories, files and tables of every size,
every sequence of requests and restarts):

* `PathsAreLive`, `BlocksAreNotShared`, `NamesAreUnique`, `BitmapsAreSynced`,
  `CachedInodesAreFresh`, `FsTypes` and the action property `FilesAreKept`: all
  the properties of run `fs`, from one invariant, `FsInv` (`FsInvariant`). A
  misused request ends what is claimed of the tree: `FsInv` then says that the
  partition is one and its bitmaps are on disk (`Sane`), and otherwise what
  follows (`Good`, `OpenFiles`). `Tidy` is the state before a request; `Outcome`,
  that a request leads to one or the other, is shown for each.
* None of them is inductive. A path is followed through the blocks of
  directories, so that it leads to an allocated inode depends on who owns those
  blocks: `Owned` gives each sector of an allocated inode one owner, `FreeClean`
  says that no free block has entries in it, which would come to life when a
  directory gets it. Which inodes have entries in their blocks is nowhere on
  disk; `IsDir` and `IsPlain` read it from the content, `Refs` says that an entry
  names an inode of the kind it claims, and `Once` that no inode has two names:
  without it rmfile would free an inode that another name leads to. `Synced` is
  there for `Restart`, which believes the disk, `OpenFiles` for a write through
  an open file's copy. `Refs(s, x)` excepts an inode `x`, since sys_mkdir enters
  the directory before it fills it.
* A request is taken apart along the functions of the code. Each writes one inode
  and blocks that are its own or free, so the others are as before (`Frame`,
  from `Owned`); `Kept` is what open files need of that and `PathsKept` what
  paths do. A request that ends `wild` leaves the partition of before with the
  mark; `Ups` carries this backwards: if the end is not wild, no step was, so
  every allocation inside succeeded.
* `FilesAreKept` says which paths may stop leading to a file in a step; `MovedTo`
  follows the blocks of a moved file to the new path.
* Assumed, besides sizes with room for a directory's first two entries:
  `NamesAssumption`, finite sets of paths, and modes made of permission bits. `MCFileSystem` has TLC evaluate them.

`NatFacts` states that a set of numbers has a least one, that induction over a
set of numbers works, and what `Min` returns, for all of them. Facts about
recursive definitions (`dir_is_exists`, `FlattenSeq`) are proved with it, as
membership of every number in a set.

Only model-checked:

* liveness (`TopLevelProgress`, `NextLevelProgress`, `CallsReturn`): it needs
  fairness and ENABLED, which the prover does not handle;
* that files do not survive a restart (`fs_restart`) and the starvation of
  `process_starve`: violations, which a run shows;
* everything about `IpcKernel`, whose run shows a violation.

## 6. Not modelled

* Process manager: what becomes of a torn list.
* File server: the current directory, `ls`, `cat` and `exec` (they read); what
  follows a `wild` or `misused` request; a power cut inside a request; a double
  free of its buffer (dir.cc 264), which concerns the memory server. The inode
  bitmap has 4096 bits and the table 1024 inodes, so that inode 1024 is written
  over the first data block (fs.cc 97, 199-202): an inode past the table's end
  is a wild one in the model.
* Memory server: what follows a failed allocation or data at risk, and the
  memory behind the map that the search reads as slots.
* Network server: `connect` and the states FIN_WAIT1 and FIN_WAIT2 (a socket is
  freed as soon as it is closed, and no request connects), UDP, DNS, ICMP
  replies and packet layout; ports past the end of the table; what other code
  than the overflowing ring writes to address 0.
* Disk driver: `wait_disk`, partitions, transfers of several sectors. Keyboard:
  the ring of characters and the decoding of scan codes.
* Terminal parsing, printing, boot, paging and segment set-up: no state that a
  property here would be about. `sync.cc`: not part of the image.
* Malformed packets, more than 255 uncounted interrupts, more than a thousand
  inodes and the 64-entry process table are outside the bounds; `PROJECT.json`
  says so where they are hazards.
