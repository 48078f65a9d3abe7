------------------------------- MODULE Memory -------------------------------
(***************************************************************************)
(* The memory server: mm/memory.cc, small_mem_header.cc and the switch of  *)
(* mm/main.cc, over the map of DoublebitMap.                               *)
(*                                                                         *)
(* A request for more than the largest class gets pages: virtual pages     *)
(* from the two-bit map, a physical page for each, and a page for the page *)
(* table where there is none yet.  A smaller one gets a block of a page    *)
(* cut into blocks of its class; a page's free blocks are a queue whose    *)
(* links lie in the blocks themselves, after a header at the page's start. *)
(*                                                                         *)
(* Boot maps the first pages of the pool to themselves (kernel/page.cc),   *)
(* which the bitmaps do not know: pages in use may come to share physical  *)
(* memory.  And nothing is ever invalidated in the processor, which may    *)
(* use any mapping a page has had.  What is claimed below is about virtual *)
(* addresses, and only as long as the server's own data is safe.           *)
(*                                                                         *)
(* Lengths are in units: a page has PAGE of them and the header takes      *)
(* HEADER.  Clients free what they hold, once.  wild is set when an        *)
(* allocation fails, which malloc does not notice and then writes to       *)
(* address 0, and when the server's data come to lie in memory that a page *)
(* in use has as well.                                                     *)
(***************************************************************************)
EXTENDS DoublebitMap, Sequences, SequencesExt

CONSTANTS
  PAGE,       \* units of a page
  HEADER,     \* units of struct small_mem_header
  SMALLEST,   \* units of a block of the first class (16 bytes)
  CLASSES,    \* number of classes; each has blocks twice as long (7)
  PTES,       \* pages of one page table (1024)
  PREMAPPED,  \* pages of the pool mapped at boot (16)
  Requests,   \* lengths clients ask for
  MaxMallocs, \* bound: calls of malloc
  NULL

ASSUME MemoryAssumption ==
  /\ PAGE \in Nat \ {0} /\ HEADER \in 0 .. PAGE - 1 /\ SMALLEST \in Nat \ {0}
  /\ CLASSES \in Nat \ {0} /\ PTES \in Nat \ {0} /\ Requests \subseteq Nat
  /\ PREMAPPED \in 0 .. PTES - PTES \div 2 /\ MaxMallocs \in Nat

\* A page pointer that is 0 is none.
ASSUME NullAssumption ==
  /\ NULL \notin Int
  /\ NULL \notin [each_block_size : Nat, free_cnts : Nat, queue : Seq(Nat)]

VARIABLES
  vaddr_bmap,    \* the map of virtual pages
  phyaddr_bmap,  \* the physical pages in use
  pte,           \* the physical page a virtual page is mapped to, or NULL
  pde,           \* page table number -> the page it lies in, or NULL
  reach,         \* the physical pages a virtual page has been mapped to
  header,        \* struct small_mem_header of a page cut into blocks, or NULL
  mem_desc,      \* class -> the pages of the class
  held,          \* ghost: what the clients hold
  wild,          \* the server's data may be overwritten from now on
  mallocs        \* calls of malloc so far

pageVars == <<vaddr_bmap, phyaddr_bmap, pte, pde, reach>>
memVars == <<pageVars, header, mem_desc, held, wild, mallocs>>

\* As many virtual pages as physical ones: one bitmap's length serves both.
Pages == Slots
Classes == 0 .. CLASSES - 1
ClassSize(c) == SMALLEST * 2^c
LARGEST == ClassSize(CLASSES - 1)

\* A page has room for a block of the largest class after its header.
ASSUME RoomAssumption == LARGEST <= PAGE - HEADER

\* The first page table is there from the start and half taken: the pool
\* starts in the middle of what it maps.
TableOf(v) == (v + PTES \div 2) \div PTES
Tables == {TableOf(v) : v \in Pages}
BOOT_TABLE == NSLOTS    \* a page outside the pool

-----------------------------------------------------------------------------
(* Pages. *)

\* bitmap_scan for one bit; NULL when every page is taken.
get_phy_page(taken) ==
  IF taken = Pages THEN NULL ELSE Min(Pages \ taken)

\* A faulty variant, for the check that a property notices it: the page of a
\* new page table is not marked.
map_vir_phy_NoMark(m, v, page) ==
  LET table == get_phy_page(m.taken)
  IN  IF m.pde[TableOf(v)] # NULL
      THEN IF m.pte[v] # NULL THEN m ELSE [m EXCEPT !.pte[v] = page]
      ELSE IF table = NULL THEN [m EXCEPT !.failed = TRUE]
      ELSE [m EXCEPT !.pde[TableOf(v)] = table, !.pte[v] = page]

\* A virtual page gets a physical one; a page table is made when its first
\* page is mapped.  A page that is mapped already stays as it is.
map_vir_phy(m, v, page) ==
  LET table == get_phy_page(m.taken)
  IN  IF m.pde[TableOf(v)] # NULL
      THEN IF m.pte[v] # NULL THEN m ELSE [m EXCEPT !.pte[v] = page]
      ELSE IF table = NULL THEN [m EXCEPT !.failed = TRUE]
      ELSE [m EXCEPT !.taken = @ \cup {table},
                     !.pde[TableOf(v)] = table, !.pte[v] = page]

\* One round of malloc_page: a physical page, then the map.
MapOne(m, v) ==
  LET page == get_phy_page(m.taken)
  IN  IF m.failed \/ page = NULL THEN [m EXCEPT !.failed = TRUE]
      ELSE map_vir_phy([m EXCEPT !.taken = @ \cup {page}], v, page)

\* The pages after the virtual ones have been taken, one after the other.
MapPages(start, cnt) ==
  LET map[k \in 0 .. cnt] ==
        IF k = 0
        THEN [taken |-> phyaddr_bmap, pte |-> pte, pde |-> pde, failed |-> FALSE]
        ELSE MapOne(map[k - 1], start + k - 1)
  IN  map[cnt]

malloc_page(start, cnt) ==
  LET m == MapPages(start, cnt)
  IN  /\ vaddr_bmap' = sync(vaddr_bmap, start, cnt)
      /\ phyaddr_bmap' = m.taken
      /\ pte' = m.pte
      /\ pde' = m.pde
      /\ reach' = [v \in Pages |-> reach[v] \cup ({m.pte[v]} \ {NULL})]

MallocPageFails(start, cnt) == start = -1 \/ MapPages(start, cnt).failed

\* free_page: the virtual pages are given back first, then the physical page
\* of each.  The processor is not told (memory.cc 144-145): reach stays.
free_page(v) ==
  LET run == v .. v + RunLength(vaddr_bmap, v) - 1
  IN  /\ vaddr_bmap' = free_slots(vaddr_bmap, v)
      /\ phyaddr_bmap' = phyaddr_bmap \ {pte[i] : i \in run}
      /\ pte' = [i \in Pages |-> IF i \in run THEN NULL ELSE pte[i]]
      /\ UNCHANGED <<pde, reach>>

-----------------------------------------------------------------------------
(* Small blocks. *)

\* A faulty variant, for the check that a property notices it: the header is
\* not counted.
BlocksOf_WholePage(size) == PAGE \div size

\* Blocks of a page and where they start.
BlocksOf(size) == (PAGE - HEADER) \div size
UnitsOf(blk, size) == {HEADER + blk * size + u : u \in 0 .. size - 1}

\* install_mem_header: every block in the queue, in the order of addresses.
install_mem_header(size) ==
  [each_block_size |-> size, free_cnts |-> BlocksOf(size),
   queue |-> [i \in 1 .. BlocksOf(size) |-> i - 1]]

\* A faulty variant, for the check that a property notices it: the count of
\* free blocks stays.
PopBlock_NoCount(h) == [h EXCEPT !.queue = Tail(@)]

PopBlock(h) == [h EXCEPT !.queue = Tail(@), !.free_cnts = @ - 1]

\* A faulty variant, for the check that a property notices it: the doubling
\* stops one class early.
ClassFor_Early(len) == Min({c \in Classes : 2 * ClassSize(c) >= len})

\* The class of a request: the first whose blocks are long enough.
ClassFor(len) == Min({c \in Classes : ClassSize(c) >= len})

\* get_elem returns the first page whatever it is asked for, so that the walk
\* over the pages of a class looks at one page only.
FirstHasRoom(c) ==
  mem_desc[c] # <<>> /\ header[Head(mem_desc[c])].free_cnts > 0

Hold(page, cnt, blk, len) ==
  held' = held \cup {[page |-> page, cnt |-> cnt, blk |-> blk, asked |-> len]}

Fail ==
  /\ wild' = TRUE
  /\ UNCHANGED <<pageVars, header, mem_desc, held>>

\* The header and the free blocks of a cut page, or a page table, may lie in
\* memory that another page in use has too, or move when the processor drops
\* an old mapping.
DataAtRisk ==
  LET used == {v \in Pages : vaddr_bmap[v] # SLOT_FREE}
  IN  \/ \E p \in Pages : header[p] # NULL /\ (\E x, y \in reach[p] : x # y)
      \/ \E p \in Pages : header[p] # NULL /\
           \E v \in used \ {p} : reach[p] \cap reach[v] # {}
      \/ \E t \in Tables, v \in used : pde[t] \in reach[v]

-----------------------------------------------------------------------------
(* The requests: malloc and free. *)

\* More than the largest class: whole pages.
MallocPages(len) ==
  LET cnt == (len + PAGE - 1) \div PAGE
      start == get_free_slots(vaddr_bmap, cnt)
  IN  /\ len > LARGEST
      /\ IF MallocPageFails(start, cnt) THEN Fail
         ELSE /\ malloc_page(start, cnt)
              /\ Hold(start, cnt, NULL, len)
              /\ UNCHANGED <<header, mem_desc>>
              /\ wild' = DataAtRisk'

\* A block from the first page of the class; a page that is full now goes to
\* the end.
MallocFromFirst(len) ==
  LET c == ClassFor(len)
      page == Head(mem_desc[c])
  IN  /\ len \in 1 .. LARGEST
      /\ FirstHasRoom(c)
      /\ header' = [header EXCEPT ![page] = PopBlock(@)]
      /\ mem_desc' = IF header'[page].free_cnts = 0
                     THEN [mem_desc EXCEPT ![c] = Append(Tail(@), page)]
                     ELSE mem_desc
      /\ Hold(page, 0, Head(header[page].queue), len)
      /\ UNCHANGED <<pageVars, wild>>

\* A block from a new page, which becomes the first of its class.
MallocFromNew(len) ==
  LET c == ClassFor(len)
      page == get_free_slots(vaddr_bmap, 1)
      h == install_mem_header(ClassSize(c))
  IN  /\ len \in 1 .. LARGEST
      /\ ~FirstHasRoom(c)
      /\ IF MallocPageFails(page, 1) THEN Fail
         ELSE /\ malloc_page(page, 1)
              /\ header' = [header EXCEPT ![page] = PopBlock(h)]
              /\ mem_desc' = [mem_desc EXCEPT ![c] = <<page>> \o @]
              /\ Hold(page, 0, Head(h.queue), len)
              /\ wild' = DataAtRisk'

\* free of an address at the start of a page.
FreePages(b) ==
  /\ b.blk = NULL
  /\ free_page(b.page)
  /\ held' = held \ {b}
  /\ UNCHANGED <<header, mem_desc, wild>>

\* The tests after a block is put back divide the header's length by the
\* block's before they subtract.
WrongBlockCount(size) == PAGE - HEADER \div size

\* CycleList::remove: a page is in the list of its class once.
Unlink(s, page) == RemoveAt(s, CHOOSE i \in DOMAIN s : s[i] = page)

\* free of a block: to the end of its page's queue.  A page with all of
\* WrongBlockCount free would be given back, and one with a fifth of it would
\* come first.
FreeBlock(b) ==
  LET h == [header[b.page] EXCEPT !.queue = Append(@, b.blk),
                                  !.free_cnts = @ + 1]
      c == ClassFor(h.each_block_size)
      rest == Unlink(mem_desc[c], b.page)
  IN  /\ b.blk # NULL
      /\ held' = held \ {b}
      /\ UNCHANGED wild
      /\ IF h.free_cnts = WrongBlockCount(h.each_block_size)
         THEN /\ mem_desc' = [mem_desc EXCEPT ![c] = rest]
              /\ header' = [header EXCEPT ![b.page] = NULL]
              /\ free_page(b.page)
         ELSE /\ mem_desc' =
                   IF 5 * h.free_cnts >= WrongBlockCount(h.each_block_size)
                   THEN [mem_desc EXCEPT ![c] = <<b.page>> \o rest]
                   ELSE mem_desc
              /\ header' = [header EXCEPT ![b.page] = h]
              /\ UNCHANGED pageVars

MemInit ==
  /\ vaddr_bmap = [i \in Slots |-> SLOT_FREE]
  /\ phyaddr_bmap = {}
  /\ pte = [i \in Pages |-> IF i < PREMAPPED THEN i ELSE NULL]
  /\ pde = [t \in Tables |-> IF t = 0 THEN BOOT_TABLE ELSE NULL]
  /\ reach = [i \in Pages |-> IF i < PREMAPPED THEN {i} ELSE {}]
  /\ header = [i \in Pages |-> NULL]
  /\ mem_desc = [c \in Classes |-> <<>>]
  /\ held = {}
  /\ wild = FALSE
  /\ mallocs = 0

MemNext ==
  /\ ~wild
  /\ \/ /\ mallocs < MaxMallocs /\ mallocs' = mallocs + 1
        /\ \E len \in Requests :
             MallocPages(len) \/ MallocFromFirst(len) \/ MallocFromNew(len)
     \/ UNCHANGED mallocs /\ \E b \in held : FreePages(b) \/ FreeBlock(b)

MemSpec == MemInit /\ [][MemNext]_memVars

-----------------------------------------------------------------------------
(* Properties. *)

MemTypeOK ==
  /\ vaddr_bmap \in [Slots -> SlotValues]
  /\ phyaddr_bmap \subseteq Pages
  /\ pte \in [Pages -> Pages \cup {NULL}]
  /\ \A t \in Tables : pde[t] \in Pages \cup {BOOT_TABLE, NULL}
  /\ reach \in [Pages -> SUBSET Pages]
  /\ \A p \in Pages : header[p] # NULL =>
       LET h == header[p]
           n == BlocksOf(h.each_block_size)
       IN  /\ h.each_block_size \in {ClassSize(c) : c \in Classes}
           /\ h.free_cnts \in 0 .. n
           /\ h.queue \in Seq(0 .. n - 1)
           /\ n * h.each_block_size <= PAGE - HEADER
  /\ mem_desc \in [Classes -> Seq(Pages)]
  /\ wild \in BOOLEAN
  /\ mallocs \in 0 .. MaxMallocs

\* The virtual pages in use are exactly the ones a client holds or that are
\* cut into blocks, so that giving back a run gives back all of it.  Each is
\* mapped, in a page table that is there; no other page is mapped but those
\* that boot mapped and nobody has used yet (memory.cc 90-108, 147-160).
MapsAgree ==
  LET used == {v \in Pages : vaddr_bmap[v] # SLOT_FREE}
      mapped == {v \in Pages : pte[v] # NULL}
  IN  /\ used = {v \in Pages : header[v] # NULL}
                \cup UNION {b.page .. b.page + b.cnt - 1 : b \in held}
      /\ used \subseteq mapped
      /\ \A v \in mapped : pde[TableOf(v)] # NULL
      /\ \A v \in mapped \ used : v < PREMAPPED /\ pte[v] = v

\* Every block of a page cut into blocks is either in the page's queue, once,
\* or held by a client; the count in the header is the queue's length; and
\* the page is in the list of its class, once: a block is neither lost nor
\* handed out twice.
FreeListsExact ==
  /\ \A p \in Pages : header[p] # NULL =>
       LET h == header[p]
           used == {b.blk : b \in {x \in held : x.page = p}}
       IN  /\ h.free_cnts = Len(h.queue)
           /\ IsInjective(h.queue)
           /\ Range(h.queue) \cap used = {}
           /\ Range(h.queue) \cup used = 0 .. BlocksOf(h.each_block_size) - 1
           /\ vaddr_bmap[p] = SLOT_USED_SINGLE
  /\ \A c \in Classes :
       /\ IsInjective(mem_desc[c])
       /\ Range(mem_desc[c]) = {p \in Pages : header[p] # NULL /\
                                  header[p].each_block_size = ClassSize(c)}

\* The virtual addresses a client has with a block.
BytesOf(b) ==
  IF b.blk = NULL
  THEN {<<v, u>> : v \in b.page .. b.page + b.cnt - 1, u \in 0 .. PAGE - 1}
  ELSE {<<b.page, u>> : u \in UnitsOf(b.blk, header[b.page].each_block_size)}

\* The memory server implements the heap its clients count on, in virtual
\* addresses: blocks long enough, at addresses that no other block has.  What
\* lies behind the addresses is the subject of SharingConfined.
heap == INSTANCE Heap WITH
          blocks <- {[asked |-> b.asked, bytes |-> BytesOf(b)] : b \in held}
RefinesHeap == heap!HeapSpec

\* A physical page that boot did not map is the memory of one virtual page or
\* of one page table, and marked as taken as long as it is.  Of those boot did
\* map (page.cc 30) this is not so: such a page keeps its mapping (memory.cc
\* 97-98, "Should not exists"), the bitmap does not know, and the physical page
\* goes to others as well, each of which gives it back (memory.cc 153-154).
SharingConfined ==
  LET own == {f \in Pages : f >= PREMAPPED}
  IN  /\ \A v \in Pages : pte[v] \in own =>
           /\ pte[v] \in phyaddr_bmap
           /\ \A w \in Pages \ {v} : pte[w] # pte[v]
           /\ \A t \in Tables : pde[t] # pte[v]
      /\ \A t \in Tables : pde[t] \in own =>
           /\ pde[t] \in phyaddr_bmap
           /\ \A u \in Tables \ {t} : pde[u] # pde[t]

=============================================================================
