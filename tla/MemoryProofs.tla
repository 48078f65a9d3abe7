---------------------------- MODULE MemoryProofs ------------------------------
(***************************************************************************)
(* Proofs about the memory server, for every number of pages, classes and  *)
(* calls and every length of a page, its header and a block.               *)
(*                                                                         *)
(* MemInv, the inductive invariant, says of the state itself what the      *)
(* properties say of sets and sums: a page in use is mapped (MappedOK), a  *)
(* run is marked so that its first page tells its length and no two runs   *)
(* meet (RunsOK), a block of a cut page is free or held by one client and  *)
(* long enough for what was asked (BlocksOK), and the lists of the classes *)
(* hold the cut pages (ListsOK).                                           *)
(***************************************************************************)
EXTENDS Memory, NatFacts, FiniteSetTheorems, SequenceTheorems, TLAPS

Sizes == {ClassSize(c) : c \in Classes}
Header == [each_block_size : Sizes, free_cnts : Nat, queue : Seq(Nat)]
Block == [page : Pages, cnt : Nat, blk : Nat \cup {NULL}, asked : Nat]
RunOf(b) == b.page .. b.page + b.cnt - 1

MemShape ==
  /\ vaddr_bmap \in [Slots -> SlotValues]
  /\ phyaddr_bmap \subseteq Pages
  /\ pte \in [Pages -> Pages \cup {NULL}]
  /\ pde \in [Tables -> Pages \cup {BOOT_TABLE, NULL}]
  /\ reach \in [Pages -> SUBSET Pages]
  /\ header \in [Pages -> Header \cup {NULL}]
  /\ mem_desc \in [Classes -> Seq(Pages)]
  /\ held \subseteq Block
  /\ wild \in BOOLEAN
  /\ mallocs \in 0 .. MaxMallocs

\* A mapped page has a page table.
HasTables(ptes, pdes) == \A v \in Pages : ptes[v] # NULL => pdes[TableOf(v)] # NULL

\* A page in use is mapped, and a mapped page that is not in use is one that
\* boot mapped and nobody has used yet.
MappedOK ==
  /\ HasTables(pte, pde)
  /\ \A v \in Pages : vaddr_bmap[v] # SLOT_FREE => pte[v] # NULL
  /\ \A v \in Pages : vaddr_bmap[v] = SLOT_FREE /\ pte[v] # NULL
                       => v < PREMAPPED /\ pte[v] = v

\* What the map says of a run: its first page tells where it ends.
Mark(i, page, cnt) ==
  IF cnt = 1 THEN SLOT_USED_SINGLE
  ELSE IF i = page THEN SLOT_SEQ_START
  ELSE IF i = page + cnt - 1 THEN SLOT_SEQ_END
  ELSE SLOT_USED_SINGLE

RunsOK ==
  /\ \A v \in Pages : vaddr_bmap[v] # SLOT_FREE <=> \/ header[v] # NULL
                                                    \/ \E b \in held : v \in RunOf(b)
  /\ \A v \in Pages : header[v] # NULL =>
       vaddr_bmap[v] = SLOT_USED_SINGLE /\ \A b \in held : v \notin RunOf(b)
  /\ \A b \in held : b.blk # NULL => b.cnt = 0
  /\ \A b \in held : b.blk = NULL =>
       /\ b.cnt >= 1 /\ b.page + b.cnt - 1 \in Pages
       /\ \A i \in RunOf(b) : vaddr_bmap[i] = Mark(i, b.page, b.cnt)
  /\ \A b, d \in held : \A i \in RunOf(b) : i \in RunOf(d) => b = d

\* A block of a page is in the page's queue or held.
FreeOK(p, h, blocks) ==
  /\ h.free_cnts = Len(h.queue)
  /\ IsInjective(h.queue)
  /\ \A k : Contains(h.queue, k)
             <=> /\ k \in 0 .. BlocksOf(h.each_block_size) - 1
                 /\ ~ \E b \in blocks : b.page = p /\ b.blk = k

BlocksOK ==
  /\ \A b \in held : b.blk # NULL =>
       /\ header[b.page] # NULL
       /\ b.asked <= header[b.page].each_block_size
       /\ b.blk < BlocksOf(header[b.page].each_block_size)
  /\ \A b \in held : b.blk = NULL => b.asked <= b.cnt * PAGE
  /\ \A b, d \in held : b.blk # NULL /\ b.page = d.page /\ b.blk = d.blk => b = d
  /\ \A p \in Pages : header[p] # NULL => FreeOK(p, header[p], held)

\* A list of a class holds the pages cut for it, each once.
ListsOK ==
  \A c \in Classes :
    /\ IsInjective(mem_desc[c])
    /\ \A p \in Pages : Contains(mem_desc[c], p)
         <=> header[p] # NULL /\ header[p].each_block_size = ClassSize(c)

MemInv ==
  /\ MemShape
  /\ MappedOK
  /\ RunsOK
  /\ BlocksOK
  /\ ListsOK

-----------------------------------------------------------------------------
(* The sizes of the blocks. *)

\* A power of two is the number of subsets of a set, and so is positive and
\* grows with the exponent.
LEMMA Powers ==
  ASSUME NEW c \in Nat, NEW d \in Nat, c < d
  PROVE  2^c \in Nat \ {0} /\ 2^d \in Nat \ {0} /\ 2^c < 2^d
  <1>1. \A n \in Nat : /\ IsFiniteSet(1 .. n) /\ Cardinality(1 .. n) = n
    BY FS_Interval
  <1>2. ASSUME NEW n \in Nat
        PROVE  /\ IsFiniteSet(SUBSET (1 .. n)) /\ Cardinality(SUBSET (1 .. n)) = 2^n
               /\ 2^n \in Nat \ {0}
    <2>1. IsFiniteSet(SUBSET (1 .. n)) /\ Cardinality(SUBSET (1 .. n)) = 2^n
      BY <1>1, FS_SUBSET, Zenon
    <2>2. SUBSET (1 .. n) # {}
      OBVIOUS
    <2>3. Cardinality(SUBSET (1 .. n)) \in Nat /\ Cardinality(SUBSET (1 .. n)) # 0
      BY <2>1, <2>2, FS_CardinalityType, FS_EmptySet, Zenon
    <2> QED BY <2>1, <2>3, Zenon
  <1>3. SUBSET (1 .. c) \in SUBSET (SUBSET (1 .. d)) /\ SUBSET (1 .. c) # SUBSET (1 .. d)
    <2>1. 1 .. c \subseteq 1 .. d
      OBVIOUS
    <2>2. d \in 1 .. d /\ d \notin 1 .. c
      OBVIOUS
    <2> QED BY <2>1, <2>2, Zenon
  <1>4. 2^c <= 2^d /\ 2^d # 2^c
    <2> DEFINE S == SUBSET (1 .. d)
               T == SUBSET (1 .. c)
    <2>1. IsFiniteSet(S) /\ T \in SUBSET S /\ T # S
          /\ Cardinality(S) = 2^d /\ Cardinality(T) = 2^c
      BY <1>2, <1>3, Zenon
    <2> HIDE DEF S, T
    <2>2. Cardinality(T) <= Cardinality(S) /\ Cardinality(S) # Cardinality(T)
      BY <2>1, FS_Subset, Zenon
    <2> QED BY <2>1, <2>2, Zenon
  <1>5. 2^c \in Nat \ {0} /\ 2^d \in Nat \ {0}
    BY <1>2, Zenon
  <1> DEFINE x == 2^c
             y == 2^d
  <1> HIDE DEF x, y
  <1>6. x \in Nat /\ y \in Nat /\ x <= y /\ y # x => x < y
    OBVIOUS
  <1> QED BY <1>4, <1>5, <1>6, Zenon DEF x, y

\* A product with a larger factor is larger.
LEMMA Larger ==
  ASSUME NEW m \in Nat \ {0}, NEW x \in Nat, NEW y \in Nat, x < y
  PROVE  m * x < m * y
  <1>1. m * (y - x) = m * y - m * x
    BY Distributes
  <1>2. m * (y - x) >= m
    BY MultipleGrows
  <1>3. m * x \in Nat /\ m * y \in Nat
    OBVIOUS
  <1> QED BY <1>1, <1>2, <1>3

\* The classes have blocks of different lengths, each at least as long as the
\* one before, and the longest fits into a page.
LEMMA SizeFacts ==
  /\ CLASSES - 1 \in Classes
  /\ \A c \in Classes : ClassSize(c) \in Nat \ {0} /\ ClassSize(c) <= LARGEST
  /\ \A c, d \in Classes : c < d => ClassSize(c) < ClassSize(d)
  /\ \A c, d \in Classes : ClassSize(c) = ClassSize(d) => c = d
  <1>1. Classes \subseteq Nat /\ CLASSES - 1 \in Classes
        /\ (\A c \in Classes : c <= CLASSES - 1) /\ CLASSES - 1 \in Nat
        /\ SMALLEST \in Nat \ {0}
    BY MemoryAssumption DEF Classes
  <1>2. ASSUME NEW c \in Nat
        PROVE  ClassSize(c) \in Nat \ {0}
    <2>1. 2^c \in Nat \ {0}
      BY c < c + 1, Powers
    <2> QED BY <1>1, <2>1 DEF ClassSize
  <1>3. ASSUME NEW c \in Nat, NEW d \in Nat, c < d
        PROVE  ClassSize(c) < ClassSize(d)
    <2>1. 2^c \in Nat \ {0} /\ 2^d \in Nat \ {0} /\ 2^c < 2^d
      BY <1>3, Powers
    <2>2. SMALLEST * 2^c < SMALLEST * 2^d
      BY <1>1, <2>1, Larger
    <2> QED BY <2>2, Zenon DEF ClassSize
  <1>4. ASSUME NEW c \in Classes
        PROVE  ClassSize(c) <= LARGEST
    <2>1. c \in Nat /\ c <= CLASSES - 1
      BY <1>1
    <2>2. CASE c = CLASSES - 1
      BY <1>1, <1>2, <2>2 DEF LARGEST
    <2>3. CASE c < CLASSES - 1
      <3>1. ClassSize(c) < LARGEST
        BY <1>1, <1>3, <2>1, <2>3 DEF LARGEST
      <3>2. ClassSize(c) \in Nat /\ LARGEST \in Nat
        BY <1>1, <1>2, <2>1 DEF LARGEST
      <3> QED BY <3>1, <3>2
    <2> QED BY <1>1, <2>1, <2>2, <2>3
  <1>5. ASSUME NEW c \in Classes, NEW d \in Classes, ClassSize(c) = ClassSize(d)
        PROVE  c = d
    <2>1. c \in Nat /\ d \in Nat
      BY <1>1
    <2>2. ClassSize(c) \in Nat /\ ClassSize(d) \in Nat
      BY <1>2, <2>1
    <2>3. ~(c < d) /\ ~(d < c)
      BY <1>3, <1>5, <2>1, <2>2
    <2> QED BY <2>1, <2>3
  <1> QED BY <1>1, <1>2, <1>3, <1>4, <1>5

\* A request of at most LARGEST gets a class whose blocks are long enough, and
\* the class of a class's own block length is that class.
LEMMA ClassForFacts ==
  /\ \A len \in 1 .. LARGEST : ClassFor(len) \in Classes /\ ClassSize(ClassFor(len)) >= len
  /\ \A c \in Classes : ClassFor(ClassSize(c)) = c
  <1>0. Classes \subseteq Nat
    BY MemoryAssumption DEF Classes
  <1>1. ASSUME NEW len \in 1 .. LARGEST
        PROVE  ClassFor(len) \in Classes /\ ClassSize(ClassFor(len)) >= len
    <2> DEFINE T == {c \in Classes : ClassSize(c) >= len}
    <2>1. CLASSES - 1 \in T
      BY SizeFacts DEF LARGEST
    <2>2. T \subseteq Nat /\ T # {}
      BY <1>0, <2>1
    <2> HIDE DEF T
    <2>3. Min(T) \in T
      BY <2>2, MinIsLeast
    <2> QED BY <2>3 DEF T, ClassFor
  <1>2. ASSUME NEW c \in Classes
        PROVE  ClassFor(ClassSize(c)) = c
    <2> DEFINE T == {d \in Classes : ClassSize(d) >= ClassSize(c)}
    <2>1. c \in T
      BY SizeFacts
    <2>2. T \subseteq Nat /\ T # {}
      BY <1>0, <2>1
    <2>3. \A d \in T : c <= d
      <3> SUFFICES ASSUME NEW d \in Classes, ClassSize(d) >= ClassSize(c), d < c PROVE FALSE
        BY <1>0
      <3>1. ClassSize(d) < ClassSize(c) /\ ClassSize(d) \in Nat /\ ClassSize(c) \in Nat
        BY SizeFacts
      <3> QED BY <3>1
    <2>4. ClassFor(ClassSize(c)) = Min(T)
      BY DEF ClassFor
    <2> HIDE DEF T
    <2>5. Min(T) \in T /\ \A y \in T : Min(T) <= y
      BY <2>2, MinIsLeast
    <2>6. Min(T) <= c /\ c <= Min(T) /\ Min(T) \in Nat /\ c \in Nat
      BY <1>0, <2>1, <2>2, <2>3, <2>5
    <2> QED BY <2>4, <2>6
  <1> QED BY <1>1, <1>2

\* A page has at least one block of any class, and its blocks fit into it
\* after the header.
LEMMA BlockCount ==
  ASSUME NEW size \in Sizes
  PROVE  /\ size \in Nat \ {0} /\ size <= LARGEST
         /\ BlocksOf(size) \in Nat \ {0}
         /\ BlocksOf(size) * size <= PAGE - HEADER
         /\ WrongBlockCount(size) \in Nat /\ BlocksOf(size) <= WrongBlockCount(size)
  <1>1. size \in Nat \ {0} /\ size <= LARGEST /\ LARGEST \in Nat
    BY SizeFacts DEF Sizes, LARGEST
  <1>2. PAGE \in Nat /\ HEADER \in Nat /\ HEADER < PAGE /\ PAGE - HEADER \in Nat
        /\ size <= PAGE - HEADER
    BY <1>1, MemoryAssumption, RoomAssumption
  <1> DEFINE x == PAGE - HEADER
             n == x \div size
             k == HEADER \div size
  <1>3. x \in Nat /\ size <= x
    BY <1>2
  <1>4. x = size * n + (x % size) /\ x % size \in 0 .. size - 1 /\ n \in Nat
    BY <1>1, <1>3, DivMod
  <1>5. HEADER = size * k + (HEADER % size) /\ HEADER % size \in 0 .. size - 1 /\ k \in Nat
    BY <1>1, <1>2, DivMod
  <1> HIDE DEF x, n, k
  <1>6. n # 0
    <2>1. n = 0 => size * n = 0
      BY <1>1
    <2> QED BY <1>1, <1>3, <1>4, <2>1
  <1>7. size * n \in Nat /\ size * k \in Nat /\ n * size = size * n
        /\ size * n >= n /\ size * k >= k
    <2>1. \A y \in Nat : size * y \in Nat /\ y * size = size * y /\ size * y >= y
      BY <1>1
    <2> QED BY <1>4, <1>5, <2>1
  <1>8. n * size <= x /\ n <= x /\ k <= HEADER
    BY <1>1, <1>2, <1>3, <1>4, <1>5, <1>7
  <1>9. PAGE - k \in Nat /\ n <= PAGE - k
    BY <1>2, <1>4, <1>5, <1>8 DEF x
  <1>10. BlocksOf(size) = n /\ WrongBlockCount(size) = PAGE - k
    BY DEF BlocksOf, WrongBlockCount, n, k, x
  <1> QED BY <1>1, <1>4, <1>6, <1>8, <1>9, <1>10 DEF x

-----------------------------------------------------------------------------
(* The map of virtual pages. *)

\* The search returns the first page of a run of free pages, or -1.
LEMMA FreeSlots ==
  ASSUME NEW map, NEW cnt \in Nat \ {0}, get_free_slots(map, cnt) # -1
  PROVE  /\ get_free_slots(map, cnt) \in Slots
         /\ \A j \in get_free_slots(map, cnt) .. get_free_slots(map, cnt) + cnt - 1 :
              j \in Slots /\ map[j] = SLOT_FREE
  <1> DEFINE fits == {i \in Slots : \A j \in i .. i + cnt - 1 :
                                      j \in Slots /\ map[j] = SLOT_FREE}
  <1>1. fits # {} /\ get_free_slots(map, cnt) = Min(fits)
    BY DEF get_free_slots
  <1>2. fits \subseteq Nat
    BY SlotsAssumption DEF Slots
  <1> HIDE DEF fits
  <1>3. Min(fits) \in fits
    BY <1>1, <1>2, MinIsLeast
  <1> QED BY <1>1, <1>3 DEF fits

\* Marking a run changes its pages only, and gives them the marks of a run.
LEMMA SyncFacts ==
  ASSUME NEW map \in [Slots -> SlotValues], NEW start \in Slots, NEW cnt \in Nat \ {0}
  PROVE  /\ sync(map, start, cnt) \in [Slots -> SlotValues]
         /\ \A i \in Slots :
              sync(map, start, cnt)[i] = IF i \in start .. start + cnt - 1
                                         THEN Mark(i, start, cnt) ELSE map[i]
  <1>1. start \in Int /\ cnt \in Int /\ Slots \subseteq Int
    BY SlotsAssumption DEF Slots
  <1>2. ASSUME NEW i \in Slots
        PROVE  sync(map, start, cnt)[i] = IF i \in start .. start + cnt - 1
                                          THEN Mark(i, start, cnt) ELSE map[i]
    <2>1. CASE i \notin start .. start + cnt - 1
      <3>1. i # start /\ i # start + cnt - 1
        BY <1>1, <2>1
      <3>2. sync(map, start, cnt)[i] = map[i]
        BY <2>1, <3>1, Zenon DEF sync
      <3> QED BY <2>1, <3>2
    <2>2. CASE i \in start .. start + cnt - 1 /\ cnt = 1
      BY <1>1, <2>2 DEF sync, Mark
    <2>3. CASE i \in start .. start + cnt - 1 /\ cnt # 1 /\ i = start
      <3>1. cnt > 1 /\ ~(i \notin start .. start + cnt - 1) /\ i # start + cnt - 1
        BY <1>1, <2>3
      <3>2. sync(map, start, cnt)[i] = SLOT_SEQ_START
        BY <2>3, <3>1, Zenon DEF sync
      <3> QED BY <2>3, <3>2 DEF Mark
    <2>4. CASE i \in start .. start + cnt - 1 /\ cnt # 1 /\ i # start
      <3>1. sync(map, start, cnt)[i] = IF i = start + cnt - 1 THEN SLOT_SEQ_END
                                       ELSE SLOT_USED_SINGLE
        <4>1. cnt > 1 /\ ~(i \notin start .. start + cnt - 1) /\ i # start
          BY <2>4
        <4> QED BY <4>1, Zenon DEF sync
      <3> QED BY <2>4, <3>1 DEF Mark
    <2> QED BY <2>1, <2>2, <2>3, <2>4
  <1>3. \A i \in Slots : Mark(i, start, cnt) \in SlotValues /\ map[i] \in SlotValues
    BY DEF Mark, SlotValues
  <1>4. sync(map, start, cnt) \in [Slots -> SlotValues]
    <2>1. \A i \in Slots : sync(map, start, cnt)[i] \in SlotValues
      BY <1>2, <1>3
    <2>2. sync(map, start, cnt) = [i \in Slots |-> sync(map, start, cnt)[i]]
      BY DEF sync
    <2> QED BY <2>1, <2>2
  <1> QED BY <1>2, <1>4

\* free_slots finds the whole of a run from its first page.
LEMMA RunLengthOfRun ==
  ASSUME NEW map, NEW page \in Slots, NEW cnt \in Nat \ {0}, page + cnt - 1 \in Slots,
         \A i \in page .. page + cnt - 1 : map[i] = Mark(i, page, cnt)
  PROVE  RunLength(map, page) = cnt
  <1>0. page \in Nat /\ page \in page .. page + cnt - 1 /\ Slots \subseteq Nat
    BY SlotsAssumption DEF Slots
  <1>1. CASE cnt = 1
    BY <1>0, <1>1 DEF RunLength, Mark
  <1>2. CASE cnt # 1
    <2> DEFINE T == {j \in Slots : j > page /\ map[j] = SLOT_SEQ_END}
               last == page + cnt - 1
    <2>1. map[page] = SLOT_SEQ_START
      BY <1>0, <1>2 DEF Mark
    <2>2. last \in T
      <3>1. last \in page .. page + cnt - 1 /\ last > page /\ last # page
        BY <1>0, <1>2
      <3> QED BY <1>2, <3>1 DEF Mark
    <2>3. \A j \in T : last <= j
      <3> SUFFICES ASSUME NEW j \in Slots, j > page, map[j] = SLOT_SEQ_END, j < last
                   PROVE  FALSE
        BY <1>0
      <3>1. j \in page .. page + cnt - 1 /\ j # page /\ j # page + cnt - 1
        BY <1>0
      <3>2. Mark(j, page, cnt) = SLOT_USED_SINGLE
        BY <1>2, <3>1 DEF Mark
      <3> QED BY <3>1, <3>2 DEF SLOT_SEQ_END, SLOT_USED_SINGLE
    <2>4. RunLength(map, page) = Min(T) - page + 1
      BY <2>1 DEF RunLength, SLOT_SEQ_START, SLOT_USED_SINGLE
    <2>5. T \subseteq Nat /\ T # {}
      BY <1>0, <2>2
    <2>6. last \in Nat
      BY <1>0
    <2> HIDE DEF T
    <2>7. Min(T) \in T /\ \A y \in T : Min(T) <= y
      BY <2>5, MinIsLeast
    <2>8. Min(T) \in Nat /\ Min(T) <= last /\ last <= Min(T)
      BY <2>2, <2>3, <2>5, <2>7, Zenon
    <2>9. Min(T) = last
      BY <2>6, <2>8
    <2> QED BY <1>0, <2>4, <2>9
  <1> QED BY <1>1, <1>2

\* Giving back a run frees its pages and no other.
LEMMA FreeSlotsOfRun ==
  ASSUME NEW map \in [Slots -> SlotValues], NEW page \in Slots, NEW cnt \in Nat \ {0},
         page + cnt - 1 \in Slots,
         \A i \in page .. page + cnt - 1 : map[i] = Mark(i, page, cnt)
  PROVE  /\ free_slots(map, page) \in [Slots -> SlotValues]
         /\ \A i \in Slots :
              free_slots(map, page)[i] = IF i \in page .. page + cnt - 1
                                         THEN SLOT_FREE ELSE map[i]
  <1>1. RunLength(map, page) = cnt
    BY RunLengthOfRun
  <1>2. free_slots(map, page) = [i \in Slots |-> IF i \in page .. page + cnt - 1
                                                 THEN SLOT_FREE ELSE map[i]]
    BY <1>1 DEF free_slots
  <1> QED BY <1>2 DEF SlotValues

-----------------------------------------------------------------------------
(* The page tables. *)

MapState ==
  [taken : SUBSET Pages, pte : [Pages -> Pages \cup {NULL}],
   pde : [Tables -> Pages \cup {BOOT_TABLE, NULL}], failed : BOOLEAN]

\* A new physical page is one of the pool that is not taken.
LEMMA NewPhysPage ==
  ASSUME NEW taken \in SUBSET Pages, get_phy_page(taken) # NULL
  PROVE  get_phy_page(taken) \in Pages \ taken
  <1>1. taken # Pages /\ get_phy_page(taken) = Min(Pages \ taken)
    BY DEF get_phy_page
  <1> DEFINE T == Pages \ taken
  <1>2. T \subseteq Nat /\ T # {}
    <2>1. T # {}
      BY <1>1, Zenon
    <2> QED BY <2>1, SlotsAssumption DEF Pages, Slots
  <1> HIDE DEF T
  <1>3. Min(T) \in T
    BY <1>2, MinIsLeast
  <1> QED BY <1>1, <1>3 DEF T

\* A page is not NULL, and the boot table is not a page of the pool.
LEMMA PagesApart ==
  /\ NULL \notin Pages /\ BOOT_TABLE \notin Pages /\ BOOT_TABLE # NULL
  /\ Pages \subseteq Nat /\ \A v \in Pages : TableOf(v) \in Tables
  BY NullAssumption, SlotsAssumption DEF Pages, Slots, BOOT_TABLE, Tables

\* One round of malloc_page that does not fail leaves the page mapped, and
\* touches no other.
LEMMA MapOneFacts ==
  ASSUME NEW m \in MapState, NEW v \in Pages, HasTables(m.pte, m.pde),
         ~MapOne(m, v).failed
  PROVE  /\ ~m.failed
         /\ MapOne(m, v) \in MapState
         /\ HasTables(MapOne(m, v).pte, MapOne(m, v).pde)
         /\ MapOne(m, v).pte[v] # NULL
         /\ \A w \in Pages \ {v} : MapOne(m, v).pte[w] = m.pte[w]
  <1> DEFINE page == get_phy_page(m.taken)
             tk == m.taken \cup {page}
             table == get_phy_page(tk)
             t == TableOf(v)
             n == [m EXCEPT !.taken = tk]
             pt == [m.pte EXCEPT ![v] = page]
  <1>0. m.taken \in SUBSET Pages /\ m.pte \in [Pages -> Pages \cup {NULL}]
        /\ m.pde \in [Tables -> Pages \cup {BOOT_TABLE, NULL}] /\ m.failed \in BOOLEAN
    BY DEF MapState
  <1>1. ~(m.failed \/ page = NULL)
    <2> SUFFICES ASSUME m.failed \/ page = NULL PROVE FALSE
      OBVIOUS
    <2>1. MapOne(m, v) = [m EXCEPT !.failed = TRUE]
      BY Zenon DEF MapOne
    <2> QED BY <2>1 DEF MapState
  <1>2. MapOne(m, v) = map_vir_phy(n, v, page)
    BY <1>1, Zenon DEF MapOne
  <1>3. page \in Pages \ m.taken /\ t \in Tables
    BY <1>0, <1>1, NewPhysPage, PagesApart
  <1>4. n = [taken |-> tk, pte |-> m.pte, pde |-> m.pde, failed |-> m.failed]
    BY DEF MapState
  <1>5. n.taken = tk /\ n.pte = m.pte /\ n.pde = m.pde /\ n.failed = m.failed
    BY <1>4
  <1>6. tk \in SUBSET Pages /\ pt \in [Pages -> Pages \cup {NULL}]
        /\ pt[v] = page /\ \A w \in Pages \ {v} : pt[w] = m.pte[w]
    BY <1>0, <1>3
  <1>7. page # NULL
    BY <1>1
  <1> HIDE DEF page, tk, table, t, n, pt
  <1>8. CASE m.pde[t] # NULL /\ m.pte[v] # NULL
    <2>1. MapOne(m, v) = n
      BY <1>2, <1>5, <1>8, Zenon DEF map_vir_phy, t
    <2>2. MapOne(m, v) = [taken |-> tk, pte |-> m.pte, pde |-> m.pde, failed |-> m.failed]
      BY <1>4, <2>1
    <2> QED BY <1>0, <1>1, <1>6, <1>8, <2>2 DEF MapState
  <1>9. CASE m.pde[t] # NULL /\ m.pte[v] = NULL
    <2>1. MapOne(m, v) = [n EXCEPT !.pte[v] = page]
      BY <1>2, <1>5, <1>9, Zenon DEF map_vir_phy, t
    <2>2. MapOne(m, v) = [taken |-> tk, pte |-> pt, pde |-> m.pde, failed |-> m.failed]
      BY <1>4, <2>1 DEF pt
    <2>3. HasTables(pt, m.pde)
      BY <1>6, <1>9 DEF HasTables, t
    <2> QED BY <1>0, <1>1, <1>6, <1>7, <2>2, <2>3 DEF MapState
  <1>10. CASE m.pde[t] = NULL
    <2> DEFINE pd == [m.pde EXCEPT ![t] = table]
               all == tk \cup {table}
    <2>1. table # NULL
      <3> SUFFICES ASSUME table = NULL PROVE FALSE
        OBVIOUS
      <3>1. MapOne(m, v) = [n EXCEPT !.failed = TRUE]
        BY <1>2, <1>5, <1>10, Zenon DEF map_vir_phy, t, table
      <3> QED BY <1>4, <3>1
    <2>2. MapOne(m, v) = [n EXCEPT !.taken = @ \cup {table}, !.pde[t] = table, !.pte[v] = page]
      BY <1>2, <1>5, <1>10, <2>1, Zenon DEF map_vir_phy, t, table
    <2>3. MapOne(m, v) = [taken |-> all, pte |-> pt, pde |-> pd, failed |-> m.failed]
      BY <1>4, <2>2 DEF pt
    <2>4. table \in Pages \ tk
      BY <1>6, <2>1, NewPhysPage DEF table
    <2>5. all \in SUBSET Pages /\ pd \in [Tables -> Pages \cup {BOOT_TABLE, NULL}]
          /\ \A u \in Tables : pd[u] = IF u = t THEN table ELSE m.pde[u]
      BY <1>0, <1>3, <1>6, <2>4
    <2> HIDE DEF pd, all
    <2>6. HasTables(pt, pd)
      <3> SUFFICES ASSUME NEW w \in Pages, pt[w] # NULL PROVE pd[TableOf(w)] # NULL
        BY DEF HasTables
      <3>1. TableOf(w) \in Tables
        BY PagesApart
      <3>2. CASE TableOf(w) = t
        BY <2>1, <2>5, <3>1, <3>2
      <3>3. CASE TableOf(w) # t
        <4>1. w # v /\ m.pte[w] # NULL
          BY <1>6, <3>3 DEF t
        <4> QED BY <2>5, <3>1, <3>3, <4>1 DEF HasTables
      <3> QED BY <3>2, <3>3
    <2> QED BY <1>0, <1>1, <1>6, <1>7, <2>3, <2>5, <2>6 DEF MapState
  <1> QED BY <1>8, <1>9, <1>10

\* The function of MapPages exists: it is defined page after page.
LEMMA MapPagesUnfold ==
  ASSUME NEW start, NEW cnt \in Nat
  PROVE  \E f : /\ MapPages(start, cnt) = f[cnt]
                /\ f[0] = [taken |-> phyaddr_bmap, pte |-> pte, pde |-> pde, failed |-> FALSE]
                /\ \A k \in 1 .. cnt : f[k] = MapOne(f[k - 1], start + k - 1)
  <1> DEFINE base == [taken |-> phyaddr_bmap, pte |-> pte, pde |-> pde, failed |-> FALSE]
             Body(f, n) == [k \in 0 .. n |-> IF k = 0 THEN base
                                             ELSE MapOne(f[k - 1], start + k - 1)]
             S == {n \in Nat : \E f : f = Body(f, n)}
  <1>1. 0 \in S
    <2>1. [k \in 0 .. 0 |-> base] = Body([k \in 0 .. 0 |-> base], 0)
      OBVIOUS
    <2> QED BY <2>1
  <1>2. ASSUME NEW n \in Nat, n \in S
        PROVE  n + 1 \in S
    <2>1. PICK f : f = Body(f, n)
      BY <1>2
    <2> DEFINE g == [k \in 0 .. n + 1 |-> IF k = 0 THEN base
                                          ELSE MapOne(f[k - 1], start + k - 1)]
    <2>2. \A k \in 0 .. n : g[k] = f[k]
      <3> SUFFICES ASSUME NEW k \in 0 .. n PROVE g[k] = f[k]
        OBVIOUS
      <3>1. f[k] = IF k = 0 THEN base ELSE MapOne(f[k - 1], start + k - 1)
        BY <2>1
      <3> QED BY <3>1
    <2>3. \A k \in 0 .. n + 1 : k # 0 => g[k - 1] = f[k - 1]
      <3> HIDE DEF g
      <3>1. \A k \in 0 .. n + 1 : k # 0 => k - 1 \in 0 .. n
        OBVIOUS
      <3> QED BY <2>2, <3>1, Zenon
    <2>4. \A k \in 0 .. n + 1 :
            g[k] = IF k = 0 THEN base ELSE MapOne(g[k - 1], start + k - 1)
      <3> SUFFICES ASSUME NEW k \in 0 .. n + 1
                   PROVE  g[k] = IF k = 0 THEN base ELSE MapOne(g[k - 1], start + k - 1)
        OBVIOUS
      <3>1. g[k] = IF k = 0 THEN base ELSE MapOne(f[k - 1], start + k - 1)
        OBVIOUS
      <3> HIDE DEF g
      <3> QED BY <2>3, <3>1
    <2>5. g = [k \in 0 .. n + 1 |-> g[k]]
      OBVIOUS
    <2> HIDE DEF g
    <2>6. g = Body(g, n + 1)
      BY <2>4, <2>5
    <2> QED BY <2>6
  <1> HIDE DEF S
  <1>3. cnt \in S
    BY <1>1, <1>2, NatSet
  <1> DEFINE h == CHOOSE f : f = Body(f, cnt)
  <1>4. h = Body(h, cnt)
    BY <1>3 DEF S
  <1>5. MapPages(start, cnt) = h[cnt]
    BY Zenon DEF MapPages
  <1> HIDE DEF h
  <1>6. /\ h[0] = base
        /\ \A k \in 1 .. cnt : h[k] = MapOne(h[k - 1], start + k - 1)
    <2>1. \A k \in 0 .. cnt : h[k] = IF k = 0 THEN base
                                     ELSE MapOne(h[k - 1], start + k - 1)
      BY <1>4, Zenon
    <2>2. 0 \in 0 .. cnt /\ \A k \in 1 .. cnt : k \in 0 .. cnt /\ k # 0
      OBVIOUS
    <2> QED BY <2>1, <2>2, Zenon
  <1> QED BY <1>5, <1>6

\* A round keeps the types, and one that follows a failed one fails.
LEMMA MapOneType ==
  ASSUME NEW m \in MapState, NEW v \in Pages
  PROVE  MapOne(m, v) \in MapState /\ (m.failed => MapOne(m, v).failed)
  <1> DEFINE page == get_phy_page(m.taken)
             tk == m.taken \cup {page}
             table == get_phy_page(tk)
             t == TableOf(v)
             n == [m EXCEPT !.taken = tk]
  <1>0. m.taken \in SUBSET Pages /\ m.pte \in [Pages -> Pages \cup {NULL}]
        /\ m.pde \in [Tables -> Pages \cup {BOOT_TABLE, NULL}] /\ m.failed \in BOOLEAN
    BY DEF MapState
  <1>1. CASE m.failed \/ page = NULL
    <2>1. MapOne(m, v) = [m EXCEPT !.failed = TRUE]
      BY <1>1, Zenon DEF MapOne
    <2> QED BY <2>1 DEF MapState
  <1>2. CASE ~(m.failed \/ page = NULL)
    <2>1. MapOne(m, v) = map_vir_phy(n, v, page)
      BY <1>2, Zenon DEF MapOne
    <2>2. page \in Pages /\ tk \in SUBSET Pages
      BY <1>0, <1>2, NewPhysPage
    <2>3. n = [taken |-> tk, pte |-> m.pte, pde |-> m.pde, failed |-> m.failed]
      BY DEF MapState
    <2>4. n \in MapState /\ n.taken = tk /\ n.pde = m.pde /\ n.pte = m.pte
      BY <1>0, <2>2, <2>3 DEF MapState
    <2>5. table # NULL => table \in Pages
      BY <2>2, NewPhysPage
    <2>6. MapOne(m, v) \in {n, [n EXCEPT !.pte[v] = page], [n EXCEPT !.failed = TRUE]}
          \/ (table # NULL /\ MapOne(m, v) = [n EXCEPT !.taken = @ \cup {table},
                                                       !.pde[t] = table, !.pte[v] = page])
      BY <2>1, <2>4, Zenon DEF map_vir_phy
    <2> HIDE DEF page, tk, table, t, n
    <2>7. [n EXCEPT !.pte[v] = page] \in MapState
      BY <2>2, <2>4 DEF MapState
    <2>8. [n EXCEPT !.failed = TRUE] \in MapState
      BY <2>4 DEF MapState
    <2>9. table # NULL => [n EXCEPT !.taken = @ \cup {table},
                                    !.pde[t] = table, !.pte[v] = page] \in MapState
      BY <2>2, <2>4, <2>5 DEF MapState
    <2> QED BY <1>2, <2>4, <2>6, <2>7, <2>8, <2>9
  <1> QED BY <1>1, <1>2

\* malloc_page that does not fail leaves every page of the run mapped, and
\* touches no other.
LEMMA MapPagesFacts ==
  ASSUME MemShape, HasTables(pte, pde),
         NEW start \in Pages, NEW cnt \in Nat \ {0},
         \A v \in start .. start + cnt - 1 : v \in Pages,
         ~MapPages(start, cnt).failed
  PROVE  LET m == MapPages(start, cnt)
         IN  /\ m \in MapState
             /\ HasTables(m.pte, m.pde)
             /\ \A v \in start .. start + cnt - 1 : m.pte[v] # NULL
             /\ \A v \in Pages : v \notin start .. start + cnt - 1 => m.pte[v] = pte[v]
  <1>0. start \in Nat
    BY PagesApart
  <1>1. PICK f : /\ MapPages(start, cnt) = f[cnt]
                 /\ f[0] = [taken |-> phyaddr_bmap, pte |-> pte, pde |-> pde, failed |-> FALSE]
                 /\ \A k \in 1 .. cnt : f[k] = MapOne(f[k - 1], start + k - 1)
    BY MapPagesUnfold, Zenon
  <1> DEFINE Done(k) ==
               /\ HasTables(f[k].pte, f[k].pde)
               /\ \A v \in start .. start + k - 1 : f[k].pte[v] # NULL
               /\ \A v \in Pages : v \notin start .. start + k - 1 => f[k].pte[v] = pte[v]
             S == {k \in Nat : k <= cnt => f[k] \in MapState /\ (~f[k].failed => Done(k))}
  <1>2. 0 \in S
    <2>1. f[0] \in MapState /\ f[0].taken = phyaddr_bmap /\ f[0].pte = pte /\ f[0].pde = pde
      BY <1>1 DEF MapState, MemShape
    <2>2. start .. start + 0 - 1 = {}
      BY <1>0
    <2>3. Done(0)
      BY <2>1, <2>2
    <2> QED BY <2>1, <2>3
  <1>3. ASSUME NEW k \in Nat, k \in S
        PROVE  k + 1 \in S
    <2> SUFFICES ASSUME k + 1 <= cnt
                 PROVE  f[k + 1] \in MapState /\ (~f[k + 1].failed => Done(k + 1))
      OBVIOUS
    <2> DEFINE v == start + k
               m == f[k]
    <2>1. f[k + 1] = MapOne(m, v)
      <3>1. k + 1 \in 1 .. cnt /\ (k + 1) - 1 = k /\ start + (k + 1) - 1 = v
        BY <1>0
      <3>2. f[k + 1] = MapOne(f[(k + 1) - 1], start + (k + 1) - 1)
        BY <1>1, <3>1, Zenon
      <3> QED BY <3>1, <3>2
    <2>2. m \in MapState /\ (~m.failed => Done(k))
      BY <1>3
    <2>3. v \in start .. start + cnt - 1 /\ v \notin start .. start + k - 1
          /\ \A w \in Int : w \in start .. start + (k + 1) - 1 <=> w = v \/ w \in start .. start + k - 1
      BY <1>0
    <2>4. v \in Pages
      BY <2>3
    <2> HIDE DEF v, m, Done, S
    <2>5. f[k + 1] \in MapState /\ (m.failed => f[k + 1].failed)
      BY <2>1, <2>2, <2>4, MapOneType
    <2>6. ASSUME ~f[k + 1].failed
          PROVE  Done(k + 1)
      <3>1. ~m.failed /\ Done(k)
        BY <2>2, <2>5, <2>6
      <3>2. HasTables(m.pte, m.pde)
        BY <3>1 DEF Done, m
      <3>3. /\ HasTables(f[k + 1].pte, f[k + 1].pde)
            /\ f[k + 1].pte[v] # NULL
            /\ \A w \in Pages \ {v} : f[k + 1].pte[w] = m.pte[w]
        BY <2>1, <2>2, <2>4, <2>6, <3>2, MapOneFacts
      <3>4. ASSUME NEW w \in start .. start + (k + 1) - 1
            PROVE  f[k + 1].pte[w] # NULL
        <4>1. w \in Int /\ w \in start .. start + cnt - 1
          BY <1>0
        <4>2. w \in Pages
          BY <4>1
        <4>3. CASE w = v
          BY <3>3, <4>3
        <4>4. CASE w # v /\ w \in start .. start + k - 1
          BY <3>1, <3>3, <4>2, <4>4 DEF Done, m
        <4> QED BY <2>3, <4>1, <4>3, <4>4
      <3>5. ASSUME NEW w \in Pages, w \notin start .. start + (k + 1) - 1
            PROVE  f[k + 1].pte[w] = pte[w]
        <4>1. w # v /\ w \notin start .. start + k - 1
          BY <2>3, <3>5, PagesApart
        <4> QED BY <3>1, <3>3, <4>1 DEF Done, m
      <3> QED BY <3>3, <3>4, <3>5 DEF Done
    <2> QED BY <2>5, <2>6
  <1>4. cnt \in S
    <2> HIDE DEF S, Done
    <2> QED BY <1>2, <1>3, NatSet
  <1>5. f[cnt] \in MapState /\ Done(cnt)
    BY <1>1, <1>4
  <1> QED BY <1>1, <1>5

\* The marks of a run are not the mark of a free page.
LEMMA MarkUsed ==
  ASSUME NEW i, NEW page, NEW cnt
  PROVE  Mark(i, page, cnt) # SLOT_FREE
  BY DEF Mark, SLOT_FREE, SLOT_USED_SINGLE, SLOT_SEQ_START, SLOT_SEQ_END

\* The state after malloc_page and before it.
PagesMapped(start, cnt) ==
  /\ start \in Pages /\ cnt \in Nat \ {0}
  /\ \A v \in start .. start + cnt - 1 : v \in Pages /\ vaddr_bmap[v] = SLOT_FREE
  /\ vaddr_bmap' \in [Slots -> SlotValues]
  /\ \A v \in Pages : vaddr_bmap'[v] = IF v \in start .. start + cnt - 1
                                       THEN Mark(v, start, cnt) ELSE vaddr_bmap[v]
  /\ phyaddr_bmap' \subseteq Pages
  /\ pte' \in [Pages -> Pages \cup {NULL}]
  /\ pde' \in [Tables -> Pages \cup {BOOT_TABLE, NULL}]
  /\ reach' \in [Pages -> SUBSET Pages]
  /\ MappedOK'

\* malloc_page takes free virtual pages and maps them.
LEMMA MallocPageFacts ==
  ASSUME MemInv, NEW cnt \in Nat \ {0},
         ~MallocPageFails(get_free_slots(vaddr_bmap, cnt), cnt),
         malloc_page(get_free_slots(vaddr_bmap, cnt), cnt)
  PROVE  PagesMapped(get_free_slots(vaddr_bmap, cnt), cnt)
  <1> DEFINE start == get_free_slots(vaddr_bmap, cnt)
             m == MapPages(start, cnt)
  <1>1. start # -1 /\ ~m.failed
    BY DEF MallocPageFails
  <1>2. start \in Pages /\ \A j \in start .. start + cnt - 1 : j \in Pages /\ vaddr_bmap[j] = SLOT_FREE
    BY <1>1, FreeSlots DEF Pages
  <1>3. /\ vaddr_bmap' = sync(vaddr_bmap, start, cnt) /\ phyaddr_bmap' = m.taken
        /\ pte' = m.pte /\ pde' = m.pde
        /\ reach' = [v \in Pages |-> reach[v] \cup ({m.pte[v]} \ {NULL})]
    BY DEF malloc_page
  <1> HIDE DEF start
  <1>5. /\ m \in MapState /\ HasTables(m.pte, m.pde)
        /\ \A v \in start .. start + cnt - 1 : m.pte[v] # NULL
        /\ \A v \in Pages : v \notin start .. start + cnt - 1 => m.pte[v] = pte[v]
    BY <1>1, <1>2, MapPagesFacts DEF MemInv, MappedOK
  <1> HIDE DEF m
  <1>6. /\ vaddr_bmap' \in [Slots -> SlotValues]
        /\ \A v \in Pages : vaddr_bmap'[v] = IF v \in start .. start + cnt - 1
                                             THEN Mark(v, start, cnt) ELSE vaddr_bmap[v]
    BY <1>2, <1>3, SyncFacts, SMTT(30) DEF MemInv, MemShape, Pages
  <1>7. MappedOK'
    <2>1. HasTables(pte', pde')
      BY <1>3, <1>5
    <2>2. ASSUME NEW v \in Pages
          PROVE  /\ vaddr_bmap'[v] # SLOT_FREE => pte'[v] # NULL
                 /\ vaddr_bmap'[v] = SLOT_FREE /\ pte'[v] # NULL
                      => v < PREMAPPED /\ pte'[v] = v
      <3>1. CASE v \in start .. start + cnt - 1
        BY <1>3, <1>5, <1>6, <3>1, MarkUsed
      <3>2. CASE v \notin start .. start + cnt - 1
        <4>1. vaddr_bmap'[v] = vaddr_bmap[v] /\ pte'[v] = pte[v]
          BY <1>3, <1>5, <1>6, <3>2
        <4> QED BY <4>1 DEF MemInv, MappedOK
      <3> QED BY <3>1, <3>2
    <2> QED BY <2>1, <2>2 DEF MappedOK
  <1>8. reach' \in [Pages -> SUBSET Pages]
    <2>1. reach \in [Pages -> SUBSET Pages] /\ m.pte \in [Pages -> Pages \cup {NULL}]
      BY <1>5 DEF MemInv, MemShape, MapState
    <2> QED BY <1>3, <2>1
  <1>9. PagesMapped(start, cnt)
    BY <1>2, <1>3, <1>5, <1>6, <1>7, <1>8 DEF PagesMapped, MapState
  <1> QED BY <1>9 DEF start

\* The state after free_page and before it.
PagesFreed(start, cnt) ==
  /\ vaddr_bmap' \in [Slots -> SlotValues]
  /\ \A v \in Pages : vaddr_bmap'[v] = IF v \in start .. start + cnt - 1
                                       THEN SLOT_FREE ELSE vaddr_bmap[v]
  /\ phyaddr_bmap' \subseteq Pages
  /\ pte' \in [Pages -> Pages \cup {NULL}]
  /\ pde' = pde /\ reach' = reach
  /\ MappedOK'

\* free_page of the first page of a run gives back the run and its physical
\* pages.
LEMMA FreePageFacts ==
  ASSUME MemInv, NEW page \in Pages, NEW cnt \in Nat \ {0}, page + cnt - 1 \in Pages,
         \A i \in page .. page + cnt - 1 : vaddr_bmap[i] = Mark(i, page, cnt),
         free_page(page)
  PROVE  PagesFreed(page, cnt)
  <1> DEFINE run == page .. page + cnt - 1
  <1>0. page \in Slots /\ page + cnt - 1 \in Slots /\ vaddr_bmap \in [Slots -> SlotValues]
        /\ pte \in [Pages -> Pages \cup {NULL}] /\ phyaddr_bmap \subseteq Pages
    BY DEF Pages, MemInv, MemShape
  <1>1. RunLength(vaddr_bmap, page) = cnt
    BY <1>0, RunLengthOfRun
  <1>2. /\ vaddr_bmap' = free_slots(vaddr_bmap, page)
        /\ phyaddr_bmap' = phyaddr_bmap \ {pte[i] : i \in run}
        /\ pte' = [i \in Pages |-> IF i \in run THEN NULL ELSE pte[i]]
        /\ pde' = pde /\ reach' = reach
    BY <1>1 DEF free_page
  <1>3. /\ vaddr_bmap' \in [Slots -> SlotValues]
        /\ \A v \in Pages : vaddr_bmap'[v] = IF v \in run THEN SLOT_FREE ELSE vaddr_bmap[v]
    BY <1>0, <1>2, FreeSlotsOfRun DEF Pages
  <1>4. run \subseteq Pages
    BY SlotsAssumption DEF Pages, Slots
  <1> HIDE DEF run
  <1>5. \A v \in Pages : pte'[v] = IF v \in run THEN NULL ELSE pte[v]
    BY <1>2
  <1>6. MappedOK'
    <2> SUFFICES ASSUME NEW v \in Pages
                 PROVE  /\ pte'[v] # NULL => pde'[TableOf(v)] # NULL
                        /\ vaddr_bmap'[v] # SLOT_FREE => pte'[v] # NULL
                        /\ vaddr_bmap'[v] = SLOT_FREE /\ pte'[v] # NULL
                             => v < PREMAPPED /\ pte'[v] = v
      BY DEF MappedOK, HasTables
    <2>1. CASE v \in run
      BY <1>3, <1>5, <2>1
    <2>2. CASE v \notin run
      <3>1. vaddr_bmap'[v] = vaddr_bmap[v] /\ pte'[v] = pte[v] /\ pde' = pde
        BY <1>2, <1>3, <1>5, <2>2
      <3> QED BY <3>1 DEF MemInv, MappedOK, HasTables
    <2> QED BY <2>1, <2>2
  <1>7. pte' \in [Pages -> Pages \cup {NULL}] /\ phyaddr_bmap' \subseteq Pages
    BY <1>0, <1>2
  <1> QED BY <1>2, <1>3, <1>5, <1>6, <1>7 DEF PagesFreed, run

-----------------------------------------------------------------------------
(* Lists in which every element is once. *)

\* The list without its first element.
LEMMA TailList ==
  ASSUME NEW S, NEW s \in Seq(S), s # <<>>, IsInjective(s)
  PROVE  /\ Tail(s) \in Seq(S) /\ Len(Tail(s)) = Len(s) - 1 /\ IsInjective(Tail(s))
         /\ Head(s) \in S /\ Contains(s, Head(s)) /\ ~Contains(Tail(s), Head(s))
         /\ \A x : Contains(Tail(s), x) <=> Contains(s, x) /\ x # Head(s)
  <1> DEFINE t == Tail(s)
  <1>1. /\ t \in Seq(S) /\ Len(t) = Len(s) - 1 /\ Len(s) \in Nat \ {0}
        /\ \A i \in 1 .. Len(t) : t[i] = s[i + 1]
        /\ Head(s) = s[1] /\ DOMAIN t = 1 .. Len(t) /\ DOMAIN s = 1 .. Len(s)
    OBVIOUS
  <1> HIDE DEF t
  <1>2. IsInjective(t)
    <2> SUFFICES ASSUME NEW i \in 1 .. Len(t), NEW j \in 1 .. Len(t), t[i] = t[j]
                 PROVE  i = j
      BY <1>1 DEF IsInjective
    <2>1. i + 1 \in 1 .. Len(s) /\ j + 1 \in 1 .. Len(s) /\ s[i + 1] = s[j + 1]
      BY <1>1
    <2>2. i + 1 = j + 1
      BY <1>1, <2>1 DEF IsInjective
    <2> QED BY <2>2
  <1>3. ASSUME NEW x, Contains(t, x)
        PROVE  Contains(s, x) /\ x # Head(s)
    <2>1. PICK i \in 1 .. Len(t) : t[i] = x
      BY <1>3 DEF Contains
    <2>2. i + 1 \in 1 .. Len(s) /\ s[i + 1] = x /\ 1 \in 1 .. Len(s) /\ i + 1 # 1
      BY <1>1, <2>1
    <2>3. s[1] # x
      BY <1>1, <2>2 DEF IsInjective
    <2> QED BY <1>1, <2>2, <2>3 DEF Contains
  <1>4. ASSUME NEW x, Contains(s, x), x # Head(s)
        PROVE  Contains(t, x)
    <2>1. PICK i \in 1 .. Len(s) : s[i] = x
      BY <1>4 DEF Contains
    <2>2. i # 1
      BY <1>1, <1>4, <2>1
    <2>3. i - 1 \in 1 .. Len(t) /\ (i - 1) + 1 = i
      BY <1>1, <2>1, <2>2
    <2>4. t[i - 1] = x
      BY <1>1, <2>1, <2>3
    <2> QED BY <2>3, <2>4 DEF Contains
  <1>5. Head(s) \in S /\ Contains(s, Head(s))
    <2>1. 1 \in 1 .. Len(s)
      BY <1>1
    <2> QED BY <1>1, <2>1 DEF Contains
  <1> QED BY <1>1, <1>2, <1>3, <1>4, <1>5 DEF t

\* The list with an element more at its end.
LEMMA AppendList ==
  ASSUME NEW S, NEW s \in Seq(S), NEW e \in S, ~Contains(s, e), IsInjective(s)
  PROVE  /\ Append(s, e) \in Seq(S) /\ Len(Append(s, e)) = Len(s) + 1
         /\ IsInjective(Append(s, e))
         /\ \A x : Contains(Append(s, e), x) <=> x = e \/ Contains(s, x)
  <1> DEFINE t == Append(s, e)
  <1>1. /\ t \in Seq(S) /\ Len(t) = Len(s) + 1 /\ Len(s) \in Nat
        /\ \A i \in 1 .. Len(t) : t[i] = IF i = Len(t) THEN e ELSE s[i]
        /\ DOMAIN t = 1 .. Len(t) /\ DOMAIN s = 1 .. Len(s)
    OBVIOUS
  <1> HIDE DEF t
  <1>2. \A i \in 1 .. Len(t) : i # Len(t) => i \in 1 .. Len(s)
    BY <1>1
  <1>3. \A i \in 1 .. Len(s) : i \in 1 .. Len(t) /\ i # Len(t) /\ t[i] = s[i] /\ s[i] # e
    BY <1>1 DEF Contains
  <1>4. Len(t) \in 1 .. Len(t) /\ t[Len(t)] = e
    BY <1>1
  <1>5. IsInjective(t)
    BY <1>1, <1>2, <1>3, <1>4 DEF IsInjective
  <1>6. \A x : Contains(t, x) <=> x = e \/ Contains(s, x)
    BY <1>1, <1>2, <1>3, <1>4 DEF Contains
  <1> QED BY <1>1, <1>5, <1>6 DEF t

\* The list with an element more at its start.
LEMMA PushList ==
  ASSUME NEW S, NEW s \in Seq(S), NEW e \in S, ~Contains(s, e), IsInjective(s)
  PROVE  /\ <<e>> \o s \in Seq(S)
         /\ IsInjective(<<e>> \o s)
         /\ \A x : Contains(<<e>> \o s, x) <=> x = e \/ Contains(s, x)
  <1> DEFINE t == <<e>> \o s
  <1>1. /\ t \in Seq(S) /\ Len(t) = Len(s) + 1 /\ Len(s) \in Nat
        /\ \A i \in 1 .. Len(t) : t[i] = IF i = 1 THEN e ELSE s[i - 1]
        /\ DOMAIN t = 1 .. Len(t) /\ DOMAIN s = 1 .. Len(s)
    OBVIOUS
  <1> HIDE DEF t
  <1>2. \A i \in 1 .. Len(t) : i # 1 => i - 1 \in 1 .. Len(s)
    BY <1>1
  <1>3. \A i \in 1 .. Len(s) : i + 1 \in 1 .. Len(t) /\ i + 1 # 1 /\ t[i + 1] = s[i] /\ s[i] # e
    BY <1>1 DEF Contains
  <1>4. 1 \in 1 .. Len(t) /\ t[1] = e
    BY <1>1
  <1>5. IsInjective(t)
    <2> SUFFICES ASSUME NEW i \in 1 .. Len(t), NEW j \in 1 .. Len(t), t[i] = t[j]
                 PROVE  i = j
      BY <1>1 DEF IsInjective
    <2>1. ASSUME i # 1, j # 1
          PROVE  i - 1 = j - 1
      <3>1. i - 1 \in 1 .. Len(s) /\ j - 1 \in 1 .. Len(s) /\ s[i - 1] = s[j - 1]
        BY <1>1, <1>2, <2>1
      <3> QED BY <1>1, <3>1, Zenon DEF IsInjective
    <2>2. i = 1 <=> j = 1
      BY <1>1, <1>2, <1>3
    <2> QED BY <2>1, <2>2
  <1>6. ASSUME NEW x, Contains(t, x)
        PROVE  x = e \/ Contains(s, x)
    <2>1. PICK i \in 1 .. Len(t) : t[i] = x
      BY <1>6 DEF Contains
    <2>2. i = 1 \/ (i - 1 \in 1 .. Len(s) /\ s[i - 1] = x)
      BY <1>1, <1>2, <2>1
    <2> QED BY <1>4, <2>1, <2>2, Zenon DEF Contains
  <1>7. ASSUME NEW x, x = e \/ Contains(s, x)
        PROVE  Contains(t, x)
    BY <1>3, <1>4, <1>7, Zenon DEF Contains
  <1> QED BY <1>1, <1>5, <1>6, <1>7 DEF t

\* The list without one of its elements.
LEMMA UnlinkList ==
  ASSUME NEW S, NEW s \in Seq(S), NEW e, Contains(s, e), IsInjective(s)
  PROVE  /\ Unlink(s, e) \in Seq(S)
         /\ IsInjective(Unlink(s, e))
         /\ \A x : Contains(Unlink(s, e), x) <=> Contains(s, x) /\ x # e
  <1> DEFINE k == CHOOSE i \in DOMAIN s : s[i] = e
             t == Unlink(s, e)
  <1>0. DOMAIN s = 1 .. Len(s) /\ Len(s) \in Nat
    OBVIOUS
  <1>1. k \in 1 .. Len(s) /\ s[k] = e
    BY <1>0 DEF Contains
  <1> HIDE DEF k
  <1>2. t = SubSeq(s, 1, k - 1) \o SubSeq(s, k + 1, Len(s))
    BY DEF Unlink, RemoveAt, k
  <1>3. /\ t \in Seq(S)
        /\ Len(t) = Len(s) - 1
        /\ DOMAIN t = 1 .. Len(t)
        /\ \A i \in 1 .. Len(t) : t[i] = IF i < k THEN s[i] ELSE s[i + 1]
    <2> DEFINE a == SubSeq(s, 1, k - 1)
               b == SubSeq(s, k + 1, Len(s))
    <2>1. /\ a \in Seq(S) /\ Len(a) = k - 1
          /\ \A i \in 1 .. k - 1 : a[i] = s[i]
      BY <1>0, <1>1
    <2>2. /\ b \in Seq(S) /\ Len(b) = Len(s) - k
          /\ \A i \in 1 .. Len(s) - k : b[i] = s[k + i]
      <3>1. \A i \in k + 1 .. Len(s) : s[i] \in S
        BY <1>1
      <3>2. /\ b \in Seq(S)
            /\ Len(b) = IF k + 1 <= Len(s) THEN Len(s) - (k + 1) + 1 ELSE 0
            /\ \A i \in 1 .. Len(s) - (k + 1) + 1 : b[i] = s[(k + 1) + i - 1]
        BY <1>1, <3>1, SubSeqProperties
      <3> QED BY <1>1, <3>2
    <2> HIDE DEF a, b
    <2>3. /\ a \o b \in Seq(S) /\ Len(a \o b) = Len(a) + Len(b)
          /\ \A i \in 1 .. Len(a) + Len(b) :
               (a \o b)[i] = IF i <= Len(a) THEN a[i] ELSE b[i - Len(a)]
      BY <2>1, <2>2, ConcatProperties
    <2>4. t = a \o b
      BY <1>2 DEF a, b
    <2> HIDE DEF t
    <2>5. t \in Seq(S) /\ Len(t) = Len(s) - 1
      <3>1. t \in Seq(S) /\ Len(t) = Len(a) + Len(b)
        BY <2>3, <2>4, Zenon
      <3>2. (k - 1) + (Len(s) - k) = Len(s) - 1
        BY <1>0, <1>1
      <3> QED BY <2>1, <2>2, <3>1, <3>2, Zenon
    <2>6. ASSUME NEW i \in 1 .. Len(t)
          PROVE  t[i] = IF i < k THEN s[i] ELSE s[i + 1]
      <3>1. t[i] = IF i <= k - 1 THEN a[i] ELSE b[i - (k - 1)]
        BY <1>1, <2>1, <2>2, <2>3, <2>4, <2>5
      <3>2. CASE i < k
        BY <1>1, <2>1, <3>1, <3>2
      <3>3. CASE i >= k
        <4>1. i - (k - 1) \in 1 .. Len(s) - k /\ k + (i - (k - 1)) = i + 1
          BY <1>1, <2>5, <3>3
        <4> QED BY <1>1, <2>2, <3>1, <3>3, <4>1
      <3> QED BY <1>1, <3>2, <3>3
    <2> QED BY <2>5, <2>6
  <1> HIDE DEF t
  <1>4. \A j \in 1 .. Len(s) : s[j] = e => j = k
    BY <1>0, <1>1 DEF IsInjective
  <1>5. IsInjective(t)
    <2> SUFFICES ASSUME NEW i \in 1 .. Len(t), NEW j \in 1 .. Len(t), t[i] = t[j]
                 PROVE  i = j
      BY <1>3 DEF IsInjective
    <2> DEFINE a == IF i < k THEN i ELSE i + 1
               b == IF j < k THEN j ELSE j + 1
    <2>1. a \in 1 .. Len(s) /\ b \in 1 .. Len(s)
      BY <1>0, <1>3
    <2>2. s[a] = t[i] /\ s[b] = t[j]
      BY <1>3
    <2>3. a = b
      <3> HIDE DEF a, b
      <3> QED BY <1>0, <2>1, <2>2 DEF IsInjective
    <2> QED BY <1>1, <2>3
  <1>6. ASSUME NEW x, Contains(t, x)
        PROVE  Contains(s, x) /\ x # e
    <2>1. PICK i \in 1 .. Len(t) : t[i] = x
      BY <1>6 DEF Contains
    <2> DEFINE a == IF i < k THEN i ELSE i + 1
    <2>2. a \in 1 .. Len(s) /\ s[a] = x /\ a # k
      BY <1>0, <1>1, <1>3, <2>1
    <2> HIDE DEF a
    <2> QED BY <1>4, <2>2 DEF Contains
  <1>7. ASSUME NEW x, Contains(s, x), x # e
        PROVE  Contains(t, x)
    <2>1. PICK j \in 1 .. Len(s) : s[j] = x
      BY <1>7 DEF Contains
    <2>2. j # k
      BY <1>1, <1>7, <2>1
    <2> DEFINE i == IF j < k THEN j ELSE j - 1
    <2>3. i \in 1 .. Len(t) /\ t[i] = x
      BY <1>0, <1>1, <1>3, <2>1, <2>2
    <2> HIDE DEF i
    <2> QED BY <2>3 DEF Contains
  <1> QED BY <1>3, <1>5, <1>6, <1>7 DEF t

\* A list without repetition of elements of a finite set is no longer than the
\* set is large, and has them all when it is as long.
LEMMA ListBound ==
  ASSUME NEW n \in Nat, NEW s \in Seq(Nat), IsInjective(s),
         \A x : Contains(s, x) => x \in 0 .. n - 1
  PROVE  Len(s) <= n /\ (Len(s) = n => \A x \in 0 .. n - 1 : Contains(s, x))
  <1> DEFINE D == 1 .. Len(s)
             T == 0 .. n - 1
  <1>1. DOMAIN s = D /\ Len(s) \in Nat
    OBVIOUS
  <1>2. s \in [D -> T]
    <2>1. \A i \in D : s[i] \in T
      BY DEF Contains
    <2>2. s = [i \in D |-> s[i]]
      BY <1>1
    <2> QED BY <2>1, <2>2
  <1>3. IsFiniteSet(D) /\ Cardinality(D) = Len(s)
    <2>1. 1 \in Int /\ Len(s) \in Int
      BY <1>1
    <2>2. IsFiniteSet(1 .. Len(s)) /\ Cardinality(1 .. Len(s)) = IF 1 > Len(s) THEN 0 ELSE Len(s) - 1 + 1
      BY <2>1, FS_Interval, Zenon
    <2> QED BY <1>1, <2>2
  <1>4. IsFiniteSet(T) /\ Cardinality(T) = n
    <2>1. 0 \in Int /\ n - 1 \in Int
      OBVIOUS
    <2>2. IsFiniteSet(0 .. n - 1) /\ Cardinality(0 .. n - 1) = IF 0 > n - 1 THEN 0 ELSE n - 1 - 0 + 1
      BY <2>1, FS_Interval, Zenon
    <2> QED BY <2>2
  <1> HIDE DEF D, T
  <1>5. s \in Injection(D, T)
    BY <1>1, <1>2, Zenon DEF Injection, IsInjective
  <1>6. Cardinality(D) <= Cardinality(T) /\ (Cardinality(D) = Cardinality(T) => s \in Surjection(D, T))
    BY <1>4, <1>5, FS_Injection, Zenon
  <1>7. s \in Surjection(D, T) => \A x \in T : \E i \in D : s[i] = x
    BY Zenon DEF Surjection
  <1> QED BY <1>3, <1>4, <1>6, <1>7, Zenon DEF Contains, D, T

-----------------------------------------------------------------------------
(* The queues of free blocks. *)

\* A header is not NULL.
LEMMA HeaderApart ==
  ASSUME NEW h \in Header
  PROVE  /\ h # NULL /\ h.each_block_size \in Sizes /\ h.free_cnts \in Nat
         /\ h.queue \in Seq(Nat)
  <1>1. Sizes \subseteq Nat
    BY SizeFacts DEF Sizes
  <1>2. h \in [each_block_size : Nat, free_cnts : Nat, queue : Seq(Nat)]
    BY <1>1 DEF Header
  <1> QED BY <1>2, NullAssumption DEF Header

\* FreeOK looks at the blocks of the page only.
LEMMA FreeOKSame ==
  ASSUME NEW p, NEW h \in Header, NEW A, NEW B, FreeOK(p, h, A),
         \A k \in Nat : (\E b \in A : b.page = p /\ b.blk = k)
                          <=> (\E b \in B : b.page = p /\ b.blk = k)
  PROVE  FreeOK(p, h, B)
  <1> DEFINE n == BlocksOf(h.each_block_size)
  <1>1. n \in Nat
    BY HeaderApart, BlockCount
  <1> HIDE DEF n
  <1>2. \A k \in 0 .. n - 1 : k \in Nat
    BY <1>1
  <1> QED BY <1>2 DEF FreeOK, n

\* The page that install_mem_header has cut has all its blocks free.
LEMMA InstallFacts ==
  ASSUME NEW p, NEW size \in Sizes, NEW blocks,
         \A b \in blocks : ~(b.page = p /\ b.blk \in Nat)
  PROVE  /\ install_mem_header(size) \in Header
         /\ FreeOK(p, install_mem_header(size), blocks)
         /\ install_mem_header(size).free_cnts # 0
         /\ install_mem_header(size).each_block_size = size
  <1> DEFINE n == BlocksOf(size)
             q == [i \in 1 .. n |-> i - 1]
             h == [each_block_size |-> size, free_cnts |-> n, queue |-> q]
  <1>0. n \in Nat \ {0}
    BY BlockCount
  <1>1. install_mem_header(size) = h
    BY DEF install_mem_header
  <1> HIDE DEF n
  <1>2. q \in Seq(Nat) /\ Len(q) = n /\ DOMAIN q = 1 .. n /\ \A i \in 1 .. n : q[i] = i - 1
    <2>1. \A i \in 1 .. n : i - 1 \in Nat
      BY <1>0
    <2> QED BY <1>0, <2>1
  <1> HIDE DEF q
  <1>3. IsInjective(q)
    BY <1>0, <1>2 DEF IsInjective
  <1>4. ASSUME NEW k
        PROVE  Contains(q, k) <=> k \in 0 .. n - 1
    <2>1. ASSUME Contains(q, k) PROVE k \in 0 .. n - 1
      BY <1>0, <1>2, <2>1 DEF Contains
    <2>2. ASSUME k \in 0 .. n - 1 PROVE Contains(q, k)
      <3>1. k + 1 \in 1 .. n /\ q[k + 1] = k
        BY <1>0, <1>2, <2>2
      <3> QED BY <1>2, <3>1 DEF Contains
    <2> QED BY <2>1, <2>2
  <1>5. h.each_block_size = size /\ h.free_cnts = n /\ h.queue = q /\ h \in Header
    BY <1>0, <1>2 DEF Header
  <1> HIDE DEF h
  <1>6. \A k \in 0 .. n - 1 : ~ \E b \in blocks : b.page = p /\ b.blk = k
    <2>1. \A k \in 0 .. n - 1 : k \in Nat
      BY <1>0
    <2> QED BY <2>1
  <1>7. FreeOK(p, h, blocks)
    BY <1>2, <1>3, <1>4, <1>5, <1>6 DEF FreeOK, n
  <1> QED BY <1>0, <1>1, <1>5, <1>7

\* Popping a block takes one that no client holds, and gives it to one.
LEMMA PopFacts ==
  ASSUME NEW p, NEW h \in Header, NEW blocks, FreeOK(p, h, blocks), h.free_cnts # 0,
         NEW new, new.page = p, new.blk = Head(h.queue)
  PROVE  /\ PopBlock(h) \in Header
         /\ PopBlock(h).each_block_size = h.each_block_size
         /\ Head(h.queue) \in 0 .. BlocksOf(h.each_block_size) - 1
         /\ \A b \in blocks : ~(b.page = p /\ b.blk = new.blk)
         /\ FreeOK(p, PopBlock(h), blocks \cup {new})
  <1> DEFINE q == h.queue
             g == PopBlock(h)
  <1>1. q \in Seq(Nat) /\ h.free_cnts = Len(q) /\ IsInjective(q) /\ q # <<>>
        /\ h.free_cnts \in Nat
    BY HeaderApart DEF FreeOK
  <1>2. g = [each_block_size |-> h.each_block_size, free_cnts |-> h.free_cnts - 1,
             queue |-> Tail(q)]
    <2>1. h = [each_block_size |-> h.each_block_size, free_cnts |-> h.free_cnts,
               queue |-> h.queue]
      BY DEF Header
    <2> DEFINE z == h.each_block_size
               f == h.free_cnts
    <2>2. h = [each_block_size |-> z, free_cnts |-> f, queue |-> q]
      BY <2>1, Zenon
    <2> HIDE DEF z, f, q
    <2> DEFINE t == Tail(h.queue)
               u == h.free_cnts - 1
    <2>3. g = [h EXCEPT !.queue = t, !.free_cnts = u]
      BY Zenon DEF PopBlock
    <2> HIDE DEF t, u, g
    <2>4. g = [each_block_size |-> z, free_cnts |-> u, queue |-> t]
      BY <2>2, <2>3
    <2> QED BY <2>4 DEF z, t, u, q
  <1>3. /\ Tail(q) \in Seq(Nat) /\ Len(Tail(q)) = Len(q) - 1 /\ IsInjective(Tail(q))
        /\ Contains(q, Head(q)) /\ \A x : Contains(Tail(q), x) <=> Contains(q, x) /\ x # Head(q)
    BY <1>1, TailList
  <1>4. h.each_block_size \in Sizes /\ h.free_cnts - 1 \in Nat
    BY <1>1, HeaderApart
  <1>5. g \in Header /\ g.each_block_size = h.each_block_size /\ g.queue = Tail(q)
        /\ g.free_cnts = Len(Tail(q))
    BY <1>1, <1>2, <1>3, <1>4 DEF Header
  <1> HIDE DEF g
  <1>6. Head(q) \in 0 .. BlocksOf(h.each_block_size) - 1
        /\ ~ \E b \in blocks : b.page = p /\ b.blk = Head(q)
    BY <1>3 DEF FreeOK
  <1>7. \A k : Contains(Tail(q), k) <=> /\ k \in 0 .. BlocksOf(h.each_block_size) - 1
                                        /\ ~ \E b \in blocks \cup {new} : b.page = p /\ b.blk = k
    <2>1. \A k : Contains(q, k) <=> /\ k \in 0 .. BlocksOf(h.each_block_size) - 1
                                    /\ ~ \E b \in blocks : b.page = p /\ b.blk = k
      BY DEF FreeOK
    <2> HIDE DEF q
    <2> QED BY <1>3, <2>1, Zenon DEF q
  <1>8. FreeOK(p, g, blocks \cup {new})
    BY <1>3, <1>5, <1>7 DEF FreeOK
  <1> QED BY <1>5, <1>6, <1>8 DEF g

\* Putting back a block that a client held frees it.
LEMMA PutFacts ==
  ASSUME NEW p, NEW h \in Header, NEW blocks, FreeOK(p, h, blocks),
         NEW b \in blocks, b.page = p, b.blk \in 0 .. BlocksOf(h.each_block_size) - 1,
         \A d \in blocks : d.page = p /\ d.blk = b.blk => d = b
  PROVE  LET g == [h EXCEPT !.queue = Append(@, b.blk), !.free_cnts = @ + 1]
         IN  /\ g \in Header /\ g.each_block_size = h.each_block_size
             /\ FreeOK(p, g, blocks \ {b})
  <1> DEFINE q == h.queue
             e == b.blk
             n == BlocksOf(h.each_block_size)
             g == [h EXCEPT !.queue = Append(@, b.blk), !.free_cnts = @ + 1]
  <1>0. n \in Nat
    BY HeaderApart, BlockCount
  <1>1. q \in Seq(Nat) /\ h.free_cnts = Len(q) /\ IsInjective(q) /\ e \in Nat
        /\ h.free_cnts \in Nat /\ h.each_block_size \in Sizes
    BY <1>0, HeaderApart DEF FreeOK
  <1>2. g = [each_block_size |-> h.each_block_size, free_cnts |-> h.free_cnts + 1,
             queue |-> Append(q, e)]
    <2>1. h = [each_block_size |-> h.each_block_size, free_cnts |-> h.free_cnts,
               queue |-> h.queue]
      BY DEF Header
    <2> DEFINE z == h.each_block_size
               f == h.free_cnts
    <2>2. h = [each_block_size |-> z, free_cnts |-> f, queue |-> q]
      BY <2>1, Zenon
    <2> HIDE DEF z, f, q
    <2> DEFINE t == Append(h.queue, e)
               u == h.free_cnts + 1
    <2>3. g = [h EXCEPT !.queue = t, !.free_cnts = u]
      BY Zenon
    <2> HIDE DEF t, u, g
    <2>4. g = [each_block_size |-> z, free_cnts |-> u, queue |-> t]
      BY <2>2, <2>3
    <2> QED BY <2>4 DEF z, t, u, q
  <1>3. \A k : Contains(q, k) <=> k \in 0 .. n - 1 /\ ~ \E d \in blocks : d.page = p /\ d.blk = k
    BY DEF FreeOK
  <1>4. ~Contains(q, e)
    BY <1>3
  <1>5. /\ Append(q, e) \in Seq(Nat) /\ Len(Append(q, e)) = Len(q) + 1
        /\ IsInjective(Append(q, e))
        /\ \A x : Contains(Append(q, e), x) <=> x = e \/ Contains(q, x)
    BY <1>1, <1>4, AppendList
  <1>6. g \in Header /\ g.each_block_size = h.each_block_size /\ g.queue = Append(q, e)
        /\ g.free_cnts = Len(Append(q, e))
    <2> DEFINE t == Append(q, e)
               z == h.each_block_size
    <2>1. t \in Seq(Nat) /\ z \in Sizes /\ h.free_cnts + 1 = Len(t) /\ h.free_cnts + 1 \in Nat
      BY <1>1, <1>5
    <2>2. g = [each_block_size |-> z, free_cnts |-> h.free_cnts + 1, queue |-> t]
      BY <1>2, Zenon
    <2> HIDE DEF t, z, g
    <2>3. g \in Header /\ g.each_block_size = z /\ g.queue = t /\ g.free_cnts = Len(t)
      BY <2>1, <2>2 DEF Header
    <2> QED BY <2>3, Zenon DEF t, z
  <1> HIDE DEF g, q, n
  <1>7. \A k : Contains(Append(q, e), k)
                 <=> k \in 0 .. n - 1 /\ ~ \E d \in blocks \ {b} : d.page = p /\ d.blk = k
    <2>1. e \in 0 .. n - 1
      BY DEF n
    <2> QED BY <1>3, <1>5, <2>1
  <1>8. FreeOK(p, g, blocks \ {b})
    BY <1>5, <1>6, <1>7 DEF FreeOK, n
  <1> QED BY <1>6, <1>8 DEF g

-----------------------------------------------------------------------------
(* Every action keeps MemInv. *)

\* A run lies in the pool, its pages are in use and none of them is cut; a
\* block of a cut page is no run.
LEMMA RunFacts ==
  ASSUME MemInv, NEW b \in held
  PROVE  /\ b.page \in Pages /\ b.cnt \in Nat /\ b.asked \in Nat
         /\ b.blk # NULL => b.blk \in Nat /\ RunOf(b) = {} /\ header[b.page] # NULL
         /\ b.blk = NULL => b.page \in RunOf(b)
         /\ \A i \in RunOf(b) : i \in Pages /\ vaddr_bmap[i] # SLOT_FREE /\ header[i] = NULL
  <1>1. b \in Block
    BY DEF MemInv, MemShape
  <1>2. b.page \in Pages /\ b.cnt \in Nat /\ b.blk \in Nat \cup {NULL} /\ b.asked \in Nat
        /\ b.page \in Nat
    BY <1>1, PagesApart DEF Block
  <1>3. ASSUME b.blk # NULL
        PROVE  b.blk \in Nat /\ RunOf(b) = {} /\ header[b.page] # NULL
    <2>1. b.cnt = 0
      BY <1>3 DEF MemInv, RunsOK
    <2> QED BY <1>2, <1>3, <2>1 DEF RunOf, MemInv, BlocksOK
  <1>4. ASSUME b.blk = NULL
        PROVE  b.page \in RunOf(b) /\ \A i \in RunOf(b) : i \in Pages
    <2>1. b.cnt >= 1 /\ b.page + b.cnt - 1 \in Pages
      BY <1>4 DEF MemInv, RunsOK
    <2> QED BY <1>2, <2>1, SlotsAssumption DEF RunOf, Pages, Slots
  <1>5. \A i \in RunOf(b) : i \in Pages => vaddr_bmap[i] # SLOT_FREE /\ header[i] = NULL
    BY DEF MemInv, RunsOK
  <1> QED BY <1>2, <1>3, <1>4, <1>5

\* A failed allocation changes nothing but wild.
LEMMA FailKeeps ==
  ASSUME MemInv, Fail, mallocs' \in 0 .. MaxMallocs
  PROVE  MemInv'
  <1>1. /\ vaddr_bmap' = vaddr_bmap /\ phyaddr_bmap' = phyaddr_bmap /\ pte' = pte
        /\ pde' = pde /\ reach' = reach /\ header' = header /\ mem_desc' = mem_desc
        /\ held' = held /\ wild' = TRUE
    BY DEF Fail, pageVars
  <1>2. MemShape'
    BY <1>1 DEF MemInv, MemShape
  <1>3. MappedOK'
    BY <1>1 DEF MemInv, MappedOK, HasTables
  <1>4. RunsOK'
    BY <1>1 DEF MemInv, RunsOK
  <1>5. BlocksOK'
    BY <1>1 DEF MemInv, BlocksOK
  <1>6. ListsOK'
    BY <1>1 DEF MemInv, ListsOK
  <1> QED BY <1>2, <1>3, <1>4, <1>5, <1>6 DEF MemInv

\* The pages a length needs hold it.
LEMMA PagesFor ==
  ASSUME NEW len \in Nat \ {0}
  PROVE  /\ (len + PAGE - 1) \div PAGE \in Nat \ {0}
         /\ len <= ((len + PAGE - 1) \div PAGE) * PAGE
  <1> DEFINE x == len + PAGE - 1
             n == x \div PAGE
  <1>1. x \in Nat /\ PAGE \in Nat \ {0}
    BY MemoryAssumption
  <1>2. x = len + PAGE - 1
    OBVIOUS
  <1> HIDE DEF x
  <1>3. x = PAGE * n + (x % PAGE) /\ x % PAGE \in 0 .. PAGE - 1 /\ n \in Nat
    BY <1>1, DivMod
  <1> HIDE DEF n
  <1>4. PAGE * n = n * PAGE /\ PAGE * n \in Nat
    BY <1>1, <1>3
  <1>5. len <= n * PAGE
    BY <1>1, <1>2, <1>3, <1>4
  <1>6. n # 0
    <2>1. n = 0 => n * PAGE = 0
      BY <1>1
    <2> QED BY <1>5, <2>1
  <1> QED BY <1>3, <1>5, <1>6 DEF n, x

\* malloc of whole pages.
LEMMA MallocPagesKeeps ==
  ASSUME MemInv, NEW len \in Nat, MallocPages(len), mallocs' \in 0 .. MaxMallocs
  PROVE  MemInv'
  <1> DEFINE cnt == (len + PAGE - 1) \div PAGE
             start == get_free_slots(vaddr_bmap, cnt)
             run == start .. start + cnt - 1
             new == [page |-> start, cnt |-> cnt, blk |-> NULL, asked |-> len]
  <1>1. len > LARGEST /\ LARGEST \in Nat
    BY SizeFacts DEF MallocPages, LARGEST
  <1>2. cnt \in Nat \ {0} /\ len <= cnt * PAGE
    BY <1>1, PagesFor
  <1>3. CASE MallocPageFails(start, cnt)
    BY <1>3, FailKeeps DEF MallocPages
  <1>4. CASE ~MallocPageFails(start, cnt)
    <2>1. /\ malloc_page(start, cnt) /\ held' = held \cup {new}
          /\ header' = header /\ mem_desc' = mem_desc /\ wild' = DataAtRisk'
      BY <1>4 DEF MallocPages, Hold
    <2>0. wild' \in BOOLEAN
      BY <2>1, Zenon DEF DataAtRisk
    <2> HIDE DEF cnt
    <2>2. PagesMapped(start, cnt)
      BY <1>2, <1>4, <2>1, MallocPageFacts
    <2> HIDE DEF start
    <2>3. new \in Block /\ new.page = start /\ new.cnt = cnt /\ new.blk = NULL
          /\ new.asked = len /\ RunOf(new) = run
      BY <1>2, <2>2 DEF Block, PagesMapped, RunOf
    <2> HIDE DEF new
    <2>4. start \in run /\ start + cnt - 1 \in run /\ start + cnt - 1 \in Pages /\ cnt >= 1
      <3>1. start \in Nat
        BY <2>2, PagesApart DEF PagesMapped
      <3> QED BY <1>2, <2>2, <3>1 DEF PagesMapped
    <2>5. \A i \in run : i \in Pages /\ vaddr_bmap[i] = SLOT_FREE
                         /\ vaddr_bmap'[i] = Mark(i, start, cnt)
      BY <2>2 DEF PagesMapped
    <2>6. \A i \in Pages : i \notin run => vaddr_bmap'[i] = vaddr_bmap[i]
      BY <2>2 DEF PagesMapped
    <2> HIDE DEF run
    <2>7. MemShape'
      BY <2>0, <2>1, <2>2, <2>3 DEF MemInv, MemShape, PagesMapped
    <2>8. MappedOK'
      BY <2>2 DEF PagesMapped
    <2>9. \A b \in held : \A i \in RunOf(b) : i \in Pages /\ i \notin run
      BY <2>5, RunFacts
    <2>10. RunsOK'
      <3>2. \A v \in Pages : vaddr_bmap'[v] # SLOT_FREE <=>
              header'[v] # NULL \/ \E b \in held' : v \in RunOf(b)
        BY <2>1, <2>3, <2>5, <2>6, <2>9, MarkUsed DEF MemInv, RunsOK
      <3>3. \A v \in Pages : header'[v] # NULL =>
              vaddr_bmap'[v] = SLOT_USED_SINGLE /\ \A b \in held' : v \notin RunOf(b)
        BY <2>1, <2>3, <2>5, <2>6 DEF MemInv, RunsOK
      <3>4. \A b \in held' : b.blk # NULL => b.cnt = 0
        BY <2>1, <2>3 DEF MemInv, RunsOK
      <3>5. ASSUME NEW b \in held', b.blk = NULL
            PROVE  /\ b.cnt >= 1 /\ b.page + b.cnt - 1 \in Pages
                   /\ \A i \in RunOf(b) : vaddr_bmap'[i] = Mark(i, b.page, b.cnt)
        <4>1. CASE b = new
          BY <2>3, <2>4, <2>5, <4>1
        <4>2. CASE b \in held
          BY <2>6, <2>9, <3>5, <4>2 DEF MemInv, RunsOK
        <4> QED BY <2>1, <4>1, <4>2
      <3>6. \A b, d \in held' : \A i \in RunOf(b) : i \in RunOf(d) => b = d
        BY <2>1, <2>3, <2>9 DEF MemInv, RunsOK
      <3> QED BY <3>2, <3>3, <3>4, <3>5, <3>6 DEF RunsOK
    <2>11. BlocksOK'
      <3>1. ASSUME NEW p \in Pages, header'[p] # NULL
            PROVE  FreeOK(p, header'[p], held')
        <4>1. header[p] \in Header /\ FreeOK(p, header[p], held)
          BY <2>1, <3>1 DEF MemInv, MemShape, BlocksOK
        <4>2. \A k \in Nat : k # NULL
          BY NullAssumption
        <4> QED BY <2>1, <2>3, <4>1, <4>2, FreeOKSame
      <3>2. \A b \in held' : b.blk # NULL =>
               /\ header'[b.page] # NULL
               /\ b.asked <= header'[b.page].each_block_size
               /\ b.blk < BlocksOf(header'[b.page].each_block_size)
        BY <2>1, <2>3 DEF MemInv, BlocksOK
      <3>3. \A b \in held' : b.blk = NULL => b.asked <= b.cnt * PAGE
        BY <1>2, <2>1, <2>3 DEF MemInv, BlocksOK
      <3>4. \A b, d \in held' : b.blk # NULL /\ b.page = d.page /\ b.blk = d.blk => b = d
        BY <2>1, <2>3 DEF MemInv, BlocksOK
      <3> QED BY <3>1, <3>2, <3>3, <3>4 DEF BlocksOK
    <2>12. ListsOK'
      BY <2>1 DEF MemInv, ListsOK
    <2> QED BY <2>7, <2>8, <2>10, <2>11, <2>12 DEF MemInv
  <1> QED BY <1>3, <1>4

\* malloc of a block of the first page of a class.
LEMMA MallocFromFirstKeeps ==
  ASSUME MemInv, NEW len \in Nat, MallocFromFirst(len), mallocs' \in 0 .. MaxMallocs
  PROVE  MemInv'
  <1> DEFINE c == ClassFor(len)
             list == mem_desc[c]
             page == Head(list)
             h == header[page]
             g == PopBlock(h)
             new == [page |-> page, cnt |-> 0, blk |-> Head(h.queue), asked |-> len]
  <1>1. /\ len \in 1 .. LARGEST /\ list # <<>> /\ h.free_cnts > 0
        /\ header' = [header EXCEPT ![page] = g]
        /\ mem_desc' = IF header'[page].free_cnts = 0
                       THEN [mem_desc EXCEPT ![c] = Append(Tail(@), page)]
                       ELSE mem_desc
        /\ held' = held \cup {new}
        /\ vaddr_bmap' = vaddr_bmap /\ phyaddr_bmap' = phyaddr_bmap /\ pte' = pte
        /\ pde' = pde /\ reach' = reach /\ wild' = wild
    BY DEF MallocFromFirst, FirstHasRoom, Hold, pageVars
  <1>2. c \in Classes /\ ClassSize(c) >= len
    BY <1>1, ClassForFacts
  <1> HIDE DEF c
  <1>3. list \in Seq(Pages) /\ IsInjective(list)
        /\ \A p \in Pages : Contains(list, p)
             <=> header[p] # NULL /\ header[p].each_block_size = ClassSize(c)
    BY <1>2 DEF MemInv, MemShape, ListsOK
  <1>4. page \in Pages /\ Contains(list, page)
    BY <1>1, <1>3, TailList
  <1>5. h # NULL /\ h.each_block_size = ClassSize(c) /\ h \in Header
        /\ header \in [Pages -> Header \cup {NULL}] /\ FreeOK(page, h, held)
    BY <1>3, <1>4 DEF MemInv, MemShape, BlocksOK
  <1>6. h.free_cnts # 0
    BY <1>1, <1>5, HeaderApart
  <1>7. new.page = page /\ new.cnt = 0 /\ new.blk = Head(h.queue) /\ new.asked = len
    OBVIOUS
  <1>8. /\ g \in Header /\ g.each_block_size = h.each_block_size
        /\ Head(h.queue) \in 0 .. BlocksOf(h.each_block_size) - 1
        /\ \A b \in held : ~(b.page = page /\ b.blk = new.blk)
        /\ FreeOK(page, g, held \cup {new})
    <2> HIDE DEF new, h, page, g
    <2> QED BY <1>5, <1>6, <1>7, PopFacts DEF g
  <1>9. g # NULL /\ BlocksOf(h.each_block_size) \in Nat
    BY <1>5, <1>8, HeaderApart, BlockCount
  <1>10. Head(h.queue) \in Nat /\ Head(h.queue) < BlocksOf(h.each_block_size)
         /\ Head(h.queue) # NULL
    <2> DEFINE x == Head(h.queue)
               n == BlocksOf(h.each_block_size)
    <2>1. x \in 0 .. n - 1 /\ n \in Nat
      BY <1>8, <1>9
    <2> HIDE DEF x, n
    <2>2. x \in Nat /\ x < n /\ x # NULL
      BY <2>1, NullAssumption
    <2> QED BY <2>2 DEF x, n
  <1>11. RunOf(new) = {} /\ new \in Block
    <2>1. page \in Nat
      BY <1>4, PagesApart
    <2> DEFINE x == Head(h.queue)
    <2>2. x \in Nat
      BY <1>10
    <2> HIDE DEF page, x
    <2>3. [page |-> page, cnt |-> 0, blk |-> x, asked |-> len] \in Block
      BY <1>4, <2>2 DEF Block
    <2>4. page .. page + 0 - 1 = {}
      BY <2>1
    <2> QED BY <1>7, <2>3, <2>4 DEF RunOf, x
  <1> HIDE DEF new, g, h, page, list
  <1>12. \A v \in Pages : header'[v] = IF v = page THEN g ELSE header[v]
    BY <1>1, <1>5
  <1>13. \A v \in Pages : header'[v] # NULL <=> header[v] # NULL
    BY <1>5, <1>9, <1>12 DEF h
  <1>14. MemShape'
    <2>1. header' \in [Pages -> Header \cup {NULL}]
      BY <1>1, <1>4, <1>5, <1>8
    <2>2. mem_desc' \in [Classes -> Seq(Pages)]
      <3>1. Append(Tail(list), page) \in Seq(Pages)
        BY <1>1, <1>3, <1>4
      <3> QED BY <1>1, <3>1 DEF MemInv, MemShape, list
    <2> QED BY <1>1, <1>11, <2>1, <2>2 DEF MemInv, MemShape
  <1>15. MappedOK'
    BY <1>1 DEF MemInv, MappedOK, HasTables
  <1>16. RunsOK'
    <2>2. \A v \in Pages : vaddr_bmap'[v] # SLOT_FREE <=>
            header'[v] # NULL \/ \E b \in held' : v \in RunOf(b)
      BY <1>1, <1>11, <1>13 DEF MemInv, RunsOK
    <2>3. \A v \in Pages : header'[v] # NULL =>
            vaddr_bmap'[v] = SLOT_USED_SINGLE /\ \A b \in held' : v \notin RunOf(b)
      BY <1>1, <1>11, <1>13 DEF MemInv, RunsOK
    <2>4. \A b \in held' : b.blk # NULL => b.cnt = 0
      BY <1>1, <1>7 DEF MemInv, RunsOK
    <2>5. \A b \in held' : b.blk = NULL =>
            /\ b.cnt >= 1 /\ b.page + b.cnt - 1 \in Pages
            /\ \A i \in RunOf(b) : vaddr_bmap'[i] = Mark(i, b.page, b.cnt)
      BY <1>1, <1>7, <1>10 DEF MemInv, RunsOK
    <2>6. \A b, d \in held' : \A i \in RunOf(b) : i \in RunOf(d) => b = d
      BY <1>1, <1>11 DEF MemInv, RunsOK
    <2> QED BY <2>2, <2>3, <2>4, <2>5, <2>6 DEF RunsOK
  <1>17. BlocksOK'
    <2>0. \A b \in held : b.page \in Pages
      BY RunFacts
    <2>1. ASSUME NEW b \in held', b.blk # NULL
          PROVE  /\ header'[b.page] # NULL
                 /\ b.asked <= header'[b.page].each_block_size
                 /\ b.blk < BlocksOf(header'[b.page].each_block_size)
      <3>1. CASE b = new
        <4>1. header'[b.page] = g /\ g.each_block_size = ClassSize(c)
          BY <1>4, <1>5, <1>7, <1>8, <1>12, <3>1
        <4>2. ClassSize(c) \in Nat
          BY <1>2, SizeFacts
        <4> QED BY <1>2, <1>5, <1>7, <1>9, <1>10, <3>1, <4>1, <4>2
      <3>2. CASE b \in held
        <4>1. /\ header[b.page] # NULL
              /\ b.asked <= header[b.page].each_block_size
              /\ b.blk < BlocksOf(header[b.page].each_block_size)
          BY <2>1, <3>2 DEF MemInv, BlocksOK
        <4>2. header'[b.page].each_block_size = header[b.page].each_block_size
          BY <1>8, <1>12, <2>0, <3>2 DEF h
        <4> QED BY <1>13, <2>0, <3>2, <4>1, <4>2
      <3> QED BY <1>1, <3>1, <3>2
    <2>2. \A b \in held' : b.blk = NULL => b.asked <= b.cnt * PAGE
      BY <1>1, <1>7, <1>10 DEF MemInv, BlocksOK
    <2>3. \A b, d \in held' : b.blk # NULL /\ b.page = d.page /\ b.blk = d.blk => b = d
      BY <1>1, <1>7, <1>8 DEF MemInv, BlocksOK
    <2>4. ASSUME NEW p \in Pages, header'[p] # NULL
          PROVE  FreeOK(p, header'[p], held')
      <3>1. CASE p = page
        BY <1>1, <1>8, <1>12, <3>1
      <3>2. CASE p # page
        <4>1. header'[p] = header[p] /\ header[p] \in Header /\ FreeOK(p, header[p], held)
          BY <1>12, <2>4, <3>2 DEF MemInv, MemShape, BlocksOK
        <4>2. \A k \in Nat : (\E b \in held : b.page = p /\ b.blk = k)
                               <=> (\E b \in held' : b.page = p /\ b.blk = k)
          BY <1>1, <1>7, <3>2
        <4> QED BY <4>1, <4>2, FreeOKSame
      <3> QED BY <3>1, <3>2
    <2> QED BY <2>1, <2>2, <2>3, <2>4 DEF BlocksOK
  <1>18. ListsOK'
    <2>1. \A p \in Pages : header'[p].each_block_size = header[p].each_block_size
      BY <1>8, <1>12 DEF h
    <2>2. ASSUME NEW d \in Classes
          PROVE  /\ IsInjective(mem_desc'[d])
                 /\ \A p \in Pages : Contains(mem_desc'[d], p) <=> Contains(mem_desc[d], p)
      <3>1. IsInjective(mem_desc[d]) /\ mem_desc \in [Classes -> Seq(Pages)]
        BY DEF MemInv, MemShape, ListsOK
      <3>2. CASE mem_desc'[d] = mem_desc[d]
        BY <3>1, <3>2
      <3>3. CASE d = c /\ mem_desc'[d] = Append(Tail(list), page)
        <4>1. /\ Tail(list) \in Seq(Pages) /\ IsInjective(Tail(list)) /\ ~Contains(Tail(list), page)
              /\ \A x : Contains(Tail(list), x) <=> Contains(list, x) /\ x # page
          BY <1>1, <1>3, TailList DEF page
        <4>2. /\ IsInjective(Append(Tail(list), page))
              /\ \A x : Contains(Append(Tail(list), page), x) <=> x = page \/ Contains(Tail(list), x)
          BY <1>4, <4>1, AppendList
        <4> QED BY <1>4, <3>3, <4>1, <4>2 DEF list
      <3> QED BY <1>1, <3>1, <3>2, <3>3 DEF list
    <2> QED BY <1>13, <2>1, <2>2 DEF MemInv, ListsOK
  <1> QED BY <1>14, <1>15, <1>16, <1>17, <1>18 DEF MemInv

\* malloc of a block of a new page.
LEMMA MallocFromNewKeeps ==
  ASSUME MemInv, NEW len \in Nat, MallocFromNew(len), mallocs' \in 0 .. MaxMallocs
  PROVE  MemInv'
  <1> DEFINE c == ClassFor(len)
             page == get_free_slots(vaddr_bmap, 1)
             size == ClassSize(c)
             h == install_mem_header(size)
             g == PopBlock(h)
             new == [page |-> page, cnt |-> 0, blk |-> Head(h.queue), asked |-> len]
  <1>1. len \in 1 .. LARGEST
    BY DEF MallocFromNew
  <1>2. c \in Classes /\ size >= len /\ size \in Sizes /\ size \in Nat
    BY <1>1, ClassForFacts, SizeFacts DEF Sizes
  <1>3. CASE MallocPageFails(page, 1)
    BY <1>3, FailKeeps DEF MallocFromNew
  <1>4. CASE ~MallocPageFails(page, 1)
    <2>1. /\ malloc_page(page, 1) /\ held' = held \cup {new}
          /\ header' = [header EXCEPT ![page] = g]
          /\ mem_desc' = [mem_desc EXCEPT ![c] = <<page>> \o @]
          /\ wild' = DataAtRisk'
      BY <1>4 DEF MallocFromNew, Hold
    <2>0. wild' \in BOOLEAN
      BY <2>1, Zenon DEF DataAtRisk
    <2>2. PagesMapped(page, 1)
      BY <1>4, <2>1, MallocPageFacts
    <2> HIDE DEF page, c
    <2>3. page \in Pages /\ page \in Nat /\ page .. page + 1 - 1 = {page}
      <3>1. page \in Pages /\ page \in Nat
        BY <2>2, PagesApart DEF PagesMapped
      <3> QED BY <3>1
    <2>4. vaddr_bmap[page] = SLOT_FREE /\ vaddr_bmap'[page] = SLOT_USED_SINGLE
          /\ \A v \in Pages : v # page => vaddr_bmap'[v] = vaddr_bmap[v]
      BY <2>2, <2>3 DEF PagesMapped, Mark
    <2>5. header[page] = NULL /\ \A b \in held : page \notin RunOf(b)
      BY <2>3, <2>4 DEF MemInv, RunsOK
    <2>6. \A b \in held : b.page \in Pages /\ (b.blk # NULL => b.page # page)
      BY <2>5, RunFacts
    <2>7. \A b \in held : ~(b.page = page /\ b.blk \in Nat)
      BY <2>6, NullAssumption
    <2>8. h \in Header /\ FreeOK(page, h, held) /\ h.free_cnts # 0 /\ h.each_block_size = size
      BY <1>2, <2>7, InstallFacts
    <2>9. new.page = page /\ new.cnt = 0 /\ new.blk = Head(h.queue) /\ new.asked = len
      OBVIOUS
    <2> HIDE DEF new, h, g, size
    <2>10. /\ g \in Header /\ g.each_block_size = size
           /\ Head(h.queue) \in 0 .. BlocksOf(size) - 1
           /\ \A b \in held : ~(b.page = page /\ b.blk = new.blk)
           /\ FreeOK(page, g, held \cup {new})
      BY <2>8, <2>9, PopFacts DEF g
    <2>11. g # NULL /\ BlocksOf(size) \in Nat
      BY <1>2, <2>10, HeaderApart, BlockCount
    <2>12. Head(h.queue) \in Nat /\ Head(h.queue) < BlocksOf(size) /\ Head(h.queue) # NULL
      <3> DEFINE x == Head(h.queue)
                 n == BlocksOf(size)
      <3>1. x \in 0 .. n - 1 /\ n \in Nat
        BY <2>10, <2>11
      <3> HIDE DEF x, n
      <3>2. x \in Nat /\ x < n /\ x # NULL
        BY <3>1, NullAssumption
      <3> QED BY <3>2 DEF x, n
    <2>13. RunOf(new) = {} /\ new \in Block
      <3> DEFINE x == Head(h.queue)
      <3>1. x \in Nat
        BY <2>12
      <3>2. new = [page |-> page, cnt |-> 0, blk |-> x, asked |-> len]
        BY DEF new
      <3> HIDE DEF x
      <3>3. new \in Block
        BY <2>3, <3>1, <3>2 DEF Block
      <3>4. page .. page + 0 - 1 = {}
        BY <2>3
      <3> QED BY <2>9, <3>3, <3>4 DEF RunOf
    <2>14. \A v \in Pages : header'[v] = IF v = page THEN g ELSE header[v]
      BY <2>1 DEF MemInv, MemShape
    <2>15. mem_desc[c] \in Seq(Pages) /\ IsInjective(mem_desc[c]) /\ ~Contains(mem_desc[c], page)
      BY <1>2, <2>3, <2>5 DEF MemInv, MemShape, ListsOK
    <2>16. /\ <<page>> \o mem_desc[c] \in Seq(Pages)
           /\ IsInjective(<<page>> \o mem_desc[c])
           /\ \A x : Contains(<<page>> \o mem_desc[c], x) <=> x = page \/ Contains(mem_desc[c], x)
      BY <2>3, <2>15, PushList
    <2> DEFINE list == <<page>> \o mem_desc[c]
    <2>17. mem_desc' = [mem_desc EXCEPT ![c] = list]
      BY <2>1, Zenon
    <2> HIDE DEF list
    <2>18. MemShape'
      <3>1. header' \in [Pages -> Header \cup {NULL}]
        BY <2>1, <2>3, <2>10 DEF MemInv, MemShape
      <3>2. mem_desc' \in [Classes -> Seq(Pages)]
        BY <2>16, <2>17 DEF MemInv, MemShape, list
      <3> QED BY <2>0, <2>1, <2>2, <2>13, <3>1, <3>2 DEF MemInv, MemShape, PagesMapped
    <2>19. MappedOK'
      BY <2>2 DEF PagesMapped
    <2>20. RunsOK'
      <3>2. \A v \in Pages : vaddr_bmap'[v] # SLOT_FREE <=>
              header'[v] # NULL \/ \E b \in held' : v \in RunOf(b)
        BY <2>1, <2>4, <2>11, <2>13, <2>14
           DEF MemInv, RunsOK, SLOT_FREE, SLOT_USED_SINGLE
      <3>3. \A v \in Pages : header'[v] # NULL =>
              vaddr_bmap'[v] = SLOT_USED_SINGLE /\ \A b \in held' : v \notin RunOf(b)
        BY <2>1, <2>4, <2>5, <2>13, <2>14 DEF MemInv, RunsOK
      <3>4. \A b \in held' : b.blk # NULL => b.cnt = 0
        BY <2>1, <2>9 DEF MemInv, RunsOK
      <3>5. ASSUME NEW b \in held', b.blk = NULL
            PROVE  /\ b.cnt >= 1 /\ b.page + b.cnt - 1 \in Pages
                   /\ \A i \in RunOf(b) : vaddr_bmap'[i] = Mark(i, b.page, b.cnt)
        <4>1. b \in held
          BY <2>1, <2>9, <2>12, <3>5
        <4>2. \A i \in RunOf(b) : i \in Pages /\ i # page
          BY <2>5, <4>1, RunFacts
        <4> QED BY <2>4, <3>5, <4>1, <4>2 DEF MemInv, RunsOK
      <3>6. \A b, d \in held' : \A i \in RunOf(b) : i \in RunOf(d) => b = d
        BY <2>1, <2>13 DEF MemInv, RunsOK
      <3> QED BY <3>2, <3>3, <3>4, <3>5, <3>6 DEF RunsOK
    <2>21. BlocksOK'
      <3>1. ASSUME NEW b \in held', b.blk # NULL
            PROVE  /\ header'[b.page] # NULL
                   /\ b.asked <= header'[b.page].each_block_size
                   /\ b.blk < BlocksOf(header'[b.page].each_block_size)
        <4>1. CASE b = new
          <5>1. header'[b.page] = g /\ g.each_block_size = size
            BY <2>3, <2>9, <2>10, <2>14, <4>1
          <5> QED BY <1>2, <2>9, <2>11, <2>12, <4>1, <5>1
        <4>2. CASE b \in held
          <5>1. header'[b.page] = header[b.page]
            BY <2>6, <2>14, <3>1, <4>2
          <5> QED BY <3>1, <4>2, <5>1 DEF MemInv, BlocksOK
        <4> QED BY <2>1, <4>1, <4>2
      <3>2. \A b \in held' : b.blk = NULL => b.asked <= b.cnt * PAGE
        BY <2>1, <2>9, <2>12 DEF MemInv, BlocksOK
      <3>3. \A b, d \in held' : b.blk # NULL /\ b.page = d.page /\ b.blk = d.blk => b = d
        BY <2>1, <2>9, <2>10 DEF MemInv, BlocksOK
      <3>4. ASSUME NEW p \in Pages, header'[p] # NULL
            PROVE  FreeOK(p, header'[p], held')
        <4>1. CASE p = page
          BY <2>1, <2>10, <2>14, <4>1
        <4>2. CASE p # page
          <5>1. header'[p] = header[p] /\ header[p] \in Header /\ FreeOK(p, header[p], held)
            BY <2>14, <3>4, <4>2 DEF MemInv, MemShape, BlocksOK
          <5>2. \A k \in Nat : (\E b \in held : b.page = p /\ b.blk = k)
                                 <=> (\E b \in held' : b.page = p /\ b.blk = k)
            BY <2>1, <2>9, <4>2
          <5> QED BY <5>1, <5>2, FreeOKSame
        <4> QED BY <4>1, <4>2
      <3> QED BY <3>1, <3>2, <3>3, <3>4 DEF BlocksOK
    <2>22. ListsOK'
      <3> SUFFICES ASSUME NEW d \in Classes
                   PROVE  /\ IsInjective(mem_desc'[d])
                          /\ \A p \in Pages : Contains(mem_desc'[d], p)
                               <=> header'[p] # NULL /\ header'[p].each_block_size = ClassSize(d)
        BY DEF ListsOK
      <3>0. /\ IsInjective(mem_desc[d])
            /\ \A p \in Pages : Contains(mem_desc[d], p)
                 <=> header[p] # NULL /\ header[p].each_block_size = ClassSize(d)
        BY DEF MemInv, ListsOK
      <3>1. CASE d = c
        <4>1. mem_desc'[d] = list
          BY <2>17, <3>1 DEF MemInv, MemShape
        <4>2. g.each_block_size = ClassSize(d)
          BY <2>10, <3>1 DEF size
        <4> QED BY <2>11, <2>14, <2>16, <3>0, <3>1, <4>1, <4>2 DEF list
      <3>2. CASE d # c
        <4>1. mem_desc'[d] = mem_desc[d]
          BY <2>17, <3>2 DEF MemInv, MemShape
        <4>2. g.each_block_size # ClassSize(d)
          BY <1>2, <2>10, <3>2, SizeFacts DEF size
        <4> QED BY <2>5, <2>14, <3>0, <4>1, <4>2
      <3> QED BY <3>1, <3>2
    <2> QED BY <2>18, <2>19, <2>20, <2>21, <2>22 DEF MemInv
  <1> QED BY <1>3, <1>4

\* free of whole pages.
LEMMA FreePagesKeeps ==
  ASSUME MemInv, NEW b \in held, FreePages(b), mallocs' = mallocs
  PROVE  MemInv'
  <1> DEFINE run == b.page .. b.page + b.cnt - 1
  <1>1. /\ b.blk = NULL /\ free_page(b.page) /\ held' = held \ {b}
        /\ header' = header /\ mem_desc' = mem_desc /\ wild' = wild
    BY DEF FreePages
  <1>2. /\ b.cnt >= 1 /\ b.page + b.cnt - 1 \in Pages /\ b.page \in Pages
        /\ b.cnt \in Nat \ {0}
        /\ \A i \in run : vaddr_bmap[i] = Mark(i, b.page, b.cnt)
    <2>1. b.page \in Pages /\ b.cnt \in Nat
      BY RunFacts
    <2> QED BY <1>1, <2>1 DEF MemInv, RunsOK, RunOf
  <1>3. PagesFreed(b.page, b.cnt)
    BY <1>1, <1>2, FreePageFacts
  <1>4. RunOf(b) = run
    BY DEF RunOf
  <1>5. \A v \in Pages : vaddr_bmap'[v] = IF v \in run THEN SLOT_FREE ELSE vaddr_bmap[v]
    BY <1>3 DEF PagesFreed
  <1> HIDE DEF run
  <1>6. \A i \in run : i \in Pages /\ vaddr_bmap[i] # SLOT_FREE /\ header[i] = NULL
    BY <1>4, RunFacts
  <1>7. \A d \in held' : \A i \in RunOf(d) : i \in Pages /\ i \notin run
    <2> SUFFICES ASSUME NEW d \in held', NEW i \in RunOf(d)
                 PROVE  i \in Pages /\ i \notin run
      OBVIOUS
    <2>1. d \in held /\ d # b
      BY <1>1
    <2>2. i \in RunOf(b) => d = b
      BY <2>1 DEF MemInv, RunsOK
    <2> QED BY <1>4, <2>1, <2>2, RunFacts
  <1>8. MemShape'
    BY <1>1, <1>3 DEF MemInv, MemShape, PagesFreed
  <1>9. MappedOK'
    BY <1>3 DEF PagesFreed
  <1>10. RunsOK'
    <2>2. \A v \in Pages : vaddr_bmap'[v] # SLOT_FREE <=>
            header'[v] # NULL \/ \E d \in held' : v \in RunOf(d)
      <3> SUFFICES ASSUME NEW v \in Pages
                   PROVE  vaddr_bmap'[v] # SLOT_FREE <=>
                            header'[v] # NULL \/ \E d \in held' : v \in RunOf(d)
        OBVIOUS
      <3>1. CASE v \in run
        BY <1>1, <1>5, <1>6, <1>7, <3>1
      <3>2. CASE v \notin run
        <4>1. (\E d \in held : v \in RunOf(d)) <=> \E d \in held' : v \in RunOf(d)
          BY <1>1, <1>4, <3>2
        <4>2. vaddr_bmap[v] # SLOT_FREE <=> header[v] # NULL \/ \E d \in held : v \in RunOf(d)
          BY DEF MemInv, RunsOK
        <4> QED BY <1>1, <1>5, <3>2, <4>1, <4>2
      <3> QED BY <3>1, <3>2
    <2>3. \A v \in Pages : header'[v] # NULL =>
            vaddr_bmap'[v] = SLOT_USED_SINGLE /\ \A d \in held' : v \notin RunOf(d)
      BY <1>1, <1>5, <1>6 DEF MemInv, RunsOK
    <2>4. \A d \in held' : d.blk # NULL => d.cnt = 0
      BY <1>1 DEF MemInv, RunsOK
    <2>5. \A d \in held' : d.blk = NULL =>
            /\ d.cnt >= 1 /\ d.page + d.cnt - 1 \in Pages
            /\ \A i \in RunOf(d) : vaddr_bmap'[i] = Mark(i, d.page, d.cnt)
      BY <1>1, <1>5, <1>7 DEF MemInv, RunsOK
    <2>6. \A d, e \in held' : \A i \in RunOf(d) : i \in RunOf(e) => d = e
      BY <1>1 DEF MemInv, RunsOK
    <2> QED BY <2>2, <2>3, <2>4, <2>5, <2>6 DEF RunsOK
  <1>11. BlocksOK'
    <2>1. ASSUME NEW p \in Pages, header'[p] # NULL
          PROVE  FreeOK(p, header'[p], held')
      <3>1. header[p] \in Header /\ FreeOK(p, header[p], held)
        BY <1>1, <2>1 DEF MemInv, MemShape, BlocksOK
      <3>2. \A k \in Nat : k # NULL
        BY NullAssumption
      <3>3. \A k \in Nat : (\E d \in held : d.page = p /\ d.blk = k)
                             <=> (\E d \in held' : d.page = p /\ d.blk = k)
        BY <1>1, <3>2
      <3>4. FreeOK(p, header[p], held')
        BY <3>1, <3>3, FreeOKSame
      <3> QED BY <1>1, <3>4
    <2> QED BY <1>1, <2>1 DEF MemInv, BlocksOK
  <1>12. ListsOK'
    BY <1>1 DEF MemInv, ListsOK
  <1> QED BY <1>8, <1>9, <1>10, <1>11, <1>12 DEF MemInv

\* The header of the page after the block has been put back.
Put(h, b) == [h EXCEPT !.queue = Append(@, b.blk), !.free_cnts = @ + 1]

\* What free of a block finds: the page is cut, the block is one of it, the
\* class is the page's.
LEMMA FreeBlockFacts ==
  ASSUME MemInv, NEW b \in held, b.blk # NULL
  PROVE  LET h == Put(header[b.page], b)
             c == ClassFor(h.each_block_size)
         IN  /\ b.page \in Pages /\ header[b.page] \in Header /\ b.blk \in Nat
             /\ h \in Header /\ h # NULL
             /\ h.each_block_size = header[b.page].each_block_size
             /\ FreeOK(b.page, h, held \ {b})
             /\ c \in Classes /\ h.each_block_size = ClassSize(c)
             /\ mem_desc[c] \in Seq(Pages) /\ IsInjective(mem_desc[c])
             /\ Contains(mem_desc[c], b.page)
             /\ RunOf(b) = {}
  <1> DEFINE h == Put(header[b.page], b)
             c == ClassFor(h.each_block_size)
             n == BlocksOf(header[b.page].each_block_size)
  <1>1. b.page \in Pages /\ b.blk \in Nat /\ RunOf(b) = {} /\ header[b.page] # NULL
    BY RunFacts
  <1>2. header[b.page] \in Header /\ FreeOK(b.page, header[b.page], held) /\ b.blk < n
    BY <1>1 DEF MemInv, MemShape, BlocksOK
  <1>3. n \in Nat
    BY <1>2, HeaderApart, BlockCount
  <1>4. b.blk \in 0 .. n - 1
    <2> HIDE DEF n
    <2> QED BY <1>1, <1>2, <1>3
  <1>5. \A d \in held : d.page = b.page /\ d.blk = b.blk => d = b
    BY DEF MemInv, BlocksOK
  <1>6. /\ h \in Header /\ h.each_block_size = header[b.page].each_block_size
        /\ FreeOK(b.page, h, held \ {b})
    BY <1>2, <1>4, <1>5, PutFacts DEF Put
  <1> HIDE DEF h
  <1>7. h # NULL /\ h.each_block_size \in Sizes
    BY <1>6, HeaderApart
  <1>8. PICK d \in Classes : h.each_block_size = ClassSize(d)
    BY <1>7 DEF Sizes
  <1>9. c = d
    BY <1>8, ClassForFacts
  <1>10. mem_desc[d] \in Seq(Pages) /\ IsInjective(mem_desc[d]) /\ Contains(mem_desc[d], b.page)
    BY <1>1, <1>6, <1>8 DEF MemInv, MemShape, ListsOK
  <1> QED BY <1>1, <1>2, <1>6, <1>7, <1>8, <1>9, <1>10 DEF h

\* free of a block whose page stays cut.
LEMMA FreeBlockKeeps ==
  ASSUME MemInv, NEW b \in held, FreeBlock(b), mallocs' = mallocs,
         Put(header[b.page], b).free_cnts
           # WrongBlockCount(Put(header[b.page], b).each_block_size)
  PROVE  MemInv'
  <1> DEFINE page == b.page
             h == Put(header[page], b)
             c == ClassFor(h.each_block_size)
             rest == Unlink(mem_desc[c], page)
             list == <<page>> \o rest
  <1>1. /\ b.blk # NULL /\ held' = held \ {b} /\ wild' = wild
        /\ mem_desc' \in {mem_desc, [mem_desc EXCEPT ![c] = list]}
        /\ header' = [header EXCEPT ![page] = h]
        /\ vaddr_bmap' = vaddr_bmap /\ phyaddr_bmap' = phyaddr_bmap /\ pte' = pte /\ pde' = pde
        /\ reach' = reach
    BY DEF FreeBlock, Put, pageVars
  <1>2. /\ page \in Pages /\ header[page] \in Header
        /\ h \in Header /\ h # NULL
        /\ h.each_block_size = header[page].each_block_size
        /\ FreeOK(page, h, held')
        /\ c \in Classes /\ h.each_block_size = ClassSize(c)
        /\ mem_desc[c] \in Seq(Pages) /\ IsInjective(mem_desc[c])
        /\ Contains(mem_desc[c], page)
        /\ RunOf(b) = {}
    BY <1>1, FreeBlockFacts
  <1> HIDE DEF c, h
  <1>3. /\ rest \in Seq(Pages) /\ IsInjective(rest)
        /\ \A x : Contains(rest, x) <=> Contains(mem_desc[c], x) /\ x # page
    BY <1>2, UnlinkList
  <1> HIDE DEF rest
  <1>4. /\ list \in Seq(Pages) /\ IsInjective(list)
        /\ \A x : Contains(list, x) <=> x = page \/ Contains(rest, x)
    BY <1>2, <1>3, PushList
  <1> HIDE DEF list
  <1>5. \A v \in Pages : header'[v] = IF v = page THEN h ELSE header[v]
    BY <1>1 DEF MemInv, MemShape
  <1>6. header[page] # NULL
    BY <1>2, HeaderApart
  <1>7. \A v \in Pages : /\ header'[v] # NULL <=> header[v] # NULL
                         /\ header'[v].each_block_size = header[v].each_block_size
    BY <1>2, <1>5, <1>6
  <1>8. MemShape'
    <2>1. header' \in [Pages -> Header \cup {NULL}]
      BY <1>1, <1>2 DEF MemInv, MemShape
    <2>2. mem_desc' \in [Classes -> Seq(Pages)]
      BY <1>1, <1>4 DEF MemInv, MemShape
    <2> QED BY <1>1, <2>1, <2>2 DEF MemInv, MemShape
  <1>9. MappedOK'
    BY <1>1 DEF MemInv, MappedOK, HasTables
  <1>10. RunsOK'
    <2>2. \A v \in Pages : vaddr_bmap'[v] # SLOT_FREE <=>
            header'[v] # NULL \/ \E d \in held' : v \in RunOf(d)
      BY <1>1, <1>2, <1>7 DEF MemInv, RunsOK
    <2>3. \A v \in Pages : header'[v] # NULL =>
            vaddr_bmap'[v] = SLOT_USED_SINGLE /\ \A d \in held' : v \notin RunOf(d)
      BY <1>1, <1>7 DEF MemInv, RunsOK
    <2>4. \A d \in held' : d.blk # NULL => d.cnt = 0
      BY <1>1 DEF MemInv, RunsOK
    <2>5. \A d \in held' : d.blk = NULL =>
            /\ d.cnt >= 1 /\ d.page + d.cnt - 1 \in Pages
            /\ \A i \in RunOf(d) : vaddr_bmap'[i] = Mark(i, d.page, d.cnt)
      BY <1>1 DEF MemInv, RunsOK
    <2>6. \A d, e \in held' : \A i \in RunOf(d) : i \in RunOf(e) => d = e
      BY <1>1 DEF MemInv, RunsOK
    <2> QED BY <2>2, <2>3, <2>4, <2>5, <2>6 DEF RunsOK
  <1>11. BlocksOK'
    <2>1. ASSUME NEW d \in held', d.blk # NULL
          PROVE  /\ header'[d.page] # NULL
                 /\ d.asked <= header'[d.page].each_block_size
                 /\ d.blk < BlocksOf(header'[d.page].each_block_size)
      <3>1. d \in held /\ d.page \in Pages
        BY <1>1, RunFacts
      <3>2. /\ header[d.page] # NULL
            /\ d.asked <= header[d.page].each_block_size
            /\ d.blk < BlocksOf(header[d.page].each_block_size)
        BY <2>1, <3>1 DEF MemInv, BlocksOK
      <3> QED BY <1>7, <3>1, <3>2
    <2>2. ASSUME NEW p \in Pages, header'[p] # NULL
          PROVE  FreeOK(p, header'[p], held')
      <3>1. CASE p = page
        BY <1>2, <1>5, <3>1
      <3>2. CASE p # page
        <4>1. header'[p] = header[p] /\ header[p] \in Header /\ FreeOK(p, header[p], held)
          BY <1>5, <2>2, <3>2 DEF MemInv, MemShape, BlocksOK
        <4>2. \A k \in Nat : (\E d \in held : d.page = p /\ d.blk = k)
                               <=> (\E d \in held' : d.page = p /\ d.blk = k)
          BY <1>1, <3>2
        <4>3. FreeOK(p, header[p], held')
          BY <4>1, <4>2, FreeOKSame
        <4> QED BY <4>1, <4>3
      <3> QED BY <3>1, <3>2
    <2>3. \A d \in held' : d.blk = NULL => d.asked <= d.cnt * PAGE
      BY <1>1 DEF MemInv, BlocksOK
    <2>4. \A d, e \in held' : d.blk # NULL /\ d.page = e.page /\ d.blk = e.blk => d = e
      BY <1>1 DEF MemInv, BlocksOK
    <2> QED BY <2>1, <2>2, <2>3, <2>4 DEF BlocksOK
  <1>12. ListsOK'
    <2>1. ASSUME NEW d \in Classes
          PROVE  /\ IsInjective(mem_desc'[d])
                 /\ \A p \in Pages : Contains(mem_desc'[d], p) <=> Contains(mem_desc[d], p)
      <3>1. IsInjective(mem_desc[d]) /\ mem_desc \in [Classes -> Seq(Pages)]
        BY DEF MemInv, MemShape, ListsOK
      <3>2. CASE mem_desc'[d] = mem_desc[d]
        BY <3>1, <3>2
      <3>3. CASE d = c /\ mem_desc'[d] = list
        BY <1>2, <1>3, <1>4, <3>3
      <3> QED BY <1>1, <3>1, <3>2, <3>3
    <2> QED BY <1>7, <2>1 DEF MemInv, ListsOK
  <1> QED BY <1>8, <1>9, <1>10, <1>11, <1>12 DEF MemInv

\* free of the last block of a page that is given back: no client holds another
\* block of it, although the test the code makes is not for all blocks free.
LEMMA FreeLastKeeps ==
  ASSUME MemInv, NEW b \in held, FreeBlock(b), mallocs' = mallocs,
         Put(header[b.page], b).free_cnts
           = WrongBlockCount(Put(header[b.page], b).each_block_size)
  PROVE  MemInv'
  <1> DEFINE page == b.page
             h == Put(header[page], b)
             c == ClassFor(h.each_block_size)
             rest == Unlink(mem_desc[c], page)
             n == BlocksOf(h.each_block_size)
  <1>1. /\ b.blk # NULL /\ held' = held \ {b} /\ wild' = wild
        /\ mem_desc' = [mem_desc EXCEPT ![c] = rest]
        /\ header' = [header EXCEPT ![page] = NULL]
        /\ free_page(page)
    BY DEF FreeBlock, Put
  <1>2. /\ page \in Pages /\ header[page] \in Header
        /\ h \in Header /\ h # NULL
        /\ h.each_block_size = header[page].each_block_size
        /\ FreeOK(page, h, held')
        /\ c \in Classes /\ h.each_block_size = ClassSize(c)
        /\ mem_desc[c] \in Seq(Pages) /\ IsInjective(mem_desc[c])
        /\ Contains(mem_desc[c], page)
        /\ RunOf(b) = {}
    BY <1>1, FreeBlockFacts
  <1>3. h.free_cnts = WrongBlockCount(h.each_block_size)
    OBVIOUS
  <1> HIDE DEF c, h
  <1>4. /\ rest \in Seq(Pages) /\ IsInjective(rest)
        /\ \A x : Contains(rest, x) <=> Contains(mem_desc[c], x) /\ x # page
    BY <1>2, UnlinkList
  <1> HIDE DEF rest
  <1>5. header[page] # NULL
    BY <1>2, HeaderApart
  <1>6. \A d \in held' : d.blk # NULL => d.page # page
    <2>1. n \in Nat /\ n <= WrongBlockCount(h.each_block_size)
          /\ WrongBlockCount(h.each_block_size) \in Nat
      BY <1>2, HeaderApart, BlockCount
    <2>2. h.queue \in Seq(Nat) /\ IsInjective(h.queue) /\ Len(h.queue) = h.free_cnts
          /\ \A k : Contains(h.queue, k)
                      <=> k \in 0 .. n - 1 /\ ~ \E d \in held' : d.page = page /\ d.blk = k
      BY <1>2, HeaderApart DEF FreeOK
    <2> HIDE DEF n
    <2>3. Len(h.queue) <= n /\ (Len(h.queue) = n => \A x \in 0 .. n - 1 : Contains(h.queue, x))
      BY <2>1, <2>2, ListBound
    <2>4. Len(h.queue) = n
      BY <1>3, <2>1, <2>2, <2>3
    <2>5. \A k \in 0 .. n - 1 : ~ \E d \in held' : d.page = page /\ d.blk = k
      BY <2>2, <2>3, <2>4
    <2> SUFFICES ASSUME NEW d \in held', d.blk # NULL, d.page = page PROVE FALSE
      OBVIOUS
    <2>6. d \in held
      BY <1>1
    <2>7. d.blk \in Nat /\ d.blk < n
      BY <1>2, <2>6, RunFacts DEF MemInv, BlocksOK, n
    <2>8. d.blk \in 0 .. n - 1
      BY <2>1, <2>7
    <2> QED BY <2>5, <2>8
  <1>7. page \in Nat /\ page .. page + 1 - 1 = {page} /\ page + 1 - 1 = page
    <2>1. page \in Nat
      BY <1>2, PagesApart
    <2> QED BY <2>1
  <1>8. vaddr_bmap[page] = SLOT_USED_SINGLE /\ \A d \in held : page \notin RunOf(d)
    BY <1>2, <1>5 DEF MemInv, RunsOK
  <1>9. PagesFreed(page, 1)
    <2>1. \A i \in page .. page + 1 - 1 : vaddr_bmap[i] = Mark(i, page, 1)
      BY <1>7, <1>8 DEF Mark
    <2>2. page + 1 - 1 \in Pages /\ 1 \in Nat \ {0}
      BY <1>2, <1>7
    <2> QED BY <1>1, <1>2, <2>1, <2>2, FreePageFacts
  <1>10. \A v \in Pages : vaddr_bmap'[v] = IF v = page THEN SLOT_FREE ELSE vaddr_bmap[v]
    BY <1>7, <1>9 DEF PagesFreed
  <1>11. \A v \in Pages : header'[v] = IF v = page THEN NULL ELSE header[v]
    BY <1>1 DEF MemInv, MemShape
  <1>12. MemShape'
    <2>1. header' \in [Pages -> Header \cup {NULL}]
      BY <1>1, <1>2 DEF MemInv, MemShape
    <2>2. mem_desc' \in [Classes -> Seq(Pages)]
      BY <1>1, <1>4 DEF MemInv, MemShape
    <2> QED BY <1>1, <1>9, <2>1, <2>2 DEF MemInv, MemShape, PagesFreed
  <1>13. MappedOK'
    BY <1>9 DEF PagesFreed
  <1>14. RunsOK'
    <2>2. \A v \in Pages : vaddr_bmap'[v] # SLOT_FREE <=>
            header'[v] # NULL \/ \E d \in held' : v \in RunOf(d)
      BY <1>1, <1>2, <1>8, <1>10, <1>11 DEF MemInv, RunsOK
    <2>3. \A v \in Pages : header'[v] # NULL =>
            vaddr_bmap'[v] = SLOT_USED_SINGLE /\ \A d \in held' : v \notin RunOf(d)
      BY <1>1, <1>10, <1>11 DEF MemInv, RunsOK
    <2>4. \A d \in held' : d.blk # NULL => d.cnt = 0
      BY <1>1 DEF MemInv, RunsOK
    <2>5. ASSUME NEW d \in held', d.blk = NULL
          PROVE  /\ d.cnt >= 1 /\ d.page + d.cnt - 1 \in Pages
                 /\ \A i \in RunOf(d) : vaddr_bmap'[i] = Mark(i, d.page, d.cnt)
      <3>1. d \in held /\ \A i \in RunOf(d) : i \in Pages /\ i # page
        BY <1>1, <1>8, RunFacts
      <3> QED BY <1>10, <2>5, <3>1 DEF MemInv, RunsOK
    <2>6. \A d, e \in held' : \A i \in RunOf(d) : i \in RunOf(e) => d = e
      BY <1>1 DEF MemInv, RunsOK
    <2> QED BY <2>2, <2>3, <2>4, <2>5, <2>6 DEF RunsOK
  <1>15. BlocksOK'
    <2>1. ASSUME NEW d \in held', d.blk # NULL
          PROVE  /\ header'[d.page] # NULL
                 /\ d.asked <= header'[d.page].each_block_size
                 /\ d.blk < BlocksOf(header'[d.page].each_block_size)
      <3>1. d \in held /\ d.page \in Pages
        BY <1>1, RunFacts
      <3>2. header'[d.page] = header[d.page]
        BY <1>6, <1>11, <2>1, <3>1
      <3> QED BY <2>1, <3>1, <3>2 DEF MemInv, BlocksOK
    <2>2. ASSUME NEW p \in Pages, header'[p] # NULL
          PROVE  FreeOK(p, header'[p], held')
      <3>1. p # page /\ header'[p] = header[p]
        BY <1>11, <2>2
      <3>2. header[p] \in Header /\ FreeOK(p, header[p], held)
        BY <2>2, <3>1 DEF MemInv, MemShape, BlocksOK
      <3>3. \A k \in Nat : (\E d \in held : d.page = p /\ d.blk = k)
                             <=> (\E d \in held' : d.page = p /\ d.blk = k)
        BY <1>1, <3>1
      <3>4. FreeOK(p, header[p], held')
        BY <3>2, <3>3, FreeOKSame
      <3> QED BY <3>1, <3>4
    <2>3. \A d \in held' : d.blk = NULL => d.asked <= d.cnt * PAGE
      BY <1>1 DEF MemInv, BlocksOK
    <2>4. \A d, e \in held' : d.blk # NULL /\ d.page = e.page /\ d.blk = e.blk => d = e
      BY <1>1 DEF MemInv, BlocksOK
    <2> QED BY <2>1, <2>2, <2>3, <2>4 DEF BlocksOK
  <1>16. ListsOK'
    <2> SUFFICES ASSUME NEW d \in Classes
                 PROVE  /\ IsInjective(mem_desc'[d])
                        /\ \A p \in Pages : Contains(mem_desc'[d], p)
                             <=> header'[p] # NULL /\ header'[p].each_block_size = ClassSize(d)
      BY DEF ListsOK
    <2>0. /\ IsInjective(mem_desc[d])
          /\ \A p \in Pages : Contains(mem_desc[d], p)
               <=> header[p] # NULL /\ header[p].each_block_size = ClassSize(d)
      BY DEF MemInv, ListsOK
    <2>1. CASE d = c
      <3>1. mem_desc'[d] = rest
        BY <1>1, <2>1 DEF MemInv, MemShape
      <3> QED BY <1>4, <1>11, <2>0, <2>1, <3>1
    <2>2. CASE d # c
      <3>1. mem_desc'[d] = mem_desc[d]
        BY <1>1, <2>2 DEF MemInv, MemShape
      <3>2. header[page].each_block_size # ClassSize(d)
        BY <1>2, <2>2, SizeFacts
      <3> QED BY <1>11, <2>0, <3>1, <3>2
    <2> QED BY <2>1, <2>2
  <1> QED BY <1>12, <1>13, <1>14, <1>15, <1>16 DEF MemInv

\* Nothing is allocated at the start.
LEMMA MemInitInv ==
  ASSUME MemInit
  PROVE  MemInv
  <1>1. MemShape
    <2>1. mallocs \in 0 .. MaxMallocs
      BY MemoryAssumption DEF MemInit
    <2>2. pde \in [Tables -> Pages \cup {BOOT_TABLE, NULL}]
      BY DEF MemInit
    <2>3. mem_desc \in [Classes -> Seq(Pages)]
      BY DEF MemInit
    <2> QED BY <2>1, <2>2, <2>3 DEF MemInit, MemShape, Pages, SlotValues
  <1>2. MappedOK
    <2> SUFFICES ASSUME NEW v \in Pages
                 PROVE  /\ pte[v] # NULL => pde[TableOf(v)] # NULL
                        /\ vaddr_bmap[v] = SLOT_FREE
                        /\ pte[v] # NULL => v < PREMAPPED /\ pte[v] = v
      BY DEF MappedOK, HasTables
    <2>1. vaddr_bmap[v] = SLOT_FREE /\ (pte[v] # NULL => v < PREMAPPED /\ pte[v] = v)
      BY DEF MemInit, Pages
    <2>2. ASSUME v < PREMAPPED
          PROVE  pde[TableOf(v)] # NULL
      <3> DEFINE half == PTES \div 2
      <3>1. PTES \in Nat \ {0} /\ half \in Nat /\ PREMAPPED \in 0 .. PTES - half /\ v \in Nat
        BY MemoryAssumption, PagesApart, DivMod
      <3> HIDE DEF half
      <3>2. v + half \in 0 .. PTES - 1
        BY <2>2, <3>1
      <3>3. (v + half) \div PTES = 0
        BY <3>1, <3>2
      <3>4. TableOf(v) = 0 /\ TableOf(v) \in Tables
        BY <3>3, PagesApart DEF TableOf, half
      <3> QED BY <3>4, PagesApart DEF MemInit
    <2> QED BY <2>1, <2>2
  <1>3. RunsOK
    BY DEF MemInit, RunsOK, Pages
  <1>4. BlocksOK
    BY DEF MemInit, BlocksOK
  <1>5. ListsOK
    <2>1. \A c \in Classes : mem_desc[c] = <<>>
      BY DEF MemInit
    <2>2. IsInjective(<<>>) /\ \A x : ~Contains(<<>>, x)
      BY DEF IsInjective, Contains
    <2>3. \A p \in Pages : header[p] = NULL
      BY DEF MemInit
    <2> QED BY <2>1, <2>2, <2>3 DEF ListsOK
  <1> QED BY <1>1, <1>2, <1>3, <1>4, <1>5 DEF MemInv

\* Every step keeps MemInv.
LEMMA MemNextInv ==
  ASSUME MemInv, [MemNext]_memVars
  PROVE  MemInv'
  <1>1. CASE UNCHANGED memVars
    <2>1. /\ vaddr_bmap' = vaddr_bmap /\ phyaddr_bmap' = phyaddr_bmap /\ pte' = pte
          /\ pde' = pde /\ reach' = reach /\ header' = header /\ mem_desc' = mem_desc
          /\ held' = held /\ wild' = wild /\ mallocs' = mallocs
      BY <1>1 DEF memVars, pageVars
    <2>2. MemShape'
      BY <2>1 DEF MemInv, MemShape
    <2>3. MappedOK'
      BY <2>1 DEF MemInv, MappedOK, HasTables
    <2>4. RunsOK'
      BY <2>1 DEF MemInv, RunsOK
    <2>5. BlocksOK'
      BY <2>1 DEF MemInv, BlocksOK
    <2>6. ListsOK'
      BY <2>1 DEF MemInv, ListsOK
    <2> QED BY <2>2, <2>3, <2>4, <2>5, <2>6 DEF MemInv
  <1>2. ASSUME NEW len \in Requests, mallocs < MaxMallocs, mallocs' = mallocs + 1,
               MallocPages(len) \/ MallocFromFirst(len) \/ MallocFromNew(len)
        PROVE  MemInv'
    <2>1. len \in Nat
      BY MemoryAssumption
    <2>2. mallocs' \in 0 .. MaxMallocs
      <3>1. mallocs \in 0 .. MaxMallocs /\ MaxMallocs \in Nat
        BY MemoryAssumption DEF MemInv, MemShape
      <3> QED BY <1>2, <3>1
    <2> QED BY <1>2, <2>1, <2>2, MallocPagesKeeps, MallocFromFirstKeeps, MallocFromNewKeeps
  <1>3. ASSUME NEW b \in held, mallocs' = mallocs, FreePages(b) \/ FreeBlock(b)
        PROVE  MemInv'
    BY <1>3, FreePagesKeeps, FreeBlockKeeps, FreeLastKeeps
  <1> QED BY <1>1, <1>2, <1>3 DEF MemNext

\* MemInv is an invariant.
THEOREM MemInvariant == MemSpec => []MemInv
  <1>1. MemInit => MemInv
    BY MemInitInv
  <1>2. MemInv /\ [MemNext]_memVars => MemInv'
    BY MemNextInv
  <1> QED BY <1>1, <1>2, PTL DEF MemSpec

-----------------------------------------------------------------------------
(* What follows from MemInv. *)

\* The memory server's variables keep their types: a page's free blocks and
\* their count stay within the page, whatever is asked for and freed.
THEOREM MemTypeCorrect == MemSpec => []MemTypeOK
  <1>1. MemInv => MemTypeOK
    <2> SUFFICES ASSUME MemInv PROVE MemTypeOK
      OBVIOUS
    <2>1. ASSUME NEW p \in Pages, header[p] # NULL
          PROVE  LET h == header[p]
                     n == BlocksOf(h.each_block_size)
                 IN  /\ h.each_block_size \in {ClassSize(c) : c \in Classes}
                     /\ h.free_cnts \in 0 .. n
                     /\ h.queue \in Seq(0 .. n - 1)
                     /\ n * h.each_block_size <= PAGE - HEADER
      <3> DEFINE h == header[p]
                 n == BlocksOf(h.each_block_size)
                 q == h.queue
      <3>1. h \in Header /\ FreeOK(p, h, held)
        BY <2>1 DEF MemInv, MemShape, BlocksOK
      <3>2. h.each_block_size \in Sizes /\ q \in Seq(Nat)
        BY <3>1, HeaderApart
      <3>3. n \in Nat /\ n * h.each_block_size <= PAGE - HEADER
        BY <3>2, BlockCount
      <3>4. IsInjective(q) /\ h.free_cnts = Len(q) /\ \A x : Contains(q, x) => x \in 0 .. n - 1
        BY <3>1 DEF FreeOK
      <3> HIDE DEF n, q, h
      <3>5. Len(q) <= n /\ Len(q) \in Nat
        BY <3>2, <3>3, <3>4, ListBound
      <3>6. q \in Seq(0 .. n - 1)
        <4>1. \A i \in 1 .. Len(q) : q[i] \in 0 .. n - 1
          BY <3>4 DEF Contains
        <4> DEFINE N == 0 .. n - 1
        <4>2. q = [i \in 1 .. Len(q) |-> q[i]] /\ Len(q) \in Nat
          BY <3>2
        <4>3. [i \in 1 .. Len(q) |-> q[i]] \in Seq(N)
          <5> HIDE DEF N
          <5>1. \A i \in 1 .. Len(q) : q[i] \in N
            BY <4>1 DEF N
          <5> QED BY <4>2, <5>1
        <4> QED BY <4>2, <4>3
      <3>7. h.free_cnts \in 0 .. n
        BY <3>3, <3>4, <3>5
      <3> QED BY <3>2, <3>3, <3>6, <3>7 DEF Sizes, h, n, q
    <2>2. \A t \in Tables : pde[t] \in Pages \cup {BOOT_TABLE, NULL}
      BY DEF MemInv, MemShape
    <2>3. /\ vaddr_bmap \in [Slots -> SlotValues] /\ phyaddr_bmap \subseteq Pages
          /\ pte \in [Pages -> Pages \cup {NULL}] /\ reach \in [Pages -> SUBSET Pages]
          /\ mem_desc \in [Classes -> Seq(Pages)]
          /\ wild \in BOOLEAN /\ mallocs \in 0 .. MaxMallocs
      BY DEF MemInv, MemShape
    <2> QED BY <2>1, <2>2, <2>3, Zenon DEF MemTypeOK
  <1> QED BY <1>1, MemInvariant, PTL

\* The image of a finite set under an injective function is as large.
LEMMA ImageCard ==
  ASSUME NEW S, IsFiniteSet(S), NEW f, \A x, y \in S : f[x] = f[y] => x = y
  PROVE  LET T == {f[x] : x \in S} IN IsFiniteSet(T) /\ Cardinality(T) = Cardinality(S)
  <1> DEFINE T == {f[x] : x \in S}
             g == [x \in S |-> f[x]]
  <1>1. g \in [S -> T] /\ \A x \in S : g[x] = f[x]
    OBVIOUS
  <1>2. DOMAIN g = S
    OBVIOUS
  <1>3. \A t \in T : \E x \in S : g[x] = t
    BY <1>1
  <1> HIDE DEF g, T
  <1>4. g \in Injection(S, T)
    BY <1>1, <1>2, Zenon DEF Injection, IsInjective
  <1>5. g \in Surjection(S, T)
    BY <1>1, <1>3, Zenon DEF Surjection
  <1>6. IsFiniteSet(T) /\ Cardinality(T) = Cardinality(S)
    BY <1>4, <1>5, FS_Surjection, Zenon
  <1> QED BY <1>6 DEF T

\* There are finitely many pages, and as many units in a page.
LEMMA FinitePages ==
  IsFiniteSet(Pages) /\ \A n \in Nat : IsFiniteSet(0 .. n - 1) /\ Cardinality(0 .. n - 1) = n
  <1>1. ASSUME NEW n \in Nat
        PROVE  IsFiniteSet(0 .. n - 1) /\ Cardinality(0 .. n - 1) = n
    <2>1. 0 \in Int /\ n - 1 \in Int
      OBVIOUS
    <2>2. IsFiniteSet(0 .. n - 1) /\ Cardinality(0 .. n - 1) = IF 0 > n - 1 THEN 0 ELSE n - 1 - 0 + 1
      BY <2>1, FS_Interval, Zenon
    <2> QED BY <2>2
  <1> QED BY <1>1, SlotsAssumption DEF Pages, Slots

\* The map of virtual pages and the page tables agree: what is marked is what
\* clients hold or is cut into blocks, all of it is mapped, and nothing else is
\* but pages that boot mapped and nobody has used yet.
THEOREM MapsStayInStep == MemSpec => []MapsAgree
  <1>1. MemInv => MapsAgree
    <2> SUFFICES ASSUME MemInv PROVE MapsAgree
      OBVIOUS
    <2> DEFINE used == {v \in Pages : vaddr_bmap[v] # SLOT_FREE}
               mapped == {v \in Pages : pte[v] # NULL}
    <2>1. used = {v \in Pages : header[v] # NULL}
                 \cup UNION {b.page .. b.page + b.cnt - 1 : b \in held}
      <3>1. \A v \in Pages : v \in used <=> \/ header[v] # NULL
                                            \/ \E b \in held : v \in RunOf(b)
        BY DEF MemInv, RunsOK
      <3>2. \A b \in held : RunOf(b) \subseteq Pages
        BY RunFacts
      <3>3. used \subseteq Pages
        OBVIOUS
      <3> HIDE DEF used
      <3>4. UNION {b.page .. b.page + b.cnt - 1 : b \in held} = UNION {RunOf(b) : b \in held}
        BY Zenon DEF RunOf
      <3>5. used = {v \in Pages : header[v] # NULL} \cup UNION {RunOf(b) : b \in held}
        BY <3>1, <3>2, <3>3
      <3> QED BY <3>4, <3>5
    <2>2. used \subseteq mapped
      BY DEF MemInv, MappedOK
    <2>3. \A v \in mapped : pde[TableOf(v)] # NULL
      BY DEF MemInv, MappedOK, HasTables
    <2>4. \A v \in mapped \ used : v < PREMAPPED /\ pte[v] = v
      BY DEF MemInv, MappedOK
    <2> QED BY <2>1, <2>2, <2>3, <2>4, Zenon DEF MapsAgree
  <1> QED BY <1>1, MemInvariant, PTL

\* Every block of a cut page is in its page's queue, once, or held by a client,
\* and the page is in the list of its class, once.
THEOREM FreeListsStayExact == MemSpec => []FreeListsExact
  <1>1. MemInv => FreeListsExact
    <2> SUFFICES ASSUME MemInv PROVE FreeListsExact
      OBVIOUS
    <2>0. \A S : \A s \in Seq(S) : \A x : x \in Range(s) <=> Contains(s, x)
      BY DEF Range, Contains
    <2>1. ASSUME NEW p \in Pages, header[p] # NULL
          PROVE  LET h == header[p]
                     used == {b.blk : b \in {x \in held : x.page = p}}
                 IN  /\ h.free_cnts = Len(h.queue)
                     /\ IsInjective(h.queue)
                     /\ Range(h.queue) \cap used = {}
                     /\ Range(h.queue) \cup used = 0 .. BlocksOf(h.each_block_size) - 1
                     /\ vaddr_bmap[p] = SLOT_USED_SINGLE
      <3> DEFINE h == header[p]
                 N == 0 .. BlocksOf(h.each_block_size) - 1
                 R == Range(h.queue)
                 used == {b.blk : b \in {x \in held : x.page = p}}
      <3>1. h \in Header /\ FreeOK(p, h, held)
        BY <2>1 DEF MemInv, MemShape, BlocksOK
      <3>2. h.queue \in Seq(Nat) /\ BlocksOf(h.each_block_size) \in Nat
        BY <3>1, HeaderApart, BlockCount
      <3>3. \A k : k \in R <=> k \in N /\ ~ \E b \in held : b.page = p /\ b.blk = k
        BY <2>0, <3>1, <3>2 DEF FreeOK
      <3>4. \A k : k \in used <=> \E b \in held : b.page = p /\ b.blk = k
        OBVIOUS
      <3>5. \A k \in used : k \in N
        <4> SUFFICES ASSUME NEW b \in held, b.page = p PROVE b.blk \in N
          BY <3>4
        <4>1. b.blk # NULL
          BY <2>1, RunFacts
        <4>2. b.blk \in Nat /\ b.blk < BlocksOf(h.each_block_size)
          BY <4>1, RunFacts DEF MemInv, BlocksOK
        <4> HIDE DEF h
        <4> QED BY <3>2, <4>2
      <3>6. vaddr_bmap[p] = SLOT_USED_SINGLE
        BY <2>1 DEF MemInv, RunsOK
      <3>7. h.free_cnts = Len(h.queue) /\ IsInjective(h.queue)
        BY <3>1 DEF FreeOK
      <3> HIDE DEF h, N, R, used
      <3>8. R \cap used = {} /\ R \cup used = N
        BY <3>3, <3>4, <3>5
      <3> QED BY <3>6, <3>7, <3>8, Zenon DEF h, N, R, used
    <2>2. ASSUME NEW c \in Classes
          PROVE  /\ IsInjective(mem_desc[c])
                 /\ Range(mem_desc[c]) = {p \in Pages : header[p] # NULL /\
                                            header[p].each_block_size = ClassSize(c)}
      <3>1. mem_desc[c] \in Seq(Pages) /\ IsInjective(mem_desc[c])
            /\ \A p \in Pages : Contains(mem_desc[c], p)
                 <=> header[p] # NULL /\ header[p].each_block_size = ClassSize(c)
        BY DEF MemInv, MemShape, ListsOK
      <3>2. \A x : x \in Range(mem_desc[c]) <=> Contains(mem_desc[c], x)
        BY <2>0, <3>1
      <3>3. \A x : Contains(mem_desc[c], x) => x \in Pages
        BY <3>1 DEF Contains
      <3> QED BY <3>1, <3>2, <3>3
    <2> QED BY <2>1, <2>2, Zenon DEF FreeListsExact
  <1> QED BY <1>1, MemInvariant, PTL

-----------------------------------------------------------------------------
(* The memory server implements the heap. *)

\* The bytes of what the clients hold: enough for what was asked, and no byte
\* in two of them.
BytesGood ==
  /\ \A b \in held : BytesOf(b) # {} /\ Cardinality(BytesOf(b)) >= b.asked
  /\ \A b, d \in held : b # d => BytesOf(b) \cap BytesOf(d) = {}

\* A run of pages has as many bytes as its pages have.
LEMMA RunBytes ==
  ASSUME MemInv, NEW b \in held, b.blk = NULL
  PROVE  BytesOf(b) # {} /\ Cardinality(BytesOf(b)) >= b.asked
  <1> DEFINE R == RunOf(b)
             U == 0 .. PAGE - 1
             f == [x \in R \X U |-> <<x[1], x[2]>>]
             T == {f[x] : x \in R \X U}
  <1>0. b.page \in Nat /\ b.cnt \in Nat /\ b.cnt >= 1 /\ b.asked \in Nat /\ PAGE \in Nat \ {0}
        /\ b.page \in R /\ b.asked <= b.cnt * PAGE
    BY RunFacts, PagesApart, MemoryAssumption DEF MemInv, RunsOK, BlocksOK
  <1>1. \A z : z \in BytesOf(b) <=> \E v \in R, u \in U : z = <<v, u>>
    BY DEF BytesOf, RunOf
  <1>3. IsFiniteSet(U) /\ Cardinality(U) = PAGE
    BY <1>0, FinitePages
  <1>4. IsFiniteSet(R) /\ Cardinality(R) = b.cnt
    <2> DEFINE lo == b.page
               hi == b.page + b.cnt - 1
    <2>1. lo \in Int /\ hi \in Int /\ ~(lo > hi) /\ hi - lo + 1 = b.cnt
      BY <1>0
    <2>2. R = lo .. hi
      BY DEF RunOf
    <2> HIDE DEF lo, hi, R
    <2>3. IsFiniteSet(lo .. hi) /\ Cardinality(lo .. hi) = IF lo > hi THEN 0 ELSE hi - lo + 1
      BY <2>1, FS_Interval, Zenon
    <2> QED BY <2>1, <2>2, <2>3, Zenon
  <1>5. 0 \in U
    BY <1>0
  <1> HIDE DEF R, U
  <1>6. T = BytesOf(b)
    <2>1. \A x \in R \X U : f[x] = <<x[1], x[2]>>
      OBVIOUS
    <2>2. \A v \in R, u \in U : <<v, u>> \in R \X U /\ f[<<v, u>>] = <<v, u>>
      OBVIOUS
    <2> HIDE DEF f
    <2>3. ASSUME NEW z \in T
          PROVE  z \in BytesOf(b)
      <3>1. PICK x \in R \X U : z = f[x]
        OBVIOUS
      <3>2. x[1] \in R /\ x[2] \in U /\ z = <<x[1], x[2]>>
        BY <2>1, <3>1
      <3> QED BY <1>1, <3>2
    <2>4. ASSUME NEW z \in BytesOf(b)
          PROVE  z \in T
      <3>1. PICK v \in R, u \in U : z = <<v, u>>
        BY <1>1
      <3> QED BY <2>2, <3>1
    <2> QED BY <2>3, <2>4
  <1>7. \A x, y \in R \X U : f[x] = f[y] => x = y
    OBVIOUS
  <1>8. IsFiniteSet(R \X U) /\ Cardinality(R \X U) = b.cnt * PAGE
    BY <1>3, <1>4, FS_Product
  <1>9. Cardinality(T) = b.cnt * PAGE
    <2> HIDE DEF f
    <2> QED BY <1>7, <1>8, ImageCard
  <1>10. BytesOf(b) # {}
    BY <1>0, <1>1, <1>5
  <1>11. b.cnt * PAGE \in Nat
    BY <1>0
  <1> HIDE DEF T
  <1> QED BY <1>0, <1>6, <1>9, <1>10, <1>11

\* A block of a cut page has as many as blocks of its class have.
LEMMA BlockBytes ==
  ASSUME MemInv, NEW b \in held, b.blk # NULL
  PROVE  BytesOf(b) # {} /\ Cardinality(BytesOf(b)) >= b.asked
  <1> DEFINE size == header[b.page].each_block_size
             base == HEADER + b.blk * size
             x == b.page
             f == [u \in 0 .. size - 1 |-> <<x, base + u>>]
             T == {f[u] : u \in 0 .. size - 1}
  <1>1. b.page \in Pages /\ b.blk \in Nat /\ header[b.page] \in Header
        /\ b.asked <= size /\ b.asked \in Nat
    BY RunFacts DEF MemInv, MemShape, BlocksOK
  <1>2. size \in Nat \ {0}
    BY <1>1, HeaderApart, BlockCount
  <1>3. BytesOf(b) = {<<x, w>> : w \in {base + u : u \in 0 .. size - 1}}
    <2>1. BytesOf(b) = {<<x, w>> : w \in UnitsOf(b.blk, size)}
      BY DEF BytesOf
    <2>2. UnitsOf(b.blk, size) = {base + u : u \in 0 .. size - 1}
      BY Zenon DEF UnitsOf
    <2> QED BY <2>1, <2>2, Zenon
  <1> HIDE DEF size
  <1>4. base \in Nat
    BY <1>1, <1>2, MemoryAssumption
  <1>5. BytesOf(b) = {<<x, base + u>> : u \in 0 .. size - 1}
    <2> HIDE DEF base, x
    <2> QED BY <1>3
  <1> HIDE DEF base, x
  <1>6. T = BytesOf(b)
    BY <1>5
  <1>7. \A u, v \in 0 .. size - 1 : f[u] = f[v] => u = v
    BY <1>2, <1>4
  <1>8. IsFiniteSet(0 .. size - 1) /\ Cardinality(0 .. size - 1) = size
    BY <1>2, FinitePages
  <1>9. Cardinality(T) = size
    <2> DEFINE S == 0 .. size - 1
    <2>1. IsFiniteSet(S) /\ Cardinality(S) = size /\ \A u, v \in S : f[u] = f[v] => u = v
      BY <1>7, <1>8
    <2>2. T = {f[u] : u \in S}
      OBVIOUS
    <2> HIDE DEF S, f, T
    <2> QED BY <2>1, <2>2, ImageCard
  <1>10. 0 \in 0 .. size - 1
    BY <1>2
  <1>11. BytesOf(b) # {}
    BY <1>5, <1>10
  <1> HIDE DEF T
  <1> QED BY <1>1, <1>2, <1>6, <1>9, <1>11

\* Two blocks of one page share no unit.
LEMMA UnitsApart ==
  ASSUME NEW size \in Nat \ {0}, NEW i \in Nat, NEW j \in Nat,
         NEW z, z \in UnitsOf(i, size), z \in UnitsOf(j, size)
  PROVE  i = j
  <1>1. PICK u \in 0 .. size - 1 : z = HEADER + i * size + u
    BY DEF UnitsOf
  <1>2. PICK v \in 0 .. size - 1 : z = HEADER + j * size + v
    BY DEF UnitsOf
  <1>3. i * size = size * i /\ j * size = size * j /\ size * i \in Nat /\ size * j \in Nat
        /\ HEADER \in Nat
    BY MemoryAssumption
  <1>4. size * i + u = size * j + v
    <2> DEFINE a == size * i
               b == size * j
    <2>1. HEADER + a + u = HEADER + b + v /\ a \in Nat /\ b \in Nat
      BY <1>1, <1>2, <1>3
    <2> HIDE DEF a, b
    <2>2. a + u = b + v
      BY <1>3, <2>1
    <2> QED BY <2>2 DEF a, b
  <1>5. i \in Int /\ j \in Int
    OBVIOUS
  <1> QED BY <1>4, <1>5, DivModUnique

\* What two clients hold has no byte in common.
LEMMA BytesApart ==
  ASSUME MemInv, NEW b \in held, NEW d \in held, NEW z, z \in BytesOf(b), z \in BytesOf(d)
  PROVE  b = d
  <1>2. ASSUME NEW e \in held, e.blk = NULL, z \in BytesOf(e)
        PROVE  z[1] \in RunOf(e)
    <2>1. PICK v \in RunOf(e), u \in 0 .. PAGE - 1 : z = <<v, u>>
      BY <1>2 DEF BytesOf, RunOf
    <2> QED BY <2>1
  <1>3. ASSUME NEW e \in held, e.blk # NULL, z \in BytesOf(e)
        PROVE  z[1] = e.page /\ z[2] \in UnitsOf(e.blk, header[e.page].each_block_size)
    <2>1. PICK u \in UnitsOf(e.blk, header[e.page].each_block_size) : z = <<e.page, u>>
      BY <1>3 DEF BytesOf
    <2> QED BY <2>1
  <1>4. CASE b.blk = NULL /\ d.blk = NULL
    <2>1. z[1] \in RunOf(b) /\ z[1] \in RunOf(d)
      BY <1>2, <1>4
    <2> QED BY <2>1 DEF MemInv, RunsOK
  <1>5. CASE b.blk # NULL /\ d.blk # NULL
    <2>2. b.page = d.page
      BY <1>3, <1>5
    <2>3. b.blk \in Nat /\ d.blk \in Nat /\ header[b.page] \in Header
      BY <1>5, RunFacts DEF MemInv, MemShape
    <2> DEFINE size == header[b.page].each_block_size
    <2>4. size \in Nat \ {0}
      BY <2>3, HeaderApart, BlockCount
    <2>5. z[2] \in UnitsOf(b.blk, size) /\ z[2] \in UnitsOf(d.blk, size)
      BY <1>3, <1>5, <2>2
    <2> HIDE DEF size
    <2>6. b.blk = d.blk
      BY <2>3, <2>4, <2>5, UnitsApart
    <2> QED BY <1>5, <2>2, <2>6 DEF MemInv, BlocksOK
  <1>6. ASSUME NEW r \in held, NEW k \in held, r.blk = NULL, k.blk # NULL,
               z \in BytesOf(r), z \in BytesOf(k)
        PROVE  FALSE
    <2>1. z[1] \in RunOf(r) /\ z[1] = k.page
      BY <1>2, <1>3, <1>6
    <2>2. header[z[1]] = NULL /\ header[k.page] # NULL
      BY <1>6, <2>1, RunFacts
    <2> QED BY <2>1, <2>2
  <1> QED BY <1>4, <1>5, <1>6

\* MemInv implies that the clients' bytes are as they should be.
LEMMA BytesInv ==
  ASSUME MemInv
  PROVE  BytesGood
  <1>1. \A b \in held : BytesOf(b) # {} /\ Cardinality(BytesOf(b)) >= b.asked
    BY RunBytes, BlockBytes
  <1>2. \A b, d \in held : b # d => BytesOf(b) \cap BytesOf(d) = {}
    BY BytesApart
  <1> QED BY <1>1, <1>2 DEF BytesGood

\* A block's length does not change while it is held: its bytes stay.
SameBytes(b) ==
  b.blk # NULL => header'[b.page].each_block_size = header[b.page].each_block_size

LEMMA SameBytesFacts ==
  ASSUME NEW b, SameBytes(b)
  PROVE  BytesOf(b)' = BytesOf(b)
  BY DEF SameBytes, BytesOf

\* A step adds a block to what the clients hold, takes one from it or leaves it,
\* and moves none of the others.
LEMMA StepFrame ==
  ASSUME MemInv, MemNext
  PROVE  /\ \/ held' = held
            \/ \E new : held' = held \cup {new}
            \/ \E b \in held : held' = held \ {b}
         /\ \A b \in held : b \in held' => SameBytes(b)
  <1>0. ASSUME NEW b \in held
        PROVE  b.page \in Pages /\ (b.blk # NULL => header[b.page] # NULL)
    BY RunFacts
  <1>1. CASE Fail
    BY <1>1 DEF Fail, SameBytes
  <1>3. ASSUME NEW len \in Requests, MallocPages(len), ~Fail
        PROVE  /\ \E new : held' = held \cup {new}
               /\ \A b \in held : SameBytes(b)
    <2>1. header' = header /\ \E new : held' = held \cup {new}
      BY <1>3 DEF MallocPages, Hold
    <2> QED BY <2>1 DEF SameBytes
  <1>4. ASSUME NEW len \in Requests, MallocFromNew(len), ~Fail
        PROVE  /\ \E new : held' = held \cup {new}
               /\ \A b \in held : SameBytes(b)
    <2> DEFINE page == get_free_slots(vaddr_bmap, 1)
    <2>1. /\ ~MallocPageFails(page, 1) /\ malloc_page(page, 1)
          /\ \E h : header' = [header EXCEPT ![page] = h]
          /\ \E new : held' = held \cup {new}
      BY <1>4 DEF MallocFromNew, Hold
    <2>2. PagesMapped(page, 1)
      BY <2>1, MallocPageFacts
    <2> HIDE DEF page
    <2>3. page \in Pages /\ page \in page .. page + 1 - 1
      <3>1. page \in Pages /\ page \in Nat
        BY <2>2, PagesApart DEF PagesMapped
      <3> QED BY <3>1
    <2>4. header[page] = NULL
      BY <2>2, <2>3 DEF PagesMapped, MemInv, RunsOK
    <2>5. ASSUME NEW b \in held, b.blk # NULL
          PROVE  header'[b.page] = header[b.page]
      <3>1. b.page # page /\ b.page \in Pages
        BY <1>0, <2>4, <2>5
      <3> QED BY <2>1, <3>1 DEF MemInv, MemShape
    <2> QED BY <2>1, <2>5 DEF SameBytes
  <1>5. ASSUME NEW len \in Requests, MallocFromFirst(len)
        PROVE  /\ \E new : held' = held \cup {new}
               /\ \A b \in held : SameBytes(b)
    <2> DEFINE page == Head(mem_desc[ClassFor(len)])
    <2>1. /\ header' = [header EXCEPT ![page] = PopBlock(header[page])]
          /\ \E new : held' = held \cup {new}
      BY <1>5 DEF MallocFromFirst, Hold
    <2> HIDE DEF page
    <2>2. ASSUME NEW b \in held, b.blk # NULL
          PROVE  header'[b.page].each_block_size = header[b.page].each_block_size
      <3>1. b.page \in Pages /\ header[b.page] \in Header
        BY <1>0, <2>2 DEF MemInv, MemShape
      <3>2. CASE b.page = page
        <4>1. header'[b.page] = PopBlock(header[b.page])
          BY <2>1, <3>1, <3>2 DEF MemInv, MemShape
        <4>2. PopBlock(header[b.page]).each_block_size = header[b.page].each_block_size
          BY <3>1 DEF PopBlock, Header
        <4> QED BY <4>1, <4>2
      <3>3. CASE b.page # page
        BY <2>1, <3>1, <3>3 DEF MemInv, MemShape
      <3> QED BY <3>2, <3>3
    <2> QED BY <2>1, <2>2 DEF SameBytes
  <1>6. ASSUME NEW b \in held, FreePages(b)
        PROVE  /\ held' = held \ {b}
               /\ \A d \in held : d # b => SameBytes(d)
    <2>1. held' = held \ {b} /\ header' = header
      BY <1>6 DEF FreePages
    <2> QED BY <2>1 DEF SameBytes
  <1>7. ASSUME NEW b \in held, FreeBlock(b), mallocs' = mallocs
        PROVE  /\ held' = held \ {b}
               /\ \A d \in held : d \in held' => SameBytes(d)
    <2> DEFINE h == Put(header[b.page], b)
    <2>0. b.blk # NULL /\ held' = held \ {b}
      BY <1>7 DEF FreeBlock
    <2>1. b.page \in Pages /\ header[b.page] # NULL /\ header[b.page] \in Header
          /\ h.each_block_size = header[b.page].each_block_size
      BY <2>0, RunFacts, FreeBlockFacts
    <2>2. CASE h.free_cnts # WrongBlockCount(h.each_block_size)
      <3>1. header' = [header EXCEPT ![b.page] = h]
        BY <1>7, <2>2 DEF FreeBlock, Put
      <3>2. \A d \in held : d.blk # NULL =>
              header'[d.page].each_block_size = header[d.page].each_block_size
        <4> HIDE DEF h
        <4> QED BY <1>0, <2>1, <3>1 DEF MemInv, MemShape
      <3> QED BY <2>0, <3>1, <3>2 DEF SameBytes
    <2>3. CASE h.free_cnts = WrongBlockCount(h.each_block_size)
      <3>1. header' = [header EXCEPT ![b.page] = NULL]
        BY <1>7, <2>3 DEF FreeBlock, Put
      <3>2. MemInv'
        BY <1>7, <2>3, FreeLastKeeps
      <3>3. header'[b.page] = NULL /\ \A v \in Pages : v # b.page => header'[v] = header[v]
        BY <2>1, <3>1 DEF MemInv, MemShape
      <3>4. \A d \in held' : d.blk # NULL => d.page # b.page
        BY <3>2, <3>3 DEF MemInv, BlocksOK
      <3> QED BY <1>0, <2>0, <3>3, <3>4 DEF SameBytes
    <2> QED BY <2>0, <2>2, <2>3
  <1>8. ASSUME NEW b \in held, held' = held \ {b}
        PROVE  b \notin held'
    BY <1>8
  <1> QED BY <1>1, <1>3, <1>4, <1>5, <1>6, <1>7, <1>8 DEF MemNext

View == {[asked |-> b.asked, bytes |-> BytesOf(b)] : b \in held}

\* Every step of the memory server is a malloc or a free of the heap, or leaves
\* the heap as it is.
LEMMA StepIsHeapStep ==
  ASSUME MemInv, BytesGood, BytesGood', [MemNext]_memVars
  PROVE  heap!HeapMalloc \/ heap!HeapFree \/ View' = View
  <1> DEFINE G(b) == [asked |-> b.asked, bytes |-> BytesOf(b)]
             H(b) == [asked |-> b.asked, bytes |-> BytesOf(b)']
  <1>1. CASE UNCHANGED memVars
    BY <1>1 DEF memVars, View, BytesOf
  <1>2. CASE MemNext
    <2>1. \A b \in held : b \in held' => BytesOf(b)' = BytesOf(b)
      BY <1>2, StepFrame, SameBytesFacts
    <2>2. View = {G(b) : b \in held} /\ View' = {H(b) : b \in held'}
      BY DEF View
    <2>3. \A b \in held : b \in held' => G(b) = H(b)
      BY <2>1
    <2>4. \A b : G(b).bytes = BytesOf(b) /\ G(b).asked = b.asked
                 /\ H(b).bytes = BytesOf(b)' /\ H(b).asked = b.asked
      OBVIOUS
    <2>5. CASE held' = held
      <3> HIDE DEF G, H
      <3> QED BY <2>2, <2>3, <2>5
    <2>6. ASSUME NEW new, held' = held \cup {new}, new \notin held
          PROVE  heap!HeapMalloc
      <3> HIDE DEF G, H
      <3>1. View' = View \cup {H(new)}
        BY <2>2, <2>3, <2>6
      <3>2. BytesOf(new)' # {} /\ Cardinality(BytesOf(new)') >= new.asked
            /\ \A b \in held : BytesOf(new)' \cap BytesOf(b)' = {}
        BY <2>6 DEF BytesGood
      <3>3. \A b \in held : H(new).bytes \cap G(b).bytes = {}
        BY <2>1, <2>4, <2>6, <3>2
      <3>4. H(new) \notin View
        BY <2>2, <2>4, <3>2, <3>3
      <3>5. \A other \in View : H(new).bytes \cap other.bytes = {}
        BY <2>2, <3>3
      <3>6. Cardinality(H(new).bytes) >= H(new).asked
        BY <2>4, <3>2
      <3>7. \E r \in View' \ View : /\ View' = View \cup {r}
                                    /\ Cardinality(r.bytes) >= r.asked
                                    /\ \A other \in View : r.bytes \cap other.bytes = {}
        BY <3>1, <3>4, <3>5, <3>6
      <3>8. \A S : heap!Cardinality(S) = Cardinality(S)
        BY Zenon DEF heap!Cardinality, Cardinality
      <3> QED BY <3>7, <3>8, Zenon DEF heap!HeapMalloc, View
    <2>7. ASSUME NEW b \in held, held' = held \ {b}
          PROVE  heap!HeapFree
      <3> HIDE DEF G, H
      <3>1. \A d \in held : d # b => G(d) # G(b)
        BY <2>4 DEF BytesGood
      <3>2. View' = View \ {G(b)} /\ G(b) \in View
        BY <2>2, <2>3, <2>7, <3>1
      <3>3. \E r \in View : View' = View \ {r}
        BY <3>2
      <3> QED BY <3>3 DEF heap!HeapFree, View
    <2> QED BY <1>2, <2>5, <2>6, <2>7, StepFrame
  <1> QED BY <1>1, <1>2

\* The memory server implements the heap its clients count on, in virtual
\* addresses: every malloc returns a range that is long enough and that no other
\* client has, in whatever order memory is asked for and freed, until an
\* allocation fails or the server's data comes to share memory with a page in
\* use.  It does not say that two ranges are different memory; what is known of
\* that is SharingConfined.
THEOREM MemoryIsHeap == MemSpec => RefinesHeap
  <1>1. MemInit => heap!HeapInit
    BY DEF MemInit, heap!HeapInit
  <1>2. MemInv => BytesGood
    BY BytesInv
  <1>3. MemInv /\ BytesGood /\ BytesGood' /\ [MemNext]_memVars
          => [heap!HeapMalloc \/ heap!HeapFree]_View
    BY StepIsHeapStep
  <1> QED BY <1>1, <1>2, <1>3, MemInvariant, PTL
          DEF MemSpec, RefinesHeap, heap!HeapSpec, View

-----------------------------------------------------------------------------
(* Physical pages. *)

Own == {f \in Pages : f >= PREMAPPED}

\* SharingConfined, of a bitmap, the page tables and where they lie.
Confined(taken, ptes, pdes) ==
  /\ \A v \in Pages : ptes[v] \in Own => ptes[v] \in taken
  /\ \A v, w \in Pages : ptes[v] \in Own /\ ptes[w] = ptes[v] => v = w
  /\ \A v \in Pages, t \in Tables : ptes[v] \in Own => pdes[t] # ptes[v]
  /\ \A t \in Tables : pdes[t] \in Own => pdes[t] \in taken
  /\ \A t, u \in Tables : pdes[t] \in Own /\ pdes[u] = pdes[t] => t = u

\* Both say the same.
LEMMA ConfinedIs == SharingConfined <=> Confined(phyaddr_bmap, pte, pde)
  BY DEF SharingConfined, Confined, Own

\* What a round of malloc_page that does not fail does: a new physical page is
\* taken, and the virtual page keeps its mapping, or gets the new page, or gets
\* it in a page table made for it in another new page.
LEMMA MapOneCases ==
  ASSUME NEW m \in MapState, NEW v \in Pages, ~MapOne(m, v).failed
  PROVE  LET o == MapOne(m, v)
         IN  \E page \in Pages \ m.taken :
               \/ /\ o.taken = m.taken \cup {page}
                  /\ o.pte = m.pte /\ o.pde = m.pde
               \/ /\ o.taken = m.taken \cup {page}
                  /\ o.pte = [m.pte EXCEPT ![v] = page] /\ o.pde = m.pde
               \/ \E table \in Pages \ (m.taken \cup {page}) :
                    /\ o.taken = m.taken \cup {page, table}
                    /\ o.pte = [m.pte EXCEPT ![v] = page]
                    /\ o.pde = [m.pde EXCEPT ![TableOf(v)] = table]
  <1> DEFINE page == get_phy_page(m.taken)
             tk == m.taken \cup {page}
             table == get_phy_page(tk)
             t == TableOf(v)
             n == [m EXCEPT !.taken = tk]
  <1>0. m.taken \in SUBSET Pages
    BY DEF MapState
  <1>1. ~(m.failed \/ page = NULL)
    <2> SUFFICES ASSUME m.failed \/ page = NULL PROVE FALSE
      OBVIOUS
    <2>1. MapOne(m, v) = [m EXCEPT !.failed = TRUE]
      BY Zenon DEF MapOne
    <2> QED BY <2>1 DEF MapState
  <1>2. MapOne(m, v) = map_vir_phy(n, v, page)
    BY <1>1, Zenon DEF MapOne
  <1>3. page \in Pages \ m.taken
    BY <1>0, <1>1, NewPhysPage
  <1>4. n = [taken |-> tk, pte |-> m.pte, pde |-> m.pde, failed |-> m.failed]
    BY DEF MapState
  <1>5. n.taken = tk /\ n.pte = m.pte /\ n.pde = m.pde
    BY <1>4
  <1>6. tk \in SUBSET Pages
    BY <1>0, <1>3
  <1> HIDE DEF page, table, t, n
  <1>8. CASE m.pde[t] # NULL /\ m.pte[v] # NULL
    <2>1. MapOne(m, v) = n
      BY <1>2, <1>5, <1>8, Zenon DEF map_vir_phy, t
    <2> QED BY <1>3, <1>5, <2>1
  <1>9. CASE m.pde[t] # NULL /\ m.pte[v] = NULL
    <2>1. MapOne(m, v) = [n EXCEPT !.pte[v] = page]
      BY <1>2, <1>5, <1>9, Zenon DEF map_vir_phy, t
    <2>2. MapOne(m, v) = [taken |-> tk, pte |-> [m.pte EXCEPT ![v] = page],
                          pde |-> m.pde, failed |-> m.failed]
      BY <1>4, <2>1
    <2> QED BY <1>3, <2>2
  <1>10. CASE m.pde[t] = NULL
    <2>1. table # NULL
      <3> SUFFICES ASSUME table = NULL PROVE FALSE
        OBVIOUS
      <3>1. MapOne(m, v) = [n EXCEPT !.failed = TRUE]
        BY <1>2, <1>5, <1>10, Zenon DEF map_vir_phy, t, table
      <3> QED BY <1>4, <3>1
    <2>2. MapOne(m, v) = [n EXCEPT !.taken = @ \cup {table}, !.pde[t] = table, !.pte[v] = page]
      BY <1>2, <1>5, <1>10, <2>1, Zenon DEF map_vir_phy, t, table
    <2>3. MapOne(m, v) = [taken |-> tk \cup {table}, pte |-> [m.pte EXCEPT ![v] = page],
                          pde |-> [m.pde EXCEPT ![t] = table], failed |-> m.failed]
      BY <1>4, <2>2
    <2>4. table \in Pages \ tk
      BY <1>6, <2>1, NewPhysPage DEF table
    <2>5. tk \cup {table} = m.taken \cup {page, table}
      OBVIOUS
    <2> QED BY <1>3, <2>3, <2>4, <2>5 DEF t
  <1> QED BY <1>8, <1>9, <1>10

\* A round keeps what is shared confined.
LEMMA ConfinedOne ==
  ASSUME NEW m \in MapState, NEW v \in Pages, Confined(m.taken, m.pte, m.pde),
         ~MapOne(m, v).failed
  PROVE  Confined(MapOne(m, v).taken, MapOne(m, v).pte, MapOne(m, v).pde)
  <1> DEFINE o == MapOne(m, v)
  <1>1. PICK page \in Pages \ m.taken :
               \/ /\ o.taken = m.taken \cup {page}
                  /\ o.pte = m.pte /\ o.pde = m.pde
               \/ /\ o.taken = m.taken \cup {page}
                  /\ o.pte = [m.pte EXCEPT ![v] = page] /\ o.pde = m.pde
               \/ \E table \in Pages \ (m.taken \cup {page}) :
                    /\ o.taken = m.taken \cup {page, table}
                    /\ o.pte = [m.pte EXCEPT ![v] = page]
                    /\ o.pde = [m.pde EXCEPT ![TableOf(v)] = table]
    BY MapOneCases, Zenon
  <1> HIDE DEF o
  <1>0. m.pte \in [Pages -> Pages \cup {NULL}] /\ TableOf(v) \in Tables
        /\ m.pde \in [Tables -> Pages \cup {BOOT_TABLE, NULL}]
    BY PagesApart DEF MapState
  <1> DEFINE pt == [m.pte EXCEPT ![v] = page]
  <1>2. pt[v] = page /\ \A w \in Pages \ {v} : pt[w] = m.pte[w]
    BY <1>0
  <1>3. /\ \A w \in Pages : m.pte[w] \in Own => m.pte[w] # page
        /\ \A t \in Tables : m.pde[t] \in Own => m.pde[t] # page
    BY <1>1 DEF Confined
  <1> HIDE DEF pt
  <1>4. \A taken, pdes : Confined(taken, m.pte, pdes) =>
          Confined(taken \cup {page}, m.pte, pdes)
    BY DEF Confined
  <1>5. Confined(m.taken \cup {page}, pt, m.pde)
    <2>1. \A w \in Pages : pt[w] \in Own => pt[w] \in m.taken \cup {page}
      BY <1>2 DEF Confined
    <2>2. \A w, x \in Pages : pt[w] \in Own /\ pt[x] = pt[w] => w = x
      BY <1>2, <1>3 DEF Confined
    <2>3. \A w \in Pages, t \in Tables : pt[w] \in Own => m.pde[t] # pt[w]
      BY <1>2, <1>3 DEF Confined
    <2> QED BY <2>1, <2>2, <2>3 DEF Confined
  <1>6. ASSUME NEW table \in Pages \ (m.taken \cup {page})
        PROVE  Confined(m.taken \cup {page, table}, pt, [m.pde EXCEPT ![TableOf(v)] = table])
    <2> DEFINE pd == [m.pde EXCEPT ![TableOf(v)] = table]
               all == m.taken \cup {page, table}
    <2>1. pd[TableOf(v)] = table /\ \A t \in Tables \ {TableOf(v)} : pd[t] = m.pde[t]
      BY <1>0
    <2>2. /\ \A w \in Pages : pt[w] \in Own => pt[w] # table
          /\ \A t \in Tables : m.pde[t] \in Own => m.pde[t] # table
      BY <1>5 DEF Confined
    <2>3. table \in all /\ m.taken \cup {page} \subseteq all
      OBVIOUS
    <2> HIDE DEF pd, all
    <2>4. \A w \in Pages, t \in Tables : pt[w] \in Own => pd[t] # pt[w]
      BY <1>5, <2>1, <2>2 DEF Confined
    <2>5. \A t \in Tables : pd[t] \in Own => pd[t] \in all
      BY <1>5, <2>1, <2>3 DEF Confined
    <2>6. \A t, u \in Tables : pd[t] \in Own /\ pd[u] = pd[t] => t = u
      BY <1>5, <2>1, <2>2 DEF Confined
    <2>7. \A w \in Pages : pt[w] \in Own => pt[w] \in all
      BY <1>5, <2>3 DEF Confined
    <2>8. \A w, x \in Pages : pt[w] \in Own /\ pt[x] = pt[w] => w = x
      BY <1>5 DEF Confined
    <2>9. Confined(all, pt, pd)
      BY <2>4, <2>5, <2>6, <2>7, <2>8 DEF Confined
    <2> QED BY <2>9 DEF pd, all
  <1>7. Confined(o.taken, o.pte, o.pde)
    <2>1. CASE o.taken = m.taken \cup {page} /\ o.pte = m.pte /\ o.pde = m.pde
      BY <1>4, <2>1
    <2>2. CASE o.taken = m.taken \cup {page} /\ o.pte = pt /\ o.pde = m.pde
      BY <1>5, <2>2
    <2>3. ASSUME NEW table \in Pages \ (m.taken \cup {page}),
                 o.taken = m.taken \cup {page, table}, o.pte = pt,
                 o.pde = [m.pde EXCEPT ![TableOf(v)] = table]
          PROVE  Confined(o.taken, o.pte, o.pde)
      BY <1>6, <2>3
    <2> QED BY <1>1, <2>1, <2>2, <2>3, Zenon DEF pt
  <1> QED BY <1>7 DEF o

\* And so does malloc_page, round after round.
LEMMA ConfinedPages ==
  ASSUME MemShape, Confined(phyaddr_bmap, pte, pde),
         NEW start \in Pages, NEW cnt \in Nat,
         \A v \in start .. start + cnt - 1 : v \in Pages,
         ~MapPages(start, cnt).failed
  PROVE  LET m == MapPages(start, cnt) IN Confined(m.taken, m.pte, m.pde)
  <1>0. start \in Nat
    BY PagesApart
  <1>1. PICK f : /\ MapPages(start, cnt) = f[cnt]
                 /\ f[0] = [taken |-> phyaddr_bmap, pte |-> pte, pde |-> pde, failed |-> FALSE]
                 /\ \A k \in 1 .. cnt : f[k] = MapOne(f[k - 1], start + k - 1)
    BY MapPagesUnfold, Zenon
  <1> DEFINE Done(k) == Confined(f[k].taken, f[k].pte, f[k].pde)
             S == {k \in Nat : k <= cnt => f[k] \in MapState /\ (~f[k].failed => Done(k))}
  <1>2. 0 \in S
    <2>1. f[0] \in MapState /\ f[0].taken = phyaddr_bmap /\ f[0].pte = pte /\ f[0].pde = pde
      BY <1>1 DEF MapState, MemShape
    <2> QED BY <2>1
  <1>3. ASSUME NEW k \in Nat, k \in S
        PROVE  k + 1 \in S
    <2> SUFFICES ASSUME k + 1 <= cnt
                 PROVE  f[k + 1] \in MapState /\ (~f[k + 1].failed => Done(k + 1))
      OBVIOUS
    <2> DEFINE v == start + k
               m == f[k]
    <2>1. f[k + 1] = MapOne(m, v)
      <3>1. k + 1 \in 1 .. cnt /\ (k + 1) - 1 = k /\ start + (k + 1) - 1 = v
        BY <1>0
      <3>2. f[k + 1] = MapOne(f[(k + 1) - 1], start + (k + 1) - 1)
        BY <1>1, <3>1, Zenon
      <3> QED BY <3>1, <3>2
    <2>2. m \in MapState /\ (~m.failed => Done(k))
      BY <1>3
    <2>3. v \in start .. start + cnt - 1
      BY <1>0
    <2>4. v \in Pages
      BY <2>3
    <2>5. (~m.failed => Confined(m.taken, m.pte, m.pde))
      BY <2>2
    <2> HIDE DEF v, m, S
    <2>6. f[k + 1] \in MapState /\ (m.failed => f[k + 1].failed)
      BY <2>1, <2>2, <2>4, MapOneType
    <2>7. ASSUME ~f[k + 1].failed
          PROVE  Done(k + 1)
      BY <2>1, <2>2, <2>4, <2>5, <2>6, <2>7, ConfinedOne
    <2> QED BY <2>6, <2>7
  <1>4. cnt \in S
    <2> HIDE DEF S, Done
    <2> QED BY <1>2, <1>3, NatSet
  <1> QED BY <1>1, <1>4

\* malloc_page and free_page keep it.
LEMMA ConfinedMalloc ==
  ASSUME MemInv, SharingConfined, NEW cnt \in Nat \ {0},
         ~MallocPageFails(get_free_slots(vaddr_bmap, cnt), cnt),
         malloc_page(get_free_slots(vaddr_bmap, cnt), cnt)
  PROVE  SharingConfined'
  <1> DEFINE start == get_free_slots(vaddr_bmap, cnt)
             m == MapPages(start, cnt)
  <1>1. start # -1 /\ ~m.failed
    BY DEF MallocPageFails
  <1>2. start \in Pages /\ \A j \in start .. start + cnt - 1 : j \in Pages
    BY <1>1, FreeSlots DEF Pages
  <1>3. phyaddr_bmap' = m.taken /\ pte' = m.pte /\ pde' = m.pde
    BY DEF malloc_page
  <1> HIDE DEF start
  <1>4. Confined(m.taken, m.pte, m.pde)
    BY <1>1, <1>2, ConfinedIs, ConfinedPages DEF MemInv
  <1> HIDE DEF m
  <1>5. Confined(phyaddr_bmap', pte', pde')
    BY <1>3, <1>4
  <1> QED BY <1>5 DEF SharingConfined, Confined, Own

LEMMA ConfinedFree ==
  ASSUME MemInv, SharingConfined,
         NEW page \in Pages, NEW cnt \in Nat \ {0}, page + cnt - 1 \in Pages,
         \A i \in page .. page + cnt - 1 : vaddr_bmap[i] = Mark(i, page, cnt),
         free_page(page)
  PROVE  SharingConfined'
  <1> DEFINE run == page .. page + cnt - 1
             gone == {pte[i] : i \in run}
  <1>1. RunLength(vaddr_bmap, page) = cnt
    BY RunLengthOfRun DEF Pages
  <1>2. /\ phyaddr_bmap' = phyaddr_bmap \ gone
        /\ pte' = [i \in Pages |-> IF i \in run THEN NULL ELSE pte[i]]
        /\ pde' = pde
    BY <1>1 DEF free_page
  <1>3. run \subseteq Pages
    BY SlotsAssumption DEF Pages, Slots
  <1>4. \A x \in gone : \E i \in Pages : i \in run /\ pte[i] = x
    BY <1>3
  <1>5. NULL \notin Own
    BY PagesApart DEF Own
  <1> HIDE DEF run, gone
  <1>6. \A v \in Pages : pte'[v] \in Own => v \notin run /\ pte'[v] = pte[v]
    BY <1>2, <1>5
  <1>7. Confined(phyaddr_bmap, pte, pde)
    BY ConfinedIs
  <1>8. \A v \in Pages : pte'[v] \in Own => pte'[v] \in phyaddr_bmap'
    BY <1>2, <1>4, <1>6, <1>7 DEF Confined
  <1>9. \A v, w \in Pages : pte'[v] \in Own /\ pte'[w] = pte'[v] => v = w
    BY <1>6, <1>7 DEF Confined
  <1>10. \A v \in Pages, t \in Tables : pte'[v] \in Own => pde'[t] # pte'[v]
    BY <1>2, <1>6, <1>7 DEF Confined
  <1>11. \A t \in Tables : pde'[t] \in Own => pde'[t] \in phyaddr_bmap'
    BY <1>2, <1>4, <1>7 DEF Confined
  <1>12. \A t, u \in Tables : pde'[t] \in Own /\ pde'[u] = pde'[t] => t = u
    BY <1>2, <1>7 DEF Confined
  <1>13. Confined(phyaddr_bmap', pte', pde')
    BY <1>8, <1>9, <1>10, <1>11, <1>12 DEF Confined
  <1> QED BY <1>13 DEF SharingConfined, Confined, Own

\* Every request keeps it.
LEMMA ConfinedNext ==
  ASSUME MemInv, SharingConfined, [MemNext]_memVars
  PROVE  SharingConfined'
  <1>1. ASSUME UNCHANGED pageVars
        PROVE  SharingConfined'
    BY <1>1 DEF pageVars, SharingConfined
  <1>2. CASE UNCHANGED memVars
    BY <1>1, <1>2 DEF memVars
  <1>3. ASSUME NEW len \in Requests, MallocPages(len)
        PROVE  SharingConfined'
    <2> DEFINE cnt == (len + PAGE - 1) \div PAGE
    <2>1. cnt \in Nat \ {0}
      <3>1. len \in Nat /\ len > LARGEST /\ LARGEST \in Nat
        BY <1>3, MemoryAssumption, SizeFacts DEF MallocPages, LARGEST
      <3> QED BY <3>1, PagesFor
    <2>2. CASE MallocPageFails(get_free_slots(vaddr_bmap, cnt), cnt)
      BY <1>1, <1>3, <2>2 DEF MallocPages, Fail
    <2>3. CASE ~MallocPageFails(get_free_slots(vaddr_bmap, cnt), cnt)
      <3>1. malloc_page(get_free_slots(vaddr_bmap, cnt), cnt)
        BY <1>3, <2>3 DEF MallocPages
      <3> HIDE DEF cnt
      <3> QED BY <2>1, <2>3, <3>1, ConfinedMalloc
    <2> QED BY <2>2, <2>3
  <1>4. ASSUME NEW len \in Requests, MallocFromFirst(len)
        PROVE  SharingConfined'
    BY <1>1, <1>4 DEF MallocFromFirst
  <1>5. ASSUME NEW len \in Requests, MallocFromNew(len)
        PROVE  SharingConfined'
    <2>1. CASE MallocPageFails(get_free_slots(vaddr_bmap, 1), 1)
      BY <1>1, <1>5, <2>1 DEF MallocFromNew, Fail
    <2>2. CASE ~MallocPageFails(get_free_slots(vaddr_bmap, 1), 1)
      <3>1. malloc_page(get_free_slots(vaddr_bmap, 1), 1)
        BY <1>5, <2>2 DEF MallocFromNew
      <3> QED BY <2>2, <3>1, ConfinedMalloc
    <2> QED BY <2>1, <2>2
  <1>6. ASSUME NEW b \in held, FreePages(b)
        PROVE  SharingConfined'
    <2>1. b.blk = NULL /\ free_page(b.page) /\ b.page \in Pages /\ b.cnt \in Nat
      BY <1>6, RunFacts DEF FreePages
    <2>2. /\ b.cnt \in Nat \ {0} /\ b.page + b.cnt - 1 \in Pages
          /\ \A i \in b.page .. b.page + b.cnt - 1 : vaddr_bmap[i] = Mark(i, b.page, b.cnt)
      BY <2>1 DEF MemInv, RunsOK, RunOf
    <2> QED BY <2>1, <2>2, ConfinedFree
  <1>7. ASSUME NEW b \in held, FreeBlock(b)
        PROVE  SharingConfined'
    <2>1. UNCHANGED pageVars \/ free_page(b.page)
      BY <1>7 DEF FreeBlock
    <2>2. CASE free_page(b.page)
      <3>1. b.page \in Pages /\ vaddr_bmap[b.page] = SLOT_USED_SINGLE
        <4>1. b.blk # NULL
          BY <1>7 DEF FreeBlock
        <4>2. b.page \in Pages /\ header[b.page] # NULL
          BY <4>1, RunFacts
        <4> QED BY <4>2 DEF MemInv, RunsOK
      <3>2. b.page \in Nat
        BY <3>1, PagesApart
      <3>3. b.page + 1 - 1 = b.page /\ \A i \in b.page .. b.page + 1 - 1 : i = b.page
        BY <3>2
      <3>4. \A i \in b.page .. b.page + 1 - 1 : vaddr_bmap[i] = Mark(i, b.page, 1)
        BY <3>1, <3>3 DEF Mark
      <3> QED BY <2>2, <3>1, <3>3, <3>4, ConfinedFree
    <2> QED BY <1>1, <2>1, <2>2
  <1> QED BY <1>2, <1>3, <1>4, <1>5, <1>6, <1>7 DEF MemNext

\* A physical page that boot did not map is the memory of one virtual page or
\* one page table at most, and is marked as taken while it is, whatever is
\* asked for and freed: only the pages that boot mapped come to be shared
\* (memory.cc 90-116, 147-160).
THEOREM SharingStaysConfined == MemSpec => []SharingConfined
  <1>1. MemInit => SharingConfined
    <2> SUFFICES ASSUME MemInit PROVE SharingConfined
      OBVIOUS
    <2>1. PREMAPPED \in Int /\ Pages \subseteq Nat
      BY MemoryAssumption, PagesApart
    <2>2. \A v \in Pages : pte[v] \notin Own
      BY <2>1, PagesApart DEF MemInit, Own
    <2>3. \A t \in Tables : pde[t] \notin Own
      BY PagesApart DEF MemInit, Own
    <2>4. Confined(phyaddr_bmap, pte, pde)
      BY <2>2, <2>3 DEF Confined
    <2> QED BY <2>4, ConfinedIs
  <1>2. MemInv /\ SharingConfined /\ [MemNext]_memVars => SharingConfined'
    BY ConfinedNext
  <1> QED BY <1>1, <1>2, MemInvariant, PTL DEF MemSpec

=============================================================================
