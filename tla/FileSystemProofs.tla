-------------------------- MODULE FileSystemProofs --------------------------
(***************************************************************************)
(* The proofs about the file server, for partitions, directories and       *)
(* tables of every size.                                                   *)
(*                                                                         *)
(* The inductive invariant FsInv says who owns a block (Owned), what a     *)
(* free block holds (FreeClean), what a directory and a file look like     *)
(* (IsDir, IsPlain), and that the entries of the directories form a tree:  *)
(* each names an allocated inode of its kind (Refs), and no inode is named *)
(* twice, nor a name used twice in a directory (Once).  A request is taken *)
(* apart into the steps the code makes (create_inode, create_dir_entry,    *)
(* init_child_dir, remove_dir_entry, free_inode, GiveBlocks, ...); each    *)
(* changes one inode and blocks that are its own or free, and leaves the   *)
(* other inodes as they are (Frame).  Of a request that is misused only    *)
(* the types and the bitmaps are proved (Sane).                            *)
(***************************************************************************)
EXTENDS FileSystem, NatFacts, FiniteSetTheorems, SequenceTheorems

\* The sector with number k of an inode, the block it names, and the entry in
\* a slot of that block.
Lba(s, i, k) == s.tbl[i].sectors[k]
Block(s, i, k) == s.blk[BlockNo(s.tbl[i].sectors[k])]
At(s, i, k, j) == Block(s, i, k)[j]

\* Slot j of sector k has this name.
Slot(s, i, k, j, name) ==
  /\ k \in SectorNrs /\ j \in SlotNrs
  /\ Lba(s, i, k) # 0 /\ Block(s, i, k) # DATA
  /\ At(s, i, k, j).name = name

\* An allocated inode that is a directory: it has its first sector, which
\* starts with "." and "..", and no sector with data.
IsDir(s, i) ==
  /\ i \in s.inode_bmap /\ Lba(s, i, 0) # 0
  /\ \A k \in SectorNrs : Lba(s, i, k) # 0 => Block(s, i, k) # DATA
  /\ At(s, i, 0, 0).name = "." /\ At(s, i, 0, 1).name = ".."

\* One that is a file: its sectors hold data, or nothing yet.
IsPlain(s, i) ==
  /\ i \in s.inode_bmap
  /\ \A k \in SectorNrs : Lba(s, i, k) # 0 => Block(s, i, k) \in {DATA, ZeroBlock}

\* The sectors of allocated inodes are allocated, and differ.
Owned(s) ==
  \A i, j \in s.inode_bmap, k, l \in SectorNrs :
    Lba(s, i, k) # 0 =>
      /\ BlockNo(Lba(s, i, k)) \in s.block_bmap
      /\ Lba(s, j, l) = Lba(s, i, k) => i = j /\ k = l

\* A free block has no entry in it.
FreeClean(s) == \A b \in Blocks \ s.block_bmap : s.blk[b] \in {DATA, ZeroBlock}

\* An entry of a directory, other than "." and "..".
Ent(s, i, k, j) ==
  /\ i \in Inodes /\ k \in SectorNrs /\ j \in SlotNrs
  /\ IsDir(s, i) /\ Lba(s, i, k) # 0 /\ At(s, i, k, j).name \in Names

\* What the entry names is there, and is what the entry says.
Fits(s, e) ==
  /\ e.type = "DIR" => IsDir(s, e.ino)
  /\ e.type = "FILE" => IsPlain(s, e.ino)

\* Every entry names an allocated inode other than the root, and fits it
\* unless that is x: sys_mkdir enters a directory before it fills it.
Refs(s, x) ==
  \A i, k, j : Ent(s, i, k, j) =>
    /\ At(s, i, k, j).ino \in s.inode_bmap /\ At(s, i, k, j).ino # 0
    /\ At(s, i, k, j).ino # x => Fits(s, At(s, i, k, j))

\* No inode is named twice, and no name used twice in a directory.
Once(s) ==
  \A i1, i2, k1, k2, j1, j2 :
    /\ Ent(s, i1, k1, j1) /\ Ent(s, i2, k2, j2)
    /\ \/ At(s, i1, k1, j1).ino = At(s, i2, k2, j2).ino
       \/ i1 = i2 /\ At(s, i1, k1, j1).name = At(s, i2, k2, j2).name
    => i1 = i2 /\ k1 = k2 /\ j1 = j2

\* No entry names this inode.
Unnamed(s, x) == \A i, k, j : Ent(s, i, k, j) => At(s, i, k, j).ino # x

Space(s) == Owned(s) /\ FreeClean(s)
Synced(s) == s.block_bitmap = s.block_bmap /\ s.inode_bitmap = s.inode_bmap
Tree(s, x) == Refs(s, x) /\ Once(s) /\ IsDir(s, 0)

\* A partition between two requests: no inode is pending.
Good(s) == s \in Partition /\ Space(s) /\ Tree(s, -1) /\ Synced(s)

\* An open file is a file, and its copy has the sectors and the size of the
\* inode; an inode is open once.
OpenFiles(s, t) ==
  /\ t \in [Fds -> {NULL} \cup [ino : Inodes, inode : Inode, offset : Nat]]
  /\ \A fd \in Fds : t[fd] # NULL =>
       /\ IsPlain(s, t[fd].ino)
       /\ t[fd].inode.sectors = s.tbl[t[fd].ino].sectors
       /\ t[fd].inode.size = s.tbl[t[fd].ino].size
       /\ \A fd2 \in Fds : t[fd2] # NULL /\ t[fd2].ino = t[fd].ino => fd = fd2

\* The partition is one, and its bitmaps are on disk.
Sane(s) == s \in Partition /\ Synced(s)

\* The state before a request.
Tidy ==
  /\ Good(fs) /\ OpenFiles(fs, fdt)
  /\ uid \in Users /\ misused = FALSE /\ requests \in 0 .. MaxRequests

\* The state at any time: after a request that was misused only the types and
\* the bitmaps are known.
FsInv ==
  /\ Sane(fs)
  /\ fdt \in [Fds -> {NULL} \cup [ino : Inodes, inode : Inode, offset : Nat]]
  /\ uid \in Users /\ misused \in BOOLEAN /\ requests \in 0 .. MaxRequests
  /\ ~misused => Good(fs) /\ OpenFiles(fs, fdt)

-----------------------------------------------------------------------------
(* The constants, blocks and entries. *)

\* The indices that the code writes out exist.
LEMMA Indices ==
  /\ 0 \in SectorNrs /\ 0 \in SlotNrs /\ 1 \in SlotNrs /\ 0 \in Inodes
  /\ 0 \in Blocks /\ SectorNrs \subseteq Nat /\ SlotNrs \subseteq Nat
  /\ Inodes \subseteq Nat /\ Blocks \subseteq Nat /\ -1 \notin Inodes
  BY SizesAssumption DEF SectorNrs, SlotNrs, Inodes, Blocks

\* A sector number other than 0 names a block, and a block is named by one.
LEMMA LbaFacts ==
  /\ \A l \in Lbas : l # 0 => BlockNo(l) \in Blocks /\ DATA_START + BlockNo(l) = l
  /\ \A b \in Blocks : /\ DATA_START + b \in Lbas /\ DATA_START + b # 0
                       /\ BlockNo(DATA_START + b) = b
  /\ \A l, m \in Lbas : BlockNo(l) = BlockNo(m) => l = m
  /\ 0 \in Lbas
  BY Indices DEF Lbas, BlockNo, DATA_START, Blocks

\* What an entry is made of.
LEMMA EntryFacts ==
  ASSUME NEW e \in Entries
  PROVE  /\ e.name \in Names \cup {"", ".", ".."}
         /\ e.ino \in Inodes /\ e.type \in {"DIR", "FILE"}
         /\ e.name = "" <=> e = FREE
  <1>1. CASE e = FREE
    <2>1. FREE.name = "" /\ FREE.ino = 0 /\ FREE.type = "DIR"
      BY DEF FREE, Entry
    <2> QED BY <1>1, <2>1, Indices
  <1>2. CASE e # FREE
    <2>1. e \in [name : Names \cup {".", ".."}, ino : Inodes, type : {"DIR", "FILE"}]
      BY <1>2 DEF Entries
    <2>2. e.name \in Names \cup {".", ".."} /\ e.ino \in Inodes /\ e.type \in {"DIR", "FILE"}
      BY <2>1
    <2>3. e.name # ""
      BY <2>2, NamesAssumption
    <2> QED BY <1>2, <2>2, <2>3
  <1> QED BY <1>1, <1>2

\* The entries the code makes.
LEMMA MadeEntry ==
  ASSUME NEW name \in Names \cup {".", ".."}, NEW ino \in Inodes, NEW type \in {"DIR", "FILE"}
  PROVE  /\ Entry(name, ino, type) \in Entries
         /\ Entry(name, ino, type).name = name /\ Entry(name, ino, type).ino = ino
         /\ Entry(name, ino, type).type = type
  BY DEF Entries, Entry

\* A block of entries is not one of data.
LEMMA EntriesAreNoData ==
  ASSUME NEW b \in [SlotNrs -> Entries]
  PROVE  b # DATA
  <1>1. 0 \in DOMAIN b
    BY Indices
  <1>2. DOMAIN DATA = 1 .. 1
    BY DEF DATA
  <1> QED BY <1>1, <1>2

\* A cleared block is a block without names.
LEMMA ZeroFacts ==
  /\ ZeroBlock \in [SlotNrs -> Entries] /\ ZeroBlock # DATA
  /\ \A j \in SlotNrs : ZeroBlock[j] = FREE /\ ZeroBlock[j].name = ""
  /\ FREE \in Entries /\ FREE.name = ""
  <1>1. FREE \in Entries /\ FREE.name = ""
    BY DEF Entries, FREE, Entry
  <1>2. ZeroBlock \in [SlotNrs -> Entries] /\ \A j \in SlotNrs : ZeroBlock[j] = FREE
    BY <1>1, Zenon DEF ZeroBlock
  <1> QED BY <1>1, <1>2, EntriesAreNoData

\* The fields of a partition.
LEMMA PartFacts ==
  ASSUME NEW s \in Partition
  PROVE  /\ s.tbl \in [Inodes -> Inode] /\ s.blk \in [Blocks -> [SlotNrs -> Entries] \cup {DATA}]
         /\ s.block_bmap \subseteq Blocks /\ s.inode_bmap \subseteq Inodes
         /\ s.block_bitmap \subseteq Blocks /\ s.inode_bitmap \subseteq Inodes
         /\ s.magic \in {NO_MAGIC, MAGIC} /\ s.wild \in BOOLEAN
         /\ \A i \in Inodes : /\ s.tbl[i] \in Inode /\ s.tbl[i].sectors \in [SectorNrs -> Lbas]
                              /\ s.tbl[i].size \in Nat
                              /\ s.tbl[i].uid \in Users /\ s.tbl[i].mode \subseteq Bits
  BY DEF Partition, Inode

\* What a sector of an inode is, in a partition.
LEMMA SectorFacts ==
  ASSUME NEW s \in Partition, NEW i \in Inodes, NEW k \in SectorNrs
  PROVE  /\ Lba(s, i, k) \in Lbas
         /\ Lba(s, i, k) # 0 => /\ BlockNo(Lba(s, i, k)) \in Blocks
                                /\ Block(s, i, k) = s.blk[BlockNo(Lba(s, i, k))]
                                /\ Block(s, i, k) \in [SlotNrs -> Entries] \cup {DATA}
         /\ Lba(s, i, k) # 0 /\ Block(s, i, k) # DATA =>
              /\ Block(s, i, k) \in [SlotNrs -> Entries]
              /\ \A j \in SlotNrs : At(s, i, k, j) \in Entries
  <1>1. Lba(s, i, k) \in Lbas
    BY PartFacts DEF Lba
  <1>2. Lba(s, i, k) # 0 => BlockNo(Lba(s, i, k)) \in Blocks
    BY <1>1, LbaFacts
  <1>3. Block(s, i, k) = s.blk[BlockNo(Lba(s, i, k))]
    BY DEF Block, Lba
  <1>4. Lba(s, i, k) # 0 => Block(s, i, k) \in [SlotNrs -> Entries] \cup {DATA}
    BY <1>2, <1>3, PartFacts
  <1> QED BY <1>1, <1>2, <1>3, <1>4 DEF At

-----------------------------------------------------------------------------
(* Places: the slots of a directory in the order in which it is walked. *)

\* A place is a sector and a slot of it.
LEMMA PlaceSplit ==
  ASSUME NEW n \in 0 .. (NSEC * SLOTS) - 1
  PROVE  /\ n \div SLOTS \in SectorNrs /\ n % SLOTS \in SlotNrs
         /\ n = SLOTS * (n \div SLOTS) + (n % SLOTS)
  <1> DEFINE q == n \div SLOTS
             r == n % SLOTS
  <1>1. n \in Nat /\ SLOTS \in Nat \ {0} /\ NSEC \in Nat
    BY SizesAssumption
  <1>2. n = SLOTS * q + r /\ r \in 0 .. SLOTS - 1 /\ q \in Nat
    BY <1>1, DivMod
  <1> HIDE DEF q, r
  <1>3. q < NSEC
    <2> SUFFICES ASSUME q >= NSEC PROVE FALSE
      BY <1>1, <1>2
    <2>1. SLOTS * (q - NSEC) = SLOTS * q - SLOTS * NSEC
      BY <1>1, <1>2, Distributes
    <2>2. SLOTS * (q - NSEC) >= 0
      BY <1>1, <1>2
    <2>3. SLOTS * NSEC = NSEC * SLOTS
      BY <1>1
    <2> DEFINE a == SLOTS * q
               b == NSEC * SLOTS
    <2>4. a \in Int /\ b \in Int /\ a - b >= 0 /\ n = a + r /\ n <= b - 1
      BY <1>1, <1>2, <2>1, <2>2, <2>3
    <2> HIDE DEF a, b
    <2> QED BY <1>2, <2>4
  <1> QED BY <1>2, <1>3, <1>1 DEF SectorNrs, SlotNrs, q, r

\* And every slot of every sector is a place.
LEMMA PlaceOf ==
  ASSUME NEW k \in SectorNrs, NEW j \in SlotNrs
  PROVE  /\ SLOTS * k + j \in 0 .. (NSEC * SLOTS) - 1
         /\ (SLOTS * k + j) \div SLOTS = k /\ (SLOTS * k + j) % SLOTS = j
  <1> DEFINE n == SLOTS * k + j
  <1>1. SLOTS \in Nat \ {0} /\ NSEC \in Nat /\ k \in Nat /\ k < NSEC /\ j \in 0 .. SLOTS - 1
    BY SizesAssumption DEF SectorNrs, SlotNrs
  <1>2. n \in Nat
    BY <1>1
  <1>3. n < NSEC * SLOTS
    <2>1. SLOTS * (NSEC - k) >= SLOTS
      <3>1. NSEC - k \in Nat /\ NSEC - k >= 1
        BY <1>1
      <3> QED BY <1>1, <3>1, MultipleGrows
    <2>2. SLOTS * (NSEC - k) = SLOTS * NSEC - SLOTS * k
      BY <1>1, Distributes
    <2>3. SLOTS * NSEC = NSEC * SLOTS
      BY <1>1
    <2> DEFINE a == SLOTS * k
               b == NSEC * SLOTS
    <2>4. a \in Int /\ b \in Int /\ b - a >= SLOTS /\ n = a + j
      BY <1>1, <2>1, <2>2, <2>3
    <2> HIDE DEF a, b, n
    <2>5. n < b
      BY <1>1, <2>4
    <2> QED BY <2>5 DEF b
  <1>4. n = SLOTS * (n \div SLOTS) + (n % SLOTS) /\ n % SLOTS \in 0 .. SLOTS - 1 /\ n \div SLOTS \in Nat
    <2> HIDE DEF n
    <2> QED BY <1>1, <1>2, DivMod
  <1> DEFINE q == n \div SLOTS
             r == n % SLOTS
  <1>5. SLOTS * q + r = SLOTS * k + j /\ r \in 0 .. SLOTS - 1 /\ q \in Int
    BY <1>4
  <1> HIDE DEF q, r
  <1>6. q = k /\ r = j
    BY <1>1, <1>5, DivModUnique
  <1>7. n \in 0 .. (NSEC * SLOTS) - 1
    <2> DEFINE b == NSEC * SLOTS
    <2>1. n < b /\ b \in Int
      BY <1>3, <1>1
    <2> HIDE DEF n, b
    <2>2. n \in 0 .. b - 1
      BY <1>2, <2>1
    <2> QED BY <2>2 DEF b
  <1> QED BY <1>6, <1>7 DEF q, r

\* The place of a slot is one of the places with a name exactly when the slot
\* has that name.
LEMMA InPlaces ==
  ASSUME NEW s, NEW i, NEW name, NEW n
  PROVE  n \in Places(s, s.tbl[i], name) <=>
           /\ n \in 0 .. (NSEC * SLOTS) - 1
           /\ Slot(s, i, n \div SLOTS, n % SLOTS, name)
  <1> DEFINE q == n \div SLOTS
             r == n % SLOTS
  <1>1. n \in 0 .. (NSEC * SLOTS) - 1 => q \in SectorNrs /\ r \in SlotNrs
    BY PlaceSplit
  <1>2. n \in Places(s, s.tbl[i], name) <=>
          /\ n \in 0 .. (NSEC * SLOTS) - 1
          /\ s.tbl[i].sectors[q] # 0 /\ s.blk[BlockNo(s.tbl[i].sectors[q])] # DATA
          /\ s.blk[BlockNo(s.tbl[i].sectors[q])][r].name = name
    BY Zenon DEF Places, read_block
  <1> HIDE DEF q, r
  <1>3. n \in Places(s, s.tbl[i], name) <=>
           n \in 0 .. (NSEC * SLOTS) - 1 /\ Slot(s, i, q, r, name)
    BY <1>1, <1>2, Zenon DEF Slot, Lba, Block, At
  <1> QED BY <1>3 DEF q, r

\* The first place with a name, if there is one, is a slot with the name.
LEMMA FirstPlace ==
  ASSUME NEW s, NEW i, NEW name
  PROVE  /\ Places(s, s.tbl[i], name) = {} => \A k, j : ~Slot(s, i, k, j, name)
         /\ Places(s, s.tbl[i], name) # {} =>
              LET n == Min(Places(s, s.tbl[i], name))
              IN  /\ n \in Places(s, s.tbl[i], name)
                  /\ n \in 0 .. (NSEC * SLOTS) - 1
                  /\ Slot(s, i, n \div SLOTS, n % SLOTS, name)
  <1> DEFINE P == Places(s, s.tbl[i], name)
  <1>1. ASSUME P = {}, NEW k, NEW j, Slot(s, i, k, j, name)
        PROVE  FALSE
    <2>1. k \in SectorNrs /\ j \in SlotNrs
      BY <1>1 DEF Slot
    <2> DEFINE n == SLOTS * k + j
    <2>2. n \in 0 .. (NSEC * SLOTS) - 1 /\ n \div SLOTS = k /\ n % SLOTS = j
      BY <2>1, PlaceOf
    <2> HIDE DEF n
    <2>3. n \in P
      BY <1>1, <2>2, InPlaces, Zenon
    <2> QED BY <1>1, <2>3
  <1>2. ASSUME P # {}
        PROVE  Min(P) \in P
    <2>1. P \subseteq 0 .. (NSEC * SLOTS) - 1
      BY InPlaces, Zenon
    <2>2. 0 .. (NSEC * SLOTS) - 1 \subseteq Nat
      BY SizesAssumption
    <2>3. P \subseteq Nat
      BY <2>1, <2>2
    <2> QED BY <1>2, <2>3, MinIsLeast, Zenon
  <1>3. P # {} => /\ Min(P) \in 0 .. (NSEC * SLOTS) - 1
                  /\ Slot(s, i, Min(P) \div SLOTS, Min(P) % SLOTS, name)
    BY <1>2, InPlaces, Zenon
  <1> QED BY <1>1, <1>2, <1>3, Zenon

-----------------------------------------------------------------------------
(* Paths. *)

\* The type of the first entry with a name, as TypeOf looks it up.
TypeIn(s, d, name) ==
  LET found == Places(s, s.tbl[d], name)
      n == Min(found)
  IN  IF found = {} THEN "NONE"
      ELSE read_block(s, s.tbl[d].sectors[n \div SLOTS])[n % SLOTS].type

\* find_dir_entry returns the inode in a slot with the name, -1 when there is
\* no such slot.
LEMMA Find ==
  ASSUME NEW s, NEW d, NEW name
  PROVE  \/ /\ find_dir_entry(s, s.tbl[d], name) = -1 /\ TypeIn(s, d, name) = "NONE"
            /\ Places(s, s.tbl[d], name) = {}
            /\ \A k, j : ~Slot(s, d, k, j, name)
         \/ /\ Places(s, s.tbl[d], name) # {}
            /\ \E k, j : /\ Slot(s, d, k, j, name)
                         /\ find_dir_entry(s, s.tbl[d], name) = At(s, d, k, j).ino
                         /\ TypeIn(s, d, name) = At(s, d, k, j).type
  <1> DEFINE P == Places(s, s.tbl[d], name)
             n == Min(P)
  <1>1. CASE P = {}
    BY <1>1, FirstPlace, Zenon DEF find_dir_entry, TypeIn
  <1>2. CASE P # {}
    <2>1. Slot(s, d, n \div SLOTS, n % SLOTS, name)
      BY <1>2, FirstPlace, Zenon
    <2>2. find_dir_entry(s, s.tbl[d], name) = At(s, d, n \div SLOTS, n % SLOTS).ino
      BY <1>2, Zenon DEF find_dir_entry, read_block, At, Block
    <2>3. TypeIn(s, d, name) = At(s, d, n \div SLOTS, n % SLOTS).type
      BY <1>2, Zenon DEF TypeIn, read_block, At, Block
    <2> QED BY <1>2, <2>1, <2>2, <2>3, Zenon
  <1> QED BY <1>1, <1>2

\* One component further on the walk of dir_is_exists.
WalkStep(s, x, name) == IF x = -1 THEN -1 ELSE find_dir_entry(s, s.tbl[x], name)

\* A function that dir_is_exists may have built on its way.
IsWalk(s, path, f) ==
  /\ dir_is_exists(s, path) = f[Len(path)]
  /\ f[0] = 0
  /\ \A k \in 1 .. Len(path) : f[k] = WalkStep(s, f[k - 1], path[k])

\* The function of dir_is_exists exists: it is defined component after
\* component.
LEMMA WalkUnfold ==
  ASSUME NEW s, NEW path, Len(path) \in Nat
  PROVE  \E f : IsWalk(s, path, f)
  <1> DEFINE Body(f, n) == [i \in 0 .. n |-> IF i = 0 THEN 0 ELSE WalkStep(s, f[i - 1], path[i])]
             S == {n \in Nat : \E f : f = Body(f, n)}
             m == Len(path)
  <1>1. 0 \in S
    <2>1. [i \in 0 .. 0 |-> 0] = Body([i \in 0 .. 0 |-> 0], 0)
      OBVIOUS
    <2> QED BY <2>1
  <1>2. ASSUME NEW n \in Nat, n \in S
        PROVE  n + 1 \in S
    <2>1. PICK f : f = Body(f, n)
      BY <1>2
    <2> DEFINE g == [i \in 0 .. n + 1 |-> IF i = 0 THEN 0 ELSE WalkStep(s, f[i - 1], path[i])]
    <2>2. \A i \in 0 .. n : g[i] = f[i]
      <3> SUFFICES ASSUME NEW i \in 0 .. n PROVE g[i] = f[i]
        OBVIOUS
      <3>1. f[i] = IF i = 0 THEN 0 ELSE WalkStep(s, f[i - 1], path[i])
        BY <2>1
      <3> QED BY <3>1
    <2>3. \A i \in 0 .. n + 1 : i # 0 => g[i - 1] = f[i - 1]
      <3> HIDE DEF g
      <3>1. \A i \in 0 .. n + 1 : i # 0 => i - 1 \in 0 .. n
        OBVIOUS
      <3> QED BY <2>2, <3>1, Zenon
    <2>4. \A i \in 0 .. n + 1 : g[i] = IF i = 0 THEN 0 ELSE WalkStep(s, g[i - 1], path[i])
      <3> SUFFICES ASSUME NEW i \in 0 .. n + 1
                   PROVE  g[i] = IF i = 0 THEN 0 ELSE WalkStep(s, g[i - 1], path[i])
        OBVIOUS
      <3>1. g[i] = IF i = 0 THEN 0 ELSE WalkStep(s, f[i - 1], path[i])
        OBVIOUS
      <3> HIDE DEF g
      <3> QED BY <2>3, <3>1
    <2>5. g = [i \in 0 .. n + 1 |-> g[i]]
      OBVIOUS
    <2> HIDE DEF g
    <2>6. g = Body(g, n + 1)
      BY <2>4, <2>5
    <2> QED BY <2>6
  <1> HIDE DEF S
  <1>3. m \in S
    BY <1>1, <1>2, NatSet
  <1> DEFINE h == CHOOSE f : f = Body(f, m)
  <1>4. h = Body(h, m)
    BY <1>3 DEF S
  <1>5. dir_is_exists(s, path) = h[m]
    BY Zenon DEF dir_is_exists, WalkStep, ino2inode
  <1> HIDE DEF h
  <1>6. h[0] = 0 /\ \A k \in 1 .. m : h[k] = WalkStep(s, h[k - 1], path[k])
    <2>1. \A i \in 0 .. m : h[i] = IF i = 0 THEN 0 ELSE WalkStep(s, h[i - 1], path[i])
      BY <1>4
    <2> QED BY <2>1
  <1>7. IsWalk(s, path, h)
    BY <1>5, <1>6 DEF IsWalk
  <1> QED BY <1>7, Zenon

\* The parent of a path is the path without its last component.
LEMMA ParentFacts ==
  ASSUME NEW p \in Seq(Names), p # <<>>
  PROVE  /\ ParentOf(p) \in Seq(Names) /\ Len(ParentOf(p)) = Len(p) - 1
         /\ Len(p) \in Nat \ {0} /\ Len(p) - 1 \in Nat
         /\ \A k \in 1 .. Len(p) - 1 : ParentOf(p)[k] = p[k]
         /\ ChildOf(p) = p[Len(p)] /\ ChildOf(p) \in Names
  <1>1. Len(p) \in Nat \ {0} /\ Len(p) - 1 \in Nat
    BY EmptySeq
  <1> DEFINE m == Len(p) - 1
  <1>2. m \in Nat /\ 1 \in 1 .. m + 1 /\ m \in 0 .. Len(p) /\ 1 \in 1 .. Len(p) + 1 /\ m + 1 = Len(p)
    BY <1>1
  <1> HIDE DEF m
  <1>3. SubSeq(p, 1, m) \in Seq(Names) /\ Len(SubSeq(p, 1, m)) = m
    BY <1>2
  <1>4. \A k \in 1 .. m : SubSeq(p, 1, m)[k] = p[k]
    BY <1>2
  <1>5. p[Len(p)] \in Names
    BY <1>1
  <1>6. ParentOf(p) = SubSeq(p, 1, m)
    BY DEF ParentOf, m
  <1> QED BY <1>1, <1>3, <1>4, <1>5, <1>6 DEF ChildOf, m

\* A path is its parent and its last component.
LEMMA PathEq ==
  ASSUME NEW p \in Seq(Names), NEW q \in Seq(Names), p # <<>>, q # <<>>,
         ParentOf(p) = ParentOf(q), ChildOf(p) = ChildOf(q)
  PROVE  p = q
  <1>1. Len(p) = Len(q) /\ Len(p) \in Nat
    BY ParentFacts
  <1>2. ASSUME NEW k \in 1 .. Len(p) PROVE p[k] = q[k]
    <2>1. CASE k = Len(p)
      BY <1>1, <2>1, ParentFacts
    <2>2. CASE k # Len(p)
      <3>1. k \in 1 .. Len(p) - 1 /\ k \in 1 .. Len(q) - 1
        BY <1>1, <2>2
      <3> QED BY <3>1, ParentFacts
    <2> QED BY <2>1, <2>2
  <1> QED BY <1>1, <1>2, SeqEqual

\* The walk along a path is the walk along its parent and one step.
LEMMA ExistsStep ==
  ASSUME NEW s, NEW p \in Seq(Names)
  PROVE  /\ p = <<>> => dir_is_exists(s, p) = 0
         /\ p # <<>> => dir_is_exists(s, p) =
                          WalkStep(s, dir_is_exists(s, ParentOf(p)), ChildOf(p))
  <1>0. PICK f : IsWalk(s, p, f)
    <2>1. Len(p) \in Nat
      OBVIOUS
    <2> QED BY <2>1, WalkUnfold, Zenon
  <1>1. /\ dir_is_exists(s, p) = f[Len(p)]
        /\ f[0] = 0
        /\ \A k \in 1 .. Len(p) : f[k] = WalkStep(s, f[k - 1], p[k])
    BY <1>0 DEF IsWalk
  <1>2. p = <<>> => dir_is_exists(s, p) = 0
    BY <1>1
  <1>3. ASSUME p # <<>>
        PROVE  dir_is_exists(s, p) = WalkStep(s, dir_is_exists(s, ParentOf(p)), ChildOf(p))
    <2>a. PICK q : q = ParentOf(p)
      OBVIOUS
    <2> DEFINE m == Len(p) - 1
    <2>0. q \in Seq(Names) /\ Len(q) = m /\ m \in Nat /\ m + 1 = Len(p) /\ m + 1 \in 1 .. Len(p)
          /\ (m + 1) - 1 = m /\ ChildOf(p) = p[m + 1]
          /\ \A k \in 1 .. m : q[k] = p[k] /\ k \in 1 .. Len(p)
      BY <1>3, <2>a, ParentFacts
    <2>b. PICK g : IsWalk(s, q, g)
      <3>1. Len(q) \in Nat
        BY <2>0
      <3> QED BY <3>1, WalkUnfold, Zenon
    <2>1. /\ dir_is_exists(s, q) = g[m]
          /\ g[0] = 0
          /\ \A k \in 1 .. m : g[k] = WalkStep(s, g[k - 1], q[k])
      <3> HIDE DEF m
      <3> QED BY <2>b, <2>0 DEF IsWalk
    <2> HIDE DEF m
    <2> DEFINE S == {k \in Nat : k <= m => g[k] = f[k]}
    <2>2. 0 \in S
      BY <1>1, <2>1
    <2>3. ASSUME NEW k \in Nat, k \in S PROVE k + 1 \in S
      <3> SUFFICES ASSUME k + 1 <= m PROVE g[k + 1] = f[k + 1]
        OBVIOUS
      <3>1. k + 1 \in 1 .. m /\ k <= m /\ (k + 1) - 1 = k
        BY <2>0
      <3>2. g[k] = f[k]
        BY <2>3, <3>1
      <3>3. g[k + 1] = WalkStep(s, g[k], q[k + 1]) /\ f[k + 1] = WalkStep(s, f[k], p[k + 1])
        BY <1>1, <2>0, <2>1, <3>1
      <3> QED BY <2>0, <3>1, <3>2, <3>3
    <2> HIDE DEF S
    <2>4. m \in S
      BY <2>0, <2>2, <2>3, NatSet
    <2>5. g[m] = f[m]
      BY <2>0, <2>4 DEF S
    <2>6. f[m + 1] = WalkStep(s, f[m], p[m + 1])
      BY <1>1, <2>0
    <2> QED BY <1>1, <2>a, <2>0, <2>1, <2>5, <2>6
  <1> QED BY <1>2, <1>3

\* A directory slot with the name of a path's component is an entry, and a file
\* has none.
LEMMA SlotIsEntry ==
  ASSUME NEW s \in Partition, NEW d \in Inodes, NEW name \in Names, NEW k, NEW j
  PROVE  /\ IsDir(s, d) => (Slot(s, d, k, j, name) <=> Ent(s, d, k, j) /\ At(s, d, k, j).name = name)
         /\ IsPlain(s, d) => ~Slot(s, d, k, j, name)
  <1>1. ASSUME IsPlain(s, d), Slot(s, d, k, j, name) PROVE FALSE
    <2>1. k \in SectorNrs /\ j \in SlotNrs /\ Block(s, d, k) = ZeroBlock
      BY <1>1 DEF IsPlain, Slot
    <2>2. At(s, d, k, j).name = ""
      BY <2>1, ZeroFacts DEF At
    <2> QED BY <1>1, <2>2, NamesAssumption DEF Slot
  <1>2. ASSUME IsDir(s, d) PROVE Slot(s, d, k, j, name) <=> Ent(s, d, k, j) /\ At(s, d, k, j).name = name
    BY <1>2, Zenon DEF IsDir, Slot, Ent
  <1> QED BY <1>1, <1>2, Zenon

\* What the lemmas about paths need of a partition.
Walkable(s) == s \in Partition /\ Tree(s, -1)

\* The type of a path in terms of its parent.
LEMMA TypeStep ==
  ASSUME NEW s, NEW p
  PROVE  /\ p = <<>> => TypeOf(s, p) = "DIR"
         /\ p # <<>> => TypeOf(s, p) =
              IF dir_is_exists(s, ParentOf(p)) = -1 THEN "NONE"
              ELSE TypeIn(s, dir_is_exists(s, ParentOf(p)), ChildOf(p))
  <1>0. PICK c : c = dir_is_exists(s, ParentOf(p))
    OBVIOUS
  <1>1. ASSUME p = <<>> PROVE TypeOf(s, p) = "DIR"
    BY <1>1 DEF TypeOf
  <1>2. ASSUME p # <<>>, c = -1 PROVE TypeOf(s, p) = "NONE"
    BY <1>0, <1>2 DEF TypeOf
  <1>3. ASSUME p # <<>>, c # -1 PROVE TypeOf(s, p) = TypeIn(s, c, ChildOf(p))
    BY <1>0, <1>3 DEF TypeOf, TypeIn, ino2inode
  <1> QED BY <1>0, <1>1, <1>2, <1>3, Zenon

\* An entry of a directory: its place, its name, its inode and its type.
Leads(s, d, name, ino, type) ==
  \E k, j : /\ Ent(s, d, k, j) /\ At(s, d, k, j).name = name
            /\ At(s, d, k, j).ino = ino /\ At(s, d, k, j).type = type

\* What an entry says, in a partition whose entries fit.
LEMMA LeadsFacts ==
  ASSUME NEW s, Walkable(s), NEW d, NEW name, NEW ino, NEW type, Leads(s, d, name, ino, type)
  PROVE  /\ ino \in s.inode_bmap /\ ino \in Inodes /\ ino # 0 /\ ino # -1
         /\ type \in {"DIR", "FILE"} /\ name \in Names
         /\ type = "DIR" => IsDir(s, ino)
         /\ type = "FILE" => IsPlain(s, ino)
         /\ d \in Inodes /\ IsDir(s, d)
         /\ \A d2, name2, ino2, type2 : Leads(s, d2, name2, ino2, type2) =>
              /\ ino2 = ino => d2 = d /\ name2 = name /\ type2 = type
              /\ d2 = d /\ name2 = name => ino2 = ino /\ type2 = type
  <1>1. PICK k, j : /\ Ent(s, d, k, j) /\ At(s, d, k, j).name = name
                    /\ At(s, d, k, j).ino = ino /\ At(s, d, k, j).type = type
    BY DEF Leads
  <1>2. s \in Partition /\ Refs(s, -1) /\ Once(s)
    BY DEF Walkable, Tree
  <1>3. ino \in s.inode_bmap /\ ino # 0 /\ (ino # -1 => Fits(s, At(s, d, k, j)))
    BY <1>1, <1>2, Zenon DEF Refs
  <1>4. ino \in Inodes /\ ino # -1
    BY <1>2, <1>3, PartFacts, Indices
  <1>5. type = "DIR" => IsDir(s, ino)
    BY <1>1, <1>3, <1>4, Zenon DEF Fits
  <1>6. type = "FILE" => IsPlain(s, ino)
    BY <1>1, <1>3, <1>4, Zenon DEF Fits
  <1>7. d \in Inodes /\ k \in SectorNrs /\ j \in SlotNrs /\ IsDir(s, d) /\ Lba(s, d, k) # 0
        /\ Block(s, d, k) # DATA /\ name \in Names
    BY <1>1, Zenon DEF Ent, IsDir
  <1>8. At(s, d, k, j) \in Entries
    BY <1>2, <1>7, SectorFacts
  <1>9. type \in {"DIR", "FILE"}
    BY <1>1, <1>8, EntryFacts
  <1>10. ASSUME NEW d2, NEW name2, NEW ino2, NEW type2, Leads(s, d2, name2, ino2, type2)
         PROVE  /\ ino2 = ino => d2 = d /\ name2 = name /\ type2 = type
                /\ d2 = d /\ name2 = name => ino2 = ino /\ type2 = type
    <2>1. PICK k2, j2 : /\ Ent(s, d2, k2, j2) /\ At(s, d2, k2, j2).name = name2
                        /\ At(s, d2, k2, j2).ino = ino2 /\ At(s, d2, k2, j2).type = type2
      BY <1>10 DEF Leads
    <2>2. ino2 = ino \/ (d2 = d /\ name2 = name) => d2 = d /\ k2 = k /\ j2 = j
      BY <1>1, <1>2, <2>1, Zenon DEF Once
    <2> QED BY <1>1, <2>1, <2>2, Zenon
  <1> QED BY <1>3, <1>4, <1>5, <1>6, <1>7, <1>9, <1>10, Zenon

\* Where a step leads is what an entry says, and nowhere from a file.
LEMMA StepLeads ==
  ASSUME NEW s, Walkable(s), NEW d, IsDir(s, d) \/ IsPlain(s, d), NEW name \in Names
  PROVE  \/ /\ find_dir_entry(s, s.tbl[d], name) = -1 /\ TypeIn(s, d, name) = "NONE"
            /\ \A ino, type : ~Leads(s, d, name, ino, type)
         \/ Leads(s, d, name, find_dir_entry(s, s.tbl[d], name), TypeIn(s, d, name))
  <1>1. s \in Partition /\ d \in Inodes
    BY PartFacts DEF Walkable, IsDir, IsPlain
  <1>2. CASE IsPlain(s, d)
    <2>1. \A k, j : ~Slot(s, d, k, j, name)
      BY <1>1, <1>2, SlotIsEntry, Zenon
    <2>2. find_dir_entry(s, s.tbl[d], name) = -1 /\ TypeIn(s, d, name) = "NONE"
      BY <2>1, Find, Zenon
    <2>3. ASSUME NEW ino, NEW type, Leads(s, d, name, ino, type) PROVE FALSE
      <3>1. PICK k, j : Ent(s, d, k, j) /\ At(s, d, k, j).name = name
        BY <2>3 DEF Leads
      <3>2. IsDir(s, d)
        BY <3>1 DEF Ent
      <3>3. Slot(s, d, k, j, name)
        BY <1>1, <3>1, <3>2, SlotIsEntry, Zenon
      <3> QED BY <2>1, <3>3
    <2> QED BY <2>2, <2>3, Zenon
  <1>3. CASE IsDir(s, d)
    <2>1. \A k, j : Slot(s, d, k, j, name) <=> Ent(s, d, k, j) /\ At(s, d, k, j).name = name
      <3> SUFFICES ASSUME NEW k, NEW j
                   PROVE  Slot(s, d, k, j, name) <=> Ent(s, d, k, j) /\ At(s, d, k, j).name = name
        OBVIOUS
      <3> QED BY <1>1, <1>3, SlotIsEntry
    <2>2. CASE /\ find_dir_entry(s, s.tbl[d], name) = -1 /\ TypeIn(s, d, name) = "NONE"
               /\ \A k, j : ~Slot(s, d, k, j, name)
      BY <2>1, <2>2, Zenon DEF Leads
    <2>3. CASE \E k, j : /\ Slot(s, d, k, j, name)
                         /\ find_dir_entry(s, s.tbl[d], name) = At(s, d, k, j).ino
                         /\ TypeIn(s, d, name) = At(s, d, k, j).type
      <3>1. PICK k, j : /\ Slot(s, d, k, j, name)
                        /\ find_dir_entry(s, s.tbl[d], name) = At(s, d, k, j).ino
                        /\ TypeIn(s, d, name) = At(s, d, k, j).type
        BY <2>3, Zenon
      <3>2. Ent(s, d, k, j) /\ At(s, d, k, j).name = name
        BY <2>1, <3>1, Zenon
      <3> QED BY <3>1, <3>2, Zenon DEF Leads
    <2> QED BY <2>2, <2>3, Find, Zenon
  <1> QED BY <1>2, <1>3

\* A path that leads somewhere leads to a directory or a file.
LEMMA Reach ==
  ASSUME NEW s, Walkable(s)
  PROVE  \A p \in Seq(Names) : LET i == dir_is_exists(s, p)
                               IN  i = -1 \/ IsDir(s, i) \/ IsPlain(s, i)
  <1> DEFINE OK(i) == i = -1 \/ IsDir(s, i) \/ IsPlain(s, i)
             S == {n \in Nat : \A p \in Seq(Names) : Len(p) = n => OK(dir_is_exists(s, p))}
  <1>1. 0 \in S
    <2> SUFFICES ASSUME NEW p \in Seq(Names), Len(p) = 0 PROVE OK(dir_is_exists(s, p))
      OBVIOUS
    <2>1. p = <<>>
      BY EmptySeq
    <2>2. dir_is_exists(s, p) = 0
      BY <2>1, ExistsStep
    <2> QED BY <2>2 DEF Walkable, Tree
  <1>2. ASSUME NEW n \in Nat, n \in S PROVE n + 1 \in S
    <2> SUFFICES ASSUME NEW p \in Seq(Names), Len(p) = n + 1 PROVE OK(dir_is_exists(s, p))
      OBVIOUS
    <2>1. p # <<>>
      BY EmptySeq
    <2>2. ParentOf(p) \in Seq(Names) /\ Len(ParentOf(p)) = n /\ ChildOf(p) \in Names
      BY <2>1, ParentFacts
    <2>3. PICK d : d = dir_is_exists(s, ParentOf(p))
      OBVIOUS
    <2>4. OK(d)
      BY <1>2, <2>2, <2>3
    <2>5. dir_is_exists(s, p) = WalkStep(s, d, ChildOf(p))
      BY <2>1, <2>3, ExistsStep
    <2>6. CASE d = -1
      BY <2>5, <2>6 DEF WalkStep
    <2>7. CASE d # -1
      <3>1. dir_is_exists(s, p) = find_dir_entry(s, s.tbl[d], ChildOf(p))
        BY <2>5, <2>7 DEF WalkStep
      <3>2. CASE dir_is_exists(s, p) = -1
        BY <3>2
      <3>3. CASE Leads(s, d, ChildOf(p), find_dir_entry(s, s.tbl[d], ChildOf(p)), TypeIn(s, d, ChildOf(p)))
        <4>1. PICK type : Leads(s, d, ChildOf(p), dir_is_exists(s, p), type)
          BY <3>1, <3>3, Zenon
        <4> QED BY <4>1, LeadsFacts
      <3> QED BY <2>2, <2>4, <2>7, <3>1, <3>2, <3>3, StepLeads, Zenon
    <2> QED BY <2>6, <2>7
  <1> HIDE DEF S
  <1>3. \A n \in Nat : n \in S
    BY <1>1, <1>2, NatSet
  <1> USE DEF S
  <1>4. ASSUME NEW p \in Seq(Names) PROVE OK(dir_is_exists(s, p))
    <2>1. Len(p) \in Nat
      OBVIOUS
    <2> HIDE DEF OK
    <2> QED BY <1>3, <2>1
  <1> QED BY <1>4, Zenon

\* A path that leads somewhere does so by an entry in the directory its parent
\* leads to; one that does not has no type.
LEMMA PathEntry ==
  ASSUME NEW s, Walkable(s), NEW p \in Seq(Names), p # <<>>
  PROVE  LET d == dir_is_exists(s, ParentOf(p))
             i == dir_is_exists(s, p)
         IN  \/ /\ i = -1 /\ TypeOf(s, p) = "NONE"
                /\ \A ino, type : ~Leads(s, d, ChildOf(p), ino, type)
             \/ /\ d # -1 /\ i # -1
                /\ Leads(s, d, ChildOf(p), i, TypeOf(s, p))
  <1>1. ParentOf(p) \in Seq(Names) /\ ChildOf(p) \in Names
    BY ParentFacts
  <1>2. PICK d : d = dir_is_exists(s, ParentOf(p))
    OBVIOUS
  <1>3. PICK c : c = ChildOf(p)
    OBVIOUS
  <1>4. dir_is_exists(s, p) = WalkStep(s, d, c)
    BY <1>2, <1>3, ExistsStep
  <1>5. TypeOf(s, p) = IF d = -1 THEN "NONE" ELSE TypeIn(s, d, c)
    BY <1>2, <1>3, TypeStep
  <1>6. CASE d = -1
    <2>1. dir_is_exists(s, p) = -1 /\ TypeOf(s, p) = "NONE"
      BY <1>4, <1>5, <1>6 DEF WalkStep
    <2>2. ASSUME NEW ino, NEW type, Leads(s, d, c, ino, type) PROVE FALSE
      <3>1. d \in Inodes
        BY <2>2, LeadsFacts
      <3> QED BY <1>6, <3>1, Indices
    <2> QED BY <1>2, <1>3, <2>1, <2>2, Zenon
  <1>7. CASE d # -1
    <2>1. IsDir(s, d) \/ IsPlain(s, d)
      BY <1>1, <1>2, <1>7, Reach
    <2>2. dir_is_exists(s, p) = find_dir_entry(s, s.tbl[d], c) /\ TypeOf(s, p) = TypeIn(s, d, c)
      BY <1>4, <1>5, <1>7 DEF WalkStep
    <2>3. CASE /\ find_dir_entry(s, s.tbl[d], c) = -1 /\ TypeIn(s, d, c) = "NONE"
               /\ \A ino, type : ~Leads(s, d, c, ino, type)
      BY <1>2, <1>3, <2>2, <2>3, Zenon
    <2>4. CASE Leads(s, d, c, find_dir_entry(s, s.tbl[d], c), TypeIn(s, d, c))
      <3>1. Leads(s, d, c, dir_is_exists(s, p), TypeOf(s, p))
        BY <2>2, <2>4, Zenon
      <3>2. dir_is_exists(s, p) # -1
        BY <3>1, LeadsFacts
      <3> QED BY <1>2, <1>3, <1>7, <3>1, <3>2, Zenon
    <2> QED BY <1>1, <1>3, <2>1, <2>3, <2>4, StepLeads, Zenon
  <1> QED BY <1>6, <1>7

\* The type of a path says what it leads to.
LEMMA TypeCases ==
  ASSUME NEW s, Walkable(s), NEW p \in Seq(Names)
  PROVE  LET i == dir_is_exists(s, p)
         IN  \/ TypeOf(s, p) = "NONE" /\ i = -1
             \/ TypeOf(s, p) = "DIR" /\ IsDir(s, i) /\ i \in Inodes /\ i # -1
             \/ TypeOf(s, p) = "FILE" /\ IsPlain(s, i) /\ i \in Inodes /\ i # -1 /\ i # 0
  <1>1. CASE p = <<>>
    <2>1. dir_is_exists(s, p) = 0 /\ TypeOf(s, p) = "DIR"
      BY <1>1, ExistsStep, TypeStep
    <2>2. IsDir(s, 0)
      BY DEF Walkable, Tree
    <2> QED BY <2>1, <2>2, Indices
  <1>2. CASE p # <<>>
    <2>1. PICK d, i, c, type : /\ d = dir_is_exists(s, ParentOf(p)) /\ i = dir_is_exists(s, p)
                               /\ c = ChildOf(p) /\ type = TypeOf(s, p)
      BY Zenon
    <2>2. \/ i = -1 /\ type = "NONE"
          \/ i # -1 /\ Leads(s, d, c, i, type)
      BY <1>2, <2>1, PathEntry
    <2>3. i # -1 /\ Leads(s, d, c, i, type) =>
            /\ i \in Inodes /\ i # 0 /\ type \in {"DIR", "FILE"}
            /\ type = "DIR" => IsDir(s, i)
            /\ type = "FILE" => IsPlain(s, i)
      BY LeadsFacts
    <2> QED BY <2>1, <2>2, <2>3
  <1> QED BY <1>1, <1>2

\* Two paths never lead to the same inode.
LEMMA Apart ==
  ASSUME NEW s, Walkable(s)
  PROVE  \A p, q \in Seq(Names) :
           dir_is_exists(s, p) # -1 /\ dir_is_exists(s, p) = dir_is_exists(s, q) => p = q
  <1> DEFINE OK(p, q) == dir_is_exists(s, p) # -1 /\ dir_is_exists(s, p) = dir_is_exists(s, q) => p = q
             S == {n \in Nat : \A p, q \in Seq(Names) : Len(p) = n => OK(p, q)}
  <1>0. ASSUME NEW p \in Seq(Names), p # <<>> PROVE dir_is_exists(s, p) # 0
    <2>1. PICK d, i, c, type : /\ d = dir_is_exists(s, ParentOf(p)) /\ i = dir_is_exists(s, p)
                               /\ c = ChildOf(p) /\ type = TypeOf(s, p)
      BY Zenon
    <2>2. i = -1 \/ Leads(s, d, c, i, type)
      BY <1>0, <2>1, PathEntry
    <2>3. i = -1 \/ i # 0
      BY <2>2, LeadsFacts
    <2> QED BY <2>1, <2>3
  <1>1. 0 \in S
    <2> SUFFICES ASSUME NEW p \in Seq(Names), NEW q \in Seq(Names), Len(p) = 0 PROVE OK(p, q)
      OBVIOUS
    <2>1. p = <<>>
      BY EmptySeq
    <2>2. dir_is_exists(s, p) = 0
      BY <2>1, ExistsStep
    <2> QED BY <1>0, <2>1, <2>2
  <1>2. ASSUME NEW n \in Nat, n \in S PROVE n + 1 \in S
    <2> SUFFICES ASSUME NEW p \in Seq(Names), NEW q \in Seq(Names), Len(p) = n + 1,
                        dir_is_exists(s, p) # -1, dir_is_exists(s, p) = dir_is_exists(s, q)
                 PROVE  p = q
      OBVIOUS
    <2>1. p # <<>>
      BY EmptySeq
    <2>2. q # <<>>
      <3>1. dir_is_exists(s, p) # 0
        BY <1>0, <2>1
      <3>2. q = <<>> => dir_is_exists(s, q) = 0
        BY ExistsStep
      <3> QED BY <3>1, <3>2
    <2>3. PICK d, e, i, c, b, type, type2 :
            /\ d = dir_is_exists(s, ParentOf(p)) /\ i = dir_is_exists(s, p)
            /\ e = dir_is_exists(s, ParentOf(q)) /\ i = dir_is_exists(s, q)
            /\ c = ChildOf(p) /\ type = TypeOf(s, p)
            /\ b = ChildOf(q) /\ type2 = TypeOf(s, q)
      BY Zenon
    <2>4. d # -1 /\ Leads(s, d, c, i, type)
      BY <2>1, <2>3, PathEntry
    <2>5. Leads(s, e, b, i, type2)
      BY <2>2, <2>3, PathEntry
    <2>6. d = e /\ c = b
      BY <2>4, <2>5, LeadsFacts
    <2>7. ParentOf(p) \in Seq(Names) /\ ParentOf(q) \in Seq(Names) /\ Len(ParentOf(p)) = n
      BY <2>1, <2>2, ParentFacts
    <2>8. ParentOf(p) = ParentOf(q)
      BY <1>2, <2>3, <2>4, <2>6, <2>7
    <2> QED BY <2>1, <2>2, <2>3, <2>6, <2>8, PathEq
  <1> HIDE DEF S
  <1>3. \A n \in Nat : n \in S
    BY <1>1, <1>2, NatSet
  <1> USE DEF S
  <1>4. ASSUME NEW p \in Seq(Names), NEW q \in Seq(Names) PROVE OK(p, q)
    <2>1. Len(p) \in Nat
      OBVIOUS
    <2> HIDE DEF OK
    <2> QED BY <1>3, <2>1
  <1> QED BY <1>4, Zenon

\* When every entry of s but the ones that lead to x is an entry of t, and
\* nothing lies below x, a path of s that does not lead to x leads to the
\* same inode, as the same, in t.
LEMMA Keep ==
  ASSUME NEW s, NEW t, NEW x, Walkable(s), Walkable(t), x # 0,
         \A d, name, ino, type : Leads(s, d, name, ino, type) /\ ino # x => Leads(t, d, name, ino, type),
         \A name, ino, type : ~Leads(s, x, name, ino, type)
  PROVE  \A p \in Seq(Names) : dir_is_exists(s, p) \notin {-1, x} =>
           dir_is_exists(t, p) = dir_is_exists(s, p) /\ TypeOf(t, p) = TypeOf(s, p)
  <1> DEFINE OK(p) == dir_is_exists(s, p) \notin {-1, x} =>
                        dir_is_exists(t, p) = dir_is_exists(s, p) /\ TypeOf(t, p) = TypeOf(s, p)
             S == {n \in Nat : \A p \in Seq(Names) : Len(p) = n => OK(p)}
  <1>1. 0 \in S
    <2> SUFFICES ASSUME NEW p \in Seq(Names), Len(p) = 0 PROVE OK(p)
      OBVIOUS
    <2>1. p = <<>>
      BY EmptySeq
    <2>2. dir_is_exists(s, p) = 0 /\ dir_is_exists(t, p) = 0
      BY <2>1, ExistsStep
    <2>3. TypeOf(s, p) = "DIR" /\ TypeOf(t, p) = "DIR"
      BY <2>1, TypeStep
    <2> QED BY <2>2, <2>3
  <1>2. ASSUME NEW n \in Nat, n \in S PROVE n + 1 \in S
    <2> SUFFICES ASSUME NEW p \in Seq(Names), Len(p) = n + 1, dir_is_exists(s, p) \notin {-1, x}
                 PROVE  dir_is_exists(t, p) = dir_is_exists(s, p) /\ TypeOf(t, p) = TypeOf(s, p)
      OBVIOUS
    <2>1. p # <<>>
      BY EmptySeq
    <2>2. PICK d, i, c, type :
            /\ d = dir_is_exists(s, ParentOf(p)) /\ i = dir_is_exists(s, p)
            /\ c = ChildOf(p) /\ type = TypeOf(s, p)
      BY Zenon
    <2>3. d # -1 /\ Leads(s, d, c, i, type)
      BY <2>1, <2>2, PathEntry
    <2>4. d # x
      BY <2>3
    <2>5. ParentOf(p) \in Seq(Names) /\ Len(ParentOf(p)) = n
      BY <2>1, ParentFacts
    <2>6. dir_is_exists(t, ParentOf(p)) = d
      BY <1>2, <2>2, <2>3, <2>4, <2>5
    <2>7. Leads(t, d, c, i, type)
      BY <2>2, <2>3
    <2>8. PICK i2, type2 : i2 = dir_is_exists(t, p) /\ type2 = TypeOf(t, p)
      BY Zenon
    <2>9. Leads(t, d, c, i2, type2)
      BY <2>1, <2>2, <2>6, <2>7, <2>8, PathEntry
    <2>10. i2 = i /\ type2 = type
      BY <2>7, <2>9, LeadsFacts
    <2> QED BY <2>2, <2>8, <2>10
  <1> HIDE DEF S
  <1>3. \A n \in Nat : n \in S
    BY <1>1, <1>2, NatSet
  <1> USE DEF S
  <1>4. ASSUME NEW p \in Seq(Names) PROVE OK(p)
    <2>1. Len(p) \in Nat
      OBVIOUS
    <2> HIDE DEF OK
    <2> QED BY <1>3, <2>1
  <1> QED BY <1>4, Zenon

-----------------------------------------------------------------------------
(* A step that changes one inode. *)

\* The inodes other than x are allocated as before, with the same sectors and
\* the same in them.
Frame(s, t, x) ==
  /\ \A i : i # x => (i \in t.inode_bmap <=> i \in s.inode_bmap)
  /\ \A i \in s.inode_bmap : i # x =>
       /\ t.tbl[i].sectors = s.tbl[i].sectors
       /\ \A k \in SectorNrs : Lba(s, i, k) # 0 => Block(t, i, k) = Block(s, i, k)

\* The block belongs to no inode other than x.
NotOthers(s, x, b) ==
  \A i \in s.inode_bmap, k \in SectorNrs :
    i # x /\ Lba(s, i, k) # 0 => BlockNo(Lba(s, i, k)) # b

\* A block of x, and a free block, belong to no other inode.
LEMMA NotOthersFacts ==
  ASSUME NEW s \in Partition, Owned(s), NEW x
  PROVE  /\ \A b : b \notin s.block_bmap => NotOthers(s, x, b)
         /\ x \in s.inode_bmap => \A k \in SectorNrs : Lba(s, x, k) # 0 =>
              NotOthers(s, x, BlockNo(Lba(s, x, k)))
  <1>1. ASSUME NEW b, b \notin s.block_bmap PROVE NotOthers(s, x, b)
    BY <1>1 DEF Owned, NotOthers
  <1>2. ASSUME x \in s.inode_bmap, NEW k \in SectorNrs, Lba(s, x, k) # 0,
               NEW i \in s.inode_bmap, NEW l \in SectorNrs, i # x, Lba(s, i, l) # 0,
               BlockNo(Lba(s, i, l)) = BlockNo(Lba(s, x, k))
        PROVE  FALSE
    <2>1. Lba(s, i, l) \in Lbas /\ Lba(s, x, k) \in Lbas
      BY <1>2, PartFacts, SectorFacts
    <2>2. Lba(s, i, l) = Lba(s, x, k)
      BY <1>2, <2>1, LbaFacts
    <2> QED BY <1>2, <2>2 DEF Owned
  <1> QED BY <1>1, <1>2, Zenon DEF NotOthers

\* A step that leaves the sectors of the other inodes alone, and every block
\* that belongs to one of them.
LEMMA FrameFrom ==
  ASSUME NEW s, NEW t, NEW x, s \in Partition,
         \A i : i # x => (i \in t.inode_bmap <=> i \in s.inode_bmap),
         \A i \in s.inode_bmap : i # x => t.tbl[i].sectors = s.tbl[i].sectors,
         \A b \in Blocks : t.blk[b] = s.blk[b] \/ NotOthers(s, x, b)
  PROVE  Frame(s, t, x)
  <1> SUFFICES ASSUME NEW i \in s.inode_bmap, i # x, NEW k \in SectorNrs, Lba(s, i, k) # 0
               PROVE  Block(t, i, k) = Block(s, i, k)
    BY DEF Frame
  <1>1. i \in Inodes
    BY PartFacts
  <1>2. BlockNo(Lba(s, i, k)) \in Blocks
    BY <1>1, SectorFacts
  <1>3. ~NotOthers(s, x, BlockNo(Lba(s, i, k)))
    BY DEF NotOthers
  <1> QED BY <1>2, <1>3 DEF Block, Lba

\* What the other inodes are, they stay.
LEMMA FrameFacts ==
  ASSUME NEW s, NEW t, NEW x, Frame(s, t, x), NEW i, i # x
  PROVE  /\ IsDir(t, i) <=> IsDir(s, i)
         /\ IsPlain(t, i) <=> IsPlain(s, i)
         /\ \A k, j : /\ Ent(t, i, k, j) <=> Ent(s, i, k, j)
                      /\ Ent(s, i, k, j) => At(t, i, k, j) = At(s, i, k, j)
  <1>0. i \in t.inode_bmap <=> i \in s.inode_bmap
    BY DEF Frame
  <1>1. CASE i \notin s.inode_bmap
    BY <1>0, <1>1, Zenon DEF IsDir, IsPlain, Ent
  <1>2. CASE i \in s.inode_bmap
    <2>1. \A k \in SectorNrs : Lba(t, i, k) = Lba(s, i, k)
      BY <1>2, Zenon DEF Frame, Lba
    <2>2. \A k \in SectorNrs : Lba(s, i, k) # 0 => Block(t, i, k) = Block(s, i, k)
      BY <1>2, Zenon DEF Frame
    <2>3. \A k \in SectorNrs : Lba(s, i, k) # 0 => \A j : At(t, i, k, j) = At(s, i, k, j)
      BY <2>2, Zenon DEF At
    <2>4. 0 \in SectorNrs
      BY Indices
    <2>5. IsDir(t, i) <=> IsDir(s, i)
      BY <1>0, <2>1, <2>2, <2>3, <2>4, Zenon DEF IsDir
    <2>6. IsPlain(t, i) <=> IsPlain(s, i)
      BY <1>0, <2>1, <2>2, Zenon DEF IsPlain
    <2>7. ASSUME NEW k, NEW j PROVE Ent(t, i, k, j) <=> Ent(s, i, k, j)
      BY <2>1, <2>3, <2>5, Zenon DEF Ent
    <2>8. ASSUME NEW k, NEW j, Ent(s, i, k, j) PROVE At(t, i, k, j) = At(s, i, k, j)
      BY <2>3, <2>8, Zenon DEF Ent
    <2> QED BY <2>5, <2>6, <2>7, <2>8, Zenon
  <1> QED BY <1>1, <1>2

\* The space invariant after such a step: x owns blocks that no one else owns.
LEMMA SpaceFrame ==
  ASSUME NEW s \in Partition, NEW t \in Partition, NEW x, Space(s), Frame(s, t, x),
         x \in t.inode_bmap => \A k, l \in SectorNrs : Lba(t, x, k) # 0 =>
           /\ BlockNo(Lba(t, x, k)) \in t.block_bmap
           /\ NotOthers(s, x, BlockNo(Lba(t, x, k)))
           /\ Lba(t, x, l) = Lba(t, x, k) => k = l,
         \A b \in s.block_bmap : b \notin t.block_bmap => NotOthers(s, x, b),
         \A b \in Blocks : b \notin t.block_bmap => t.blk[b] \in {DATA, ZeroBlock}
  PROVE  Space(t)
  <1>0. Owned(s)
    BY DEF Space
  <1>1. ASSUME NEW i \in t.inode_bmap, i # x, NEW k \in SectorNrs
        PROVE  i \in s.inode_bmap /\ Lba(t, i, k) = Lba(s, i, k)
    BY <1>1, Zenon DEF Frame, Lba
  <1>2. ASSUME NEW i \in t.inode_bmap, NEW k \in SectorNrs, Lba(t, i, k) # 0
        PROVE  BlockNo(Lba(t, i, k)) \in t.block_bmap
    <2>1. CASE i = x
      BY <1>2, <2>1
    <2>2. CASE i # x
      <3>1. i \in s.inode_bmap /\ Lba(t, i, k) = Lba(s, i, k)
        BY <1>1, <2>2
      <3>2. BlockNo(Lba(s, i, k)) \in s.block_bmap
        BY <1>0, <1>2, <3>1 DEF Owned
      <3>3. ~NotOthers(s, x, BlockNo(Lba(s, i, k)))
        BY <1>2, <2>2, <3>1 DEF NotOthers
      <3> QED BY <3>1, <3>2, <3>3
    <2> QED BY <2>1, <2>2
  <1>3. ASSUME NEW i \in t.inode_bmap, NEW j \in t.inode_bmap, NEW k \in SectorNrs, NEW l \in SectorNrs,
               Lba(t, i, k) # 0, Lba(t, j, l) = Lba(t, i, k)
        PROVE  i = j /\ k = l
    <2>1. CASE i = x /\ j = x
      BY <1>3, <2>1
    <2>2. CASE i = x /\ j # x
      <3>1. j \in s.inode_bmap /\ Lba(t, j, l) = Lba(s, j, l)
        BY <1>1, <2>2
      <3>2. NotOthers(s, x, BlockNo(Lba(t, i, k)))
        BY <1>3, <2>2
      <3> QED BY <1>3, <2>2, <3>1, <3>2 DEF NotOthers
    <2>3. CASE i # x /\ j = x
      <3>1. i \in s.inode_bmap /\ Lba(t, i, k) = Lba(s, i, k)
        BY <1>1, <2>3
      <3>2. NotOthers(s, x, BlockNo(Lba(t, j, l)))
        BY <1>3, <2>3
      <3> QED BY <1>3, <2>3, <3>1, <3>2 DEF NotOthers
    <2>4. CASE i # x /\ j # x
      <3>1. i \in s.inode_bmap /\ Lba(t, i, k) = Lba(s, i, k)
        BY <1>1, <2>4
      <3>2. j \in s.inode_bmap /\ Lba(t, j, l) = Lba(s, j, l)
        BY <1>1, <2>4
      <3>3. Lba(s, i, k) # 0 /\ Lba(s, j, l) = Lba(s, i, k)
        BY <1>3, <3>1, <3>2
      <3> QED BY <1>0, <3>1, <3>2, <3>3 DEF Owned
    <2> QED BY <2>1, <2>2, <2>3, <2>4
  <1>4. Owned(t)
    <2> SUFFICES ASSUME NEW i \in t.inode_bmap, NEW j \in t.inode_bmap,
                        NEW k \in SectorNrs, NEW l \in SectorNrs, Lba(t, i, k) # 0
                 PROVE  /\ BlockNo(Lba(t, i, k)) \in t.block_bmap
                        /\ Lba(t, j, l) = Lba(t, i, k) => i = j /\ k = l
      BY Zenon DEF Owned
    <2> QED BY <1>2, <1>3
  <1> QED BY <1>4, Zenon DEF Space, FreeClean

\* A directory is not a file.
LEMMA DirOrPlain ==
  ASSUME NEW s, NEW i, IsDir(s, i), IsPlain(s, i)
  PROVE  FALSE
  <1>1. Block(s, i, 0) = ZeroBlock
    BY Indices DEF IsDir, IsPlain
  <1>2. At(s, i, 0, 0).name = ""
    BY <1>1, ZeroFacts, Indices DEF At
  <1> QED BY <1>2 DEF IsDir

\* t has no entries that s does not have.
Sub(s, t) ==
  \A i, k, j : Ent(t, i, k, j) => Ent(s, i, k, j) /\ At(t, i, k, j) = At(s, i, k, j)

\* The tree after a step that adds no entry.
LEMMA TreeSub ==
  ASSUME NEW s, NEW t, NEW x, NEW y \in {-1, x}, Tree(s, y), Frame(s, t, x), Sub(s, t), IsDir(t, 0),
         \A i, k, j : Ent(t, i, k, j) /\ At(t, i, k, j).ino = x =>
           x \in t.inode_bmap /\ Fits(t, At(t, i, k, j))
  PROVE  Tree(t, -1)
  <1>1. Once(t)
    <2> SUFFICES ASSUME NEW i1, NEW i2, NEW k1, NEW k2, NEW j1, NEW j2,
                        Ent(t, i1, k1, j1), Ent(t, i2, k2, j2),
                        \/ At(t, i1, k1, j1).ino = At(t, i2, k2, j2).ino
                        \/ i1 = i2 /\ At(t, i1, k1, j1).name = At(t, i2, k2, j2).name
                 PROVE  i1 = i2 /\ k1 = k2 /\ j1 = j2
      BY DEF Once
    <2>1. Ent(s, i1, k1, j1) /\ At(t, i1, k1, j1) = At(s, i1, k1, j1)
      BY Zenon DEF Sub
    <2>2. Ent(s, i2, k2, j2) /\ At(t, i2, k2, j2) = At(s, i2, k2, j2)
      BY Zenon DEF Sub
    <2>3. \/ At(s, i1, k1, j1).ino = At(s, i2, k2, j2).ino
          \/ i1 = i2 /\ At(s, i1, k1, j1).name = At(s, i2, k2, j2).name
      BY <2>1, <2>2
    <2>4. Once(s)
      BY DEF Tree
    <2> QED BY <2>1, <2>2, <2>3, <2>4, Zenon DEF Once
  <1>2. ASSUME NEW i, NEW k, NEW j, Ent(t, i, k, j)
        PROVE  /\ At(t, i, k, j).ino \in t.inode_bmap /\ At(t, i, k, j).ino # 0
               /\ At(t, i, k, j).ino # -1 => Fits(t, At(t, i, k, j))
    <2>1. Ent(s, i, k, j) /\ At(t, i, k, j) = At(s, i, k, j)
      BY <1>2, Zenon DEF Sub
    <2>2. PICK e : e = At(t, i, k, j)
      OBVIOUS
    <2>3. e.ino \in s.inode_bmap /\ e.ino # 0 /\ (e.ino # y => Fits(s, e))
      BY <2>1, <2>2, Zenon DEF Tree, Refs
    <2>4. CASE e.ino = x
      BY <1>2, <2>2, <2>3, <2>4, Zenon
    <2>5. CASE e.ino # x
      <3>1. e.ino \in t.inode_bmap
        BY <2>3, <2>5, Zenon DEF Frame
      <3>2. IsDir(t, e.ino) <=> IsDir(s, e.ino)
        BY <2>5, FrameFacts
      <3>3. IsPlain(t, e.ino) <=> IsPlain(s, e.ino)
        BY <2>5, FrameFacts
      <3>4. e.ino # -1 => Fits(s, e)
        BY <2>3, <2>5
      <3>5. e.ino # -1 => Fits(t, e)
        BY <3>2, <3>3, <3>4, Zenon DEF Fits
      <3> QED BY <2>2, <2>3, <3>1, <3>5, Zenon
    <2> QED BY <2>4, <2>5
  <1>3. Refs(t, -1)
    BY <1>2, Zenon DEF Refs
  <1> QED BY <1>1, <1>3 DEF Tree

\* A step on an inode that is not a directory afterwards adds no entry.
LEMMA SubFrame ==
  ASSUME NEW s, NEW t, NEW x, Frame(s, t, x), ~IsDir(t, x)
  PROVE  Sub(s, t)
  <1> SUFFICES ASSUME NEW i, NEW k, NEW j, Ent(t, i, k, j)
               PROVE  Ent(s, i, k, j) /\ At(t, i, k, j) = At(s, i, k, j)
    BY DEF Sub
  <1>1. i # x
    BY DEF Ent
  <1> QED BY <1>1, FrameFacts

\* Such a step keeps the tree: on an inode no entry names, or on a file that
\* stays one.  It takes no entry away from the other inodes.
LEMMA TreeFile ==
  ASSUME NEW s, NEW t, NEW x, Tree(s, -1), Frame(s, t, x), x # 0, ~IsDir(t, x),
         Unnamed(s, x) \/ (x # -1 /\ IsPlain(s, x) /\ IsPlain(t, x))
  PROVE  /\ Tree(t, -1)
         /\ \A d, name, ino, type : Leads(t, d, name, ino, type) => Leads(s, d, name, ino, type)
         /\ \A d, name, ino, type : Leads(s, d, name, ino, type) /\ d # x => Leads(t, d, name, ino, type)
  <1>1. Sub(s, t)
    BY SubFrame
  <1>2. IsDir(t, 0)
    BY FrameFacts DEF Tree
  <1>3. ASSUME NEW i, NEW k, NEW j, Ent(t, i, k, j), At(t, i, k, j).ino = x
        PROVE  x \in t.inode_bmap /\ Fits(t, At(t, i, k, j))
    <2>1. Ent(s, i, k, j) /\ At(t, i, k, j) = At(s, i, k, j)
      BY <1>1, <1>3, Zenon DEF Sub
    <2>2. x # -1 /\ IsPlain(s, x) /\ IsPlain(t, x)
      BY <1>3, <2>1, Zenon DEF Unnamed
    <2>3. Fits(s, At(s, i, k, j))
      BY <1>3, <2>1, <2>2, Zenon DEF Tree, Refs
    <2>4. At(t, i, k, j).type # "DIR"
      BY <1>3, <2>1, <2>2, <2>3, DirOrPlain, Zenon DEF Fits
    <2> QED BY <1>3, <2>1, <2>2, <2>4, Zenon DEF Fits, IsPlain
  <1>4. Tree(t, -1)
    <2>1. -1 \in {-1, x}
      OBVIOUS
    <2> QED BY <1>1, <1>2, <1>3, <2>1, TreeSub, Zenon
  <1>5. ASSUME NEW d, NEW name, NEW ino, NEW type, Leads(t, d, name, ino, type)
        PROVE  Leads(s, d, name, ino, type)
    BY <1>1, <1>5, ZenonT(60) DEF Leads, Sub
  <1>6. ASSUME NEW d, NEW name, NEW ino, NEW type, Leads(s, d, name, ino, type), d # x
        PROVE  Leads(t, d, name, ino, type)
    <2>1. \A k, j : /\ Ent(t, d, k, j) <=> Ent(s, d, k, j)
                    /\ Ent(s, d, k, j) => At(t, d, k, j) = At(s, d, k, j)
      BY <1>6, FrameFacts
    <2> QED BY <1>6, <2>1, Zenon DEF Leads
  <1> QED BY <1>4, <1>5, <1>6, Zenon

-----------------------------------------------------------------------------
(* Bitmaps and inodes. *)

\* A scan returns a clear bit, or -1.
LEMMA Scan ==
  ASSUME NEW bits, NEW n \in Nat
  PROVE  \/ bitmap_scan(bits, n) = -1
         \/ bitmap_scan(bits, n) \in 0 .. n - 1 /\ bitmap_scan(bits, n) \notin bits
  <1> DEFINE clear == (0 .. n - 1) \ bits
  <1>1. CASE clear = {}
    BY <1>1, Zenon DEF bitmap_scan
  <1>2. CASE clear # {}
    <2>1. clear \subseteq Nat
      OBVIOUS
    <2>2. Min(clear) \in clear
      <3> HIDE DEF clear
      <3> QED BY <1>2, <2>1, MinIsLeast
    <2>3. bitmap_scan(bits, n) = Min(clear)
      BY <1>2, Zenon DEF bitmap_scan
    <2>4. bitmap_scan(bits, n) \in clear
      <3> HIDE DEF clear
      <3> QED BY <2>2, <2>3
    <2> QED BY <2>4
  <1> QED BY <1>1, <1>2

\* The greater of 0 and a natural number.
LEMMA MaxZero ==
  ASSUME NEW v \in Nat
  PROVE  Max({0, v}) = v
  <1>1. v \in {0, v} /\ \A y \in {0, v} : v >= y
    OBVIOUS
  <1>2. Max({0, v}) \in {0, v} /\ \A y \in {0, v} : Max({0, v}) >= y
    BY <1>1, Zenon DEF Max
  <1> QED BY <1>2

\* A block, and an inode, that was allocated was free, and is the one NextBlock
\* and NextInode say.
LEMMA Allocated ==
  ASSUME NEW s \in Partition
  PROVE  /\ ~allocate_block(s).wild =>
              /\ NextBlock(s) \in Blocks /\ NextBlock(s) \notin s.block_bmap
              /\ allocate_block(s) = [s EXCEPT !.block_bmap = @ \cup {NextBlock(s)}]
         /\ ~allocate_inode_no(s).wild =>
              /\ NextInode(s) \in Inodes /\ NextInode(s) \notin s.inode_bmap
              /\ allocate_inode_no(s) = [s EXCEPT !.inode_bmap = @ \cup {NextInode(s)}]
         /\ allocate_block(s).wild => allocate_block(s) = Wild(s) \/ s.wild
  <1>0. Wild(s).wild = TRUE
    BY DEF Wild, Partition
  <1>1. ASSUME ~allocate_block(s).wild
        PROVE  /\ NextBlock(s) \in Blocks /\ NextBlock(s) \notin s.block_bmap
               /\ allocate_block(s) = [s EXCEPT !.block_bmap = @ \cup {NextBlock(s)}]
    <2>1. PICK v : v = bitmap_scan(s.block_bmap, NB)
      OBVIOUS
    <2>2. v # -1
      BY <1>0, <1>1, <2>1 DEF allocate_block
    <2>3. v \in 0 .. NB - 1 /\ v \notin s.block_bmap
      BY <2>1, <2>2, Scan, SizesAssumption
    <2>4. NextBlock(s) = v
      BY <2>1, <2>3, MaxZero, SizesAssumption DEF NextBlock
    <2>5. allocate_block(s) = [s EXCEPT !.block_bmap = @ \cup {v}]
      BY <2>1, <2>2, Zenon DEF allocate_block
    <2> QED BY <2>3, <2>4, <2>5 DEF Blocks
  <1>2. ASSUME ~allocate_inode_no(s).wild
        PROVE  /\ NextInode(s) \in Inodes /\ NextInode(s) \notin s.inode_bmap
               /\ allocate_inode_no(s) = [s EXCEPT !.inode_bmap = @ \cup {NextInode(s)}]
    <2>1. PICK v : v = bitmap_scan(s.inode_bmap, NI)
      OBVIOUS
    <2>2. v # -1
      BY <1>0, <1>2, <2>1 DEF allocate_inode_no
    <2>3. v \in 0 .. NI - 1 /\ v \notin s.inode_bmap
      BY <2>1, <2>2, Scan, SizesAssumption
    <2>4. NextInode(s) = v
      BY <2>1, <2>3, MaxZero, SizesAssumption DEF NextInode
    <2>5. allocate_inode_no(s) = [s EXCEPT !.inode_bmap = @ \cup {v}]
      BY <2>1, <2>2, Zenon DEF allocate_inode_no
    <2> QED BY <2>3, <2>4, <2>5 DEF Inodes
  <1>3. ASSUME allocate_block(s).wild PROVE allocate_block(s) = Wild(s) \/ s.wild
    BY <1>3 DEF allocate_block, Partition
  <1> QED BY <1>1, <1>2, <1>3

\* An inode without sectors is a file.
LEMMA NoSectorsPlain ==
  ASSUME NEW s, NEW x \in s.inode_bmap, s.tbl[x].sectors = NoSectors
  PROVE  /\ \A k \in SectorNrs : Lba(s, x, k) = 0
         /\ IsPlain(s, x) /\ ~IsDir(s, x)
  <1>1. \A k \in SectorNrs : Lba(s, x, k) = 0
    BY DEF Lba, NoSectors
  <1> QED BY <1>1, Indices, Zenon DEF IsPlain, IsDir

\* What an inode made by create_inode is.
NewInode == [size |-> 0, uid |-> uid, mode |-> DEFAULT_PRIVILEGE, sectors |-> NoSectors]

\* create_inode and the sync after it, field by field.
LEMMA CreateFields ==
  ASSUME NEW s \in Partition, uid \in Users, ~sync_inode_bitmap(create_inode(s)).wild
  PROVE  LET t == sync_inode_bitmap(create_inode(s))
             x == NextInode(s)
         IN  /\ t \in Partition /\ x \in Inodes /\ x \notin s.inode_bmap
             /\ t.inode_bmap = s.inode_bmap \cup {x} /\ t.inode_bitmap = t.inode_bmap
             /\ t.tbl = [s.tbl EXCEPT ![x] = NewInode]
             /\ t.blk = s.blk /\ t.block_bmap = s.block_bmap /\ t.block_bitmap = s.block_bitmap
             /\ t.wild = s.wild /\ t.magic = s.magic
  <1>1. PICK x, a, c : x = NextInode(s) /\ a = allocate_inode_no(s) /\ c = create_inode(s)
    BY Zenon
  <1>2. a \in [magic : {NO_MAGIC, MAGIC}, tbl : [Inodes -> Inode],
               blk : [Blocks -> [SlotNrs -> Entries] \cup {DATA}],
               block_bitmap : SUBSET Blocks, inode_bitmap : SUBSET Inodes,
               block_bmap : SUBSET Blocks, inode_bmap : SUBSET (Inodes \cup {bitmap_scan(s.inode_bmap, NI)}),
               wild : BOOLEAN]
    BY <1>1 DEF allocate_inode_no, Wild, Partition
  <1>3. c = [a EXCEPT !.tbl[x] = NewInode]
    BY <1>1, Zenon DEF create_inode, sync_inode, NewInode
  <1>4. c.wild = a.wild
    BY <1>2, <1>3
  <1>5. sync_inode_bitmap(c).wild = c.wild
    BY <1>2, <1>3 DEF sync_inode_bitmap
  <1>6. ~a.wild
    BY <1>1, <1>4, <1>5
  <1>7. x \in Inodes /\ x \notin s.inode_bmap /\ a = [s EXCEPT !.inode_bmap = @ \cup {x}]
    BY <1>1, <1>6, Allocated
  <1>8. NewInode \in Inode
    <2>1. 0 \in Nat
      OBVIOUS
    <2>2. NoSectors \in [SectorNrs -> Lbas]
      BY LbaFacts DEF NoSectors
    <2>3. DEFAULT_PRIVILEGE \in SUBSET Bits
      BY DEF DEFAULT_PRIVILEGE
    <2> QED BY <2>1, <2>2, <2>3 DEF NewInode, Inode
  <1> HIDE DEF NewInode
  <1>9. s.tbl \in [Inodes -> Inode] /\ s.inode_bmap \subseteq Inodes
    BY PartFacts
  <1>10. [s.tbl EXCEPT ![x] = NewInode] \in [Inodes -> Inode]
    BY <1>7, <1>8, <1>9
  <1>11. PICK t : t = sync_inode_bitmap(c)
    OBVIOUS
  <1>12. /\ t.inode_bmap = s.inode_bmap \cup {x} /\ t.inode_bitmap = t.inode_bmap
         /\ t.tbl = [s.tbl EXCEPT ![x] = NewInode]
         /\ t.blk = s.blk /\ t.block_bmap = s.block_bmap /\ t.block_bitmap = s.block_bitmap
         /\ t.wild = s.wild /\ t.magic = s.magic /\ t \in Partition
    BY <1>3, <1>7, <1>9, <1>10, <1>11 DEF sync_inode_bitmap, Partition
  <1> QED BY <1>1, <1>7, <1>11, <1>12, Zenon

\* Made(s, t, x): t is s with a new file x that no directory has yet.
Made(s, t, x) ==
  /\ Good(t) /\ x \in Inodes /\ x # 0 /\ x \notin s.inode_bmap /\ x \in t.inode_bmap
  /\ t.tbl[x].sectors = NoSectors /\ t.tbl[x].size = 0
  /\ Unnamed(t, x) /\ Frame(s, t, x) /\ t.wild = s.wild
  /\ \A i \in Inodes : i # x => t.tbl[i] = s.tbl[i]
  /\ \A d, name, ino, type : Leads(s, d, name, ino, type) <=> Leads(t, d, name, ino, type)

\* An inode that is not allocated is not named.
LEMMA FreeUnnamed ==
  ASSUME NEW s, NEW y, Tree(s, y), NEW x, x \notin s.inode_bmap
  PROVE  Unnamed(s, x)
  BY DEF Unnamed, Tree, Refs

\* create_inode makes a file that no directory has.
LEMMA Create ==
  ASSUME NEW s, Good(s), uid \in Users, ~sync_inode_bitmap(create_inode(s)).wild
  PROVE  Made(s, sync_inode_bitmap(create_inode(s)), NextInode(s))
  <1>0. s \in Partition /\ Space(s) /\ Tree(s, -1) /\ Synced(s) /\ 0 \in s.inode_bmap
    BY DEF Good, Tree, IsDir
  <1>1. PICK t, x : t = sync_inode_bitmap(create_inode(s)) /\ x = NextInode(s)
    BY Zenon
  <1>2. /\ t \in Partition /\ x \in Inodes /\ x \notin s.inode_bmap
        /\ t.inode_bmap = s.inode_bmap \cup {x} /\ t.inode_bitmap = t.inode_bmap
        /\ t.tbl = [s.tbl EXCEPT ![x] = NewInode]
        /\ t.blk = s.blk /\ t.block_bmap = s.block_bmap /\ t.block_bitmap = s.block_bitmap
        /\ t.wild = s.wild
    BY <1>0, <1>1, CreateFields
  <1>3. x # 0 /\ x \in t.inode_bmap
    BY <1>0, <1>2
  <1>4. s.tbl \in [Inodes -> Inode] /\ s.inode_bmap \subseteq Inodes
    BY <1>0, PartFacts
  <1>5. t.tbl[x] = NewInode /\ \A i \in Inodes : i # x => t.tbl[i] = s.tbl[i]
    BY <1>2, <1>4
  <1>6. t.tbl[x].sectors = NoSectors /\ t.tbl[x].size = 0
    BY <1>5 DEF NewInode
  <1>7. Frame(s, t, x)
    <2>1. \A i : i # x => (i \in t.inode_bmap <=> i \in s.inode_bmap)
      BY <1>2
    <2>2. \A i \in s.inode_bmap : i # x => t.tbl[i].sectors = s.tbl[i].sectors
      BY <1>4, <1>5
    <2>3. \A b \in Blocks : t.blk[b] = s.blk[b] \/ NotOthers(s, x, b)
      BY <1>2
    <2> QED BY <1>0, <2>1, <2>2, <2>3, FrameFrom
  <1>8. \A k \in SectorNrs : Lba(t, x, k) = 0
    BY <1>3, <1>6, NoSectorsPlain
  <1>9. IsPlain(t, x) /\ ~IsDir(t, x)
    BY <1>3, <1>6, NoSectorsPlain
  <1>10. Space(t)
    <2>1. x \in t.inode_bmap => \A k, l \in SectorNrs : Lba(t, x, k) # 0 =>
            /\ BlockNo(Lba(t, x, k)) \in t.block_bmap
            /\ NotOthers(s, x, BlockNo(Lba(t, x, k)))
            /\ Lba(t, x, l) = Lba(t, x, k) => k = l
      BY <1>8
    <2>2. \A b \in s.block_bmap : b \notin t.block_bmap => NotOthers(s, x, b)
      BY <1>2
    <2>3. \A b \in Blocks : b \notin t.block_bmap => t.blk[b] \in {DATA, ZeroBlock}
      BY <1>0, <1>2 DEF Space, FreeClean
    <2> QED BY <1>0, <1>2, <1>7, <2>1, <2>2, <2>3, SpaceFrame
  <1>11. Unnamed(s, x)
    BY <1>0, <1>2, FreeUnnamed
  <1>12. Tree(t, -1)
    BY <1>0, <1>3, <1>7, <1>9, <1>11, TreeFile
  <1>13. Sub(s, t)
    BY <1>7, <1>9, SubFrame
  <1>14. Unnamed(t, x)
    BY <1>11, <1>13 DEF Unnamed, Sub
  <1>15. ASSUME NEW d, NEW name, NEW ino, NEW type
         PROVE  Leads(s, d, name, ino, type) <=> Leads(t, d, name, ino, type)
    <2>1. Leads(t, d, name, ino, type) => Leads(s, d, name, ino, type)
      BY <1>0, <1>3, <1>7, <1>9, <1>11, TreeFile
    <2>2. Leads(s, d, name, ino, type) /\ d # x => Leads(t, d, name, ino, type)
      BY <1>0, <1>3, <1>7, <1>9, <1>11, TreeFile
    <2>3. Leads(s, d, name, ino, type) => d # x
      BY <1>2 DEF Leads, Ent, IsDir
    <2> QED BY <2>1, <2>2, <2>3
  <1>16. Good(t)
    BY <1>0, <1>2, <1>10, <1>12 DEF Good, Synced
  <1> QED BY <1>1, <1>2, <1>3, <1>5, <1>6, <1>7, <1>14, <1>15, <1>16, Zenon DEF Made

-----------------------------------------------------------------------------
(* create_dir_entry. *)

\* Directory d has one entry more: e, in slot j0 of sector k0.
Added(s, t, d, k0, j0, e) ==
  /\ Frame(s, t, d) /\ IsDir(s, d) /\ IsDir(t, d)
  /\ \A k, j : Ent(t, d, k, j) <=> Ent(s, d, k, j) \/ (k = k0 /\ j = j0)
  /\ \A k, j : Ent(s, d, k, j) =>
       /\ At(t, d, k, j) = At(s, d, k, j)
       /\ At(s, d, k, j).name # e.name
       /\ ~(k = k0 /\ j = j0)
  /\ At(t, d, k0, j0) = e

\* A tree with one entry more, for an inode that is allocated and had none.
LEMMA TreeAdd ==
  ASSUME NEW s, s \in Partition, NEW t, NEW d, NEW k0, NEW j0, NEW e, Tree(s, -1), Added(s, t, d, k0, j0, e),
         e.ino \in s.inode_bmap, e.ino # 0, e.ino # d, Unnamed(s, e.ino)
  PROVE  /\ Tree(t, e.ino)
         /\ \A d2, name, ino, type : Leads(t, d2, name, ino, type) <=>
              \/ Leads(s, d2, name, ino, type)
              \/ d2 = d /\ name = e.name /\ ino = e.ino /\ type = e.type
  <1>1. Frame(s, t, d) /\ IsDir(s, d) /\ IsDir(t, d) /\ Refs(s, -1) /\ Once(s) /\ IsDir(s, 0)
    BY DEF Added, Tree
  <1>2. ASSUME NEW i, NEW k, NEW j, Ent(t, i, k, j)
        PROVE  \/ /\ Ent(s, i, k, j) /\ At(t, i, k, j) = At(s, i, k, j)
                  /\ At(s, i, k, j).ino # e.ino
                  /\ i = d => At(s, i, k, j).name # e.name
               \/ i = d /\ k = k0 /\ j = j0 /\ At(t, i, k, j) = e
    <2>1. CASE i = d
      <3>1. CASE k = k0 /\ j = j0
        BY <2>1, <3>1 DEF Added
      <3>2. CASE ~(k = k0 /\ j = j0)
        <4>1. Ent(s, d, k, j)
          BY <1>2, <2>1, <3>2 DEF Added
        <4> QED BY <2>1, <4>1 DEF Added, Unnamed
      <3> QED BY <3>1, <3>2
    <2>2. CASE i # d
      <3>1. Ent(s, i, k, j) /\ At(t, i, k, j) = At(s, i, k, j)
        BY <1>1, <1>2, <2>2, FrameFacts
      <3> QED BY <2>2, <3>1 DEF Unnamed
    <2> QED BY <2>1, <2>2
  <1>3. ASSUME NEW a PROVE /\ IsDir(s, a) => IsDir(t, a)
                           /\ IsPlain(s, a) => IsPlain(t, a)
                           /\ a \in s.inode_bmap => a \in t.inode_bmap
    <2>1. CASE a = d
      BY <1>1, <2>1, DirOrPlain DEF IsDir
    <2>2. CASE a # d
      <3>1. a \in t.inode_bmap <=> a \in s.inode_bmap
        BY <1>1, <2>2 DEF Frame
      <3> QED BY <1>1, <2>2, <3>1, FrameFacts
    <2> QED BY <2>1, <2>2
  <1>4. Refs(t, e.ino)
    <2> SUFFICES ASSUME NEW i, NEW k, NEW j, Ent(t, i, k, j)
                 PROVE  /\ At(t, i, k, j).ino \in t.inode_bmap /\ At(t, i, k, j).ino # 0
                        /\ At(t, i, k, j).ino # e.ino => Fits(t, At(t, i, k, j))
      BY Zenon DEF Refs
    <2>1. CASE At(t, i, k, j) = e
      BY <1>3, <2>1
    <2>2. CASE /\ Ent(s, i, k, j) /\ At(t, i, k, j) = At(s, i, k, j)
      <3>1. PICK f : f = At(s, i, k, j)
        OBVIOUS
      <3>2. f.ino \in s.inode_bmap /\ f.ino # 0 /\ (f.ino # -1 => Fits(s, f))
        BY <1>1, <2>2, <3>1, Zenon DEF Refs
      <3>3. Fits(s, f) => Fits(t, f)
        BY <1>3, Zenon DEF Fits
      <3>4. f.ino # -1
        BY <3>2, PartFacts, Indices
      <3> QED BY <1>3, <2>2, <3>1, <3>2, <3>3, <3>4, Zenon
    <2> QED BY <1>2, <2>1, <2>2, Zenon
  <1>5. Once(t)
    <2> SUFFICES ASSUME NEW i1, NEW i2, NEW k1, NEW k2, NEW j1, NEW j2,
                        Ent(t, i1, k1, j1), Ent(t, i2, k2, j2),
                        \/ At(t, i1, k1, j1).ino = At(t, i2, k2, j2).ino
                        \/ i1 = i2 /\ At(t, i1, k1, j1).name = At(t, i2, k2, j2).name
                 PROVE  i1 = i2 /\ k1 = k2 /\ j1 = j2
      BY DEF Once
    <2>1. CASE /\ Ent(s, i1, k1, j1) /\ At(t, i1, k1, j1) = At(s, i1, k1, j1)
               /\ Ent(s, i2, k2, j2) /\ At(t, i2, k2, j2) = At(s, i2, k2, j2)
      BY <1>1, <2>1 DEF Once
    <2> QED BY <1>2, <2>1
  <1>6. Tree(t, e.ino)
    BY <1>1, <1>3, <1>4, <1>5 DEF Tree
  <1>7. ASSUME NEW d2, NEW name, NEW ino, NEW type
        PROVE  Leads(t, d2, name, ino, type) <=>
                 \/ Leads(s, d2, name, ino, type)
                 \/ d2 = d /\ name = e.name /\ ino = e.ino /\ type = e.type
    <2>1. ASSUME Leads(t, d2, name, ino, type)
          PROVE  \/ Leads(s, d2, name, ino, type)
                 \/ d2 = d /\ name = e.name /\ ino = e.ino /\ type = e.type
      BY <1>2, <2>1, Zenon DEF Leads
    <2>2. ASSUME Leads(s, d2, name, ino, type) PROVE Leads(t, d2, name, ino, type)
      <3>1. PICK k, j : /\ Ent(s, d2, k, j) /\ At(s, d2, k, j).name = name
                        /\ At(s, d2, k, j).ino = ino /\ At(s, d2, k, j).type = type
        BY <2>2, Zenon DEF Leads
      <3>2. Ent(t, d2, k, j) /\ At(t, d2, k, j) = At(s, d2, k, j)
        <4>1. CASE d2 = d
          BY <3>1, <4>1 DEF Added
        <4>2. CASE d2 # d
          BY <1>1, <3>1, <4>2, FrameFacts
        <4> QED BY <4>1, <4>2
      <3> QED BY <3>1, <3>2, Zenon DEF Leads
    <2>3. Leads(t, d, e.name, e.ino, e.type)
      <3>1. Ent(t, d, k0, j0) /\ At(t, d, k0, j0) = e
        BY DEF Added
      <3> QED BY <3>1, Zenon DEF Leads
    <2> QED BY <2>1, <2>2, <2>3, Zenon
  <1> QED BY <1>6, <1>7, Zenon

\* When the pending inode fits its entries, the tree is complete.
LEMMA TreeFits ==
  ASSUME NEW t, NEW x, Tree(t, x), x # -1,
         \A i, k, j : Ent(t, i, k, j) /\ At(t, i, k, j).ino = x => Fits(t, At(t, i, k, j))
  PROVE  Tree(t, -1)
  BY Zenon DEF Tree, Refs

\* Writing one slot of a directory: everything else stays.
Put(s, t, d, k0, j0, e) ==
  /\ t \in Partition /\ Space(t) /\ Frame(s, t, d)
  /\ t.tbl = s.tbl /\ t.block_bmap = s.block_bmap /\ t.inode_bmap = s.inode_bmap
  /\ t.block_bitmap = s.block_bitmap /\ t.inode_bitmap = s.inode_bitmap /\ t.wild = s.wild
  /\ \A k \in SectorNrs : Lba(t, d, k) = Lba(s, d, k)
  /\ \A k \in SectorNrs : Lba(s, d, k) # 0 /\ k # k0 => Block(t, d, k) = Block(s, d, k)
  /\ Block(t, d, k0) # DATA /\ At(t, d, k0, j0) = e
  /\ \A j \in SlotNrs : j # j0 => At(t, d, k0, j) = At(s, d, k0, j)

\* PutEntry writes one slot.
LEMMA PutIt ==
  ASSUME NEW s \in Partition, Space(s), NEW d \in s.inode_bmap, NEW n \in 0 .. (NSEC * SLOTS) - 1,
         NEW k0, NEW j0, k0 = n \div SLOTS, j0 = n % SLOTS,
         NEW name, Slot(s, d, k0, j0, name), NEW e \in Entries
  PROVE  Put(s, PutEntry(s, s.tbl[d], n, e), d, k0, j0, e)
  <1>0. k0 \in SectorNrs /\ j0 \in SlotNrs /\ Lba(s, d, k0) # 0 /\ Block(s, d, k0) # DATA
    BY DEF Slot
  <1>1. d \in Inodes /\ Owned(s) /\ FreeClean(s)
    BY PartFacts DEF Space
  <1>2. PICK b, B : b = BlockNo(Lba(s, d, k0)) /\ B = Block(s, d, k0)
    BY Zenon
  <1>3. b \in Blocks /\ B \in [SlotNrs -> Entries] /\ B = s.blk[b] /\ b \in s.block_bmap
    BY <1>0, <1>1, <1>2, SectorFacts DEF Owned
  <1>4. PICK t : t = PutEntry(s, s.tbl[d], n, e)
    OBVIOUS
  <1>5. PICK C : C = [B EXCEPT ![j0] = e]
    OBVIOUS
  <1>6. t = [s EXCEPT !.blk[b] = C]
    <2>1. read_block(s, s.tbl[d].sectors[k0]) = B
      BY <1>2, Zenon DEF read_block, Block
    <2>2. t = sync_block(s, s.tbl[d].sectors[k0], C)
      BY <1>4, <1>5, <2>1, Zenon DEF PutEntry
    <2> QED BY <1>2, <2>2, Zenon DEF sync_block, Lba
  <1>7. C \in [SlotNrs -> Entries] /\ C[j0] = e /\ \A j \in SlotNrs : j # j0 => C[j] = B[j]
    BY <1>0, <1>3, <1>5
  <1>8. s.blk \in [Blocks -> [SlotNrs -> Entries] \cup {DATA}]
    BY PartFacts
  <1>9. /\ t \in Partition /\ t.blk = [s.blk EXCEPT ![b] = C]
        /\ t.tbl = s.tbl /\ t.block_bmap = s.block_bmap /\ t.inode_bmap = s.inode_bmap
        /\ t.block_bitmap = s.block_bitmap /\ t.inode_bitmap = s.inode_bitmap /\ t.wild = s.wild
    <2>1. [s.blk EXCEPT ![b] = C] \in [Blocks -> [SlotNrs -> Entries] \cup {DATA}]
      BY <1>3, <1>7, <1>8
    <2> QED BY <1>6, <2>1 DEF Partition
  <1>10. t.blk[b] = C /\ \A c \in Blocks : c # b => t.blk[c] = s.blk[c]
    BY <1>3, <1>8, <1>9
  <1>11. NotOthers(s, d, b)
    BY <1>0, <1>1, <1>2, NotOthersFacts
  <1>12. Frame(s, t, d)
    <2>1. \A i : i # d => (i \in t.inode_bmap <=> i \in s.inode_bmap)
      BY <1>9
    <2>2. \A i \in s.inode_bmap : i # d => t.tbl[i].sectors = s.tbl[i].sectors
      BY <1>9
    <2>3. \A c \in Blocks : t.blk[c] = s.blk[c] \/ NotOthers(s, d, c)
      BY <1>10, <1>11
    <2> QED BY <2>1, <2>2, <2>3, FrameFrom
  <1>13. \A k \in SectorNrs : Lba(t, d, k) = Lba(s, d, k)
    BY <1>9 DEF Lba
  <1>14. ASSUME NEW k \in SectorNrs, Lba(s, d, k) # 0, k # k0
         PROVE  Block(t, d, k) = Block(s, d, k)
    <2>1. BlockNo(Lba(s, d, k)) \in Blocks /\ Lba(s, d, k) \in Lbas /\ Lba(s, d, k0) \in Lbas
      BY <1>0, <1>1, <1>14, SectorFacts
    <2>2. Lba(s, d, k) # Lba(s, d, k0)
      BY <1>0, <1>1, <1>14 DEF Owned
    <2>3. BlockNo(Lba(s, d, k)) # b
      BY <1>2, <2>1, <2>2, LbaFacts
    <2> QED BY <1>9, <1>10, <2>1, <2>3 DEF Block, Lba
  <1>15. Block(t, d, k0) = C
    BY <1>2, <1>9, <1>10 DEF Block, Lba
  <1>16. C # DATA
    BY <1>7, EntriesAreNoData
  <1>17. Space(t)
    <2>1. d \in t.inode_bmap => \A k, l \in SectorNrs : Lba(t, d, k) # 0 =>
            /\ BlockNo(Lba(t, d, k)) \in t.block_bmap
            /\ NotOthers(s, d, BlockNo(Lba(t, d, k)))
            /\ Lba(t, d, l) = Lba(t, d, k) => k = l
      <3> SUFFICES ASSUME NEW k \in SectorNrs, NEW l \in SectorNrs, Lba(s, d, k) # 0
                   PROVE  /\ BlockNo(Lba(s, d, k)) \in s.block_bmap
                          /\ NotOthers(s, d, BlockNo(Lba(s, d, k)))
                          /\ Lba(s, d, l) = Lba(s, d, k) => k = l
        BY <1>9, <1>13
      <3>1. NotOthers(s, d, BlockNo(Lba(s, d, k)))
        BY <1>1, NotOthersFacts
      <3> QED BY <1>1, <3>1 DEF Owned
    <2>2. \A c \in s.block_bmap : c \notin t.block_bmap => NotOthers(s, d, c)
      BY <1>9
    <2>3. \A c \in Blocks : c \notin t.block_bmap => t.blk[c] \in {DATA, ZeroBlock}
      BY <1>1, <1>3, <1>9, <1>10 DEF FreeClean
    <2> QED BY <1>9, <1>12, <2>1, <2>2, <2>3, SpaceFrame
  <1>18. At(t, d, k0, j0) = e /\ \A j \in SlotNrs : j # j0 => At(t, d, k0, j) = At(s, d, k0, j)
    BY <1>2, <1>7, <1>15 DEF At
  <1> QED BY <1>4, <1>9, <1>12, <1>13, <1>14, <1>15, <1>16, <1>17, <1>18, Zenon DEF Put

\* The entries of the directory other than this one are the same.
SameBut(s, t, d, k0, j0) ==
  \A k, j : ~(k = k0 /\ j = j0) =>
    /\ Ent(t, d, k, j) <=> Ent(s, d, k, j)
    /\ Ent(s, d, k, j) => At(t, d, k, j) = At(s, d, k, j)

\* The rest of the directory after a slot that was not "." or ".." is written:
\* it is still a directory, and its other entries are the same.
LEMMA PutDir ==
  ASSUME NEW s \in Partition, NEW t, NEW d, NEW k0 \in SectorNrs, NEW j0 \in SlotNrs, NEW e,
         IsDir(s, d), Put(s, t, d, k0, j0, e), At(s, d, k0, j0).name \notin {".", ".."}
  PROVE  IsDir(t, d) /\ SameBut(s, t, d, k0, j0)
  <1>1. ASSUME NEW k \in SectorNrs, NEW j \in SlotNrs, Lba(s, d, k) # 0, ~(k = k0 /\ j = j0)
        PROVE  At(t, d, k, j) = At(s, d, k, j)
    <2>1. CASE k = k0
      BY <1>1, <2>1 DEF Put
    <2>2. CASE k # k0
      BY <1>1, <2>2 DEF Put, At
    <2> QED BY <2>1, <2>2
  <1>2. ASSUME NEW k \in SectorNrs PROVE Lba(t, d, k) = Lba(s, d, k)
    BY DEF Put
  <1>3. IsDir(t, d)
    <2>1. d \in t.inode_bmap /\ Lba(t, d, 0) # 0 /\ Lba(s, d, 0) # 0
      BY <1>2, Indices DEF IsDir, Put
    <2>2. ~(0 = k0 /\ 0 = j0) /\ ~(0 = k0 /\ 1 = j0)
      BY DEF IsDir
    <2>3. At(t, d, 0, 0) = At(s, d, 0, 0) /\ At(t, d, 0, 1) = At(s, d, 0, 1)
      BY <1>1, <2>1, <2>2, Indices
    <2>4. \A k \in SectorNrs : Lba(t, d, k) # 0 => Block(t, d, k) # DATA
      BY <1>2 DEF IsDir, Put
    <2> QED BY <2>1, <2>3, <2>4, Zenon DEF IsDir
  <1>4. ASSUME NEW k, NEW j, ~(k = k0 /\ j = j0)
        PROVE  /\ Ent(t, d, k, j) <=> Ent(s, d, k, j)
               /\ Ent(s, d, k, j) => At(t, d, k, j) = At(s, d, k, j)
    BY <1>1, <1>2, <1>3, <1>4, Zenon DEF Ent
  <1> QED BY <1>3, <1>4, Zenon DEF SameBut

\* An inode gets a block with this content as its sector k0.
Grow(s, d, k0, C) ==
  LET lba == DATA_START + NextBlock(s)
  IN  sync_block_bitmap(sync_inode(sync_block(allocate_block(s), lba, C), d,
                                   [s.tbl[d] EXCEPT !.sectors[k0] = lba]))

Grown(s, t, d, k0, C) ==
  /\ t \in Partition /\ Space(t) /\ Frame(s, t, d)
  /\ t.block_bitmap = t.block_bmap /\ t.inode_bitmap = s.inode_bitmap
  /\ t.inode_bmap = s.inode_bmap /\ t.wild = s.wild
  /\ \A i \in Inodes : i # d => t.tbl[i] = s.tbl[i]
  /\ Lba(t, d, k0) # 0 /\ Block(t, d, k0) = C
  /\ \A k \in SectorNrs : k # k0 =>
       /\ Lba(t, d, k) = Lba(s, d, k)
       /\ Lba(s, d, k) # 0 => Block(t, d, k) = Block(s, d, k)

\* Growing takes a free block and leaves the other inodes alone.
LEMMA GrowIt ==
  ASSUME NEW s \in Partition, Space(s), NEW d \in s.inode_bmap, NEW k0 \in SectorNrs,
         Lba(s, d, k0) = 0, NEW C \in [SlotNrs -> Entries], ~Grow(s, d, k0, C).wild
  PROVE  Grown(s, Grow(s, d, k0, C), d, k0, C)
  <1>1. d \in Inodes /\ Owned(s) /\ FreeClean(s)
    BY PartFacts DEF Space
  <1>2. PICK b, a, t : b = NextBlock(s) /\ a = allocate_block(s) /\ t = Grow(s, d, k0, C)
    BY Zenon
  <1>3. PICK D : D = [s.tbl[d] EXCEPT !.sectors[k0] = DATA_START + b]
    OBVIOUS
  <1>4. PICK u : u = [a EXCEPT !.blk[BlockNo(DATA_START + b)] = C]
    OBVIOUS
  <1>5. PICK v : v = [u EXCEPT !.tbl[d] = D]
    OBVIOUS
  <1>6. t = [v EXCEPT !.block_bitmap = v.block_bmap]
    BY <1>2, <1>3, <1>4, <1>5, Zenon DEF Grow, sync_block, sync_inode, sync_block_bitmap
  <1>7. ~a.wild
    <2>1. a \in [magic : {NO_MAGIC, MAGIC}, tbl : [Inodes -> Inode],
                 blk : [Blocks -> [SlotNrs -> Entries] \cup {DATA}],
                 block_bitmap : SUBSET Blocks, inode_bitmap : SUBSET Inodes,
                 block_bmap : SUBSET (Blocks \cup {bitmap_scan(s.block_bmap, NB)}),
                 inode_bmap : SUBSET Inodes, wild : BOOLEAN]
      BY <1>2 DEF allocate_block, Wild, Partition
    <2>2. u.wild = a.wild
      BY <1>4, <2>1
    <2>3. v.wild = u.wild
      BY <1>4, <1>5, <2>1
    <2>4. t.wild = v.wild
      BY <1>4, <1>5, <1>6, <2>1
    <2> QED BY <1>2, <2>2, <2>3, <2>4
  <1>8. b \in Blocks /\ b \notin s.block_bmap /\ a = [s EXCEPT !.block_bmap = @ \cup {b}]
    BY <1>2, <1>7, Allocated
  <1>9. BlockNo(DATA_START + b) = b /\ DATA_START + b \in Lbas /\ DATA_START + b # 0
    BY <1>8, LbaFacts
  <1>10. D \in Inode /\ D.sectors = [s.tbl[d].sectors EXCEPT ![k0] = DATA_START + b]
    <2>1. s.tbl[d] \in Inode
      BY <1>1, PartFacts
    <2> QED BY <1>3, <1>9, <2>1 DEF Inode
  <1>11. s.blk \in [Blocks -> [SlotNrs -> Entries] \cup {DATA}] /\ s.tbl \in [Inodes -> Inode]
         /\ s.tbl[d].sectors \in [SectorNrs -> Lbas]
    BY <1>1, PartFacts
  <1>12. /\ t \in Partition /\ t.blk = [s.blk EXCEPT ![b] = C] /\ t.tbl = [s.tbl EXCEPT ![d] = D]
         /\ t.block_bmap = s.block_bmap \cup {b} /\ t.block_bitmap = t.block_bmap
         /\ t.inode_bmap = s.inode_bmap /\ t.inode_bitmap = s.inode_bitmap /\ t.wild = s.wild
    <2>1. [s.blk EXCEPT ![b] = C] \in [Blocks -> [SlotNrs -> Entries] \cup {DATA}]
      BY <1>8, <1>11
    <2>2. [s.tbl EXCEPT ![d] = D] \in [Inodes -> Inode]
      BY <1>1, <1>10, <1>11
    <2>3. s.block_bmap \cup {b} \in SUBSET Blocks
      BY <1>8, PartFacts
    <2> QED BY <1>4, <1>5, <1>6, <1>8, <1>9, <2>1, <2>2, <2>3 DEF Partition
  <1>13. t.blk[b] = C /\ \A c \in Blocks : c # b => t.blk[c] = s.blk[c]
    BY <1>8, <1>11, <1>12
  <1>14. t.tbl[d] = D /\ \A i \in Inodes : i # d => t.tbl[i] = s.tbl[i]
    BY <1>1, <1>11, <1>12
  <1>15. Lba(t, d, k0) = DATA_START + b /\ \A k \in SectorNrs : k # k0 => Lba(t, d, k) = Lba(s, d, k)
    BY <1>10, <1>11, <1>14 DEF Lba
  <1>16. NotOthers(s, d, b)
    BY <1>1, <1>8, NotOthersFacts
  <1>17. Frame(s, t, d)
    <2>1. \A i : i # d => (i \in t.inode_bmap <=> i \in s.inode_bmap)
      BY <1>12
    <2>2. \A i \in s.inode_bmap : i # d => t.tbl[i].sectors = s.tbl[i].sectors
      BY <1>14, PartFacts
    <2>3. \A c \in Blocks : t.blk[c] = s.blk[c] \/ NotOthers(s, d, c)
      BY <1>13, <1>16
    <2> QED BY <2>1, <2>2, <2>3, FrameFrom
  <1>18. ASSUME NEW k \in SectorNrs, k # k0, Lba(s, d, k) # 0
         PROVE  /\ Block(t, d, k) = Block(s, d, k)
                /\ BlockNo(Lba(s, d, k)) \in s.block_bmap /\ Lba(s, d, k) # DATA_START + b
    <2>1. BlockNo(Lba(s, d, k)) \in s.block_bmap /\ BlockNo(Lba(s, d, k)) \in Blocks
      BY <1>1, <1>18, SectorFacts DEF Owned
    <2>2. BlockNo(Lba(s, d, k)) # b
      BY <1>8, <2>1
    <2>3. Lba(t, d, k) = Lba(s, d, k)
      BY <1>15, <1>18
    <2>4. Block(t, d, k) = t.blk[BlockNo(Lba(s, d, k))] /\ Block(s, d, k) = s.blk[BlockNo(Lba(s, d, k))]
      BY <2>3 DEF Block, Lba
    <2> QED BY <1>9, <1>13, <2>1, <2>2, <2>4
  <1>19. Block(t, d, k0) = C
    BY <1>9, <1>13, <1>15 DEF Block, Lba
  <1>20. Space(t)
    <2>1. d \in t.inode_bmap => \A k, l \in SectorNrs : Lba(t, d, k) # 0 =>
            /\ BlockNo(Lba(t, d, k)) \in t.block_bmap
            /\ NotOthers(s, d, BlockNo(Lba(t, d, k)))
            /\ Lba(t, d, l) = Lba(t, d, k) => k = l
      <3> SUFFICES ASSUME NEW k \in SectorNrs, NEW l \in SectorNrs, Lba(t, d, k) # 0
                   PROVE  /\ BlockNo(Lba(t, d, k)) \in t.block_bmap
                          /\ NotOthers(s, d, BlockNo(Lba(t, d, k)))
                          /\ Lba(t, d, l) = Lba(t, d, k) => k = l
        OBVIOUS
      <3>1. CASE k = k0
        <4>1. Lba(t, d, k) = DATA_START + b
          BY <1>15, <3>1
        <4>2. l # k0 => Lba(t, d, l) # DATA_START + b
          BY <1>9, <1>15, <1>18
        <4> QED BY <1>9, <1>12, <1>16, <3>1, <4>1, <4>2
      <3>2. CASE k # k0
        <4>1. Lba(t, d, k) = Lba(s, d, k) /\ Lba(s, d, k) # 0
          BY <1>15, <3>2
        <4>2. BlockNo(Lba(s, d, k)) \in s.block_bmap /\ Lba(s, d, k) # DATA_START + b
          BY <1>18, <3>2, <4>1
        <4>3. NotOthers(s, d, BlockNo(Lba(s, d, k)))
          BY <1>1, <4>1, NotOthersFacts
        <4>4. ASSUME Lba(t, d, l) = Lba(t, d, k) PROVE k = l
          <5>1. l # k0
            BY <1>15, <4>1, <4>2, <4>4
          <5>2. Lba(s, d, l) = Lba(s, d, k)
            BY <1>15, <4>1, <4>4, <5>1
          <5> QED BY <1>1, <4>1, <5>2 DEF Owned
        <4> QED BY <1>12, <4>1, <4>2, <4>3, <4>4
      <3> QED BY <3>1, <3>2
    <2>2. \A c \in s.block_bmap : c \notin t.block_bmap => NotOthers(s, d, c)
      BY <1>12
    <2>3. \A c \in Blocks : c \notin t.block_bmap => t.blk[c] \in {DATA, ZeroBlock}
      BY <1>1, <1>12, <1>13 DEF FreeClean
    <2> QED BY <1>12, <1>17, <2>1, <2>2, <2>3, SpaceFrame
  <1>21. Lba(t, d, k0) # 0
    BY <1>9, <1>15
  <1> QED BY <1>2, <1>12, <1>14, <1>15, <1>17, <1>18, <1>19, <1>20, <1>21, Zenon DEF Grown

\* What create_dir_entry does: nothing, or one entry more.
Entered(s, t, d, e) ==
  /\ t \in Partition /\ Space(t) /\ Synced(t) /\ Frame(s, t, d) /\ IsDir(t, d)
  /\ t.inode_bmap = s.inode_bmap /\ t.wild = s.wild
  /\ \A i \in Inodes : i # d => t.tbl[i] = s.tbl[i]
  /\ t = s \/ \E k0, j0 : Added(s, t, d, k0, j0, e)

\* A step that changes nothing leaves the frame.
LEMMA FrameSelf ==
  ASSUME NEW s, NEW x
  PROVE  Frame(s, s, x)
  BY Zenon DEF Frame

\* create_dir_entry enters a name that the directory does not have into a free
\* slot, or into a new sector.
LEMMA Enter ==
  ASSUME NEW s, Good(s), NEW d, IsDir(s, d), NEW e \in Entries, e.name \in Names,
         ~create_dir_entry(s, d, e).wild
  PROVE  Entered(s, create_dir_entry(s, d, e), d, e)
  <1>0. s \in Partition /\ Space(s) /\ Tree(s, -1) /\ Synced(s) /\ d \in s.inode_bmap /\ d \in Inodes
    BY PartFacts DEF Good, IsDir
  <1>1. PICK t, free : t = create_dir_entry(s, d, e) /\ free = Places(s, s.tbl[d], "")
    BY Zenon
  <1>2. PICK room : room = {i \in SectorNrs : s.tbl[d].sectors[i] = 0}
    OBVIOUS
  <1>3. CASE t = s
    BY <1>0, <1>1, <1>3, FrameSelf, Zenon DEF Entered
  <1>4. ASSUME ~NameTaken(s, s.tbl[d], e.name)
        PROVE  \A k, j : Ent(s, d, k, j) => At(s, d, k, j).name # e.name
    <2> SUFFICES ASSUME NEW k, NEW j, Ent(s, d, k, j), At(s, d, k, j).name = e.name PROVE FALSE
      OBVIOUS
    <2>1. Slot(s, d, k, j, e.name)
      BY <1>0, SlotIsEntry
    <2>2. Places(s, s.tbl[d], e.name) = {}
      BY <1>4 DEF NameTaken
    <2> QED BY <2>1, <2>2, FirstPlace, Zenon
  <1>5. CASE ~NameTaken(s, s.tbl[d], e.name) /\ free # {}
    <2>1. PICK n : n = Min(free)
      OBVIOUS
    <2>2. t = PutEntry(s, s.tbl[d], n, e)
      BY <1>1, <1>5, <2>1, Zenon DEF create_dir_entry, ino2inode
    <2>3. PICK k0, j0 : k0 = n \div SLOTS /\ j0 = n % SLOTS
      BY Zenon
    <2>4. n \in 0 .. (NSEC * SLOTS) - 1 /\ Slot(s, d, k0, j0, "")
      BY <1>1, <1>5, <2>1, <2>3, FirstPlace, Zenon
    <2>5. Put(s, t, d, k0, j0, e)
      BY <1>0, <2>2, <2>3, <2>4, PutIt
    <2>6. k0 \in SectorNrs /\ j0 \in SlotNrs /\ At(s, d, k0, j0).name = "" /\ Lba(s, d, k0) # 0
      BY <2>4 DEF Slot
    <2>7. IsDir(t, d)
      BY <1>0, <2>5, <2>6, PutDir
    <2>8. ASSUME NEW k, NEW j, ~(k = k0 /\ j = j0)
          PROVE  /\ Ent(t, d, k, j) <=> Ent(s, d, k, j)
                 /\ Ent(s, d, k, j) => At(t, d, k, j) = At(s, d, k, j)
      <3>1. SameBut(s, t, d, k0, j0)
        BY <1>0, <2>5, <2>6, PutDir
      <3> QED BY <2>8, <3>1, Zenon DEF SameBut
    <2>9. ~Ent(s, d, k0, j0)
      BY <2>6, NamesAssumption DEF Ent
    <2>10. Ent(t, d, k0, j0) /\ At(t, d, k0, j0) = e
      BY <1>0, <2>5, <2>6, <2>7 DEF Ent, Put
    <2>11. Frame(s, t, d)
      BY <2>5 DEF Put
    <2>12. Added(s, t, d, k0, j0, e)
      BY <1>4, <1>5, <2>7, <2>8, <2>9, <2>10, <2>11 DEF Added
    <2>13. t \in Partition /\ Space(t) /\ Synced(t) /\ t.inode_bmap = s.inode_bmap /\ t.wild = s.wild
           /\ \A i \in Inodes : i # d => t.tbl[i] = s.tbl[i]
      BY <1>0, <2>5 DEF Put, Synced
    <2> QED BY <1>1, <2>7, <2>11, <2>12, <2>13, Zenon DEF Entered
  <1>6. CASE ~NameTaken(s, s.tbl[d], e.name) /\ free = {} /\ room # {}
    <2>1. PICK k0 : k0 = Min(room)
      OBVIOUS
    <2>2. k0 \in SectorNrs /\ Lba(s, d, k0) = 0
      <3>1. room \subseteq Nat
        BY <1>2, Indices
      <3>2. k0 \in room
        BY <1>6, <2>1, <3>1, MinIsLeast
      <3> QED BY <1>2, <3>2 DEF Lba
    <2>3. PICK C : C = [ZeroBlock EXCEPT ![0] = e]
      OBVIOUS
    <2>4. C \in [SlotNrs -> Entries] /\ C[0] = e /\ \A j \in SlotNrs : j # 0 => C[j].name = ""
      BY <2>3, ZeroFacts, Indices
    <2>5. t = Grow(s, d, k0, C) \/ t = Wild(Grow(s, d, k0, C))
      BY <1>1, <1>2, <1>6, <2>1, <2>3, Zenon DEF create_dir_entry, ino2inode, Grow
    <2>6. ~t.wild
      BY <1>1
    <2>7. t = Grow(s, d, k0, C)
      <3>1. PICK g : g = Grow(s, d, k0, C)
        OBVIOUS
      <3>2. t = g \/ t = [g EXCEPT !.wild = TRUE]
        BY <2>5, <3>1, Zenon DEF Wild
      <3>3. \E h : g = [h EXCEPT !.block_bitmap = h.block_bmap] /\ "wild" \in DOMAIN h
        <4>1. PICK h : h = sync_inode(sync_block(allocate_block(s), DATA_START + NextBlock(s), C), d,
                                      [s.tbl[d] EXCEPT !.sectors[k0] = DATA_START + NextBlock(s)])
          OBVIOUS
        <4>2. g = [h EXCEPT !.block_bitmap = h.block_bmap]
          BY <3>1, <4>1, Zenon DEF Grow, sync_block_bitmap
        <4>3. "wild" \in DOMAIN allocate_block(s)
          BY <1>0 DEF allocate_block, Wild, Partition
        <4>4. "wild" \in DOMAIN h
          BY <4>1, <4>3 DEF sync_inode, sync_block
        <4> QED BY <4>2, <4>4
      <3>4. "wild" \in DOMAIN g
        BY <3>3
      <3> QED BY <2>6, <3>1, <3>2, <3>4
    <2>8. Grown(s, t, d, k0, C)
      BY <1>0, <2>2, <2>4, <2>6, <2>7, GrowIt
    <2>9. k0 # 0
      BY <2>2 DEF IsDir
    <2>10. ASSUME NEW k \in SectorNrs, k # k0
           PROVE  /\ Lba(t, d, k) = Lba(s, d, k)
                  /\ Lba(s, d, k) # 0 => Block(t, d, k) = Block(s, d, k)
                  /\ Lba(s, d, k) # 0 => \A j : At(t, d, k, j) = At(s, d, k, j)
      BY <2>8, <2>10 DEF Grown, At
    <2>11. Lba(t, d, k0) # 0 /\ Block(t, d, k0) = C /\ t.inode_bmap = s.inode_bmap
      BY <2>8 DEF Grown
    <2>12. IsDir(t, d)
      <3>1. C # DATA
        BY <2>4, EntriesAreNoData
      <3>2. Lba(t, d, 0) # 0 /\ At(t, d, 0, 0).name = "." /\ At(t, d, 0, 1).name = ".."
        BY <2>9, <2>10, Indices DEF IsDir
      <3>3. \A k \in SectorNrs : Lba(t, d, k) # 0 => Block(t, d, k) # DATA
        BY <2>10, <2>11, <3>1 DEF IsDir
      <3> QED BY <1>0, <2>11, <3>2, <3>3 DEF IsDir
    <2>13. ASSUME NEW k, NEW j
           PROVE  /\ Ent(t, d, k, j) <=> Ent(s, d, k, j) \/ (k = k0 /\ j = 0)
                  /\ Ent(s, d, k, j) => At(t, d, k, j) = At(s, d, k, j) /\ k # k0
      <3>1. CASE k = k0
        <4>1. ~Ent(s, d, k, j)
          BY <2>2, <3>1 DEF Ent
        <4>2. Ent(t, d, k, j) <=> j \in SlotNrs /\ C[j].name \in Names
          BY <1>0, <2>2, <2>11, <2>12, <3>1 DEF Ent, At
        <4>3. j \in SlotNrs => (C[j].name \in Names <=> j = 0)
          BY <2>4, NamesAssumption
        <4> QED BY <3>1, <4>1, <4>2, <4>3, Indices
      <3>2. CASE k # k0
        BY <2>10, <2>12, <3>2 DEF Ent
      <3> QED BY <3>1, <3>2
    <2>14. At(t, d, k0, 0) = e
      BY <2>4, <2>11 DEF At
    <2>15. Frame(s, t, d)
      BY <2>8 DEF Grown
    <2>16. Added(s, t, d, k0, 0, e)
      BY <1>4, <1>6, <2>12, <2>13, <2>14, <2>15 DEF Added
    <2>17. t \in Partition /\ Space(t) /\ Synced(t) /\ t.inode_bmap = s.inode_bmap /\ t.wild = s.wild
           /\ \A i \in Inodes : i # d => t.tbl[i] = s.tbl[i]
      BY <1>0, <2>8 DEF Grown, Synced
    <2> QED BY <1>1, <2>12, <2>15, <2>16, <2>17, Zenon DEF Entered
  <1>7. NameTaken(s, s.tbl[d], e.name) \/ (free = {} /\ room = {}) => t = s
    BY <1>1, <1>2, Zenon DEF create_dir_entry, ino2inode
  <1> QED BY <1>3, <1>5, <1>6, <1>7, Zenon

-----------------------------------------------------------------------------
(* A step never makes a wild partition tame. *)

Flagged(s) == "wild" \in DOMAIN s /\ s.wild \in BOOLEAN
Ups(s, t) == Flagged(s) => Flagged(t) /\ (s.wild => t.wild)

\* Two steps are like one.
LEMMA UpsTwice ==
  ASSUME NEW s, NEW t, NEW u, Ups(s, t), Ups(t, u)
  PROVE  Ups(s, u)
  BY DEF Ups

\* A write to a field other than wild.
LEMMA UpsExcept ==
  ASSUME NEW s, NEW f, NEW v, f # "wild"
  PROVE  Ups(s, [s EXCEPT ![f] = v])
  BY DEF Ups, Flagged

\* The steps that requests are made of.
LEMMA UpsSteps ==
  ASSUME NEW s
  PROVE  /\ \A ino, inode : Ups(s, sync_inode(s, ino, inode))
         /\ \A lba, content : Ups(s, sync_block(s, lba, content))
         /\ Ups(s, sync_inode_bitmap(s)) /\ Ups(s, sync_block_bitmap(s))
         /\ Ups(s, Wild(s)) /\ Ups(s, allocate_block(s)) /\ Ups(s, allocate_inode_no(s))
         /\ \A ino : Ups(s, free_inode(s, ino))
         /\ \A lbas : Ups(s, free_blocks(s, lbas)) /\ Ups(s, write_disk(s, lbas))
         /\ \A from, to, at : Ups(s, CopySectors(s, from, to, at))
  <1>1. ASSUME NEW ino, NEW inode PROVE Ups(s, sync_inode(s, ino, inode))
    BY DEF Ups, Flagged, sync_inode
  <1>2. ASSUME NEW lba, NEW content PROVE Ups(s, sync_block(s, lba, content))
    BY DEF Ups, Flagged, sync_block
  <1>3. Ups(s, sync_inode_bitmap(s)) /\ Ups(s, sync_block_bitmap(s))
    BY DEF Ups, Flagged, sync_inode_bitmap, sync_block_bitmap
  <1>4. Ups(s, Wild(s))
    BY DEF Ups, Flagged, Wild
  <1>5. Ups(s, allocate_block(s))
    BY <1>4 DEF Ups, Flagged, allocate_block
  <1>6. Ups(s, allocate_inode_no(s))
    BY <1>4 DEF Ups, Flagged, allocate_inode_no
  <1>7. ASSUME NEW ino PROVE Ups(s, free_inode(s, ino))
    BY DEF Ups, Flagged, free_inode
  <1>8. ASSUME NEW lbas PROVE Ups(s, free_blocks(s, lbas)) /\ Ups(s, write_disk(s, lbas))
    BY DEF Ups, Flagged, free_blocks, write_disk
  <1>9. ASSUME NEW from, NEW to, NEW at PROVE Ups(s, CopySectors(s, from, to, at))
    BY UpsExcept, Zenon DEF CopySectors
  <1> QED BY <1>1, <1>2, <1>3, <1>4, <1>5, <1>6, <1>7, <1>8, <1>9, Zenon

\* Entering a name and growing.
LEMMA UpsEnter ==
  ASSUME NEW s, NEW d
  PROVE  /\ \A k0, C : Ups(s, Grow(s, d, k0, C))
         /\ \A n, e : Ups(s, PutEntry(s, s.tbl[d], n, e))
         /\ \A e : Ups(s, create_dir_entry(s, d, e))
  <1>1. ASSUME NEW k0, NEW C PROVE Ups(s, Grow(s, d, k0, C))
    <2>1. PICK a, l, D : a = allocate_block(s) /\ l = DATA_START + NextBlock(s)
                         /\ D = [s.tbl[d] EXCEPT !.sectors[k0] = l]
      BY Zenon
    <2>2. Ups(s, a) /\ Ups(a, sync_block(a, l, C))
      BY <2>1, UpsSteps, Zenon
    <2>3. PICK b : b = sync_block(a, l, C)
      OBVIOUS
    <2>4. Ups(b, sync_inode(b, d, D))
      BY UpsSteps, Zenon
    <2>5. PICK c : c = sync_inode(b, d, D)
      OBVIOUS
    <2>6. Ups(c, sync_block_bitmap(c))
      BY UpsSteps, Zenon
    <2>7. Ups(s, sync_block_bitmap(c))
      BY <2>2, <2>3, <2>4, <2>5, <2>6, UpsTwice
    <2> QED BY <2>1, <2>3, <2>5, <2>7, Zenon DEF Grow
  <1>2. ASSUME NEW n, NEW e PROVE Ups(s, PutEntry(s, s.tbl[d], n, e))
    BY UpsSteps, Zenon DEF PutEntry
  <1>3. ASSUME NEW e PROVE Ups(s, create_dir_entry(s, d, e))
    <2>1. PICK g : g = Grow(s, d, Min({i \in SectorNrs : s.tbl[d].sectors[i] = 0}),
                            [ZeroBlock EXCEPT ![0] = e])
      OBVIOUS
    <2>2. \/ create_dir_entry(s, d, e) = s
          \/ create_dir_entry(s, d, e) = PutEntry(s, s.tbl[d], Min(Places(s, s.tbl[d], "")), e)
          \/ create_dir_entry(s, d, e) = g \/ create_dir_entry(s, d, e) = Wild(g)
      BY <2>1, Zenon DEF create_dir_entry, ino2inode, Grow
    <2>3. Ups(s, s)
      BY DEF Ups
    <2>4. Ups(s, g)
      BY <1>1, <2>1, Zenon
    <2>5. Ups(g, Wild(g))
      BY UpsSteps, Zenon
    <2>6. Ups(s, Wild(g))
      BY <2>4, <2>5, UpsTwice
    <2> QED BY <1>2, <2>2, <2>3, <2>4, <2>6, Zenon
  <1> QED BY <1>1, <1>2, <1>3, Zenon

\* A new inode.
LEMMA UpsCreate ==
  ASSUME NEW s
  PROVE  Ups(s, sync_inode_bitmap(create_inode(s)))
  <1>1. PICK a, b : a = allocate_inode_no(s) /\ b = create_inode(s)
    BY Zenon
  <1>2. Ups(s, a) /\ Ups(b, sync_inode_bitmap(b))
    BY <1>1, UpsSteps, Zenon
  <1>3. Ups(a, b)
    BY <1>1, UpsSteps, Zenon DEF create_inode
  <1> QED BY <1>1, <1>2, <1>3, UpsTwice
-----------------------------------------------------------------------------
(* sys_mkfile and sys_mkdir. *)

\* t has one allocated inode more than s, x, and perhaps an entry for it; all
\* that s names, t names as well, and files are as they were.
Wider(s, t, x, ty) ==
  /\ Good(t) /\ t.wild = s.wild /\ x \in Inodes /\ x # 0 /\ x # -1
  /\ x \notin s.inode_bmap /\ x \in t.inode_bmap
  /\ \A i : IsPlain(s, i) => IsPlain(t, i) /\ t.tbl[i] = s.tbl[i]
  /\ \A d, name, ino, type : Leads(s, d, name, ino, type) => Leads(t, d, name, ino, type)
  /\ \A d, name, ino, type : Leads(t, d, name, ino, type) =>
       Leads(s, d, name, ino, type) \/ (ino = x /\ type = ty)
  /\ \A name, ino, type : ~Leads(t, x, name, ino, type)

\* sys_mkfile without its lookups: a new inode and its entry in d.
LEMMA MakeFile ==
  ASSUME NEW s, Good(s), uid \in Users, NEW d, IsDir(s, d), NEW name \in Names, NEW t,
         t = create_dir_entry(sync_inode_bitmap(create_inode(s)), d, Entry(name, NextInode(s), "FILE")),
         ~t.wild
  PROVE  Wider(s, t, NextInode(s), "FILE")
  <1>1. PICK u, x, e : u = sync_inode_bitmap(create_inode(s)) /\ x = NextInode(s)
                       /\ e = Entry(name, x, "FILE")
    BY Zenon
  <1>2. s \in Partition /\ Tree(s, -1) /\ Flagged(s)
    BY DEF Good, Partition, Flagged
  <1>3. ~u.wild
    <2>1. Flagged(u)
      BY <1>1, <1>2, UpsCreate DEF Ups
    <2>2. Ups(u, t)
      BY <1>1, UpsEnter, Zenon
    <2> QED BY <2>1, <2>2 DEF Ups, Flagged
  <1>4. Made(s, u, x)
    BY <1>1, <1>3, Create
  <1>5. /\ Good(u) /\ x \in Inodes /\ x # 0 /\ x \notin s.inode_bmap /\ x \in u.inode_bmap
        /\ u.tbl[x].sectors = NoSectors /\ Unnamed(u, x) /\ Frame(s, u, x) /\ u.wild = s.wild
        /\ \A i \in Inodes : i # x => u.tbl[i] = s.tbl[i]
    BY <1>4 DEF Made
  <1>6. d \in s.inode_bmap /\ d # x
    BY <1>5 DEF IsDir
  <1>7. IsDir(u, d)
    BY <1>5, <1>6, FrameFacts
  <1>8. e \in Entries /\ e.name = name /\ e.ino = x /\ e.type = "FILE"
    BY <1>1, <1>5, MadeEntry
  <1>9. Entered(u, t, d, e)
    BY <1>1, <1>5, <1>7, <1>8, Enter
  <1>10. /\ t \in Partition /\ Space(t) /\ Synced(t) /\ Frame(u, t, d) /\ IsDir(t, d)
         /\ t.inode_bmap = u.inode_bmap /\ t.wild = u.wild
         /\ \A i \in Inodes : i # d => t.tbl[i] = u.tbl[i]
         /\ t = u \/ \E k0, j0 : Added(u, t, d, k0, j0, e)
    BY <1>9 DEF Entered
  <1>11. IsPlain(u, x) /\ ~IsDir(u, x)
    BY <1>5, NoSectorsPlain
  <1>12. IsPlain(t, x) /\ ~IsDir(t, x)
    BY <1>6, <1>10, <1>11, FrameFacts
  <1>13. u \in Partition /\ Tree(u, -1) /\ x # -1
    BY <1>5, Indices DEF Good
  <1>14. /\ Tree(t, -1)
         /\ \A d2, n2, i2, t2 : Leads(u, d2, n2, i2, t2) => Leads(t, d2, n2, i2, t2)
         /\ \A d2, n2, i2, t2 : Leads(t, d2, n2, i2, t2) =>
              Leads(u, d2, n2, i2, t2) \/ (i2 = x /\ t2 = "FILE")
    <2>1. CASE t = u
      BY <1>13, <2>1
    <2>2. CASE \E k0, j0 : Added(u, t, d, k0, j0, e)
      <3>1. PICK k0, j0 : Added(u, t, d, k0, j0, e)
        BY <2>2
      <3>2. e.ino \in u.inode_bmap /\ e.ino # 0 /\ e.ino # d /\ Unnamed(u, e.ino)
        BY <1>5, <1>6, <1>8
      <3>3. /\ Tree(t, e.ino)
            /\ \A d2, n2, i2, t2 : Leads(t, d2, n2, i2, t2) <=>
                 \/ Leads(u, d2, n2, i2, t2)
                 \/ d2 = d /\ n2 = e.name /\ i2 = e.ino /\ t2 = e.type
        BY <1>13, <3>1, <3>2, TreeAdd
      <3>4. ASSUME NEW i, NEW k, NEW j, Ent(t, i, k, j), At(t, i, k, j).ino = x
            PROVE  Fits(t, At(t, i, k, j))
        <4>1. Leads(t, i, At(t, i, k, j).name, x, At(t, i, k, j).type)
          BY <3>4, Zenon DEF Leads
        <4>2. ~Leads(u, i, At(t, i, k, j).name, x, At(t, i, k, j).type)
          BY <1>5, Zenon DEF Leads, Unnamed
        <4>3. At(t, i, k, j).type = "FILE"
          BY <1>8, <3>3, <4>1, <4>2, Zenon
        <4> QED BY <1>12, <3>4, <4>3 DEF Fits
      <3>5. Tree(t, -1)
        BY <1>8, <1>13, <3>3, <3>4, TreeFits, Zenon
      <3> QED BY <1>8, <3>3, <3>5, Zenon
    <2> QED BY <1>10, <2>1, <2>2
  <1>15. Good(t)
    BY <1>10, <1>14 DEF Good
  <1>16. ASSUME NEW i, IsPlain(s, i) PROVE IsPlain(t, i) /\ t.tbl[i] = s.tbl[i]
    <2>1. i # d
      BY <1>16, DirOrPlain
    <2>2. i # x /\ i \in Inodes
      BY <1>2, <1>5, <1>16, PartFacts DEF IsPlain
    <2>3. IsPlain(u, i)
      BY <1>5, <1>16, <2>2, FrameFacts
    <2>4. IsPlain(t, i)
      BY <1>10, <2>1, <2>3, FrameFacts
    <2> QED BY <1>5, <1>10, <2>1, <2>2, <2>4
  <1>17. ASSUME NEW n2, NEW i2, NEW t2, Leads(t, x, n2, i2, t2) PROVE FALSE
    BY <1>12, <1>17 DEF Leads, Ent
  <1>18. \A d2, n2, i2, t2 : Leads(s, d2, n2, i2, t2) <=> Leads(u, d2, n2, i2, t2)
    BY <1>4, Zenon DEF Made
  <1>a. t.wild = s.wild /\ x \in t.inode_bmap
    BY <1>5, <1>10
  <1>b. \A d2, n2, i2, t2 : Leads(s, d2, n2, i2, t2) => Leads(t, d2, n2, i2, t2)
    BY <1>14, <1>18, Zenon
  <1>c. \A d2, n2, i2, t2 : Leads(t, d2, n2, i2, t2) =>
          Leads(s, d2, n2, i2, t2) \/ (i2 = x /\ t2 = "FILE")
    BY <1>14, <1>18, Zenon
  <1>19. Wider(s, t, x, "FILE")
    BY <1>5, <1>13, <1>15, <1>16, <1>17, <1>a, <1>b, <1>c, Zenon DEF Wider
  <1> QED BY <1>1, <1>19

\* The first block of a directory.
LEMMA DotFacts ==
  ASSUME NEW x \in Inodes, NEW d \in Inodes
  PROVE  /\ DotEntries(x, d) \in [SlotNrs -> Entries] /\ DotEntries(x, d) # DATA
         /\ DotEntries(x, d)[0].name = "." /\ DotEntries(x, d)[1].name = ".."
         /\ \A j \in SlotNrs : DotEntries(x, d)[j].name \notin Names
  <1>1. PICK e, f : e = Entry(".", x, "DIR") /\ f = Entry("..", d, "DIR")
    BY Zenon
  <1>2. e \in Entries /\ f \in Entries /\ e.name = "." /\ f.name = ".."
    BY <1>1, MadeEntry
  <1>3. DotEntries(x, d) = [ZeroBlock EXCEPT ![0] = e, ![1] = f]
    BY <1>1, Zenon DEF DotEntries
  <1>4. /\ DotEntries(x, d) \in [SlotNrs -> Entries]
        /\ DotEntries(x, d)[0] = e /\ DotEntries(x, d)[1] = f
        /\ \A j \in SlotNrs : j \notin {0, 1} => DotEntries(x, d)[j] = ZeroBlock[j]
    <2>1. PICK Z : Z = ZeroBlock
      OBVIOUS
    <2>2. Z \in [SlotNrs -> Entries] /\ DotEntries(x, d) = [Z EXCEPT ![0] = e, ![1] = f]
      BY <1>3, <2>1, ZeroFacts
    <2>3. [Z EXCEPT ![0] = e] \in [SlotNrs -> Entries]
      BY <1>2, <2>2
    <2>4. 0 \in SlotNrs /\ 1 \in SlotNrs
      BY Indices
    <2> QED BY <1>2, <2>1, <2>2, <2>3, <2>4
  <1>5. ASSUME NEW j \in SlotNrs PROVE DotEntries(x, d)[j].name \notin Names
    BY <1>2, <1>4, ZeroFacts, NamesAssumption
  <1> QED BY <1>2, <1>4, <1>5, EntriesAreNoData

\* A pending inode more is no harm.
LEMMA TreePending ==
  ASSUME NEW s \in Partition, Tree(s, -1), NEW x
  PROVE  Tree(s, x)
  <1>1. -1 \notin s.inode_bmap
    BY PartFacts, Indices
  <1> QED BY <1>1 DEF Tree, Refs

\* init_child_dir makes a directory out of an inode without sectors, and the
\* entry that named it fits.
LEMMA Fill ==
  ASSUME NEW s \in Partition, Space(s), Synced(s), NEW x \in s.inode_bmap, Tree(s, x), x # 0,
         s.tbl[x].sectors = NoSectors, NEW d \in Inodes, NEW t, t = init_child_dir(s, d, x), ~t.wild,
         \A i, name, type : Leads(s, i, name, x, type) => type = "DIR"
  PROVE  /\ Good(t) /\ Frame(s, t, x) /\ t.wild = s.wild /\ t.inode_bmap = s.inode_bmap
         /\ \A i \in Inodes : i # x => t.tbl[i] = s.tbl[i]
         /\ \A i, name, ino, type : Leads(t, i, name, ino, type) <=> Leads(s, i, name, ino, type)
         /\ \A name, ino, type : ~Leads(t, x, name, ino, type)
  <1>1. PICK C : C = DotEntries(x, d)
    OBVIOUS
  <1>2. t = Grow(s, x, 0, C)
    BY <1>1, Zenon DEF init_child_dir, Grow, ino2inode
  <1>3. x \in Inodes /\ \A k \in SectorNrs : Lba(s, x, k) = 0
    BY PartFacts, NoSectorsPlain
  <1>4. /\ C \in [SlotNrs -> Entries] /\ C # DATA /\ C[0].name = "." /\ C[1].name = ".."
        /\ \A j \in SlotNrs : C[j].name \notin Names
    BY <1>1, <1>3, DotFacts
  <1>5. Grown(s, t, x, 0, C)
    BY <1>2, <1>3, <1>4, Indices, GrowIt
  <1>6. /\ t \in Partition /\ Space(t) /\ Frame(s, t, x)
        /\ t.block_bitmap = t.block_bmap /\ t.inode_bitmap = s.inode_bitmap
        /\ t.inode_bmap = s.inode_bmap /\ t.wild = s.wild
        /\ \A i \in Inodes : i # x => t.tbl[i] = s.tbl[i]
        /\ Lba(t, x, 0) # 0 /\ Block(t, x, 0) = C
        /\ \A k \in SectorNrs : k # 0 => Lba(t, x, k) = 0
    BY <1>3, <1>5 DEF Grown
  <1>7. IsDir(t, x)
    BY <1>4, <1>6 DEF IsDir, At
  <1>8. \A k, j : ~Ent(t, x, k, j)
    BY <1>4, <1>6 DEF Ent, At
  <1>9. \A k, j : ~Ent(s, x, k, j)
    BY <1>3 DEF Ent
  <1>10. ASSUME NEW i, NEW k, NEW j
         PROVE  /\ Ent(t, i, k, j) <=> Ent(s, i, k, j)
                /\ Ent(s, i, k, j) => At(t, i, k, j) = At(s, i, k, j)
    <2>1. CASE i = x
      BY <1>8, <1>9, <2>1
    <2>2. CASE i # x
      BY <1>6, <2>2, FrameFacts
    <2> QED BY <2>1, <2>2
  <1>11. Sub(s, t)
    BY <1>10, Zenon DEF Sub
  <1>12. \A i, name, ino, type : Leads(t, i, name, ino, type) <=> Leads(s, i, name, ino, type)
    <2> SUFFICES ASSUME NEW i, NEW name, NEW ino, NEW type
                 PROVE  Leads(t, i, name, ino, type) <=> Leads(s, i, name, ino, type)
      OBVIOUS
    <2>1. ASSUME Leads(t, i, name, ino, type) PROVE Leads(s, i, name, ino, type)
      <3>1. PICK k, j : /\ Ent(t, i, k, j) /\ At(t, i, k, j).name = name
                        /\ At(t, i, k, j).ino = ino /\ At(t, i, k, j).type = type
        BY <2>1, Zenon DEF Leads
      <3>2. Ent(s, i, k, j) /\ At(t, i, k, j) = At(s, i, k, j)
        BY <1>10, <3>1
      <3> QED BY <3>1, <3>2, Zenon DEF Leads
    <2>2. ASSUME Leads(s, i, name, ino, type) PROVE Leads(t, i, name, ino, type)
      <3>1. PICK k, j : /\ Ent(s, i, k, j) /\ At(s, i, k, j).name = name
                        /\ At(s, i, k, j).ino = ino /\ At(s, i, k, j).type = type
        BY <2>2, Zenon DEF Leads
      <3>2. Ent(t, i, k, j) /\ At(t, i, k, j) = At(s, i, k, j)
        BY <1>10, <3>1
      <3> QED BY <3>1, <3>2, Zenon DEF Leads
    <2> QED BY <2>1, <2>2
  <1>13. ASSUME NEW i, NEW k, NEW j, Ent(t, i, k, j), At(t, i, k, j).ino = x
         PROVE  x \in t.inode_bmap /\ Fits(t, At(t, i, k, j))
    <2>1. Leads(t, i, At(t, i, k, j).name, x, At(t, i, k, j).type)
      BY <1>13, Zenon DEF Leads
    <2>2. At(t, i, k, j).type = "DIR"
      BY <1>12, <2>1, Zenon
    <2> QED BY <1>6, <1>7, <1>13, <2>2 DEF Fits
  <1>14. IsDir(t, 0)
    BY <1>6, FrameFacts DEF Tree
  <1>15. Tree(t, -1)
    <2>1. x \in {-1, x}
      OBVIOUS
    <2> QED BY <1>6, <1>11, <1>13, <1>14, <2>1, TreeSub, Zenon
  <1>16. Good(t)
    BY <1>6, <1>15 DEF Good, Synced
  <1>17. \A name, ino, type : ~Leads(t, x, name, ino, type)
    BY <1>8, Zenon DEF Leads
  <1> QED BY <1>6, <1>12, <1>16, <1>17, Zenon

\* sys_mkdir without its lookups.
LEMMA MakeDir ==
  ASSUME NEW s, Good(s), uid \in Users, NEW d, IsDir(s, d), NEW name \in Names, NEW t,
         t = init_child_dir(create_dir_entry(sync_inode_bitmap(create_inode(s)), d,
                                             Entry(name, NextInode(s), "DIR")),
                            d, NextInode(s)),
         ~t.wild
  PROVE  Wider(s, t, NextInode(s), "DIR")
  <1>1. PICK u, x, e, v : /\ u = sync_inode_bitmap(create_inode(s)) /\ x = NextInode(s)
                          /\ e = Entry(name, x, "DIR") /\ v = create_dir_entry(u, d, e)
    BY Zenon
  <1>2. s \in Partition /\ Tree(s, -1) /\ Flagged(s)
    BY DEF Good, Partition, Flagged
  <1>3. ~u.wild /\ ~v.wild
    <2>1. Flagged(u)
      BY <1>1, <1>2, UpsCreate DEF Ups
    <2>2. Ups(u, v)
      BY <1>1, UpsEnter, Zenon
    <2>3. Ups(v, t)
      <3>1. t = Grow(v, x, 0, DotEntries(x, d))
        BY <1>1, Zenon DEF init_child_dir, Grow, ino2inode
      <3> QED BY <3>1, UpsEnter, Zenon
    <2> QED BY <2>1, <2>2, <2>3 DEF Ups, Flagged
  <1>4. Made(s, u, x)
    BY <1>1, <1>3, Create
  <1>5. /\ Good(u) /\ x \in Inodes /\ x # 0 /\ x \notin s.inode_bmap /\ x \in u.inode_bmap
        /\ u.tbl[x].sectors = NoSectors /\ Unnamed(u, x) /\ Frame(s, u, x) /\ u.wild = s.wild
        /\ \A i \in Inodes : i # x => u.tbl[i] = s.tbl[i]
    BY <1>4 DEF Made
  <1>6. d \in s.inode_bmap /\ d # x /\ d \in Inodes
    BY <1>2, <1>5, PartFacts DEF IsDir
  <1>7. IsDir(u, d)
    BY <1>5, <1>6, FrameFacts
  <1>8. e \in Entries /\ e.name = name /\ e.ino = x /\ e.type = "DIR"
    BY <1>1, <1>5, MadeEntry
  <1>9. Entered(u, v, d, e)
    BY <1>1, <1>3, <1>5, <1>7, <1>8, Enter
  <1>10. /\ v \in Partition /\ Space(v) /\ Synced(v) /\ Frame(u, v, d) /\ IsDir(v, d)
         /\ v.inode_bmap = u.inode_bmap /\ v.wild = u.wild
         /\ \A i \in Inodes : i # d => v.tbl[i] = u.tbl[i]
         /\ v = u \/ \E k0, j0 : Added(u, v, d, k0, j0, e)
    BY <1>9 DEF Entered
  <1>13. u \in Partition /\ Tree(u, -1) /\ x # -1
    BY <1>5, Indices DEF Good
  <1>14. /\ Tree(v, x)
         /\ \A d2, n2, i2, t2 : Leads(u, d2, n2, i2, t2) => Leads(v, d2, n2, i2, t2)
         /\ \A d2, n2, i2, t2 : Leads(v, d2, n2, i2, t2) =>
              Leads(u, d2, n2, i2, t2) \/ (i2 = x /\ t2 = "DIR")
    <2>1. CASE v = u
      BY <1>13, <2>1, TreePending
    <2>2. CASE \E k0, j0 : Added(u, v, d, k0, j0, e)
      <3>1. PICK k0, j0 : Added(u, v, d, k0, j0, e)
        BY <2>2
      <3>2. e.ino \in u.inode_bmap /\ e.ino # 0 /\ e.ino # d /\ Unnamed(u, e.ino)
        BY <1>5, <1>6, <1>8
      <3>3. /\ Tree(v, e.ino)
            /\ \A d2, n2, i2, t2 : Leads(v, d2, n2, i2, t2) <=>
                 \/ Leads(u, d2, n2, i2, t2)
                 \/ d2 = d /\ n2 = e.name /\ i2 = e.ino /\ t2 = e.type
        BY <1>13, <3>1, <3>2, TreeAdd
      <3> QED BY <1>8, <3>3, Zenon
    <2> QED BY <1>10, <2>1, <2>2
  <1>15. ASSUME NEW i, NEW n2, NEW ty, Leads(v, i, n2, x, ty) PROVE ty = "DIR"
    <2>1. ~Leads(u, i, n2, x, ty)
      BY <1>5, Zenon DEF Leads, Unnamed
    <2> QED BY <1>14, <1>15, <2>1, Zenon
  <1>16. x \in v.inode_bmap /\ v.tbl[x].sectors = NoSectors
    BY <1>5, <1>6, <1>10
  <1>17. /\ Good(t) /\ Frame(v, t, x) /\ t.wild = v.wild /\ t.inode_bmap = v.inode_bmap
         /\ \A i \in Inodes : i # x => t.tbl[i] = v.tbl[i]
         /\ \A i, n2, ino, type : Leads(t, i, n2, ino, type) <=> Leads(v, i, n2, ino, type)
         /\ \A n2, ino, type : ~Leads(t, x, n2, ino, type)
    <2>1. t = init_child_dir(v, d, x)
      BY <1>1
    <2> QED BY <1>5, <1>6, <1>10, <1>14, <1>15, <1>16, <2>1, Fill
  <1>18. ASSUME NEW i, IsPlain(s, i) PROVE IsPlain(t, i) /\ t.tbl[i] = s.tbl[i]
    <2>1. i # d
      BY <1>18, DirOrPlain
    <2>2. i # x /\ i \in Inodes
      BY <1>2, <1>5, <1>18, PartFacts DEF IsPlain
    <2>3. IsPlain(u, i)
      BY <1>5, <1>18, <2>2, FrameFacts
    <2>4. IsPlain(v, i)
      BY <1>10, <2>1, <2>3, FrameFacts
    <2>5. IsPlain(t, i)
      BY <1>17, <2>2, <2>4, FrameFacts
    <2> QED BY <1>5, <1>10, <1>17, <2>1, <2>2, <2>5
  <1>19. \A d2, n2, i2, t2 : Leads(s, d2, n2, i2, t2) <=> Leads(u, d2, n2, i2, t2)
    BY <1>4, Zenon DEF Made
  <1>a. t.wild = s.wild /\ x \in t.inode_bmap
    BY <1>5, <1>10, <1>17
  <1>b. \A d2, n2, i2, t2 : Leads(s, d2, n2, i2, t2) => Leads(t, d2, n2, i2, t2)
    BY <1>14, <1>17, <1>19, Zenon
  <1>c. \A d2, n2, i2, t2 : Leads(t, d2, n2, i2, t2) =>
          Leads(s, d2, n2, i2, t2) \/ (i2 = x /\ t2 = "DIR")
    BY <1>14, <1>17, <1>19, Zenon
  <1>20. Wider(s, t, x, "DIR")
    BY <1>5, <1>13, <1>17, <1>18, <1>a, <1>b, <1>c, Zenon DEF Wider
  <1> QED BY <1>1, <1>20

\* Where paths lead after a file or a directory was made: as before, except
\* that one may lead to the new inode.
LEMMA WiderPaths ==
  ASSUME NEW s, Good(s), NEW t, NEW x, NEW ty, Wider(s, t, x, ty), NEW p \in Seq(Names)
  PROVE  /\ dir_is_exists(s, p) # -1 =>
              dir_is_exists(t, p) = dir_is_exists(s, p) /\ TypeOf(t, p) = TypeOf(s, p)
         /\ dir_is_exists(t, p) \notin {-1, x} =>
              dir_is_exists(s, p) = dir_is_exists(t, p) /\ TypeOf(s, p) = TypeOf(t, p)
         /\ dir_is_exists(t, p) = x => TypeOf(t, p) = ty
  <1>1. Walkable(s) /\ Walkable(t)
    BY DEF Wider, Good, Walkable
  <1>2. \A d, name, ino, type : Leads(s, d, name, ino, type) => Leads(t, d, name, ino, type)
    BY Zenon DEF Wider
  <1>3. \A d, name, ino, type : Leads(t, d, name, ino, type) =>
          Leads(s, d, name, ino, type) \/ (ino = x /\ type = ty)
    BY Zenon DEF Wider
  <1>4. x # 0 /\ x # -1 /\ x \notin s.inode_bmap /\ \A name, ino, type : ~Leads(t, x, name, ino, type)
    BY Zenon DEF Wider
  <1>5. \A q \in Seq(Names) : dir_is_exists(s, q) \notin {-1, -1} =>
          dir_is_exists(t, q) = dir_is_exists(s, q) /\ TypeOf(t, q) = TypeOf(s, q)
    <2>1. \A name, ino, type : ~Leads(s, -1, name, ino, type)
      BY Indices DEF Leads, Ent
    <2>2. \A d, name, ino, type : Leads(s, d, name, ino, type) /\ ino # -1 => Leads(t, d, name, ino, type)
      BY <1>2, Zenon
    <2>3. -1 # 0
      OBVIOUS
    <2> QED BY <1>1, <2>1, <2>2, <2>3, Keep, Zenon
  <1>6. \A q \in Seq(Names) : dir_is_exists(t, q) \notin {-1, x} =>
          dir_is_exists(s, q) = dir_is_exists(t, q) /\ TypeOf(s, q) = TypeOf(t, q)
    <2>1. \A d, name, ino, type : Leads(t, d, name, ino, type) /\ ino # x => Leads(s, d, name, ino, type)
      <3> SUFFICES ASSUME NEW d, NEW name, NEW ino, NEW type, Leads(t, d, name, ino, type), ino # x
                   PROVE  Leads(s, d, name, ino, type)
        OBVIOUS
      <3> QED BY <1>3
    <2> QED BY <1>1, <1>4, <2>1, Keep, Zenon
  <1>7. ASSUME dir_is_exists(t, p) = x PROVE TypeOf(t, p) = ty
    <2>1. p # <<>>
      BY <1>4, <1>7, ExistsStep
    <2>2. PICK d, c, type : d = dir_is_exists(t, ParentOf(p)) /\ c = ChildOf(p) /\ type = TypeOf(t, p)
      BY Zenon
    <2>3. Leads(t, d, c, x, type)
      BY <1>1, <1>4, <1>7, <2>1, <2>2, PathEntry
    <2>4. ~Leads(s, d, c, x, type)
      BY <1>1, <1>4, LeadsFacts
    <2> QED BY <1>3, <2>2, <2>3, <2>4, Zenon
  <1> QED BY <1>5, <1>6, <1>7

\* The parent a sound path needs is a directory.
LEMMA SoundParent ==
  ASSUME NEW s, Good(s), NEW p \in Seq(Names), p # <<>>, TypeOf(s, ParentOf(p)) # "FILE",
         dir_is_exists(s, ParentOf(p)) # -1
  PROVE  IsDir(s, dir_is_exists(s, ParentOf(p))) /\ ChildOf(p) \in Names
  <1>1. Walkable(s)
    BY DEF Good, Walkable
  <1> QED BY <1>1, ParentFacts, TypeCases

\* sys_mkfile makes a file, or nothing.
LEMMA Mkfile_ ==
  ASSUME NEW s, Good(s), uid \in Users, NEW p \in Seq(Names), p # <<>>,
         TypeOf(s, ParentOf(p)) # "FILE", NEW t, t = sys_mkfile(s, p), ~t.wild
  PROVE  t = s \/ \E x : Wider(s, t, x, "FILE")
  <1>1. PICK d, c : d = dir_is_exists(s, ParentOf(p)) /\ c = ChildOf(p)
    BY Zenon
  <1>2. \/ t = s
        \/ /\ d # -1
           /\ t = create_dir_entry(sync_inode_bitmap(create_inode(s)), d, Entry(c, NextInode(s), "FILE"))
    BY <1>1, Zenon DEF sys_mkfile
  <1>3. d # -1 => IsDir(s, d) /\ c \in Names
    BY <1>1, SoundParent
  <1> QED BY <1>2, <1>3, MakeFile, Zenon

\* sys_mkdir makes a directory, or nothing.
LEMMA Mkdir_ ==
  ASSUME NEW s, Good(s), uid \in Users, NEW p \in Seq(Names), p # <<>>,
         TypeOf(s, ParentOf(p)) # "FILE", NEW t, t = sys_mkdir(s, p), ~t.wild
  PROVE  t = s \/ \E x : Wider(s, t, x, "DIR")
  <1>1. PICK d, c : d = dir_is_exists(s, ParentOf(p)) /\ c = ChildOf(p)
    BY Zenon
  <1>2. \/ t = s
        \/ /\ d # -1
           /\ t = init_child_dir(create_dir_entry(sync_inode_bitmap(create_inode(s)), d,
                                                  Entry(c, NextInode(s), "DIR")),
                                 d, NextInode(s))
    BY <1>1, Zenon DEF sys_mkdir
  <1>3. d # -1 => IsDir(s, d) /\ c \in Names
    BY <1>1, SoundParent
  <1> QED BY <1>2, <1>3, MakeDir, Zenon

-----------------------------------------------------------------------------
(* Giving blocks back. *)

\* Leftover says of a free block that it has no entry.
LEMMA LeftoverFacts ==
  ASSUME NEW B
  PROVE  Leftover(B) \in {DATA, ZeroBlock}
  BY Zenon DEF Leftover

\* free_blocks, block by block.
LEMMA FreeFields ==
  ASSUME NEW s \in Partition, NEW L, NEW t, t = free_blocks(s, L), L \subseteq Lbas, 0 \notin L
  PROVE  /\ t \in Partition
         /\ t.tbl = s.tbl /\ t.inode_bmap = s.inode_bmap /\ t.inode_bitmap = s.inode_bitmap
         /\ t.block_bitmap = s.block_bitmap /\ t.wild = s.wild /\ t.magic = s.magic
         /\ \A b \in Blocks :
              /\ b \in t.block_bmap <=> b \in s.block_bmap /\ DATA_START + b \notin L
              /\ DATA_START + b \in L => t.blk[b] \in {DATA, ZeroBlock}
              /\ DATA_START + b \notin L => t.blk[b] = s.blk[b]
  <1>1. PICK F : F = [b \in Blocks |-> IF DATA_START + b \in L THEN Leftover(s.blk[b]) ELSE s.blk[b]]
    OBVIOUS
  <1>2. PICK M : M = s.block_bmap \ {BlockNo(l) : l \in L}
    OBVIOUS
  <1>3. t = [s EXCEPT !.block_bmap = M, !.blk = F]
    BY <1>1, <1>2, Zenon DEF free_blocks
  <1>4. ASSUME NEW b \in Blocks
        PROVE  /\ F[b] = IF DATA_START + b \in L THEN Leftover(s.blk[b]) ELSE s.blk[b]
               /\ b \in M <=> b \in s.block_bmap /\ DATA_START + b \notin L
    <2>1. b \in {BlockNo(l) : l \in L} <=> DATA_START + b \in L
      BY LbaFacts
    <2> QED BY <1>1, <1>2, <2>1
  <1>5. F \in [Blocks -> [SlotNrs -> Entries] \cup {DATA}]
    <2>1. \A b \in Blocks : Leftover(s.blk[b]) \in [SlotNrs -> Entries] \cup {DATA}
      BY LeftoverFacts, ZeroFacts
    <2>2. \A b \in Blocks : s.blk[b] \in [SlotNrs -> Entries] \cup {DATA}
      BY PartFacts
    <2> QED BY <1>1, <2>1, <2>2
  <1>6. M \subseteq Blocks
    BY <1>2, PartFacts
  <1>7. /\ t \in Partition /\ t.blk = F /\ t.block_bmap = M
        /\ t.tbl = s.tbl /\ t.inode_bmap = s.inode_bmap /\ t.inode_bitmap = s.inode_bitmap
        /\ t.block_bitmap = s.block_bitmap /\ t.wild = s.wild /\ t.magic = s.magic
    BY <1>3, <1>5, <1>6 DEF Partition
  <1> QED BY <1>4, <1>7, LeftoverFacts

\* The lbas of the sectors K of an inode.
LbasAt(s, x, K) == {Lba(s, x, k) : k \in K} \ {0}

\* Released(s, t, x, K): the sectors K of inode x are given back, and the
\* inode with them or not.
Released(s, t, x, K) ==
  /\ \A i : i # x => (i \in t.inode_bmap <=> i \in s.inode_bmap)
  /\ \A i \in Inodes : i # x => t.tbl[i] = s.tbl[i]
  /\ x \in t.inode_bmap =>
       \A k \in SectorNrs : Lba(t, x, k) = IF k \in K THEN 0 ELSE Lba(s, x, k)
  /\ \A b \in Blocks :
       /\ b \in t.block_bmap <=> b \in s.block_bmap /\ DATA_START + b \notin LbasAt(s, x, K)
       /\ DATA_START + b \in LbasAt(s, x, K) => t.blk[b] \in {DATA, ZeroBlock}
       /\ DATA_START + b \notin LbasAt(s, x, K) => t.blk[b] = s.blk[b]

\* Blocks that are given back were no one else's, and the others stay.
LEMMA Release ==
  ASSUME NEW s \in Partition, NEW t \in Partition, Space(s), NEW x \in s.inode_bmap,
         NEW K \in SUBSET SectorNrs, Released(s, t, x, K)
  PROVE  /\ Space(t) /\ Frame(s, t, x)
         /\ x \in t.inode_bmap => \A k \in SectorNrs \ K : Lba(s, x, k) # 0 =>
              Block(t, x, k) = Block(s, x, k)
  <1>1. x \in Inodes /\ Owned(s) /\ FreeClean(s)
    BY PartFacts DEF Space
  <1>2. ASSUME NEW b \in Blocks, DATA_START + b \in LbasAt(s, x, K)
        PROVE  NotOthers(s, x, b)
    <2>1. PICK k \in K : DATA_START + b = Lba(s, x, k)
      BY <1>2 DEF LbasAt
    <2>2. DATA_START + b # 0 /\ BlockNo(DATA_START + b) = b
      BY LbaFacts
    <2> QED BY <1>1, <2>1, <2>2, NotOthersFacts
  <1>3. ASSUME NEW k \in SectorNrs \ K, Lba(s, x, k) # 0
        PROVE  /\ BlockNo(Lba(s, x, k)) \in Blocks /\ BlockNo(Lba(s, x, k)) \in s.block_bmap
               /\ DATA_START + BlockNo(Lba(s, x, k)) \notin LbasAt(s, x, K)
    <2>1. BlockNo(Lba(s, x, k)) \in Blocks /\ BlockNo(Lba(s, x, k)) \in s.block_bmap
          /\ Lba(s, x, k) \in Lbas
      BY <1>1, <1>3, SectorFacts DEF Owned
    <2>2. DATA_START + BlockNo(Lba(s, x, k)) = Lba(s, x, k)
      BY <1>3, <2>1, LbaFacts
    <2>3. ASSUME NEW l \in K, Lba(s, x, l) = Lba(s, x, k) PROVE FALSE
      <3>1. l = k
        BY <1>1, <1>3, <2>3 DEF Owned
      <3> QED BY <1>3, <2>3, <3>1
    <2> QED BY <2>1, <2>2, <2>3 DEF LbasAt
  <1>4. Frame(s, t, x)
    <2>1. \A i : i # x => (i \in t.inode_bmap <=> i \in s.inode_bmap)
      BY Zenon DEF Released
    <2>2. \A i \in s.inode_bmap : i # x => t.tbl[i].sectors = s.tbl[i].sectors
      BY PartFacts DEF Released
    <2>3. \A b \in Blocks : t.blk[b] = s.blk[b] \/ NotOthers(s, x, b)
      BY <1>2, Zenon DEF Released
    <2> QED BY <2>1, <2>2, <2>3, FrameFrom
  <1>5. ASSUME x \in t.inode_bmap, NEW k \in SectorNrs, Lba(t, x, k) # 0
        PROVE  k \notin K /\ Lba(t, x, k) = Lba(s, x, k) /\ Lba(s, x, k) # 0
    BY <1>5 DEF Released
  <1>6. Space(t)
    <2>1. x \in t.inode_bmap => \A k, l \in SectorNrs : Lba(t, x, k) # 0 =>
            /\ BlockNo(Lba(t, x, k)) \in t.block_bmap
            /\ NotOthers(s, x, BlockNo(Lba(t, x, k)))
            /\ Lba(t, x, l) = Lba(t, x, k) => k = l
      <3> SUFFICES ASSUME x \in t.inode_bmap, NEW k \in SectorNrs, NEW l \in SectorNrs, Lba(t, x, k) # 0
                   PROVE  /\ BlockNo(Lba(t, x, k)) \in t.block_bmap
                          /\ NotOthers(s, x, BlockNo(Lba(t, x, k)))
                          /\ Lba(t, x, l) = Lba(t, x, k) => k = l
        OBVIOUS
      <3>1. k \notin K /\ Lba(t, x, k) = Lba(s, x, k) /\ Lba(s, x, k) # 0
        BY <1>5
      <3>2. BlockNo(Lba(s, x, k)) \in t.block_bmap
        BY <1>3, <3>1, Zenon DEF Released
      <3>3. NotOthers(s, x, BlockNo(Lba(s, x, k)))
        BY <1>1, <3>1, NotOthersFacts
      <3>4. ASSUME Lba(t, x, l) = Lba(t, x, k) PROVE k = l
        <4>1. Lba(s, x, l) = Lba(s, x, k)
          BY <1>5, <3>1, <3>4
        <4> QED BY <1>1, <3>1, <4>1 DEF Owned
      <3> QED BY <3>1, <3>2, <3>3, <3>4
    <2>2. \A b \in s.block_bmap : b \notin t.block_bmap => NotOthers(s, x, b)
      BY <1>2, PartFacts DEF Released
    <2>3. \A b \in Blocks : b \notin t.block_bmap => t.blk[b] \in {DATA, ZeroBlock}
      BY <1>1 DEF Released, FreeClean
    <2> QED BY <1>4, <2>1, <2>2, <2>3, SpaceFrame
  <1>7. ASSUME x \in t.inode_bmap, NEW k \in SectorNrs \ K, Lba(s, x, k) # 0
        PROVE  Block(t, x, k) = Block(s, x, k)
    <2>1. Lba(t, x, k) = Lba(s, x, k)
      BY <1>7 DEF Released
    <2>2. t.blk[BlockNo(Lba(s, x, k))] = s.blk[BlockNo(Lba(s, x, k))]
      BY <1>3, <1>7, Zenon DEF Released
    <2> QED BY <2>1, <2>2 DEF Block, Lba
  <1> QED BY <1>4, <1>6, <1>7

-----------------------------------------------------------------------------
(* remove_dir_entry. *)

\* Two steps on the same inode are like one.
LEMMA FrameTwice ==
  ASSUME NEW s, NEW u, NEW t, NEW x, Frame(s, u, x), Frame(u, t, x)
  PROVE  Frame(s, t, x)
  <1>1. \A i : i # x => (i \in t.inode_bmap <=> i \in s.inode_bmap)
    BY Zenon DEF Frame
  <1>2. ASSUME NEW i \in s.inode_bmap, i # x
        PROVE  /\ t.tbl[i].sectors = s.tbl[i].sectors
               /\ \A k \in SectorNrs : Lba(s, i, k) # 0 => Block(t, i, k) = Block(s, i, k)
    <2>1. i \in u.inode_bmap /\ u.tbl[i].sectors = s.tbl[i].sectors /\ t.tbl[i].sectors = u.tbl[i].sectors
      BY <1>2 DEF Frame
    <2>2. ASSUME NEW k \in SectorNrs, Lba(s, i, k) # 0 PROVE Block(t, i, k) = Block(s, i, k)
      <3>1. Lba(u, i, k) # 0
        BY <2>1, <2>2 DEF Lba
      <3>2. Block(u, i, k) = Block(s, i, k)
        BY <1>2, <2>2 DEF Frame
      <3>3. Block(t, i, k) = Block(u, i, k)
        BY <1>2, <2>1, <3>1 DEF Frame
      <3> QED BY <3>2, <3>3
    <2> QED BY <2>1, <2>2
  <1> QED BY <1>1, <1>2, Zenon DEF Frame

\* Removed(s, t, d, x): directory d has lost its entry for inode x, and
\* nothing else.
Removed(s, t, d, x) ==
  /\ Good(t) /\ Frame(s, t, d) /\ IsDir(t, d) /\ t.inode_bmap = s.inode_bmap /\ t.wild = s.wild
  /\ \A i \in Inodes : i # d => t.tbl[i] = s.tbl[i]
  /\ Unnamed(t, x)
  /\ \A d2, name, ino, type : Leads(t, d2, name, ino, type) => Leads(s, d2, name, ino, type)
  /\ \A d2, name, ino, type : Leads(s, d2, name, ino, type) /\ ino # x => Leads(t, d2, name, ino, type)

\* The entries of d are those of s without the one in slot j0 of sector k0.
Without(s, t, d, k0, j0) ==
  \A k, j : /\ Ent(t, d, k, j) <=> Ent(s, d, k, j) /\ ~(k = k0 /\ j = j0)
            /\ Ent(t, d, k, j) => At(t, d, k, j) = At(s, d, k, j)

\* A directory without one of its entries keeps the tree.
LEMMA TreeWithout ==
  ASSUME NEW s, Good(s), NEW t, NEW d, NEW k0, NEW j0, Ent(s, d, k0, j0),
         t \in Partition, Space(t), Synced(t), Frame(s, t, d), IsDir(t, d),
         t.inode_bmap = s.inode_bmap, t.wild = s.wild, \A i \in Inodes : i # d => t.tbl[i] = s.tbl[i],
         Without(s, t, d, k0, j0)
  PROVE  Removed(s, t, d, At(s, d, k0, j0).ino)
  <1>0. Tree(s, -1) /\ Refs(s, -1) /\ Once(s) /\ IsDir(s, 0) /\ IsDir(s, d) /\ d \in t.inode_bmap
    BY DEF Good, Tree, Ent, IsDir
  <1>1. ASSUME NEW i, NEW k, NEW j
        PROVE  /\ Ent(t, i, k, j) <=> Ent(s, i, k, j) /\ ~(i = d /\ k = k0 /\ j = j0)
               /\ Ent(t, i, k, j) => At(t, i, k, j) = At(s, i, k, j)
    <2>1. CASE i = d
      BY <2>1, Zenon DEF Without
    <2>2. CASE i # d
      BY <2>2, FrameFacts
    <2> QED BY <2>1, <2>2
  <1>2. Sub(s, t)
    BY <1>1, Zenon DEF Sub
  <1>3. IsDir(t, 0)
    BY <1>0, FrameFacts
  <1>4. ASSUME NEW i, NEW k, NEW j, Ent(t, i, k, j), At(t, i, k, j).ino = d
        PROVE  d \in t.inode_bmap /\ Fits(t, At(t, i, k, j))
    <2>1. Ent(s, i, k, j) /\ At(t, i, k, j) = At(s, i, k, j)
      BY <1>1, <1>4
    <2>2. d # -1
      BY Indices DEF Ent
    <2>3. Fits(s, At(s, i, k, j))
      BY <1>0, <1>4, <2>1, <2>2 DEF Refs
    <2>4. At(t, i, k, j).type # "FILE"
      BY <1>0, <1>4, <2>1, <2>3, DirOrPlain DEF Fits
    <2> QED BY <1>0, <1>4, <2>4 DEF Fits
  <1>5. Tree(t, -1)
    BY <1>0, <1>2, <1>3, <1>4, TreeSub
  <1>6. Good(t)
    BY <1>5 DEF Good
  <1>7. ASSUME NEW i, NEW k, NEW j, Ent(t, i, k, j), At(t, i, k, j).ino = At(s, d, k0, j0).ino
        PROVE  FALSE
    <2>1. Ent(s, i, k, j) /\ At(t, i, k, j) = At(s, i, k, j) /\ ~(i = d /\ k = k0 /\ j = j0)
      BY <1>1, <1>7
    <2> QED BY <1>0, <1>7, <2>1, Zenon DEF Once
  <1>8. Unnamed(t, At(s, d, k0, j0).ino)
    BY <1>7, Zenon DEF Unnamed
  <1>9. ASSUME NEW d2, NEW name, NEW ino, NEW type, Leads(t, d2, name, ino, type)
        PROVE  Leads(s, d2, name, ino, type)
    <2>1. PICK k, j : /\ Ent(t, d2, k, j) /\ At(t, d2, k, j).name = name
                      /\ At(t, d2, k, j).ino = ino /\ At(t, d2, k, j).type = type
      BY <1>9, Zenon DEF Leads
    <2>2. Ent(s, d2, k, j) /\ At(t, d2, k, j) = At(s, d2, k, j)
      BY <1>1, <2>1
    <2>3. Ent(s, d2, k, j) /\ At(s, d2, k, j).name = name
          /\ At(s, d2, k, j).ino = ino /\ At(s, d2, k, j).type = type
      BY <2>1, <2>2
    <2> QED BY <2>3, Zenon DEF Leads
  <1>10. ASSUME NEW d2, NEW name, NEW ino, NEW type, Leads(s, d2, name, ino, type),
                ino # At(s, d, k0, j0).ino
         PROVE  Leads(t, d2, name, ino, type)
    <2>1. PICK k, j : /\ Ent(s, d2, k, j) /\ At(s, d2, k, j).name = name
                      /\ At(s, d2, k, j).ino = ino /\ At(s, d2, k, j).type = type
      BY <1>10, Zenon DEF Leads
    <2>2. ~(d2 = d /\ k = k0 /\ j = j0)
      BY <1>10, <2>1
    <2>3. Ent(t, d2, k, j) /\ At(t, d2, k, j) = At(s, d2, k, j)
      BY <1>1, <2>1, <2>2
    <2>4. Ent(t, d2, k, j) /\ At(t, d2, k, j).name = name
          /\ At(t, d2, k, j).ino = ino /\ At(t, d2, k, j).type = type
      BY <2>1, <2>3
    <2> QED BY <2>4, Zenon DEF Leads
  <1> QED BY <1>6, <1>8, <1>9, <1>10, Zenon DEF Removed

\* Directory d has a sector less, but the same entries.
Shrunk(s, t, d) ==
  /\ t \in Partition /\ Space(t) /\ Synced(t) /\ Frame(s, t, d) /\ IsDir(t, d)
  /\ t.inode_bmap = s.inode_bmap /\ t.wild = s.wild
  /\ \A i \in Inodes : i # d => t.tbl[i] = s.tbl[i]
  /\ \A k, j : /\ Ent(t, d, k, j) <=> Ent(s, d, k, j)
               /\ Ent(t, d, k, j) => At(t, d, k, j) = At(s, d, k, j)

\* remove_dir_entry after the entry is cleared, when a sector has no name left.
LEMMA Shrink ==
  ASSUME NEW s \in Partition, Space(s), Synced(s), NEW d, IsDir(s, d), NEW i0 \in SectorNrs,
         Lba(s, d, i0) # 0, NamedIn(Block(s, d, i0)) = {}, NEW t,
         t = sync_inode(sync_block_bitmap(free_blocks(s, {Lba(s, d, i0)})), d,
                        [s.tbl[d] EXCEPT !.sectors[i0] = 0])
  PROVE  Shrunk(s, t, d)
  <1>0. d \in s.inode_bmap /\ d \in Inodes
    BY PartFacts DEF IsDir
  <1>1. PICK u, v, D : /\ u = free_blocks(s, {Lba(s, d, i0)}) /\ v = sync_block_bitmap(u)
                       /\ D = [s.tbl[d] EXCEPT !.sectors[i0] = 0]
    BY Zenon
  <1>2. Lba(s, d, i0) \in Lbas /\ Block(s, d, i0) # DATA /\ Block(s, d, i0) \in [SlotNrs -> Entries]
    BY <1>0, SectorFacts DEF IsDir
  <1>3. /\ u \in Partition
        /\ u.tbl = s.tbl /\ u.inode_bmap = s.inode_bmap /\ u.inode_bitmap = s.inode_bitmap
        /\ u.block_bitmap = s.block_bitmap /\ u.wild = s.wild
        /\ \A b \in Blocks :
             /\ b \in u.block_bmap <=> b \in s.block_bmap /\ DATA_START + b \notin {Lba(s, d, i0)}
             /\ DATA_START + b \in {Lba(s, d, i0)} => u.blk[b] \in {DATA, ZeroBlock}
             /\ DATA_START + b \notin {Lba(s, d, i0)} => u.blk[b] = s.blk[b]
    <2>1. {Lba(s, d, i0)} \subseteq Lbas /\ 0 \notin {Lba(s, d, i0)}
      BY <1>2
    <2> QED BY <1>1, <2>1, FreeFields
  <1>4. s.tbl \in [Inodes -> Inode] /\ s.tbl[d] \in Inode /\ s.tbl[d].sectors \in [SectorNrs -> Lbas]
    BY <1>0, PartFacts
  <1>5. D \in Inode /\ D.sectors = [s.tbl[d].sectors EXCEPT ![i0] = 0]
    BY <1>1, <1>4, LbaFacts DEF Inode
  <1>6. t = [v EXCEPT !.tbl[d] = D]
    BY <1>1, Zenon DEF sync_inode
  <1>7. v = [u EXCEPT !.block_bitmap = u.block_bmap]
    BY <1>1, Zenon DEF sync_block_bitmap
  <1>8. [s.tbl EXCEPT ![d] = D] \in [Inodes -> Inode] /\ u.block_bmap \subseteq Blocks
    BY <1>3, <1>4, <1>5, PartFacts
  <1>9. /\ t \in Partition /\ t.blk = u.blk /\ t.block_bmap = u.block_bmap /\ t.block_bitmap = u.block_bmap
        /\ t.inode_bmap = s.inode_bmap /\ t.inode_bitmap = s.inode_bitmap /\ t.wild = s.wild
        /\ t.tbl = [s.tbl EXCEPT ![d] = D]
    <2>1. /\ v \in Partition /\ v.blk = u.blk /\ v.block_bmap = u.block_bmap /\ v.block_bitmap = u.block_bmap
          /\ v.inode_bmap = u.inode_bmap /\ v.inode_bitmap = u.inode_bitmap /\ v.wild = u.wild
          /\ v.tbl = u.tbl
      BY <1>3, <1>7, <1>8 DEF Partition
    <2>2. [v.tbl EXCEPT ![d] = D] \in [Inodes -> Inode]
      BY <1>3, <1>8, <2>1
    <2>3. /\ t \in Partition /\ t.blk = v.blk /\ t.block_bmap = v.block_bmap /\ t.block_bitmap = v.block_bitmap
          /\ t.inode_bmap = v.inode_bmap /\ t.inode_bitmap = v.inode_bitmap /\ t.wild = v.wild
          /\ t.tbl = [v.tbl EXCEPT ![d] = D]
      BY <1>6, <2>1, <2>2 DEF Partition
    <2> QED BY <1>3, <2>1, <2>3
  <1>10. t.tbl[d] = D /\ \A i \in Inodes : i # d => t.tbl[i] = s.tbl[i]
    BY <1>0, <1>4, <1>9
  <1>11. \A k \in SectorNrs : Lba(t, d, k) = IF k = i0 THEN 0 ELSE Lba(s, d, k)
    BY <1>4, <1>5, <1>10 DEF Lba
  <1>12. LbasAt(s, d, {i0}) = {Lba(s, d, i0)}
    BY DEF LbasAt
  <1>13. Released(s, t, d, {i0})
    <2>1. \A i : i # d => (i \in t.inode_bmap <=> i \in s.inode_bmap)
      BY <1>9
    <2>2. d \in t.inode_bmap =>
            \A k \in SectorNrs : Lba(t, d, k) = IF k \in {i0} THEN 0 ELSE Lba(s, d, k)
      BY <1>11
    <2>3. \A b \in Blocks :
            /\ b \in t.block_bmap <=> b \in s.block_bmap /\ DATA_START + b \notin LbasAt(s, d, {i0})
            /\ DATA_START + b \in LbasAt(s, d, {i0}) => t.blk[b] \in {DATA, ZeroBlock}
            /\ DATA_START + b \notin LbasAt(s, d, {i0}) => t.blk[b] = s.blk[b]
      BY <1>3, <1>9, <1>12
    <2> QED BY <1>10, <2>1, <2>2, <2>3, Zenon DEF Released
  <1>14. /\ Space(t) /\ Frame(s, t, d)
         /\ d \in t.inode_bmap => \A k \in SectorNrs \ {i0} : Lba(s, d, k) # 0 =>
              Block(t, d, k) = Block(s, d, k)
    <2>1. PICK K : K = {i0}
      OBVIOUS
    <2>2. K \in SUBSET SectorNrs
      BY <2>1
    <2>3. Released(s, t, d, K)
      BY <1>13, <2>1
    <2>4. Space(t) /\ Frame(s, t, d)
      BY <1>0, <1>9, <2>2, <2>3, Release
    <2>5. d \in t.inode_bmap => \A k \in SectorNrs \ K : Lba(s, d, k) # 0 => Block(t, d, k) = Block(s, d, k)
      <3> SUFFICES ASSUME d \in t.inode_bmap, NEW k \in SectorNrs \ K, Lba(s, d, k) # 0
                   PROVE  Block(t, d, k) = Block(s, d, k)
        OBVIOUS
      <3> QED BY <1>0, <1>9, <2>2, <2>3, Release
    <2> QED BY <2>1, <2>4, <2>5
  <1>15. \A j \in SlotNrs : At(s, d, i0, j) = FREE
    BY <1>2 DEF NamedIn, At
  <1>16. i0 # 0
    <2>1. ASSUME i0 = 0 PROVE FALSE
      <3>1. At(s, d, 0, 0) = FREE
        BY <1>15, <2>1, Indices
      <3>2. At(s, d, 0, 0).name = ""
        BY <3>1, ZeroFacts
      <3> QED BY <3>2 DEF IsDir
    <2> QED BY <2>1
  <1>17. ASSUME NEW k \in SectorNrs, k # i0, Lba(s, d, k) # 0
         PROVE  /\ Lba(t, d, k) = Lba(s, d, k) /\ Block(t, d, k) = Block(s, d, k)
                /\ \A j : At(t, d, k, j) = At(s, d, k, j)
    BY <1>0, <1>9, <1>11, <1>14, <1>17 DEF At
  <1>18. IsDir(t, d)
    <2>1. d \in t.inode_bmap
      BY <1>0, <1>9
    <2>2. /\ Lba(s, d, 0) # 0 /\ Lba(t, d, 0) = Lba(s, d, 0)
          /\ At(t, d, 0, 0) = At(s, d, 0, 0) /\ At(t, d, 0, 1) = At(s, d, 0, 1)
      BY <1>16, <1>17, Indices DEF IsDir
    <2>3. \A k \in SectorNrs : Lba(t, d, k) # 0 => Block(t, d, k) # DATA
      BY <1>11, <1>17 DEF IsDir
    <2> QED BY <2>1, <2>2, <2>3 DEF IsDir
  <1>19. ASSUME NEW k, NEW j
         PROVE  /\ Ent(t, d, k, j) <=> Ent(s, d, k, j)
                /\ Ent(t, d, k, j) => At(t, d, k, j) = At(s, d, k, j)
    <2>1. CASE k \in SectorNrs /\ k # i0 /\ Lba(s, d, k) # 0
      BY <1>17, <1>18, <2>1 DEF Ent
    <2>2. CASE k \in SectorNrs /\ k # i0 /\ Lba(s, d, k) = 0
      BY <1>11, <2>2 DEF Ent
    <2>3. CASE k = i0
      <3>1. ~Ent(t, d, k, j)
        BY <1>11, <2>3 DEF Ent
      <3>2. ~Ent(s, d, k, j)
        BY <1>15, <2>3, ZeroFacts, NamesAssumption DEF Ent
      <3> QED BY <3>1, <3>2
    <2>4. CASE k \notin SectorNrs
      BY <2>4 DEF Ent
    <2> QED BY <2>1, <2>2, <2>3, <2>4
  <1>20. Synced(t)
    BY <1>9 DEF Synced
  <1> QED BY <1>9, <1>10, <1>14, <1>18, <1>19, <1>20, Zenon DEF Shrunk

\* remove_dir_entry takes the entry with this name away.
LEMMA Remove ==
  ASSUME NEW s, Good(s), NEW d, NEW name, NEW x, NEW type, Leads(s, d, name, x, type),
         NEW t, t = remove_dir_entry(s, d, name)
  PROVE  Removed(s, t, d, x)
  <1>0. s \in Partition /\ Space(s) /\ Tree(s, -1) /\ Synced(s) /\ Walkable(s) /\ Once(s)
    BY DEF Good, Walkable, Tree
  <1>1. IsDir(s, d) /\ d \in Inodes /\ name \in Names /\ d \in s.inode_bmap
    BY <1>0, LeadsFacts DEF IsDir
  <1>2. PICK k1, j1 : /\ Ent(s, d, k1, j1) /\ At(s, d, k1, j1).name = name
                      /\ At(s, d, k1, j1).ino = x
    BY Zenon DEF Leads
  <1>3. Slot(s, d, k1, j1, name)
    BY <1>0, <1>1, <1>2, SlotIsEntry
  <1>4. PICK found : found = Places(s, s.tbl[d], name)
    OBVIOUS
  <1>5. found # {}
    BY <1>3, <1>4, FirstPlace, Zenon
  <1>6. PICK n : n = Min(found)
    OBVIOUS
  <1>7. PICK k0, j0 : k0 = n \div SLOTS /\ j0 = n % SLOTS
    BY Zenon
  <1>8. n \in 0 .. (NSEC * SLOTS) - 1 /\ Slot(s, d, k0, j0, name)
    BY <1>4, <1>5, <1>6, <1>7, FirstPlace, Zenon
  <1>9. Ent(s, d, k0, j0) /\ At(s, d, k0, j0).name = name
    BY <1>0, <1>1, <1>8, SlotIsEntry
  <1>10. At(s, d, k0, j0).ino = x /\ k0 \in SectorNrs /\ j0 \in SlotNrs
    <2>1. k0 = k1 /\ j0 = j1
      BY <1>0, <1>2, <1>9, Zenon DEF Once
    <2> QED BY <1>2, <1>9, <2>1 DEF Ent
  <1>11. PICK u : u = PutEntry(s, s.tbl[d], n, FREE)
    OBVIOUS
  <1>12. Put(s, u, d, k0, j0, FREE)
    BY <1>0, <1>1, <1>7, <1>8, <1>11, ZeroFacts, PutIt
  <1>13. IsDir(u, d) /\ SameBut(s, u, d, k0, j0)
    BY <1>0, <1>1, <1>9, <1>10, <1>12, PutDir, NamesAssumption
  <1>14. /\ u \in Partition /\ Space(u) /\ Frame(s, u, d) /\ u.tbl = s.tbl
         /\ u.inode_bmap = s.inode_bmap /\ u.wild = s.wild
         /\ At(u, d, k0, j0) = FREE
    BY <1>12, Zenon DEF Put
  <1>15. Synced(u)
    BY <1>0, <1>12 DEF Put, Synced
  <1>16. ~Ent(u, d, k0, j0)
    BY <1>14, ZeroFacts, NamesAssumption DEF Ent
  <1>17. ASSUME NEW k, NEW j
         PROVE  /\ Ent(u, d, k, j) <=> Ent(s, d, k, j) /\ ~(k = k0 /\ j = j0)
                /\ Ent(u, d, k, j) => At(u, d, k, j) = At(s, d, k, j)
    BY <1>13, <1>16, Zenon DEF SameBut
  <1>18. PICK empty : empty = {i \in SectorNrs :
                                 /\ i >= n \div SLOTS /\ s.tbl[d].sectors[i] # 0
                                 /\ read_block(u, s.tbl[d].sectors[i]) # DATA
                                 /\ NamedIn(read_block(u, s.tbl[d].sectors[i])) = {}}
    OBVIOUS
  <1>19. CASE empty = {}
    <2>1. t = u
      BY <1>4, <1>5, <1>6, <1>11, <1>18, <1>19, Zenon DEF remove_dir_entry, ino2inode
    <2>2. Without(s, u, d, k0, j0)
      BY <1>17, Zenon DEF Without
    <2>3. \A i \in Inodes : i # d => u.tbl[i] = s.tbl[i]
      BY <1>14
    <2> QED BY <1>9, <1>10, <1>13, <1>14, <1>15, <2>1, <2>2, <2>3, TreeWithout
  <1>20. CASE empty # {}
    <2>1. PICK i0 : i0 = Min(empty)
      OBVIOUS
    <2>2. i0 \in SectorNrs /\ Lba(u, d, i0) # 0 /\ NamedIn(Block(u, d, i0)) = {}
      <3>1. empty \subseteq Nat
        BY <1>18, Indices
      <3>2. i0 \in empty
        BY <1>20, <2>1, <3>1, MinIsLeast
      <3>3. i0 \in SectorNrs /\ s.tbl[d].sectors[i0] # 0 /\ NamedIn(read_block(u, s.tbl[d].sectors[i0])) = {}
        BY <1>18, <3>2, Zenon
      <3> QED BY <1>14, <3>3 DEF Lba, Block, read_block
    <2>3. t = sync_inode(sync_block_bitmap(free_blocks(u, {s.tbl[d].sectors[i0]})), d,
                         [s.tbl[d] EXCEPT !.sectors[i0] = 0])
      BY <1>4, <1>5, <1>6, <1>11, <1>18, <1>20, <2>1, Zenon DEF remove_dir_entry, ino2inode
    <2>4. t = sync_inode(sync_block_bitmap(free_blocks(u, {Lba(u, d, i0)})), d,
                         [u.tbl[d] EXCEPT !.sectors[i0] = 0])
      BY <1>14, <2>3 DEF Lba
    <2>5. /\ t \in Partition /\ Space(t) /\ Synced(t) /\ Frame(u, t, d) /\ IsDir(t, d)
          /\ t.inode_bmap = u.inode_bmap /\ t.wild = u.wild
          /\ \A i \in Inodes : i # d => t.tbl[i] = u.tbl[i]
          /\ \A k, j : /\ Ent(t, d, k, j) <=> Ent(u, d, k, j)
                       /\ Ent(t, d, k, j) => At(t, d, k, j) = At(u, d, k, j)
      <3>1. Shrunk(u, t, d)
        BY <1>13, <1>14, <1>15, <2>2, <2>4, Shrink
      <3> QED BY <3>1, Zenon DEF Shrunk
    <2>6. Without(s, t, d, k0, j0)
      <3> SUFFICES ASSUME NEW k, NEW j
                   PROVE  /\ Ent(t, d, k, j) <=> Ent(s, d, k, j) /\ ~(k = k0 /\ j = j0)
                          /\ Ent(t, d, k, j) => At(t, d, k, j) = At(s, d, k, j)
        BY Zenon DEF Without
      <3> QED BY <1>17, <2>5
    <2>7. Frame(s, t, d)
      BY <1>14, <2>5, FrameTwice
    <2>8. t.inode_bmap = s.inode_bmap /\ t.wild = s.wild /\ \A i \in Inodes : i # d => t.tbl[i] = s.tbl[i]
      BY <1>14, <2>5
    <2> QED BY <1>9, <1>10, <2>5, <2>6, <2>7, <2>8, TreeWithout
  <1> QED BY <1>19, <1>20

-----------------------------------------------------------------------------
(* sys_rmdir and sys_rmfile. *)

\* sync_inode, field by field.
LEMMA SyncInode ==
  ASSUME NEW s \in Partition, NEW x \in Inodes, NEW D \in Inode, NEW t, t = sync_inode(s, x, D)
  PROVE  /\ t \in Partition /\ t.tbl[x] = D /\ \A i \in Inodes : i # x => t.tbl[i] = s.tbl[i]
         /\ t.blk = s.blk /\ t.block_bmap = s.block_bmap /\ t.block_bitmap = s.block_bitmap
         /\ t.inode_bmap = s.inode_bmap /\ t.inode_bitmap = s.inode_bitmap
         /\ t.wild = s.wild /\ t.magic = s.magic
  <1>1. t = [s EXCEPT !.tbl[x] = D]
    BY Zenon DEF sync_inode
  <1>2. s.tbl \in [Inodes -> Inode]
    BY PartFacts
  <1>3. [s.tbl EXCEPT ![x] = D] \in [Inodes -> Inode]
    BY <1>2
  <1>4. /\ t \in Partition /\ t.tbl = [s.tbl EXCEPT ![x] = D]
        /\ t.blk = s.blk /\ t.block_bmap = s.block_bmap /\ t.block_bitmap = s.block_bitmap
        /\ t.inode_bmap = s.inode_bmap /\ t.inode_bitmap = s.inode_bitmap
        /\ t.wild = s.wild /\ t.magic = s.magic
    BY <1>1, <1>3 DEF Partition
  <1>5. t.tbl[x] = D /\ \A i \in Inodes : i # x => t.tbl[i] = s.tbl[i]
    BY <1>2, <1>4
  <1> QED BY <1>4, <1>5

\* sync_block_bitmap, field by field.
LEMMA SyncBlocks ==
  ASSUME NEW s \in Partition, NEW t, t = sync_block_bitmap(s)
  PROVE  /\ t \in Partition /\ t.tbl = s.tbl
         /\ t.blk = s.blk /\ t.block_bmap = s.block_bmap /\ t.block_bitmap = s.block_bmap
         /\ t.inode_bmap = s.inode_bmap /\ t.inode_bitmap = s.inode_bitmap
         /\ t.wild = s.wild /\ t.magic = s.magic
  <1>1. t = [s EXCEPT !.block_bitmap = s.block_bmap]
    BY Zenon DEF sync_block_bitmap
  <1>2. s.block_bmap \subseteq Blocks
    BY PartFacts
  <1> QED BY <1>1, <1>2 DEF Partition

\* free_inode and sync_inode_bitmap, field by field.
LEMMA FreeInode ==
  ASSUME NEW s \in Partition, NEW x \in Inodes, NEW t, t = sync_inode_bitmap(free_inode(s, x))
  PROVE  /\ t \in Partition /\ \A i \in Inodes : i # x => t.tbl[i] = s.tbl[i]
         /\ t.blk = s.blk /\ t.block_bmap = s.block_bmap /\ t.block_bitmap = s.block_bitmap
         /\ t.inode_bmap = s.inode_bmap \ {x} /\ t.inode_bitmap = t.inode_bmap
         /\ t.wild = s.wild /\ t.magic = s.magic
  <1>1. PICK u : u = free_inode(s, x)
    OBVIOUS
  <1>2. u = [s EXCEPT !.inode_bmap = s.inode_bmap \ {x}, !.tbl[x] = ZeroInode]
    BY <1>1, Zenon DEF free_inode
  <1>3. ZeroInode \in Inode
    <2>1. NoSectors \in [SectorNrs -> Lbas]
      BY LbaFacts DEF NoSectors
    <2>2. 0 \in Nat
      OBVIOUS
    <2>3. 0 \in Users /\ {} \in SUBSET Bits
      BY UsersAssumption
    <2> QED BY <2>1, <2>2, <2>3 DEF ZeroInode, Inode
  <1>4. s.tbl \in [Inodes -> Inode] /\ s.inode_bmap \ {x} \subseteq Inodes
    BY PartFacts
  <1>5. [s.tbl EXCEPT ![x] = ZeroInode] \in [Inodes -> Inode]
    BY <1>3, <1>4
  <1>6. /\ u \in Partition /\ u.tbl = [s.tbl EXCEPT ![x] = ZeroInode]
        /\ u.blk = s.blk /\ u.block_bmap = s.block_bmap /\ u.block_bitmap = s.block_bitmap
        /\ u.inode_bmap = s.inode_bmap \ {x} /\ u.wild = s.wild /\ u.magic = s.magic
    BY <1>2, <1>4, <1>5 DEF Partition
  <1>7. t = [u EXCEPT !.inode_bitmap = u.inode_bmap]
    BY <1>1, Zenon DEF sync_inode_bitmap
  <1>8. /\ t \in Partition /\ t.tbl = u.tbl
        /\ t.blk = u.blk /\ t.block_bmap = u.block_bmap /\ t.block_bitmap = u.block_bitmap
        /\ t.inode_bmap = u.inode_bmap /\ t.inode_bitmap = u.inode_bmap /\ t.wild = u.wild
        /\ t.magic = u.magic
    BY <1>4, <1>6, <1>7 DEF Partition
  <1>9. \A i \in Inodes : i # x => u.tbl[i] = s.tbl[i]
    BY <1>4, <1>6
  <1> QED BY <1>6, <1>8, <1>9

\* What holds for the open files after a step on the inodes X: every other
\* file is as it was.
Kept(s, t, X) ==
  /\ Good(t)
  /\ \A i : IsPlain(s, i) /\ i \notin X =>
       /\ IsPlain(t, i)
       /\ t.tbl[i].sectors = s.tbl[i].sectors /\ t.tbl[i].size = s.tbl[i].size

\* What holds for the paths after a step that takes the name of y away.
PathsKept(s, t, y) ==
  \A p \in Seq(Names) : dir_is_exists(s, p) \notin {-1, y} =>
    dir_is_exists(t, p) = dir_is_exists(s, p) /\ TypeOf(t, p) = TypeOf(s, p)

\* An inode that has no name is given back, with sectors or without.
LEMMA FreeIt ==
  ASSUME NEW s, Good(s), NEW t \in Partition, NEW x \in s.inode_bmap, NEW K \in SUBSET SectorNrs,
         Released(s, t, x, K), x \notin t.inode_bmap, x # 0, Unnamed(s, x), Synced(t),
         \A name, ino, type : ~Leads(s, x, name, ino, type)
  PROVE  /\ Good(t) /\ Frame(s, t, x)
         /\ \A d, name, ino, type : Leads(s, d, name, ino, type) => Leads(t, d, name, ino, type)
  <1>0. s \in Partition /\ Space(s) /\ Tree(s, -1)
    BY DEF Good
  <1>1. Space(t) /\ Frame(s, t, x)
    BY <1>0, Release
  <1>2. ~IsDir(t, x)
    BY DEF IsDir
  <1>3. Tree(t, -1)
    BY <1>0, <1>1, <1>2, TreeFile
  <1>4. Good(t)
    BY <1>1, <1>3 DEF Good
  <1>5. ASSUME NEW d, NEW name, NEW ino, NEW type, Leads(s, d, name, ino, type)
        PROVE  Leads(t, d, name, ino, type)
    <2>1. d # x
      BY <1>5, Zenon
    <2> QED BY <1>0, <1>1, <1>2, <1>5, <2>1, TreeFile
  <1> QED BY <1>1, <1>4, <1>5, Zenon

\* A name is taken away, and the inode it had given back: the other paths and
\* the other files stay.
LEMMA Drop ==
  ASSUME NEW s, Good(s), NEW u, NEW t, NEW d, NEW x, IsDir(s, d), Removed(s, u, d, x),
         t \in Partition, x \in s.inode_bmap, NEW K \in SUBSET SectorNrs, Released(u, t, x, K),
         x \notin t.inode_bmap, x # 0, Synced(t), \A name, ino, type : ~Leads(s, x, name, ino, type)
  PROVE  Kept(s, t, {x}) /\ PathsKept(s, t, x)
  <1>1. Good(u) /\ Frame(s, u, d) /\ IsDir(u, d) /\ u.inode_bmap = s.inode_bmap /\ Unnamed(u, x)
    BY Zenon DEF Removed
  <1>2. \A name, ino, type : ~Leads(u, x, name, ino, type)
    BY Zenon DEF Removed
  <1>3. x \in u.inode_bmap
    BY <1>1
  <1>4. Good(t) /\ Frame(u, t, x)
    BY <1>1, <1>2, <1>3, FreeIt
  <1>5. \A d2, name, ino, type : Leads(u, d2, name, ino, type) => Leads(t, d2, name, ino, type)
    BY <1>1, <1>2, <1>3, FreeIt, Zenon
  <1>6. ASSUME NEW i, IsPlain(s, i), i \notin {x}
        PROVE  /\ IsPlain(t, i)
               /\ t.tbl[i].sectors = s.tbl[i].sectors /\ t.tbl[i].size = s.tbl[i].size
    <2>1. i # d
      BY <1>6, DirOrPlain
    <2>2. IsPlain(u, i) /\ i \in Inodes
      BY <1>1, <1>6, <2>1, FrameFacts, PartFacts DEF IsPlain, Good
    <2>3. u.tbl[i] = s.tbl[i]
      BY <2>1, <2>2 DEF Removed
    <2>4. t.tbl[i] = u.tbl[i]
      BY <1>6, <2>2 DEF Released
    <2>5. IsPlain(t, i)
      BY <1>4, <1>6, <2>2, FrameFacts
    <2> QED BY <2>3, <2>4, <2>5
  <1>7. Kept(s, t, {x})
    BY <1>4, <1>6, Zenon DEF Kept
  <1>8. \A d2, name, ino, type : Leads(s, d2, name, ino, type) /\ ino # x => Leads(t, d2, name, ino, type)
    BY <1>5, Zenon DEF Removed
  <1>9. Walkable(s) /\ Walkable(t)
    BY <1>4 DEF Good, Walkable
  <1>10. PathsKept(s, t, x)
    BY <1>8, <1>9, Keep, Zenon DEF PathsKept
  <1> QED BY <1>7, <1>10

\* A step that changes nothing keeps everything.
LEMMA KeptSelf ==
  ASSUME NEW s, Good(s), NEW X, NEW y
  PROVE  Kept(s, s, X) /\ PathsKept(s, s, y)
  BY Zenon DEF Kept, PathsKept

\* sys_rmdir takes the directory at a path away, or does nothing.
LEMMA Rmdir_ ==
  ASSUME NEW s, Good(s), NEW p \in Seq(Names), p # <<>>, TypeOf(s, p) \in {"DIR", "NONE"},
         NEW t, t = sys_rmdir(s, p), ~t.wild
  PROVE  \E x : ~IsPlain(s, x) /\ Kept(s, t, {x}) /\ PathsKept(s, t, x)
  <1>0. s \in Partition /\ Walkable(s) /\ Synced(s)
    BY DEF Good, Walkable
  <1>1. PICK x, d, c, type : /\ x = dir_is_exists(s, p) /\ d = dir_is_exists(s, ParentOf(p))
                             /\ c = ChildOf(p) /\ type = TypeOf(s, p)
    BY Zenon
  <1>2. x # -1 /\ s.tbl[x].sectors[0] # 0
    <2>1. Wild(s).wild = TRUE
      BY <1>0 DEF Wild, Partition
    <2>2. x = -1 \/ s.tbl[x].sectors[0] = 0 => t = Wild(s)
      BY <1>1, Zenon DEF sys_rmdir, ino2inode
    <2> QED BY <2>1, <2>2
  <1>3. IsDir(s, x) /\ x \in Inodes
    BY <1>0, <1>1, <1>2, TypeCases
  <1>4. ~IsPlain(s, x)
    BY <1>3, DirOrPlain
  <1>5. CASE t = s
    BY <1>4, <1>5, KeptSelf, Zenon
  <1>6. CASE t # s
    <2>1. PICK u : u = remove_dir_entry(s, d, c)
      OBVIOUS
    <2>2. dir_is_empty(s, x) /\ t = sync_inode_bitmap(free_inode(u, x))
      BY <1>1, <1>2, <1>6, <2>1, Zenon DEF sys_rmdir, ino2inode
    <2>3. Leads(s, d, c, x, type)
      BY <1>0, <1>1, <1>2, PathEntry
    <2>4. x # 0 /\ x \in s.inode_bmap /\ IsDir(s, d)
      BY <1>0, <2>3, LeadsFacts
    <2>5. ASSUME NEW name, NEW ino, NEW ty, Leads(s, x, name, ino, ty) PROVE FALSE
      <3>1. PICK k, j : Ent(s, x, k, j)
        BY <2>5, Zenon DEF Leads
      <3>2. k \in SectorNrs /\ j \in SlotNrs /\ Lba(s, x, k) # 0 /\ At(s, x, k, j).name \in Names
        BY <3>1 DEF Ent
      <3>3. /\ NamedIn(Block(s, x, 0)) \subseteq {0, 1}
            /\ \A i \in SectorNrs \ {0} : Lba(s, x, i) = 0
        BY <2>2, Zenon DEF dir_is_empty, ino2inode, read_block, Block, Lba
      <3>4. k = 0
        BY <3>2, <3>3
      <3>5. Block(s, x, 0) # DATA /\ At(s, x, k, j) # FREE
        BY <1>3, <3>2, ZeroFacts, NamesAssumption, Indices DEF IsDir
      <3>6. j \in NamedIn(Block(s, x, 0))
        BY <3>2, <3>4, <3>5 DEF NamedIn, At
      <3>7. j \in {0, 1}
        BY <3>3, <3>6
      <3> QED BY <1>3, <3>2, <3>4, <3>7, NamesAssumption DEF IsDir
    <2>6. Removed(s, u, d, x)
      BY <2>1, <2>3, Remove
    <2>7. Good(u) /\ u \in Partition /\ Synced(u) /\ u.inode_bmap = s.inode_bmap
      BY <2>6 DEF Removed, Good
    <2>8. /\ t \in Partition /\ \A i \in Inodes : i # x => t.tbl[i] = u.tbl[i]
          /\ t.blk = u.blk /\ t.block_bmap = u.block_bmap /\ t.block_bitmap = u.block_bitmap
          /\ t.inode_bmap = u.inode_bmap \ {x} /\ t.inode_bitmap = t.inode_bmap
      BY <1>3, <2>2, <2>7, FreeInode
    <2>9. Synced(t) /\ x \notin t.inode_bmap
      BY <2>7, <2>8 DEF Synced
    <2>10. PICK K : K = {}
      OBVIOUS
    <2>11. Released(u, t, x, K)
      <3>1. LbasAt(u, x, K) = {}
        BY <2>10 DEF LbasAt
      <3> QED BY <2>8, <2>9, <3>1 DEF Released
    <2>12. K \in SUBSET SectorNrs
      BY <2>10
    <2>13. Kept(s, t, {x}) /\ PathsKept(s, t, x)
      BY <2>4, <2>5, <2>6, <2>8, <2>9, <2>11, <2>12, Drop
    <2> QED BY <1>4, <2>13, Zenon
  <1> QED BY <1>5, <1>6

\* free_inode_sectors gives back all sectors of an inode.
LEMMA FreeSectors ==
  ASSUME NEW s \in Partition, NEW x \in Inodes, NEW t, t = free_inode_sectors(s, s.tbl[x])
  PROVE  /\ t \in Partition
         /\ t.tbl = s.tbl /\ t.inode_bmap = s.inode_bmap /\ t.inode_bitmap = s.inode_bitmap
         /\ t.block_bitmap = t.block_bmap /\ t.wild = s.wild
         /\ \A b \in Blocks :
              /\ b \in t.block_bmap <=> b \in s.block_bmap /\ DATA_START + b \notin LbasAt(s, x, SectorNrs)
              /\ DATA_START + b \in LbasAt(s, x, SectorNrs) => t.blk[b] \in {DATA, ZeroBlock}
              /\ DATA_START + b \notin LbasAt(s, x, SectorNrs) => t.blk[b] = s.blk[b]
  <1>1. PICK L, u : L = LbasAt(s, x, SectorNrs) /\ u = free_blocks(s, L)
    BY Zenon
  <1>2. SectorsOf(s.tbl[x]) = L
    BY <1>1 DEF SectorsOf, LbasAt, Lba
  <1>3. L \subseteq Lbas /\ 0 \notin L
    BY <1>1, SectorFacts DEF LbasAt
  <1>4. /\ u \in Partition
        /\ u.tbl = s.tbl /\ u.inode_bmap = s.inode_bmap /\ u.inode_bitmap = s.inode_bitmap
        /\ u.wild = s.wild
        /\ \A b \in Blocks :
              /\ b \in u.block_bmap <=> b \in s.block_bmap /\ DATA_START + b \notin L
              /\ DATA_START + b \in L => u.blk[b] \in {DATA, ZeroBlock}
              /\ DATA_START + b \notin L => u.blk[b] = s.blk[b]
    BY <1>1, <1>3, FreeFields
  <1>5. t = sync_block_bitmap(u)
    BY <1>1, <1>2, Zenon DEF free_inode_sectors
  <1>6. /\ t \in Partition /\ t.tbl = u.tbl
        /\ t.blk = u.blk /\ t.block_bmap = u.block_bmap /\ t.block_bitmap = u.block_bmap
        /\ t.inode_bmap = u.inode_bmap /\ t.inode_bitmap = u.inode_bitmap
        /\ t.wild = u.wild
    BY <1>4, <1>5, SyncBlocks
  <1> QED BY <1>1, <1>4, <1>6

\* sys_rmfile takes the file at a path away, or does nothing.
LEMMA Rmfile_ ==
  ASSUME NEW s, Good(s), NEW p \in Seq(Names), p # <<>>, TypeOf(s, p) \in {"FILE", "NONE"},
         NEW t, t = sys_rmfile(s, p), ~t.wild
  PROVE  LET x == dir_is_exists(s, p) IN Kept(s, t, {x}) /\ PathsKept(s, t, x)
  <1>0. s \in Partition /\ Walkable(s) /\ Synced(s)
    BY DEF Good, Walkable
  <1>1. PICK x, d, c, type : /\ x = dir_is_exists(s, p) /\ d = dir_is_exists(s, ParentOf(p))
                             /\ c = ChildOf(p) /\ type = TypeOf(s, p)
    BY Zenon
  <1>5. CASE t = s
    BY <1>1, <1>5, KeptSelf, Zenon
  <1>6. CASE t # s
    <2>1. PICK u : u = remove_dir_entry(s, d, c)
      OBVIOUS
    <2>2. PICK v : v = free_inode_sectors(u, s.tbl[x])
      OBVIOUS
    <2>3. x # -1 /\ t = sync_inode_bitmap(free_inode(v, x))
      BY <1>1, <1>6, <2>1, <2>2, Zenon DEF sys_rmfile, ino2inode
    <2>4. IsPlain(s, x) /\ x \in Inodes
      BY <1>0, <1>1, <2>3, TypeCases
    <2>5. Leads(s, d, c, x, type)
      BY <1>0, <1>1, <2>3, PathEntry
    <2>6. x # 0 /\ x \in s.inode_bmap /\ IsDir(s, d) /\ x # d
      BY <1>0, <2>4, <2>5, LeadsFacts, DirOrPlain
    <2>7. ASSUME NEW name, NEW ino, NEW ty, Leads(s, x, name, ino, ty) PROVE FALSE
      BY <1>0, <2>4, <2>7, LeadsFacts, DirOrPlain
    <2>8. Removed(s, u, d, x)
      BY <2>1, <2>5, Remove
    <2>9. Good(u) /\ u \in Partition /\ Synced(u) /\ u.inode_bmap = s.inode_bmap /\ u.tbl[x] = s.tbl[x]
      BY <2>4, <2>6, <2>8 DEF Removed, Good
    <2>10. /\ v \in Partition
           /\ v.tbl = u.tbl /\ v.inode_bmap = u.inode_bmap /\ v.inode_bitmap = u.inode_bitmap
           /\ v.block_bitmap = v.block_bmap
      BY <2>2, <2>4, <2>9, FreeSectors
    <2>11. \A b \in Blocks :
             /\ b \in v.block_bmap <=> b \in u.block_bmap /\ DATA_START + b \notin LbasAt(u, x, SectorNrs)
             /\ DATA_START + b \in LbasAt(u, x, SectorNrs) => v.blk[b] \in {DATA, ZeroBlock}
             /\ DATA_START + b \notin LbasAt(u, x, SectorNrs) => v.blk[b] = u.blk[b]
      BY <2>2, <2>4, <2>9, FreeSectors
    <2>12. /\ t \in Partition /\ \A i \in Inodes : i # x => t.tbl[i] = v.tbl[i]
           /\ t.blk = v.blk /\ t.block_bmap = v.block_bmap /\ t.block_bitmap = v.block_bitmap
           /\ t.inode_bmap = v.inode_bmap \ {x} /\ t.inode_bitmap = t.inode_bmap
      BY <2>3, <2>4, <2>10, FreeInode
    <2>13. Synced(t) /\ x \notin t.inode_bmap
      BY <2>10, <2>12 DEF Synced
    <2>14. Released(u, t, x, SectorNrs)
      <3>1. \A i : i # x => (i \in t.inode_bmap <=> i \in u.inode_bmap)
        BY <2>10, <2>12
      <3>2. \A i \in Inodes : i # x => t.tbl[i] = u.tbl[i]
        BY <2>10, <2>12
      <3>3. \A b \in Blocks :
             /\ b \in t.block_bmap <=> b \in u.block_bmap /\ DATA_START + b \notin LbasAt(u, x, SectorNrs)
             /\ DATA_START + b \in LbasAt(u, x, SectorNrs) => t.blk[b] \in {DATA, ZeroBlock}
             /\ DATA_START + b \notin LbasAt(u, x, SectorNrs) => t.blk[b] = u.blk[b]
        BY <2>11, <2>12
      <3> QED BY <2>13, <3>1, <3>2, <3>3, Zenon DEF Released
    <2>15. PICK K : K = SectorNrs
      OBVIOUS
    <2>16. K \in SUBSET SectorNrs /\ Released(u, t, x, K)
      BY <2>14, <2>15
    <2>17. Kept(s, t, {x}) /\ PathsKept(s, t, x)
      BY <2>6, <2>7, <2>8, <2>12, <2>13, <2>16, Drop
    <2> QED BY <1>1, <2>17, Zenon
  <1> QED BY <1>5, <1>6

-----------------------------------------------------------------------------
(* Giving blocks to a file. *)

\* One sector further in GiveBlocks.
GiveStep(r, k, at) ==
  LET lba == DATA_START + NextBlock(r.s)
  IN  IF k - 1 \notin at THEN r
      ELSE [s |-> allocate_block(r.s),
            inode |-> [r.inode EXCEPT !.sectors[k - 1] = lba]]

\* A function that GiveBlocks may have built on its way.
IsGive(s, inode, at, f) ==
  /\ GiveBlocks(s, inode, at) = f[NSEC]
  /\ f[0] = [s |-> s, inode |-> inode]
  /\ \A k \in 1 .. NSEC : f[k] = GiveStep(f[k - 1], k, at)

\* The function of GiveBlocks exists: it is defined sector after sector.
LEMMA GiveUnfold ==
  ASSUME NEW s, NEW inode, NEW at
  PROVE  \E f : IsGive(s, inode, at, f)
  <1> DEFINE Start == [s |-> s, inode |-> inode]
             Body(f, n) == [i \in 0 .. n |-> IF i = 0 THEN Start ELSE GiveStep(f[i - 1], i, at)]
             S == {n \in Nat : \E f : f = Body(f, n)}
  <1> HIDE DEF Start
  <1>1. 0 \in S
    <2>1. [i \in 0 .. 0 |-> Start] = Body([i \in 0 .. 0 |-> Start], 0)
      OBVIOUS
    <2> QED BY <2>1
  <1>2. ASSUME NEW n \in Nat, n \in S
        PROVE  n + 1 \in S
    <2>1. PICK f : f = Body(f, n)
      BY <1>2
    <2> DEFINE g == [i \in 0 .. n + 1 |-> IF i = 0 THEN Start ELSE GiveStep(f[i - 1], i, at)]
    <2>2. \A i \in 0 .. n : g[i] = f[i]
      <3> SUFFICES ASSUME NEW i \in 0 .. n PROVE g[i] = f[i]
        OBVIOUS
      <3>1. f[i] = IF i = 0 THEN Start ELSE GiveStep(f[i - 1], i, at)
        BY <2>1
      <3> QED BY <3>1
    <2>3. \A i \in 0 .. n + 1 : i # 0 => g[i - 1] = f[i - 1]
      <3> HIDE DEF g
      <3>1. \A i \in 0 .. n + 1 : i # 0 => i - 1 \in 0 .. n
        OBVIOUS
      <3> QED BY <2>2, <3>1, Zenon
    <2>4. \A i \in 0 .. n + 1 : g[i] = IF i = 0 THEN Start ELSE GiveStep(g[i - 1], i, at)
      <3> SUFFICES ASSUME NEW i \in 0 .. n + 1
                   PROVE  g[i] = IF i = 0 THEN Start ELSE GiveStep(g[i - 1], i, at)
        OBVIOUS
      <3>1. g[i] = IF i = 0 THEN Start ELSE GiveStep(f[i - 1], i, at)
        OBVIOUS
      <3> HIDE DEF g
      <3> QED BY <2>3, <3>1
    <2>5. g = [i \in 0 .. n + 1 |-> g[i]]
      OBVIOUS
    <2> HIDE DEF g
    <2>6. g = Body(g, n + 1)
      BY <2>4, <2>5
    <2> QED BY <2>6
  <1> HIDE DEF S
  <1>3. NSEC \in S
    BY <1>1, <1>2, NatSet, SizesAssumption
  <1> DEFINE h == CHOOSE f : f = Body(f, NSEC)
  <1>4. h = Body(h, NSEC)
    BY <1>3 DEF S
  <1>5. GiveBlocks(s, inode, at) = h[NSEC]
    BY Zenon DEF GiveBlocks, GiveStep, Start
  <1> HIDE DEF h
  <1>6. h[0] = Start /\ \A k \in 1 .. NSEC : h[k] = GiveStep(h[k - 1], k, at)
    <2>1. \A i \in 0 .. NSEC : h[i] = IF i = 0 THEN Start ELSE GiveStep(h[i - 1], i, at)
      BY <1>4
    <2> QED BY <2>1, SizesAssumption
  <1>7. IsGive(s, inode, at, h)
    BY <1>5, <1>6, Zenon DEF IsGive, Start
  <1> QED BY <1>7, Zenon

\* What GiveBlocks has done to the sectors K: each has a block that was free,
\* and no two the same; the other sectors are as they were.
Given(s, inode, K, r) ==
  /\ r.s \in Partition /\ r.inode \in Inode /\ r.inode.size = inode.size
  /\ r.s.tbl = s.tbl /\ r.s.blk = s.blk /\ r.s.wild = s.wild /\ r.s.magic = s.magic
  /\ r.s.inode_bmap = s.inode_bmap /\ r.s.inode_bitmap = s.inode_bitmap
  /\ r.s.block_bitmap = s.block_bitmap /\ s.block_bmap \subseteq r.s.block_bmap
  /\ \A k \in SectorNrs \ K : r.inode.sectors[k] = inode.sectors[k]
  /\ \A k \in K : /\ r.inode.sectors[k] # 0
                  /\ BlockNo(r.inode.sectors[k]) \in r.s.block_bmap \ s.block_bmap
  /\ \A k, l \in K : r.inode.sectors[k] = r.inode.sectors[l] => k = l

\* One more sector gets a block.
LEMMA GiveOne ==
  ASSUME NEW s \in Partition, NEW inode \in Inode, NEW K \in SUBSET SectorNrs, NEW r, Given(s, inode, K, r),
         NEW k0 \in SectorNrs \ K, NEW q,
         q = [s |-> allocate_block(r.s),
              inode |-> [r.inode EXCEPT !.sectors[k0] = DATA_START + NextBlock(r.s)]],
         ~q.s.wild
  PROVE  Given(s, inode, K \cup {k0}, q)
  <1>1. PICK u, b, D : /\ u = r.s /\ b = NextBlock(u)
                       /\ D = [r.inode EXCEPT !.sectors[k0] = DATA_START + b]
    BY Zenon
  <1>2. q.s = allocate_block(u) /\ q.inode = D
    BY <1>1
  <1>3. u \in Partition /\ r.inode \in Inode
    BY <1>1 DEF Given
  <1>4. b \in Blocks /\ b \notin u.block_bmap /\ q.s = [u EXCEPT !.block_bmap = @ \cup {b}]
    BY <1>1, <1>2, <1>3, Allocated
  <1>5. DATA_START + b \in Lbas /\ DATA_START + b # 0 /\ BlockNo(DATA_START + b) = b
    BY <1>4, LbaFacts
  <1>6. u.block_bmap \subseteq Blocks
    BY <1>3, PartFacts
  <1>7. /\ q.s \in Partition /\ q.s.block_bmap = u.block_bmap \cup {b}
        /\ q.s.tbl = u.tbl /\ q.s.blk = u.blk /\ q.s.wild = u.wild /\ q.s.magic = u.magic
        /\ q.s.inode_bmap = u.inode_bmap /\ q.s.inode_bitmap = u.inode_bitmap
        /\ q.s.block_bitmap = u.block_bitmap
    BY <1>3, <1>4, <1>6 DEF Partition
  <1>8. r.inode.sectors \in [SectorNrs -> Lbas]
    BY <1>3 DEF Inode
  <1>9. /\ D \in Inode /\ D.size = r.inode.size /\ D.sectors = [r.inode.sectors EXCEPT ![k0] = DATA_START + b]
    BY <1>1, <1>3, <1>5, <1>8 DEF Inode
  <1>10. D.sectors[k0] = DATA_START + b /\ \A k \in SectorNrs : k # k0 => D.sectors[k] = r.inode.sectors[k]
    BY <1>8, <1>9
  <1>11. /\ u.tbl = s.tbl /\ u.blk = s.blk /\ u.wild = s.wild /\ u.magic = s.magic
         /\ u.inode_bmap = s.inode_bmap /\ u.inode_bitmap = s.inode_bitmap
         /\ u.block_bitmap = s.block_bitmap /\ s.block_bmap \subseteq u.block_bmap
         /\ r.inode.size = inode.size
    BY <1>1 DEF Given
  <1>12. \A k \in SectorNrs \ (K \cup {k0}) : D.sectors[k] = inode.sectors[k]
    BY <1>10 DEF Given
  <1>13. ASSUME NEW k \in K
         PROVE  /\ D.sectors[k] = r.inode.sectors[k] /\ r.inode.sectors[k] # 0
                /\ BlockNo(r.inode.sectors[k]) \in u.block_bmap \ s.block_bmap
    BY <1>1, <1>10 DEF Given
  <1>14. \A k \in K \cup {k0} : D.sectors[k] # 0 /\ BlockNo(D.sectors[k]) \in q.s.block_bmap \ s.block_bmap
    BY <1>4, <1>5, <1>7, <1>10, <1>11, <1>13
  <1>15. ASSUME NEW k \in K PROVE D.sectors[k] # D.sectors[k0]
    BY <1>4, <1>5, <1>10, <1>13
  <1>16. ASSUME NEW k \in K \cup {k0}, NEW l \in K \cup {k0}, D.sectors[k] = D.sectors[l] PROVE k = l
    <2>1. CASE k \in K /\ l \in K
      BY <1>13, <1>16, <2>1 DEF Given
    <2>2. CASE k = k0 \/ l = k0
      BY <1>15, <1>16, <2>2
    <2> QED BY <2>1, <2>2
  <1>17. s.block_bmap \subseteq q.s.block_bmap
    BY <1>7, <1>11
  <1>18. /\ q.s.tbl = s.tbl /\ q.s.blk = s.blk /\ q.s.wild = s.wild /\ q.s.magic = s.magic
         /\ q.s.inode_bmap = s.inode_bmap /\ q.s.inode_bitmap = s.inode_bitmap
         /\ q.s.block_bitmap = s.block_bitmap /\ q.inode.size = inode.size
    BY <1>2, <1>7, <1>9, <1>11
  <1>19. \A k, l \in K \cup {k0} : D.sectors[k] = D.sectors[l] => k = l
    BY <1>16
  <1>20. q.s \in Partition /\ q.inode \in Inode
    BY <1>2, <1>7, <1>9
  <1>21. /\ \A k \in SectorNrs \ (K \cup {k0}) : q.inode.sectors[k] = inode.sectors[k]
         /\ \A k \in K \cup {k0} : /\ q.inode.sectors[k] # 0
                                  /\ BlockNo(q.inode.sectors[k]) \in q.s.block_bmap \ s.block_bmap
         /\ \A k, l \in K \cup {k0} : q.inode.sectors[k] = q.inode.sectors[l] => k = l
    BY <1>2, <1>12, <1>14, <1>19, Zenon
  <1> QED BY <1>17, <1>18, <1>20, <1>21, Zenon DEF Given

\* GiveBlocks gives every sector of a set a block of its own, or is wild.
LEMMA GiveAll ==
  ASSUME NEW s \in Partition, NEW inode \in Inode, NEW at \in SUBSET SectorNrs, NEW r,
         r = GiveBlocks(s, inode, at)
  PROVE  Ups(s, r.s) /\ (~r.s.wild => Given(s, inode, at, r))
  <1>1. PICK f : IsGive(s, inode, at, f)
    BY GiveUnfold, Zenon
  <1>2. r = f[NSEC] /\ f[0] = [s |-> s, inode |-> inode]
    BY <1>1, Zenon DEF IsGive
  <1>3. \A k \in 1 .. NSEC : f[k] = GiveStep(f[k - 1], k, at)
    BY <1>1, Zenon DEF IsGive
  <1>4. Flagged(s)
    BY DEF Flagged, Partition
  <1>a. \A i \in at : i \in SectorNrs /\ i \in Nat /\ i < NSEC
    BY SizesAssumption DEF SectorNrs
  <1> DEFINE Below(k) == {i \in at : i < k}
             OK(k) == Ups(s, f[k].s) /\ (~f[k].s.wild => Given(s, inode, Below(k), f[k]))
             S == {n \in Nat : n <= NSEC => OK(n)}
  <1>5. 0 \in S
    <2>1. f[0].s = s /\ f[0].inode = inode
      BY <1>2
    <2>2. Below(0) = {}
      BY <1>a
    <2>3. Given(s, inode, {}, f[0])
      BY <2>1 DEF Given
    <2>4. Ups(s, f[0].s)
      BY <2>1 DEF Ups
    <2> QED BY <2>2, <2>3, <2>4
  <1>6. ASSUME NEW n \in Nat, n \in S PROVE n + 1 \in S
    <2> SUFFICES ASSUME n + 1 <= NSEC PROVE OK(n + 1)
      OBVIOUS
    <2>1. OK(n)
      BY <1>6, SizesAssumption
    <2>2. n + 1 \in 1 .. NSEC /\ (n + 1) - 1 = n /\ n \in SectorNrs
      BY SizesAssumption DEF SectorNrs
    <2> HIDE DEF OK, S
    <2>3. f[n + 1] = GiveStep(f[n], n + 1, at)
      BY <1>3, <2>2
    <2>4. CASE n \notin at
      <3>1. f[n + 1] = f[n]
        BY <2>2, <2>3, <2>4 DEF GiveStep
      <3>2. Below(n + 1) = Below(n)
        BY <1>a, <2>4
      <3> QED BY <2>1, <3>1, <3>2 DEF OK
    <2>5. CASE n \in at
      <3>1. PICK g, q : g = f[n] /\ q = f[n + 1]
        BY Zenon
      <3>2. q = [s |-> allocate_block(g.s),
                 inode |-> [g.inode EXCEPT !.sectors[n] = DATA_START + NextBlock(g.s)]]
        BY <2>2, <2>3, <2>5, <3>1 DEF GiveStep
      <3>3. q.s = allocate_block(g.s)
        BY <3>2
      <3>4. Ups(s, g.s) /\ (~g.s.wild => Given(s, inode, Below(n), g))
        BY <2>1, <3>1 DEF OK
      <3>5. Ups(g.s, q.s)
        BY <3>3, UpsSteps, Zenon
      <3>6. Ups(s, q.s)
        BY <3>4, <3>5, UpsTwice
      <3>7. ASSUME ~q.s.wild PROVE Given(s, inode, Below(n + 1), q)
        <4>1. ~g.s.wild
          BY <1>4, <3>4, <3>5, <3>7 DEF Ups, Flagged
        <4>2. \A i \in Below(n) : i \in SectorNrs /\ i # n
          BY <1>a
        <4>3. Below(n + 1) = Below(n) \cup {n}
          <5>1. \A i \in at : i < n + 1 <=> i < n \/ i = n
            BY <1>a
          <5>2. \A i : i \in Below(n + 1) <=> i \in Below(n) \/ i = n
            BY <2>5, <5>1
          <5> HIDE DEF Below
          <5> QED BY <5>2
        <4> HIDE DEF Below
        <4>4. Below(n) \in SUBSET SectorNrs /\ n \in SectorNrs \ Below(n)
          BY <2>2, <4>2
        <4>5. Given(s, inode, Below(n), g)
          BY <3>4, <4>1
        <4>6. Given(s, inode, Below(n) \cup {n}, q)
          BY <3>2, <3>7, <4>4, <4>5, GiveOne
        <4> QED BY <4>3, <4>6
      <3> QED BY <3>1, <3>6, <3>7 DEF OK
    <2> QED BY <2>4, <2>5
  <1> HIDE DEF S, OK
  <1>7. NSEC \in S
    BY <1>5, <1>6, NatSet, SizesAssumption
  <1>8. OK(NSEC)
    BY <1>7, SizesAssumption DEF S
  <1>9. Below(NSEC) = at
    BY <1>a
  <1> HIDE DEF Below
  <1> QED BY <1>2, <1>8, <1>9 DEF OK

\* Rewritten(s, t, x): file x has sectors of before and new ones, some of them
\* written; the blocks of before are still allocated.
Rewritten(s, t, x) ==
  /\ t.inode_bmap = s.inode_bmap /\ s.block_bmap \subseteq t.block_bmap
  /\ \A i \in Inodes : i # x => t.tbl[i] = s.tbl[i]
  /\ \A k \in SectorNrs : \/ Lba(t, x, k) = 0 \/ Lba(t, x, k) = Lba(s, x, k)
                          \/ BlockNo(Lba(t, x, k)) \in t.block_bmap \ s.block_bmap
  /\ \A k, l \in SectorNrs : Lba(t, x, k) # 0 /\ Lba(t, x, k) = Lba(t, x, l) => k = l
  /\ \A b \in Blocks : \/ t.blk[b] = s.blk[b]
                       \/ /\ t.blk[b] \in {DATA, ZeroBlock}
                          /\ \E k \in SectorNrs : Lba(t, x, k) # 0 /\ b = BlockNo(Lba(t, x, k))

\* A file that is rewritten is a file, and the other inodes stay.
LEMMA Rewrite ==
  ASSUME NEW s \in Partition, NEW t \in Partition, NEW x, Space(s), IsPlain(s, x), Rewritten(s, t, x)
  PROVE  Space(t) /\ Frame(s, t, x) /\ IsPlain(t, x) /\ ~IsDir(t, x)
  <1>1. x \in s.inode_bmap /\ x \in Inodes /\ Owned(s) /\ FreeClean(s) /\ x \in t.inode_bmap
    BY PartFacts DEF IsPlain, Space, Rewritten
  <1>2. ASSUME NEW k \in SectorNrs, Lba(t, x, k) # 0
        PROVE  /\ BlockNo(Lba(t, x, k)) \in Blocks /\ BlockNo(Lba(t, x, k)) \in t.block_bmap
               /\ NotOthers(s, x, BlockNo(Lba(t, x, k)))
               /\ s.blk[BlockNo(Lba(t, x, k))] \in {DATA, ZeroBlock}
    <2>1. BlockNo(Lba(t, x, k)) \in Blocks
      BY <1>1, <1>2, SectorFacts
    <2>2. CASE Lba(t, x, k) = Lba(s, x, k)
      <3>1. BlockNo(Lba(s, x, k)) \in s.block_bmap
        BY <1>1, <1>2, <2>2 DEF Owned
      <3>2. BlockNo(Lba(s, x, k)) \in t.block_bmap
        BY <3>1 DEF Rewritten
      <3>3. Block(s, x, k) \in {DATA, ZeroBlock}
        BY <1>2, <2>2 DEF IsPlain
      <3>4. NotOthers(s, x, BlockNo(Lba(s, x, k)))
        BY <1>1, <1>2, <2>2, NotOthersFacts
      <3> QED BY <2>1, <2>2, <3>2, <3>3, <3>4 DEF Block, Lba
    <2>3. CASE BlockNo(Lba(t, x, k)) \in t.block_bmap \ s.block_bmap
      <3>1. NotOthers(s, x, BlockNo(Lba(t, x, k)))
        BY <1>1, <2>3, NotOthersFacts
      <3>2. s.blk[BlockNo(Lba(t, x, k))] \in {DATA, ZeroBlock}
        BY <1>1, <2>1, <2>3 DEF FreeClean
      <3> QED BY <2>1, <2>3, <3>1, <3>2
    <2> QED BY <1>2, <2>2, <2>3 DEF Rewritten
  <1>3. ASSUME NEW b \in Blocks
        PROVE  \/ t.blk[b] = s.blk[b]
               \/ t.blk[b] \in {DATA, ZeroBlock} /\ NotOthers(s, x, b)
    <2>1. CASE t.blk[b] # s.blk[b]
      <3>1. PICK k \in SectorNrs : t.blk[b] \in {DATA, ZeroBlock} /\ Lba(t, x, k) # 0 /\ b = BlockNo(Lba(t, x, k))
        BY <2>1, Zenon DEF Rewritten
      <3> QED BY <1>2, <3>1
    <2> QED BY <2>1
  <1>4. Frame(s, t, x)
    <2>1. \A i : i # x => (i \in t.inode_bmap <=> i \in s.inode_bmap)
      BY DEF Rewritten
    <2>2. \A i \in s.inode_bmap : i # x => t.tbl[i].sectors = s.tbl[i].sectors
      BY PartFacts DEF Rewritten
    <2>3. \A b \in Blocks : t.blk[b] = s.blk[b] \/ NotOthers(s, x, b)
      BY <1>3
    <2> QED BY <2>1, <2>2, <2>3, FrameFrom
  <1>5. Space(t)
    <2>1. x \in t.inode_bmap => \A k, l \in SectorNrs : Lba(t, x, k) # 0 =>
            /\ BlockNo(Lba(t, x, k)) \in t.block_bmap
            /\ NotOthers(s, x, BlockNo(Lba(t, x, k)))
            /\ Lba(t, x, l) = Lba(t, x, k) => k = l
      BY <1>2 DEF Rewritten
    <2>2. \A b \in s.block_bmap : b \notin t.block_bmap => NotOthers(s, x, b)
      BY DEF Rewritten
    <2>3. \A b \in Blocks : b \notin t.block_bmap => t.blk[b] \in {DATA, ZeroBlock}
      BY <1>1, <1>3 DEF FreeClean, Rewritten
    <2> QED BY <1>4, <2>1, <2>2, <2>3, SpaceFrame
  <1>6. IsPlain(t, x)
    <2>1. ASSUME NEW k \in SectorNrs, Lba(t, x, k) # 0 PROVE Block(t, x, k) \in {DATA, ZeroBlock}
      <3>1. t.blk[BlockNo(Lba(t, x, k))] \in {DATA, ZeroBlock}
        BY <1>2, <1>3, <2>1
      <3> QED BY <3>1 DEF Block, Lba
    <2> QED BY <1>1, <2>1, Zenon DEF IsPlain
  <1> QED BY <1>4, <1>5, <1>6, DirOrPlain

\* Every entry of s is an entry of t.
LeadsKept(s, t) ==
  \A d, name, ino, type : Leads(s, d, name, ino, type) => Leads(t, d, name, ino, type)

\* A step on a file that stays a file keeps the tree.
LEMMA FileStep ==
  ASSUME NEW s \in Partition, NEW t, NEW x, Tree(s, -1), Frame(s, t, x), IsPlain(s, x), IsPlain(t, x)
  PROVE  Tree(t, -1) /\ LeadsKept(s, t) /\ x \in Inodes /\ x # 0 /\ x # -1
  <1>1. x \in Inodes /\ x # 0 /\ x # -1
    BY PartFacts, Indices, DirOrPlain DEF IsPlain, Tree
  <1>2. ~IsDir(t, x)
    BY DirOrPlain
  <1>3. Tree(t, -1)
    BY <1>1, <1>2, TreeFile
  <1>4. ASSUME NEW d, NEW name, NEW ino, NEW type, Leads(s, d, name, ino, type)
        PROVE  Leads(t, d, name, ino, type)
    <2>1. IsDir(s, d)
      BY <1>4 DEF Leads, Ent
    <2>2. d # x
      BY <2>1, DirOrPlain
    <2> QED BY <1>1, <1>2, <1>4, <2>2, TreeFile
  <1> QED BY <1>1, <1>3, <1>4, Zenon DEF LeadsKept

\* When every entry is kept, every path is.
LEMMA SamePaths ==
  ASSUME NEW s, NEW t, Walkable(s), Walkable(t), LeadsKept(s, t)
  PROVE  PathsKept(s, t, -1)
  <1>1. \A name, ino, type : ~Leads(s, -1, name, ino, type)
    BY Indices DEF Leads, Ent
  <1>2. \A d, name, ino, type : Leads(s, d, name, ino, type) /\ ino # -1 => Leads(t, d, name, ino, type)
    BY Zenon DEF LeadsKept
  <1>3. -1 # 0
    OBVIOUS
  <1> QED BY <1>1, <1>2, <1>3, Keep, Zenon DEF PathsKept

\* The inodes other than x are as they were.
OthersStay(s, t, x) == \A i \in Inodes : i # x => t.tbl[i] = s.tbl[i]

\* What a file holds was written, if at all, to blocks that these sectors name.
WrittenIn(s, t, sectors) ==
  \A b \in Blocks : \/ t.blk[b] = s.blk[b]
                    \/ t.blk[b] \in {DATA, ZeroBlock} /\ \E k \in SectorNrs : DATA_START + b = sectors[k]

\* A file that gets blocks is rewritten.
LEMMA GivenRewritten ==
  ASSUME NEW s \in Partition, Space(s), NEW x, IsPlain(s, x), NEW D \in Inode, D.sectors = s.tbl[x].sectors,
         NEW at \in SUBSET SectorNrs, NEW r, Given(s, D, at, r), NEW t \in Partition,
         t.block_bmap = r.s.block_bmap, t.inode_bmap = s.inode_bmap, t.tbl[x].sectors = r.inode.sectors,
         OthersStay(s, t, x), WrittenIn(s, t, r.inode.sectors)
  PROVE  Rewritten(s, t, x)
  <1>a. \A i \in Inodes : i # x => t.tbl[i] = s.tbl[i]
    BY Zenon DEF OthersStay
  <1>b. \A b \in Blocks : \/ t.blk[b] = s.blk[b]
                          \/ t.blk[b] \in {DATA, ZeroBlock} /\ \E k \in SectorNrs : DATA_START + b = r.inode.sectors[k]
    BY Zenon DEF WrittenIn
  <1>1. x \in s.inode_bmap /\ x \in Inodes /\ Owned(s)
    BY PartFacts DEF IsPlain, Space
  <1>2. \A k \in SectorNrs : Lba(t, x, k) = r.inode.sectors[k] /\ D.sectors[k] = Lba(s, x, k)
    BY DEF Lba
  <1>3. s.block_bmap \subseteq t.block_bmap
    BY DEF Given
  <1>4. ASSUME NEW k \in SectorNrs
        PROVE  /\ k \in at => Lba(t, x, k) # 0 /\ BlockNo(Lba(t, x, k)) \in t.block_bmap \ s.block_bmap
               /\ k \notin at => Lba(t, x, k) = Lba(s, x, k)
    BY <1>2 DEF Given
  <1>5. ASSUME NEW k \in SectorNrs
        PROVE  \/ Lba(t, x, k) = 0 \/ Lba(t, x, k) = Lba(s, x, k)
               \/ BlockNo(Lba(t, x, k)) \in t.block_bmap \ s.block_bmap
    BY <1>4
  <1>6. ASSUME NEW k \in SectorNrs, NEW l \in SectorNrs, Lba(t, x, k) # 0, Lba(t, x, k) = Lba(t, x, l)
        PROVE  k = l
    <2>1. CASE k \in at /\ l \in at
      BY <1>2, <1>6, <2>1 DEF Given
    <2>2. CASE k \notin at /\ l \notin at
      BY <1>1, <1>4, <1>6, <2>2 DEF Owned
    <2>3. CASE k \in at /\ l \notin at
      <3>1. BlockNo(Lba(s, x, l)) \in s.block_bmap
        BY <1>1, <1>4, <1>6, <2>3 DEF Owned
      <3> QED BY <1>4, <1>6, <2>3, <3>1
    <2>4. CASE k \notin at /\ l \in at
      <3>1. BlockNo(Lba(s, x, k)) \in s.block_bmap
        BY <1>1, <1>4, <1>6, <2>4 DEF Owned
      <3> QED BY <1>4, <1>6, <2>4, <3>1
    <2> QED BY <2>1, <2>2, <2>3, <2>4
  <1>7. ASSUME NEW b \in Blocks
        PROVE  \/ t.blk[b] = s.blk[b]
               \/ /\ t.blk[b] \in {DATA, ZeroBlock}
                  /\ \E k \in SectorNrs : Lba(t, x, k) # 0 /\ b = BlockNo(Lba(t, x, k))
    <2>1. DATA_START + b # 0 /\ BlockNo(DATA_START + b) = b
      BY LbaFacts
    <2>2. ASSUME NEW k \in SectorNrs, DATA_START + b = r.inode.sectors[k]
          PROVE  Lba(t, x, k) # 0 /\ b = BlockNo(Lba(t, x, k))
      BY <1>2, <2>1, <2>2
    <2> QED BY <1>b, <2>2
  <1> QED BY <1>3, <1>5, <1>6, <1>7, <1>a, Zenon DEF Rewritten

\* write_disk, field by field.
LEMMA WriteDisk ==
  ASSUME NEW s \in Partition, NEW L, NEW t, t = write_disk(s, L)
  PROVE  /\ t \in Partition /\ t.tbl = s.tbl
         /\ t.block_bmap = s.block_bmap /\ t.block_bitmap = s.block_bitmap
         /\ t.inode_bmap = s.inode_bmap /\ t.inode_bitmap = s.inode_bitmap
         /\ t.wild = s.wild /\ t.magic = s.magic
         /\ \A b \in Blocks : /\ DATA_START + b \in L => t.blk[b] = DATA
                              /\ DATA_START + b \notin L => t.blk[b] = s.blk[b]
  <1>1. PICK F : F = [b \in Blocks |-> IF DATA_START + b \in L THEN DATA ELSE s.blk[b]]
    OBVIOUS
  <1>2. t = [s EXCEPT !.blk = F]
    BY <1>1, Zenon DEF write_disk
  <1>3. F \in [Blocks -> [SlotNrs -> Entries] \cup {DATA}]
    <2>1. \A b \in Blocks : s.blk[b] \in [SlotNrs -> Entries] \cup {DATA}
      BY PartFacts
    <2> QED BY <1>1, <2>1
  <1>4. /\ t \in Partition /\ t.tbl = s.tbl /\ t.blk = F
        /\ t.block_bmap = s.block_bmap /\ t.block_bitmap = s.block_bitmap
        /\ t.inode_bmap = s.inode_bmap /\ t.inode_bitmap = s.inode_bitmap
        /\ t.wild = s.wild /\ t.magic = s.magic
    BY <1>2, <1>3 DEF Partition
  <1>5. \A b \in Blocks : /\ DATA_START + b \in L => F[b] = DATA
                          /\ DATA_START + b \notin L => F[b] = s.blk[b]
    BY <1>1
  <1> QED BY <1>4, <1>5

\* The size that a write leaves.
LEMMA SizeIsNat ==
  ASSUME NEW D \in Inode, NEW count \in Nat, NEW append \in BOOLEAN
  PROVE  SizeAfter(D, count, append) \in Nat
  <1>1. D.size \in Nat
    BY DEF Inode
  <1> QED BY <1>1 DEF SizeAfter

\* What write_file does to the partition and to the copy of the inode: file x
\* has another inode, which the copy equals, and everything else stays.
WroteTo(s, w, x) ==
  /\ Kept(s, w.s, {x}) /\ PathsKept(s, w.s, -1)
  /\ IsPlain(w.s, x) /\ w.s.tbl[x] = w.inode /\ w.inode \in Inode

\* write_file on a file whose copy has the sectors and the size of the inode.
LEMMA Write_ ==
  ASSUME NEW s, Good(s), NEW x, IsPlain(s, x), NEW D \in Inode,
         D.sectors = s.tbl[x].sectors, D.size = s.tbl[x].size,
         NEW count \in Nat, NEW append \in BOOLEAN,
         NEW w, w = write_file(s, x, D, count, append), ~w.s.wild
  PROVE  WroteTo(s, w, x)
  <1>0. s \in Partition /\ Space(s) /\ Tree(s, -1) /\ Synced(s) /\ Flagged(s) /\ Walkable(s)
    BY DEF Good, Flagged, Partition, Walkable
  <1>1. x \in s.inode_bmap /\ x \in Inodes
    BY <1>0, PartFacts DEF IsPlain
  <1>2. PICK need : need = {i \in SectorNrs : /\ i \in StartSector(D, append) .. SectorCnts(D, count, append)
                                              /\ D.sectors[i] = 0}
    OBVIOUS
  <1>3. PICK r : r = GiveBlocks(s, D, need)
    OBVIOUS
  <1>4. PICK s0 : s0 = sync_inode(r.s, x, r.inode)
    OBVIOUS
  <1>5. PICK s1 : s1 = sync_block_bitmap(s0)
    OBVIOUS
  <1>6. PICK written : written = {r.inode.sectors[i] : i \in WrittenSectors(D, count, append)}
    OBVIOUS
  <1>7. PICK surplus : surplus = {i \in SectorNrs : i > SectorCnts(D, count, append) /\ r.inode.sectors[i] # 0}
    OBVIOUS
  <1>8. PICK E : E = [WithoutSectors(r.inode, surplus) EXCEPT !.size = SizeAfter(D, count, append)]
    OBVIOUS
  <1>9. PICK m : m = write_disk(s1, written)
    OBVIOUS
  <1>10. PICK f : f = free_blocks(m, {r.inode.sectors[i] : i \in surplus})
    OBVIOUS
  <1>11. PICK s3 : s3 = sync_inode(f, x, E)
    OBVIOUS
  <1>a. w = [s |-> IF ~InBounds(D, count, append) THEN Wild(s)
                   ELSE IF 0 \in written THEN Wild(s3)
                   ELSE IF surplus = {} THEN s3 ELSE sync_block_bitmap(s3),
             inode |-> E]
    BY <1>2, <1>3, <1>4, <1>5, <1>6, <1>7, <1>8, <1>9, <1>10, <1>11, Zenon
       DEF write_file, SyncAtEnd
  <1>b. InBounds(D, count, append)
    <2>1. ASSUME ~InBounds(D, count, append) PROVE FALSE
      <3>1. w.s = Wild(s)
        BY <1>a, <2>1
      <3>2. Wild(s).wild = TRUE
        BY <1>0 DEF Flagged, Wild
      <3> QED BY <3>1, <3>2
    <2> QED BY <2>1
  <1>12. w = [s |-> IF 0 \in written THEN Wild(s3)
                    ELSE IF surplus = {} THEN s3 ELSE sync_block_bitmap(s3),
              inode |-> E]
    BY <1>a, <1>b
  <1>13. need \in SUBSET SectorNrs
    BY <1>2
  <1>14. Ups(s, r.s) /\ (~r.s.wild => Given(s, D, need, r))
    BY <1>0, <1>3, <1>13, GiveAll
  <1>15. Ups(r.s, s3)
    <2>1. Ups(r.s, s0) /\ Ups(s0, s1) /\ Ups(s1, m) /\ Ups(m, f) /\ Ups(f, s3)
      BY <1>4, <1>5, <1>9, <1>10, <1>11, UpsSteps, Zenon
    <2>2. Ups(r.s, s1) /\ Ups(m, s3)
      BY <2>1, UpsTwice
    <2>3. Ups(r.s, m)
      BY <2>1, <2>2, UpsTwice
    <2> QED BY <2>2, <2>3, UpsTwice
  <1>16. Flagged(r.s) /\ Flagged(s3)
    BY <1>0, <1>14, <1>15 DEF Ups
  <1>17. 0 \notin written
    <2>1. ASSUME 0 \in written PROVE FALSE
      <3>1. w.s = Wild(s3)
        BY <1>12, <2>1
      <3>2. Wild(s3).wild = TRUE
        BY <1>16 DEF Flagged, Wild
      <3> QED BY <3>1, <3>2
    <2> QED BY <2>1
  <1>18. w.inode = E /\ w.s = (IF surplus = {} THEN s3 ELSE sync_block_bitmap(s3))
    BY <1>12, <1>17
  <1>19. ~s3.wild
    <2>1. Ups(s3, w.s)
      <3>1. Ups(s3, sync_block_bitmap(s3))
        BY UpsSteps, Zenon
      <3>2. Ups(s3, s3)
        BY DEF Ups
      <3> QED BY <1>18, <3>1, <3>2
    <2> QED BY <1>16, <2>1 DEF Ups
  <1>20. ~r.s.wild
    BY <1>15, <1>16, <1>19 DEF Ups
  <1>21. Given(s, D, need, r)
    BY <1>14, <1>20
  <1>22. /\ r.s \in Partition /\ r.inode \in Inode /\ r.inode.size = D.size
         /\ r.s.tbl = s.tbl /\ r.s.blk = s.blk /\ r.s.inode_bmap = s.inode_bmap
         /\ r.s.inode_bitmap = s.inode_bitmap
    BY <1>21, Zenon DEF Given
  <1>23. /\ s0 \in Partition /\ s0.tbl[x] = r.inode /\ \A i \in Inodes : i # x => s0.tbl[i] = r.s.tbl[i]
         /\ s0.blk = r.s.blk /\ s0.block_bmap = r.s.block_bmap
         /\ s0.inode_bmap = r.s.inode_bmap /\ s0.inode_bitmap = r.s.inode_bitmap
    BY <1>1, <1>4, <1>22, SyncInode, SMTT(60)
  <1>24. /\ s1 \in Partition /\ s1.tbl = s0.tbl
         /\ s1.blk = s0.blk /\ s1.block_bmap = s0.block_bmap /\ s1.block_bitmap = s0.block_bmap
         /\ s1.inode_bmap = s0.inode_bmap /\ s1.inode_bitmap = s0.inode_bitmap
    BY <1>5, <1>23, SyncBlocks
  <1>25. /\ m \in Partition /\ m.tbl = s1.tbl
         /\ m.block_bmap = s1.block_bmap /\ m.block_bitmap = s1.block_bitmap
         /\ m.inode_bmap = s1.inode_bmap /\ m.inode_bitmap = s1.inode_bitmap
         /\ \A b \in Blocks : /\ DATA_START + b \in written => m.blk[b] = DATA
                              /\ DATA_START + b \notin written => m.blk[b] = s1.blk[b]
    BY <1>9, <1>24, WriteDisk
  <1>26. /\ WrittenSectors(D, count, append) \subseteq SectorNrs
         /\ SizeAfter(D, count, append) \in Nat
    BY <1>b, SizeIsNat DEF InBounds
  <1>27. Rewritten(s, m, x)
    <2>1. m.tbl[x].sectors = r.inode.sectors /\ \A i \in Inodes : i # x => m.tbl[i] = s.tbl[i]
      BY <1>22, <1>23, <1>24, <1>25
    <2>2. \A b \in Blocks : \/ m.blk[b] = s.blk[b]
                            \/ m.blk[b] \in {DATA, ZeroBlock} /\ \E k \in SectorNrs : DATA_START + b = r.inode.sectors[k]
      BY <1>6, <1>22, <1>23, <1>24, <1>25, <1>26
    <2>3. m.block_bmap = r.s.block_bmap /\ m.inode_bmap = s.inode_bmap
      BY <1>22, <1>23, <1>24, <1>25
    <2>4. OthersStay(s, m, x) /\ WrittenIn(s, m, r.inode.sectors)
      BY <2>1, <2>2, Zenon DEF OthersStay, WrittenIn
    <2> QED BY <1>0, <1>13, <1>21, <1>25, <2>1, <2>3, <2>4, GivenRewritten
  <1>28. Space(m) /\ Frame(s, m, x) /\ IsPlain(m, x)
    BY <1>0, <1>25, <1>27, Rewrite
  <1>29. Tree(m, -1) /\ LeadsKept(s, m) /\ x # 0
    BY <1>0, <1>28, FileStep
  <1>30. surplus \in SUBSET SectorNrs /\ \A k \in surplus : r.inode.sectors[k] # 0
    BY <1>7
  <1>31. LbasAt(m, x, surplus) = {r.inode.sectors[i] : i \in surplus}
    <2>1. \A k \in SectorNrs : Lba(m, x, k) = r.inode.sectors[k]
      BY <1>23, <1>24, <1>25 DEF Lba
    <2> QED BY <1>30, <2>1 DEF LbasAt
  <1>32. PICK L : L = LbasAt(m, x, surplus)
    OBVIOUS
  <1>33. L \subseteq Lbas /\ 0 \notin L
    BY <1>1, <1>25, <1>30, <1>32, SectorFacts DEF LbasAt
  <1>34. f = free_blocks(m, L)
    BY <1>10, <1>31, <1>32
  <1>35. /\ f \in Partition
         /\ f.tbl = m.tbl /\ f.inode_bmap = m.inode_bmap /\ f.inode_bitmap = m.inode_bitmap
         /\ f.block_bitmap = m.block_bitmap
         /\ \A b \in Blocks :
              /\ b \in f.block_bmap <=> b \in m.block_bmap /\ DATA_START + b \notin L
              /\ DATA_START + b \in L => f.blk[b] \in {DATA, ZeroBlock}
              /\ DATA_START + b \notin L => f.blk[b] = m.blk[b]
    BY <1>25, <1>33, <1>34, FreeFields
  <1>36. E \in Inode /\ \A k \in SectorNrs : E.sectors[k] = IF k \in surplus THEN 0 ELSE r.inode.sectors[k]
    <2>1. PICK F : F = [i \in SectorNrs |-> IF i \in surplus THEN 0 ELSE r.inode.sectors[i]]
      OBVIOUS
    <2>2. E = [r.inode EXCEPT !.sectors = F, !.size = SizeAfter(D, count, append)]
      BY <1>8, <2>1, <1>22 DEF WithoutSectors, Inode
    <2>3. F \in [SectorNrs -> Lbas]
      BY <1>22, <2>1, LbaFacts DEF Inode
    <2>4. E \in Inode /\ E.sectors = F
      BY <1>22, <1>26, <2>2, <2>3 DEF Inode
    <2> QED BY <2>1, <2>4
  <1>37. /\ s3 \in Partition /\ s3.tbl[x] = E /\ \A i \in Inodes : i # x => s3.tbl[i] = f.tbl[i]
         /\ s3.blk = f.blk /\ s3.block_bmap = f.block_bmap /\ s3.block_bitmap = f.block_bitmap
         /\ s3.inode_bmap = f.inode_bmap /\ s3.inode_bitmap = f.inode_bitmap
    BY <1>1, <1>11, <1>35, <1>36, SyncInode, SMTT(60)
  <1>38. PICK t : t = w.s
    OBVIOUS
  <1>39. /\ t \in Partition /\ t.tbl = s3.tbl /\ t.blk = s3.blk /\ t.block_bmap = s3.block_bmap
         /\ t.inode_bmap = s3.inode_bmap /\ t.inode_bitmap = s3.inode_bitmap
         /\ t.block_bitmap = IF surplus = {} THEN s3.block_bitmap ELSE s3.block_bmap
    BY <1>18, <1>37, <1>38, SyncBlocks
  <1>40. Released(m, t, x, surplus)
    <2>1. \A i : i # x => (i \in t.inode_bmap <=> i \in m.inode_bmap)
      BY <1>35, <1>37, <1>39
    <2>2. \A i \in Inodes : i # x => t.tbl[i] = m.tbl[i]
      BY <1>35, <1>37, <1>39
    <2>3. \A k \in SectorNrs : Lba(t, x, k) = IF k \in surplus THEN 0 ELSE Lba(m, x, k)
      BY <1>23, <1>24, <1>25, <1>36, <1>37, <1>39 DEF Lba
    <2>4. \A b \in Blocks :
            /\ b \in t.block_bmap <=> b \in m.block_bmap /\ DATA_START + b \notin L
            /\ DATA_START + b \in L => t.blk[b] \in {DATA, ZeroBlock}
            /\ DATA_START + b \notin L => t.blk[b] = m.blk[b]
      BY <1>35, <1>37, <1>39
    <2> QED BY <1>32, <2>1, <2>2, <2>3, <2>4, Zenon DEF Released
  <1>41. x \in m.inode_bmap /\ x \in t.inode_bmap /\ t.inode_bmap = s.inode_bmap
    BY <1>1, <1>22, <1>23, <1>24, <1>25, <1>35, <1>37, <1>39
  <1>42. Space(t) /\ Frame(m, t, x)
    BY <1>25, <1>28, <1>30, <1>39, <1>40, <1>41, Release
  <1>43. IsPlain(t, x)
    <2>1. ASSUME NEW k \in SectorNrs, Lba(t, x, k) # 0 PROVE Block(t, x, k) \in {DATA, ZeroBlock}
      <3>1. k \in SectorNrs \ surplus /\ Lba(m, x, k) # 0
        BY <1>40, <1>41, <2>1 DEF Released
      <3>2. Block(t, x, k) = Block(m, x, k)
        BY <1>25, <1>28, <1>30, <1>39, <1>40, <1>41, <3>1, Release
      <3> QED BY <1>28, <3>1, <3>2 DEF IsPlain
    <2> QED BY <1>41, <2>1, Zenon DEF IsPlain
  <1>44. Tree(t, -1) /\ LeadsKept(m, t)
    BY <1>25, <1>28, <1>29, <1>42, <1>43, FileStep
  <1>45. Synced(t)
    <2>1. surplus = {} => f.block_bmap = m.block_bmap
      <3> SUFFICES ASSUME surplus = {} PROVE f.block_bmap = m.block_bmap
        OBVIOUS
      <3>1. L = {}
        BY <1>31, <1>32
      <3>2. f.block_bmap \subseteq Blocks /\ m.block_bmap \subseteq Blocks
        BY <1>25, <1>35, PartFacts
      <3> QED BY <1>35, <3>1, <3>2
    <2>2. t.block_bitmap = t.block_bmap
      BY <1>24, <1>25, <1>35, <1>37, <1>39, <2>1
    <2>3. t.inode_bitmap = t.inode_bmap
      BY <1>0, <1>22, <1>23, <1>24, <1>25, <1>35, <1>37, <1>39 DEF Synced
    <2> QED BY <2>2, <2>3 DEF Synced
  <1>46. Good(t)
    BY <1>39, <1>42, <1>44, <1>45 DEF Good
  <1>47. ASSUME NEW i, IsPlain(s, i), i \notin {x}
         PROVE  IsPlain(t, i) /\ t.tbl[i].sectors = s.tbl[i].sectors /\ t.tbl[i].size = s.tbl[i].size
    <2>1. i \in Inodes /\ i # x
      BY <1>0, <1>47, PartFacts DEF IsPlain
    <2>2. t.tbl[i] = s.tbl[i]
      BY <1>22, <1>23, <1>24, <1>25, <1>35, <1>37, <1>39, <2>1
    <2>3. IsPlain(m, i)
      BY <1>28, <1>47, <2>1, FrameFacts
    <2>4. IsPlain(t, i)
      BY <1>42, <2>1, <2>3, FrameFacts
    <2> QED BY <2>2, <2>4
  <1>48. Kept(s, t, {x})
    BY <1>46, <1>47, Zenon DEF Kept
  <1>49. PathsKept(s, t, -1)
    <2>1. LeadsKept(s, t)
      BY <1>29, <1>44, Zenon DEF LeadsKept
    <2>2. Walkable(t)
      BY <1>46 DEF Good, Walkable
    <2> QED BY <1>0, <2>1, <2>2, SamePaths
  <1>50. t.tbl[x] = w.inode /\ w.inode \in Inode
    BY <1>18, <1>36, <1>37, <1>39
  <1> QED BY <1>38, <1>43, <1>48, <1>49, <1>50, Zenon DEF WroteTo

-----------------------------------------------------------------------------
(* copy_file and move_file. *)

\* Two steps keep what each of them keeps.
LEMMA KeptTwice ==
  ASSUME NEW s, NEW u, NEW t, NEW X, NEW Y, Kept(s, u, X), Kept(u, t, Y)
  PROVE  Kept(s, t, X \cup Y)
  <1>1. Good(t)
    BY DEF Kept
  <1>2. ASSUME NEW i, IsPlain(s, i), i \notin X \cup Y
        PROVE  IsPlain(t, i) /\ t.tbl[i].sectors = s.tbl[i].sectors /\ t.tbl[i].size = s.tbl[i].size
    <2>1. IsPlain(u, i) /\ u.tbl[i].sectors = s.tbl[i].sectors /\ u.tbl[i].size = s.tbl[i].size
      BY <1>2 DEF Kept
    <2>2. IsPlain(t, i) /\ t.tbl[i].sectors = u.tbl[i].sectors /\ t.tbl[i].size = u.tbl[i].size
      BY <1>2, <2>1 DEF Kept
    <2> QED BY <2>1, <2>2
  <1> QED BY <1>1, <1>2, Zenon DEF Kept

\* The same for paths.
LEMMA PathsTwice ==
  ASSUME NEW s, NEW u, NEW t, NEW x, NEW y, x = -1 \/ y = -1 \/ x = y, NEW z, z = IF x = -1 THEN y ELSE x,
         PathsKept(s, u, x), PathsKept(u, t, y)
  PROVE  PathsKept(s, t, z)
  <1> SUFFICES ASSUME NEW p \in Seq(Names), dir_is_exists(s, p) \notin {-1, z}
               PROVE  dir_is_exists(t, p) = dir_is_exists(s, p) /\ TypeOf(t, p) = TypeOf(s, p)
    BY Zenon DEF PathsKept
  <1>1. dir_is_exists(s, p) \notin {-1, x}
    OBVIOUS
  <1>2. dir_is_exists(u, p) = dir_is_exists(s, p) /\ TypeOf(u, p) = TypeOf(s, p)
    BY <1>1, Zenon DEF PathsKept
  <1>3. dir_is_exists(u, p) \notin {-1, y}
    BY <1>2
  <1> QED BY <1>2, <1>3, Zenon DEF PathsKept

\* What sys_mkfile and sys_mkdir keep.
LEMMA WiderKept ==
  ASSUME NEW s, Good(s), NEW t, NEW x, NEW ty, Wider(s, t, x, ty)
  PROVE  Kept(s, t, {}) /\ PathsKept(s, t, -1)
  <1>1. Good(t) /\ \A i : IsPlain(s, i) => IsPlain(t, i) /\ t.tbl[i] = s.tbl[i]
    BY Zenon DEF Wider
  <1>2. Kept(s, t, {})
    BY <1>1 DEF Kept
  <1>3. LeadsKept(s, t) /\ Walkable(s) /\ Walkable(t)
    BY <1>1, Zenon DEF Wider, LeadsKept, Walkable, Good
  <1> QED BY <1>2, <1>3, SamePaths

\* After sys_mkfile a path that led to a file, or nowhere, leads to a file or
\* nowhere; if not to the same one, then to one that was not there.
LEMMA AfterMkfile ==
  ASSUME NEW s, Good(s), uid \in Users, NEW q \in Seq(Names), q # <<>>, TypeOf(s, ParentOf(q)) # "FILE",
         NEW u, u = sys_mkfile(s, q), ~u.wild, NEW p \in Seq(Names), TypeOf(s, p) \in {"FILE", "NONE"},
         dir_is_exists(u, p) # -1
  PROVE  LET i == dir_is_exists(u, p)
         IN  /\ IsPlain(u, i) /\ i \in Inodes /\ TypeOf(u, p) = "FILE"
             /\ i \notin s.inode_bmap \/ (i = dir_is_exists(s, p) /\ u.tbl[i] = s.tbl[i])
  <1>1. PICK i, j : i = dir_is_exists(u, p) /\ j = dir_is_exists(s, p)
    BY Zenon
  <1>2. u = s \/ \E x : Wider(s, u, x, "FILE")
    BY Mkfile_
  <1>3. Walkable(s)
    BY DEF Good, Walkable
  <1>4. CASE u = s
    <2>1. TypeOf(s, p) = "FILE" /\ IsPlain(s, i) /\ i \in Inodes
      BY <1>1, <1>3, <1>4, TypeCases
    <2> QED BY <1>1, <1>4, <2>1
  <1>5. ASSUME NEW x, Wider(s, u, x, "FILE")
        PROVE  /\ IsPlain(u, i) /\ i \in Inodes /\ TypeOf(u, p) = "FILE"
               /\ i \notin s.inode_bmap \/ (i = j /\ u.tbl[i] = s.tbl[i])
    <2>1. Walkable(u) /\ x \notin s.inode_bmap
      BY <1>5 DEF Wider, Good, Walkable
    <2>2. CASE i = x
      <3>0. dir_is_exists(u, p) = x
        BY <1>1, <2>2
      <3>1. TypeOf(u, p) = "FILE"
        <4>1. PICK ty : ty = "FILE"
          OBVIOUS
        <4>2. Wider(s, u, x, ty)
          BY <1>5, <4>1
        <4>3. TypeOf(u, p) = ty
          BY <3>0, <4>2, WiderPaths
        <4> QED BY <4>1, <4>3
      <3>2. IsPlain(u, i) /\ i \in Inodes
        BY <1>1, <2>1, <3>1, TypeCases
      <3> QED BY <2>1, <2>2, <3>1, <3>2
    <2>3. CASE i # x
      <3>1. j = i /\ TypeOf(s, p) = TypeOf(u, p)
        BY <1>1, <1>5, <2>3, WiderPaths
      <3>2. TypeOf(u, p) = "FILE" /\ IsPlain(u, i) /\ IsPlain(s, i) /\ i \in Inodes
        BY <1>1, <1>3, <2>1, <3>1, TypeCases
      <3>3. u.tbl[i] = s.tbl[i]
        BY <1>5, <3>2, Zenon DEF Wider
      <3> QED BY <3>1, <3>2, <3>3
    <2> QED BY <2>2, <2>3
  <1> QED BY <1>1, <1>2, <1>4, <1>5, Zenon

\* What sys_mkfile keeps.
LEMMA MkfileKept ==
  ASSUME NEW s, Good(s), uid \in Users, NEW p \in Seq(Names), p # <<>>,
         TypeOf(s, ParentOf(p)) # "FILE", NEW t, t = sys_mkfile(s, p), ~t.wild
  PROVE  Good(t) /\ Kept(s, t, {}) /\ PathsKept(s, t, -1)
  <1>1. t = s \/ \E x : Wider(s, t, x, "FILE")
    BY Mkfile_
  <1>2. Kept(s, t, {}) /\ PathsKept(s, t, -1)
    BY <1>1, KeptSelf, WiderKept
  <1> QED BY <1>2 DEF Kept

\* CopySectors, field by field.
LEMMA CopiesSectors ==
  ASSUME NEW s \in Partition, NEW A, NEW E, NEW at \in SUBSET SectorNrs,
         \A k \in at : A.sectors[k] \in Lbas /\ A.sectors[k] # 0, NEW t, t = CopySectors(s, A, E, at)
  PROVE  /\ t \in Partition /\ t.tbl = s.tbl
         /\ t.block_bmap = s.block_bmap /\ t.block_bitmap = s.block_bitmap
         /\ t.inode_bmap = s.inode_bmap /\ t.inode_bitmap = s.inode_bitmap
         /\ t.wild = s.wild /\ t.magic = s.magic
         /\ \A b \in Blocks : \/ t.blk[b] = s.blk[b]
                              \/ \E k \in at : /\ DATA_START + b = E.sectors[k]
                                                /\ t.blk[b] = s.blk[BlockNo(A.sectors[k])]
  <1> DEFINE Source(b) == {i \in at : E.sectors[i] = DATA_START + b}
  <1>1. PICK F : F = [b \in Blocks |-> IF Source(b) = {} THEN s.blk[b]
                                       ELSE s.blk[BlockNo(A.sectors[Min(Source(b))])]]
    OBVIOUS
  <1>2. t = [s EXCEPT !.blk = F]
    BY <1>1, Zenon DEF CopySectors, read_block
  <1>3. ASSUME NEW b \in Blocks, Source(b) # {}
        PROVE  Min(Source(b)) \in at /\ E.sectors[Min(Source(b))] = DATA_START + b
    <2>1. Source(b) \subseteq Nat
      <3>1. SectorNrs \subseteq Nat
        BY SizesAssumption DEF SectorNrs
      <3>2. Source(b) \subseteq at
        OBVIOUS
      <3> QED BY <3>1, <3>2
    <2>2. Min(Source(b)) \in Source(b)
      <3> HIDE DEF Source
      <3> QED BY <1>3, <2>1, MinIsLeast
    <2> QED BY <2>2
  <1>4. ASSUME NEW b \in Blocks
        PROVE  \/ F[b] = s.blk[b]
               \/ \E k \in at : DATA_START + b = E.sectors[k] /\ F[b] = s.blk[BlockNo(A.sectors[k])]
    <2>1. CASE Source(b) = {}
      BY <1>1, <2>1
    <2>2. CASE Source(b) # {}
      <3>1. PICK k : k = Min(Source(b))
        OBVIOUS
      <3>2. k \in at /\ E.sectors[k] = DATA_START + b
        BY <1>3, <2>2, <3>1
      <3>3. F[b] = s.blk[BlockNo(A.sectors[k])]
        BY <1>1, <2>2, <3>1
      <3> QED BY <3>2, <3>3
    <2> QED BY <2>1, <2>2
  <1>5. \A k \in at : BlockNo(A.sectors[k]) \in Blocks
    BY LbaFacts
  <1>6. F \in [Blocks -> [SlotNrs -> Entries] \cup {DATA}]
    <2>1. \A b \in Blocks : s.blk[b] \in [SlotNrs -> Entries] \cup {DATA}
      BY PartFacts
    <2>2. DOMAIN F = Blocks /\ F = [b \in Blocks |-> F[b]]
      BY <1>1
    <2>3. \A b \in Blocks : F[b] \in [SlotNrs -> Entries] \cup {DATA}
      <3> HIDE DEF Source
      <3> QED BY <1>4, <1>5, <2>1
    <2> QED BY <2>2, <2>3
  <1>7. /\ t \in Partition /\ t.tbl = s.tbl /\ t.blk = F
        /\ t.block_bmap = s.block_bmap /\ t.block_bitmap = s.block_bitmap
        /\ t.inode_bmap = s.inode_bmap /\ t.inode_bitmap = s.inode_bitmap
        /\ t.wild = s.wild /\ t.magic = s.magic
    BY <1>2, <1>6 DEF Partition
  <1> HIDE DEF Source
  <1> QED BY <1>4, <1>7

\* The end of copy_file.
CopyBlocks(s, y, x) ==
  LET at == {i \in SectorNrs : s.tbl[y].sectors[i] # 0}
      r == GiveBlocks(s, s.tbl[x], at)
  IN  sync_block_bitmap(
        sync_inode(CopySectors(r.s, s.tbl[y], r.inode, at), x,
                   [r.inode EXCEPT !.size = s.tbl[y].size]))

\* copy_file once both files are there: the destination gets as many blocks
\* as the source has.
LEMMA CopyTo ==
  ASSUME NEW s, Good(s), NEW y, IsPlain(s, y), NEW x, IsPlain(s, x),
         NEW t, t = CopyBlocks(s, y, x), ~t.wild
  PROVE  Kept(s, t, {x}) /\ PathsKept(s, t, -1)
  <1>0. s \in Partition /\ Space(s) /\ Tree(s, -1) /\ Synced(s) /\ Flagged(s) /\ Walkable(s)
    BY DEF Good, Flagged, Partition, Walkable
  <1>1. x \in s.inode_bmap /\ x \in Inodes /\ y \in Inodes
    BY <1>0, PartFacts DEF IsPlain
  <1>a. PICK at : at = {i \in SectorNrs : s.tbl[y].sectors[i] # 0}
    OBVIOUS
  <1>b. PICK r : r = GiveBlocks(s, s.tbl[x], at)
    OBVIOUS
  <1>d. PICK E : E = [r.inode EXCEPT !.size = s.tbl[y].size]
    OBVIOUS
  <1>e. PICK m : m = CopySectors(r.s, s.tbl[y], r.inode, at)
    OBVIOUS
  <1>2. PICK v : v = sync_inode(m, x, E)
    OBVIOUS
  <1>3. t = sync_block_bitmap(v)
    BY <1>a, <1>b, <1>d, <1>e, <1>2, Zenon DEF CopyBlocks
  <1>4. at \in SUBSET SectorNrs /\ s.tbl[x] \in Inode /\ s.tbl[y] \in Inode
    BY <1>0, <1>1, <1>a, PartFacts
  <1>5. Ups(s, r.s) /\ (~r.s.wild => Given(s, s.tbl[x], at, r))
    BY <1>0, <1>4, <1>b, GiveAll
  <1>6. ~r.s.wild
    <2>1. Ups(r.s, m) /\ Ups(m, v) /\ Ups(v, t)
      BY <1>2, <1>3, <1>e, UpsSteps, Zenon
    <2>2. Ups(r.s, t)
      BY <2>1, UpsTwice
    <2> QED BY <1>0, <1>5, <2>2 DEF Ups
  <1>7. Given(s, s.tbl[x], at, r)
    BY <1>5, <1>6
  <1>8. /\ r.s \in Partition /\ r.inode \in Inode
        /\ r.s.tbl = s.tbl /\ r.s.blk = s.blk /\ r.s.inode_bmap = s.inode_bmap
        /\ r.s.inode_bitmap = s.inode_bitmap
    BY <1>7, Zenon DEF Given
  <1>9. /\ m \in Partition /\ m.tbl = r.s.tbl
        /\ m.block_bmap = r.s.block_bmap
        /\ m.inode_bmap = r.s.inode_bmap /\ m.inode_bitmap = r.s.inode_bitmap
        /\ \A b \in Blocks : \/ m.blk[b] = r.s.blk[b]
                             \/ \E k \in at : /\ DATA_START + b = r.inode.sectors[k]
                                               /\ m.blk[b] = r.s.blk[BlockNo(s.tbl[y].sectors[k])]
    <2>1. \A k \in at : s.tbl[y].sectors[k] \in Lbas /\ s.tbl[y].sectors[k] # 0
      BY <1>4, <1>a DEF Inode
    <2>2. PICK A : A = s.tbl[y]
      OBVIOUS
    <2>3. m = CopySectors(r.s, A, r.inode, at) /\ \A k \in at : A.sectors[k] \in Lbas /\ A.sectors[k] # 0
      BY <1>e, <2>1, <2>2
    <2> QED BY <1>4, <1>8, <2>2, <2>3, CopiesSectors
  <1>10. E \in Inode /\ E.sectors = r.inode.sectors
    BY <1>4, <1>8, <1>d DEF Inode
  <1>11. /\ v \in Partition /\ v.tbl[x] = E /\ \A i \in Inodes : i # x => v.tbl[i] = m.tbl[i]
         /\ v.blk = m.blk /\ v.block_bmap = m.block_bmap
         /\ v.inode_bmap = m.inode_bmap /\ v.inode_bitmap = m.inode_bitmap
    BY <1>1, <1>2, <1>9, <1>10, SyncInode
  <1>12. /\ t \in Partition /\ t.tbl = v.tbl
         /\ t.blk = v.blk /\ t.block_bmap = v.block_bmap /\ t.block_bitmap = v.block_bmap
         /\ t.inode_bmap = v.inode_bmap /\ t.inode_bitmap = v.inode_bitmap
    BY <1>3, <1>11, SyncBlocks
  <1>13. t.tbl[x].sectors = r.inode.sectors /\ \A i \in Inodes : i # x => t.tbl[i] = s.tbl[i]
    BY <1>8, <1>9, <1>10, <1>11, <1>12
  <1>14. Rewritten(s, t, x)
    <2>1. \A b \in Blocks : \/ t.blk[b] = s.blk[b]
                            \/ t.blk[b] \in {DATA, ZeroBlock} /\ \E k \in SectorNrs : DATA_START + b = r.inode.sectors[k]
      <3>1. \A k \in at : k \in SectorNrs /\ s.blk[BlockNo(s.tbl[y].sectors[k])] \in {DATA, ZeroBlock}
        BY <1>a DEF IsPlain, Block, Lba
      <3> QED BY <1>8, <1>9, <1>11, <1>12, <3>1
    <2>2. t.block_bmap = r.s.block_bmap /\ t.inode_bmap = s.inode_bmap
      BY <1>8, <1>9, <1>11, <1>12
    <2>3. s \in Partition /\ Space(s) /\ IsPlain(s, x) /\ t \in Partition
      BY <1>0, <1>12
    <2>4. OthersStay(s, t, x) /\ WrittenIn(s, t, r.inode.sectors)
      BY <1>13, <2>1, Zenon DEF OthersStay, WrittenIn
    <2>5. PICK D : D = s.tbl[x]
      OBVIOUS
    <2>6. D \in Inode /\ D.sectors = s.tbl[x].sectors /\ Given(s, D, at, r)
      BY <1>4, <1>7, <2>5
    <2>7. at \in SUBSET SectorNrs /\ t.tbl[x].sectors = r.inode.sectors
      BY <1>4, <1>13
    <2> QED BY <2>2, <2>3, <2>4, <2>6, <2>7, GivenRewritten
  <1>15. Space(t) /\ Frame(s, t, x) /\ IsPlain(t, x)
    BY <1>0, <1>12, <1>14, Rewrite
  <1>16. Tree(t, -1) /\ LeadsKept(s, t)
    BY <1>0, <1>15, FileStep
  <1>17. Synced(t)
    BY <1>0, <1>8, <1>9, <1>11, <1>12 DEF Synced
  <1>18. Good(t) /\ Walkable(t)
    BY <1>12, <1>15, <1>16, <1>17 DEF Good, Walkable
  <1>19. ASSUME NEW i, IsPlain(s, i), i \notin {x}
         PROVE  IsPlain(t, i) /\ t.tbl[i].sectors = s.tbl[i].sectors /\ t.tbl[i].size = s.tbl[i].size
    <2>1. i \in Inodes /\ i # x
      BY <1>0, <1>19, PartFacts DEF IsPlain
    <2> QED BY <1>13, <1>15, <1>19, <2>1, FrameFacts
  <1>20. Kept(s, t, {x})
    BY <1>18, <1>19, Zenon DEF Kept
  <1> QED BY <1>0, <1>16, <1>18, <1>20, SamePaths

\* GiveBlocks never makes a wild partition tame.
LEMMA UpsGive ==
  ASSUME NEW s, NEW inode, NEW at
  PROVE  Ups(s, GiveBlocks(s, inode, at).s)
  <1>1. PICK f : IsGive(s, inode, at, f)
    BY GiveUnfold, Zenon
  <1>2. GiveBlocks(s, inode, at) = f[NSEC] /\ f[0] = [s |-> s, inode |-> inode]
    BY <1>1, Zenon DEF IsGive
  <1>3. \A k \in 1 .. NSEC : f[k] = GiveStep(f[k - 1], k, at)
    BY <1>1, Zenon DEF IsGive
  <1> DEFINE S == {n \in Nat : n <= NSEC => Ups(s, f[n].s)}
  <1>4. 0 \in S
    BY <1>2 DEF Ups
  <1>5. ASSUME NEW n \in Nat, n \in S PROVE n + 1 \in S
    <2> SUFFICES ASSUME n + 1 <= NSEC PROVE Ups(s, f[n + 1].s)
      OBVIOUS
    <2>1. Ups(s, f[n].s) /\ n + 1 \in 1 .. NSEC /\ (n + 1) - 1 = n
      BY <1>5, SizesAssumption
    <2> HIDE DEF S
    <2>2. PICK g, q : g = f[n] /\ q = f[n + 1]
      BY Zenon
    <2>3. q = GiveStep(g, n + 1, at)
      BY <1>3, <2>1, <2>2
    <2>4. q = g \/ q = [s |-> allocate_block(g.s),
                        inode |-> [g.inode EXCEPT !.sectors[(n + 1) - 1] = DATA_START + NextBlock(g.s)]]
      BY <2>3, Zenon DEF GiveStep
    <2>5. q.s = g.s \/ q.s = allocate_block(g.s)
      BY <2>4
    <2>6. Ups(g.s, allocate_block(g.s)) /\ Ups(g.s, g.s)
      BY UpsSteps, Zenon DEF Ups
    <2>7. Ups(s, g.s) /\ Ups(g.s, q.s)
      BY <2>1, <2>2, <2>5, <2>6
    <2> QED BY <2>2, <2>7, UpsTwice
  <1> HIDE DEF S
  <1>6. NSEC \in S
    BY <1>4, <1>5, NatSet, SizesAssumption
  <1>7. Ups(s, f[NSEC].s)
    BY <1>6, SizesAssumption DEF S
  <1> QED BY <1>2, <1>7

\* Nor does the end of copy_file.
LEMMA UpsCopy ==
  ASSUME NEW s, NEW y, NEW x
  PROVE  Ups(s, CopyBlocks(s, y, x))
  <1>a. PICK at : at = {i \in SectorNrs : s.tbl[y].sectors[i] # 0}
    OBVIOUS
  <1>b. PICK r : r = GiveBlocks(s, s.tbl[x], at)
    OBVIOUS
  <1>d. PICK E : E = [r.inode EXCEPT !.size = s.tbl[y].size]
    OBVIOUS
  <1>e. PICK m : m = CopySectors(r.s, s.tbl[y], r.inode, at)
    OBVIOUS
  <1>2. PICK v : v = sync_inode(m, x, E)
    OBVIOUS
  <1>3. CopyBlocks(s, y, x) = sync_block_bitmap(v)
    BY <1>a, <1>b, <1>d, <1>e, <1>2, Zenon DEF CopyBlocks
  <1>4. Ups(r.s, m) /\ Ups(m, v) /\ Ups(v, sync_block_bitmap(v))
    BY <1>2, <1>e, UpsSteps, Zenon
  <1>5. Ups(s, r.s)
    BY <1>b, UpsGive
  <1>6. Ups(s, m)
    BY <1>4, <1>5, UpsTwice
  <1>7. Ups(s, v)
    BY <1>4, <1>6, UpsTwice
  <1> QED BY <1>3, <1>4, <1>7, UpsTwice

\* Nor does sys_mkfile.
LEMMA UpsMkfile ==
  ASSUME NEW s, NEW p
  PROVE  Ups(s, sys_mkfile(s, p))
  <1>1. PICK u, d, e : /\ u = sync_inode_bitmap(create_inode(s)) /\ d = dir_is_exists(s, ParentOf(p))
                       /\ e = Entry(ChildOf(p), NextInode(s), "FILE")
    BY Zenon
  <1>2. sys_mkfile(s, p) = s \/ sys_mkfile(s, p) = create_dir_entry(u, d, e)
    BY <1>1, Zenon DEF sys_mkfile
  <1>3. Ups(s, u) /\ Ups(s, s)
    BY <1>1, UpsCreate DEF Ups
  <1>4. Ups(u, create_dir_entry(u, d, e))
    BY UpsEnter, Zenon
  <1>5. Ups(s, create_dir_entry(u, d, e))
    BY <1>3, <1>4, UpsTwice
  <1> QED BY <1>2, <1>3, <1>5

\* The inodes a request works on, as the clients know them: those that two
\* paths lead to, before the request.
LEMMA KnownTo ==
  ASSUME NEW s, NEW t, NEW X, NEW Y, Kept(s, t, X), \A x \in X : x \in Y \/ x \notin s.inode_bmap
  PROVE  Kept(s, t, Y)
  <1>1. \A i : IsPlain(s, i) /\ i \notin Y => i \notin X
    BY DEF IsPlain
  <1> QED BY <1>1 DEF Kept

\* copy_file keeps every path and every file but the destination.
LEMMA Cpfile_ ==
  ASSUME NEW s, Good(s), uid \in Users, NEW p \in Seq(Names), NEW q \in Seq(Names), q # <<>>,
         TypeOf(s, ParentOf(q)) # "FILE", TypeOf(s, p) \in {"FILE", "NONE"}, TypeOf(s, q) \in {"FILE", "NONE"},
         NEW t, t = copy_file(s, p, q), ~t.wild
  PROVE  Kept(s, t, {dir_is_exists(s, q)}) /\ PathsKept(s, t, -1)
  <1>1. PICK u : u = sys_mkfile(s, q)
    OBVIOUS
  <1>2. PICK y, x : y = dir_is_exists(u, p) /\ x = dir_is_exists(u, q)
    BY Zenon
  <1>3. \/ (y = -1 \/ x = -1) /\ t = Wild(u)
        \/ y # -1 /\ x # -1 /\ t = u
        \/ y # -1 /\ x # -1 /\ t = CopyBlocks(u, y, x)
    BY <1>1, <1>2, Zenon DEF copy_file, ino2inode, CopyBlocks
  <1>4. Flagged(s)
    BY DEF Good, Flagged, Partition
  <1>5. Ups(s, u) /\ Ups(u, CopyBlocks(u, y, x)) /\ Ups(u, Wild(u)) /\ Ups(u, u)
    BY <1>1, UpsMkfile, UpsCopy, UpsSteps, Zenon DEF Ups
  <1>6. ~u.wild /\ Flagged(u)
    BY <1>3, <1>4, <1>5 DEF Ups
  <1>7. t # Wild(u)
    <2>1. Wild(u).wild = TRUE
      BY <1>6 DEF Wild, Flagged
    <2> QED BY <2>1
  <1>8. Good(u) /\ Kept(s, u, {}) /\ PathsKept(s, u, -1)
    BY <1>1, <1>6, MkfileKept
  <1>9. CASE t = u
    BY <1>8, <1>9, KnownTo
  <1>10. CASE y # -1 /\ x # -1 /\ t = CopyBlocks(u, y, x)
    <2>1. IsPlain(u, y) /\ IsPlain(u, x) /\ (x \notin s.inode_bmap \/ x = dir_is_exists(s, q))
      BY <1>1, <1>2, <1>6, <1>10, AfterMkfile
    <2>2. Kept(u, t, {x}) /\ PathsKept(u, t, -1)
      BY <1>8, <1>10, <2>1, CopyTo
    <2>3. Kept(s, t, {} \cup {x})
      BY <1>8, <2>2, KeptTwice
    <2>4. Kept(s, t, {dir_is_exists(s, q)})
      BY <2>1, <2>3, KnownTo
    <2>5. PathsKept(s, t, -1)
      BY <1>8, <2>2, PathsTwice
    <2> QED BY <2>4, <2>5
  <1> QED BY <1>3, <1>7, <1>9, <1>10

\* The end of move_file: v is the partition without the old name.
MoveBlocks(u, v, y, x) ==
  sync_inode_bitmap(
    sync_inode(free_inode(v, y), x,
               [u.tbl[x] EXCEPT !.sectors = u.tbl[y].sectors, !.size = u.tbl[y].size]))

\* Inode x is set to D, inode x is given back, and both: field by field.
InodeSet(s, t, x, D) ==
  /\ t \in Partition /\ t.tbl[x] = D /\ \A i \in Inodes : i # x => t.tbl[i] = s.tbl[i]
  /\ t.blk = s.blk /\ t.block_bmap = s.block_bmap /\ t.block_bitmap = s.block_bitmap
  /\ t.inode_bmap = s.inode_bmap
InodeFreed(s, t, x) ==
  /\ t \in Partition /\ \A i \in Inodes : i # x => t.tbl[i] = s.tbl[i]
  /\ t.blk = s.blk /\ t.block_bmap = s.block_bmap /\ t.block_bitmap = s.block_bitmap
  /\ t.inode_bmap = s.inode_bmap \ {x} /\ t.inode_bitmap = t.inode_bmap
InodeMoved(u, v, t, y, x) ==
  /\ t \in Partition
  /\ t.tbl[x].sectors = u.tbl[y].sectors /\ t.tbl[x].size = u.tbl[y].size
  /\ \A i \in Inodes : i \notin {x, y} => t.tbl[i] = v.tbl[i]
  /\ t.blk = v.blk /\ t.block_bmap = v.block_bmap /\ t.block_bitmap = v.block_bitmap
  /\ t.inode_bmap = v.inode_bmap \ {y} /\ t.inode_bitmap = t.inode_bmap

\* sync_inode sets an inode.
LEMMA SetsInode ==
  ASSUME NEW s \in Partition, NEW x \in Inodes, NEW D \in Inode, NEW t, t = sync_inode(s, x, D)
  PROVE  InodeSet(s, t, x, D)
  <1>1. /\ t \in Partition /\ t.tbl[x] = D /\ \A i \in Inodes : i # x => t.tbl[i] = s.tbl[i]
        /\ t.blk = s.blk /\ t.block_bmap = s.block_bmap /\ t.block_bitmap = s.block_bitmap
        /\ t.inode_bmap = s.inode_bmap
    BY SyncInode
  <1> QED BY <1>1, Zenon DEF InodeSet

\* free_inode gives one back.
LEMMA FreesInode ==
  ASSUME NEW s \in Partition, NEW x \in Inodes, NEW t, t = sync_inode_bitmap(free_inode(s, x))
  PROVE  InodeFreed(s, t, x)
  <1>1. /\ t \in Partition /\ \A i \in Inodes : i # x => t.tbl[i] = s.tbl[i]
        /\ t.blk = s.blk /\ t.block_bmap = s.block_bmap /\ t.block_bitmap = s.block_bitmap
        /\ t.inode_bmap = s.inode_bmap \ {x} /\ t.inode_bitmap = t.inode_bmap
    BY FreeInode
  <1> QED BY <1>1, Zenon DEF InodeFreed

\* The end of move_file, field by field.
LEMMA MoveFields ==
  ASSUME NEW u \in Partition, NEW v \in Partition, NEW y \in Inodes, NEW x \in Inodes, NEW t,
         t = MoveBlocks(u, v, y, x)
  PROVE  InodeMoved(u, v, t, y, x)
  <1>1. PICK M : M = [u.tbl[x] EXCEPT !.sectors = u.tbl[y].sectors, !.size = u.tbl[y].size]
    OBVIOUS
  <1>2. PICK a : a = free_inode(v, y)
    OBVIOUS
  <1>3. PICK b : b = sync_inode(a, x, M)
    OBVIOUS
  <1>4. t = sync_inode_bitmap(b)
    BY <1>1, <1>2, <1>3, Zenon DEF MoveBlocks
  <1>5. u.tbl[x] \in Inode /\ u.tbl[y] \in Inode
    BY PartFacts
  <1>6. M \in Inode /\ M.sectors = u.tbl[y].sectors /\ M.size = u.tbl[y].size
    BY <1>1, <1>5 DEF Inode
  <1>7. a = [v EXCEPT !.inode_bmap = v.inode_bmap \ {y}, !.tbl[y] = ZeroInode]
    BY <1>2, Zenon DEF free_inode
  <1>8. ZeroInode \in Inode
    <2>1. NoSectors \in [SectorNrs -> Lbas]
      BY LbaFacts DEF NoSectors
    <2>2. 0 \in Nat
      OBVIOUS
    <2>3. 0 \in Users /\ {} \in SUBSET Bits
      BY UsersAssumption
    <2> QED BY <2>1, <2>2, <2>3 DEF ZeroInode, Inode
  <1>9. v.tbl \in [Inodes -> Inode] /\ v.inode_bmap \ {y} \subseteq Inodes
    BY PartFacts
  <1>10. [v.tbl EXCEPT ![y] = ZeroInode] \in [Inodes -> Inode]
    BY <1>8, <1>9
  <1>11. /\ a \in Partition /\ a.tbl = [v.tbl EXCEPT ![y] = ZeroInode]
         /\ a.blk = v.blk /\ a.block_bmap = v.block_bmap /\ a.block_bitmap = v.block_bitmap
         /\ a.inode_bmap = v.inode_bmap \ {y}
    BY <1>7, <1>9, <1>10 DEF Partition
  <1>12. \A i \in Inodes : i # y => a.tbl[i] = v.tbl[i]
    BY <1>9, <1>11
  <1>13. /\ b \in Partition /\ b.tbl[x] = M /\ \A i \in Inodes : i # x => b.tbl[i] = a.tbl[i]
         /\ b.blk = a.blk /\ b.block_bmap = a.block_bmap /\ b.block_bitmap = a.block_bitmap
         /\ b.inode_bmap = a.inode_bmap
    <2>1. InodeSet(a, b, x, M)
      BY <1>3, <1>6, <1>11, SetsInode
    <2> QED BY <2>1, Zenon DEF InodeSet
  <1>14. t = [b EXCEPT !.inode_bitmap = b.inode_bmap]
    BY <1>4, Zenon DEF sync_inode_bitmap
  <1>15. b.inode_bmap \subseteq Inodes
    BY <1>13, PartFacts
  <1>16. /\ t \in Partition /\ t.tbl = b.tbl
         /\ t.blk = b.blk /\ t.block_bmap = b.block_bmap /\ t.block_bitmap = b.block_bitmap
         /\ t.inode_bmap = b.inode_bmap /\ t.inode_bitmap = b.inode_bmap
    BY <1>13, <1>14, <1>15 DEF Partition
  <1>17. \A i \in Inodes : i \notin {x, y} => t.tbl[i] = v.tbl[i]
    BY <1>12, <1>13, <1>16
  <1>18. /\ t.tbl[x].sectors = u.tbl[y].sectors /\ t.tbl[x].size = u.tbl[y].size
         /\ t.blk = v.blk /\ t.block_bmap = v.block_bmap /\ t.block_bitmap = v.block_bitmap
         /\ t.inode_bmap = v.inode_bmap \ {y} /\ t.inode_bitmap = t.inode_bmap
    BY <1>6, <1>11, <1>13, <1>16
  <1> QED BY <1>16, <1>17, <1>18, Zenon DEF InodeMoved

\* Without the old name, and with the inode of the source given back: a file
\* that is moved to itself is gone, and its blocks stay allocated.
LEMMA MoveSelf ==
  ASSUME NEW u, Good(u), NEW v, NEW d, NEW y, IsPlain(u, y), IsDir(u, d), Removed(u, v, d, y), y # 0,
         NEW t, t = MoveBlocks(u, v, y, y)
  PROVE  Kept(u, t, {y}) /\ PathsKept(u, t, y)
  <1>0. u \in Partition /\ v \in Partition /\ Synced(v) /\ Walkable(u)
    BY DEF Good, Removed, Walkable
  <1>1. y \in u.inode_bmap /\ y \in Inodes
    BY <1>0, PartFacts DEF IsPlain
  <1>2. /\ t \in Partition /\ \A i \in Inodes : i \notin {y, y} => t.tbl[i] = v.tbl[i]
        /\ t.blk = v.blk /\ t.block_bmap = v.block_bmap /\ t.block_bitmap = v.block_bitmap
        /\ t.inode_bmap = v.inode_bmap \ {y} /\ t.inode_bitmap = t.inode_bmap
    <2>1. InodeMoved(u, v, t, y, y)
      BY <1>0, <1>1, MoveFields
    <2> QED BY <2>1, Zenon DEF InodeMoved
  <1>3. Synced(t) /\ y \notin t.inode_bmap
    BY <1>0, <1>2 DEF Synced
  <1>4. PICK K : K = {}
    OBVIOUS
  <1>5. Released(v, t, y, K)
    <2>1. LbasAt(v, y, K) = {}
      BY <1>4 DEF LbasAt
    <2> QED BY <1>2, <1>3, <2>1 DEF Released
  <1>6. K \in SUBSET SectorNrs
    BY <1>4
  <1>7. ASSUME NEW name, NEW ino, NEW type, Leads(u, y, name, ino, type) PROVE FALSE
    BY <1>0, <1>7, LeadsFacts, DirOrPlain
  <1> QED BY <1>1, <1>2, <1>3, <1>5, <1>6, <1>7, Drop

\* The destination has the sectors and the size of the source.
MovedOver(u, t, y, x) ==
  /\ Kept(u, t, {y} \cup {x}) /\ PathsKept(u, t, y)
  /\ t.tbl[x].sectors = u.tbl[y].sectors /\ t.tbl[x].size = u.tbl[y].size

\* The destination takes over the blocks of the source.
LEMMA MoveOver ==
  ASSUME NEW u, Good(u), NEW v, NEW d, NEW y, IsPlain(u, y), IsDir(u, d), Removed(u, v, d, y), y # 0,
         NEW x, IsPlain(u, x), x # y, NEW t, t = MoveBlocks(u, v, y, x)
  PROVE  MovedOver(u, t, y, x)
  <1>0. u \in Partition /\ v \in Partition /\ Good(v) /\ Synced(v) /\ Walkable(u) /\ Owned(v)
    BY DEF Good, Removed, Walkable, Space
  <1>1. y \in u.inode_bmap /\ y \in Inodes /\ x \in u.inode_bmap /\ x \in Inodes /\ y # d /\ x # d
    BY <1>0, PartFacts, DirOrPlain DEF IsPlain
  <1>2. /\ t \in Partition
        /\ t.tbl[x].sectors = u.tbl[y].sectors /\ t.tbl[x].size = u.tbl[y].size
        /\ \A i \in Inodes : i \notin {x, y} => t.tbl[i] = v.tbl[i]
        /\ t.blk = v.blk /\ t.block_bmap = v.block_bmap /\ t.block_bitmap = v.block_bitmap
        /\ t.inode_bmap = v.inode_bmap \ {y} /\ t.inode_bitmap = t.inode_bmap
    <2>1. InodeMoved(u, v, t, y, x)
      BY <1>0, <1>1, MoveFields
    <2> QED BY <2>1, Zenon DEF InodeMoved
  <1>3. Synced(t)
    BY <1>0, <1>2 DEF Synced
  <1>4. PICK g : g = sync_inode_bitmap(free_inode(v, y))
    OBVIOUS
  <1>5. /\ g \in Partition /\ \A i \in Inodes : i # y => g.tbl[i] = v.tbl[i]
        /\ g.blk = v.blk /\ g.block_bmap = v.block_bmap /\ g.block_bitmap = v.block_bitmap
        /\ g.inode_bmap = v.inode_bmap \ {y} /\ g.inode_bitmap = g.inode_bmap
    <2>1. InodeFreed(v, g, y)
      BY <1>0, <1>1, <1>4, FreesInode
    <2> QED BY <2>1, Zenon DEF InodeFreed
  <1>6. Kept(u, g, {y}) /\ PathsKept(u, g, y)
    <2>1. Synced(g) /\ y \notin g.inode_bmap
      BY <1>0, <1>5 DEF Synced
    <2>2. PICK K : K = {}
      OBVIOUS
    <2>3. Released(v, g, y, K)
      <3>1. LbasAt(v, y, K) = {}
        BY <2>2 DEF LbasAt
      <3> QED BY <1>5, <2>1, <3>1 DEF Released
    <2>4. K \in SUBSET SectorNrs
      BY <2>2
    <2>5. ASSUME NEW name, NEW ino, NEW type, Leads(u, y, name, ino, type) PROVE FALSE
      BY <1>0, <2>5, LeadsFacts, DirOrPlain
    <2> QED BY <1>1, <1>5, <2>1, <2>3, <2>4, <2>5, Drop
  <1>7. Good(g) /\ IsPlain(g, x) /\ Space(g) /\ Tree(g, -1) /\ Walkable(g) /\ FreeClean(g)
    BY <1>6 DEF Kept, Good, Walkable, Space
  <1>8. v.inode_bmap = u.inode_bmap /\ v.tbl[y] = u.tbl[y] /\ IsPlain(v, y)
    <2>1. Frame(u, v, d) /\ v.inode_bmap = u.inode_bmap /\ v.tbl[y] = u.tbl[y]
      BY <1>1 DEF Removed
    <2> QED BY <1>1, <2>1, FrameFacts
  <1>9. \A k \in SectorNrs : Lba(t, x, k) = Lba(v, y, k)
    BY <1>2, <1>8 DEF Lba
  <1>10. x \in t.inode_bmap /\ x \in g.inode_bmap /\ y \in v.inode_bmap
    BY <1>1, <1>2, <1>5, <1>8
  <1>11. Frame(g, t, x)
    <2>1. \A i : i # x => (i \in t.inode_bmap <=> i \in g.inode_bmap)
      BY <1>2, <1>5
    <2>2. \A i \in g.inode_bmap : i # x => t.tbl[i].sectors = g.tbl[i].sectors
      BY <1>2, <1>5, PartFacts
    <2>3. \A b \in Blocks : t.blk[b] = g.blk[b] \/ NotOthers(g, x, b)
      BY <1>2, <1>5
    <2> QED BY <1>5, <2>1, <2>2, <2>3, FrameFrom
  <1>12. ASSUME NEW k \in SectorNrs, Lba(v, y, k) # 0
         PROVE  BlockNo(Lba(v, y, k)) \in g.block_bmap /\ NotOthers(g, x, BlockNo(Lba(v, y, k)))
    <2>1. BlockNo(Lba(v, y, k)) \in v.block_bmap /\ Lba(v, y, k) \in Lbas
      BY <1>0, <1>1, <1>10, <1>12, SectorFacts DEF Owned
    <2>2. ASSUME NEW i \in g.inode_bmap, NEW l \in SectorNrs, Lba(g, i, l) # 0,
                 BlockNo(Lba(g, i, l)) = BlockNo(Lba(v, y, k))
          PROVE  FALSE
      <3>1. i \in v.inode_bmap /\ i # y /\ i \in Inodes
        BY <1>5, <2>2, PartFacts
      <3>2. Lba(g, i, l) = Lba(v, i, l)
        BY <1>5, <3>1 DEF Lba
      <3>3. Lba(g, i, l) \in Lbas
        BY <1>5, <2>2, <3>1, SectorFacts
      <3>4. Lba(v, i, l) = Lba(v, y, k)
        BY <2>1, <2>2, <3>2, <3>3, LbaFacts
      <3> QED BY <1>0, <1>10, <1>12, <3>1, <3>4 DEF Owned
    <2>3. NotOthers(g, x, BlockNo(Lba(v, y, k)))
      BY <2>2, Zenon DEF NotOthers
    <2> QED BY <1>5, <2>1, <2>3
  <1>13. Space(t)
    <2>1. x \in t.inode_bmap => \A k, l \in SectorNrs : Lba(t, x, k) # 0 =>
            /\ BlockNo(Lba(t, x, k)) \in t.block_bmap
            /\ NotOthers(g, x, BlockNo(Lba(t, x, k)))
            /\ Lba(t, x, l) = Lba(t, x, k) => k = l
      <3> SUFFICES ASSUME NEW k \in SectorNrs, NEW l \in SectorNrs, Lba(v, y, k) # 0
                   PROVE  /\ BlockNo(Lba(v, y, k)) \in t.block_bmap
                          /\ NotOthers(g, x, BlockNo(Lba(v, y, k)))
                          /\ Lba(v, y, l) = Lba(v, y, k) => k = l
        BY <1>9
      <3>1. Lba(v, y, l) = Lba(v, y, k) => k = l
        BY <1>0, <1>10 DEF Owned
      <3> QED BY <1>2, <1>5, <1>12, <3>1
    <2>2. \A b \in g.block_bmap : b \notin t.block_bmap => NotOthers(g, x, b)
      BY <1>2, <1>5
    <2>3. \A b \in Blocks : b \notin t.block_bmap => t.blk[b] \in {DATA, ZeroBlock}
      BY <1>2, <1>5, <1>7 DEF FreeClean
    <2> QED BY <1>2, <1>5, <1>7, <1>11, <2>1, <2>2, <2>3, SpaceFrame
  <1>14. IsPlain(t, x)
    <2>1. ASSUME NEW k \in SectorNrs, Lba(t, x, k) # 0 PROVE Block(t, x, k) \in {DATA, ZeroBlock}
      <3>1. Block(v, y, k) \in {DATA, ZeroBlock}
        BY <1>8, <1>9, <2>1 DEF IsPlain
      <3>2. Block(t, x, k) = Block(v, y, k)
        BY <1>2, <1>9 DEF Block, Lba
      <3> QED BY <3>1, <3>2
    <2> QED BY <1>10, <2>1, Zenon DEF IsPlain
  <1>15. Tree(t, -1) /\ LeadsKept(g, t)
    BY <1>5, <1>7, <1>11, <1>14, FileStep
  <1>16. Good(t) /\ Walkable(t)
    BY <1>2, <1>3, <1>13, <1>15 DEF Good, Walkable
  <1>17. PathsKept(g, t, -1)
    BY <1>7, <1>15, <1>16, SamePaths
  <1>18. ASSUME NEW i, IsPlain(g, i), i \notin {x}
         PROVE  IsPlain(t, i) /\ t.tbl[i].sectors = g.tbl[i].sectors /\ t.tbl[i].size = g.tbl[i].size
    <2>1. i \in g.inode_bmap /\ i \in Inodes /\ i # x
      BY <1>5, <1>18, PartFacts DEF IsPlain
    <2>2. i # y
      BY <1>5, <2>1
    <2>3. IsPlain(t, i)
      BY <1>11, <1>18, <2>1, FrameFacts
    <2> QED BY <1>2, <1>5, <2>1, <2>2, <2>3
  <1>19. Kept(g, t, {x})
    BY <1>16, <1>18, Zenon DEF Kept
  <1>20. Kept(u, t, {y} \cup {x})
    BY <1>6, <1>19, KeptTwice
  <1>21. PathsKept(u, t, y)
    <2>1. y # -1
      BY <1>1, Indices
    <2> QED BY <1>6, <1>17, <2>1, PathsTwice
  <1> QED BY <1>2, <1>20, <1>21, Zenon DEF MovedOver

\* Taking an entry away, and the end of move_file, never make a wild partition
\* tame.
LEMMA UpsRemove ==
  ASSUME NEW s, NEW d, NEW name
  PROVE  Ups(s, remove_dir_entry(s, d, name))
  <1>1. PICK D : D = s.tbl[d]
    OBVIOUS
  <1>2. PICK a : a = PutEntry(s, s.tbl[d], Min(Places(s, s.tbl[d], name)), FREE)
    OBVIOUS
  <1>3. \/ remove_dir_entry(s, d, name) = s
        \/ remove_dir_entry(s, d, name) = a
        \/ \E l, inode : remove_dir_entry(s, d, name) =
             sync_inode(sync_block_bitmap(free_blocks(a, {l})), d, inode)
    BY <1>2, Zenon DEF remove_dir_entry, ino2inode
  <1>4. Ups(s, a)
    BY <1>2, UpsEnter, Zenon
  <1>5. ASSUME NEW l, NEW inode
        PROVE  Ups(s, sync_inode(sync_block_bitmap(free_blocks(a, {l})), d, inode))
    <2>1. PICK b : b = free_blocks(a, {l})
      OBVIOUS
    <2>2. PICK c : c = sync_block_bitmap(b)
      OBVIOUS
    <2>3. Ups(a, b)
      BY <2>1, UpsSteps, Zenon
    <2>4. Ups(b, c)
      BY <2>2, UpsSteps, Zenon
    <2>5. Ups(c, sync_inode(c, d, inode))
      BY UpsSteps, Zenon
    <2>6. Ups(s, c)
      BY <1>4, <2>3, <2>4, UpsTwice, Zenon
    <2> QED BY <2>1, <2>2, <2>5, <2>6, UpsTwice, Zenon
  <1>6. Ups(s, s)
    BY DEF Ups
  <1> QED BY <1>3, <1>4, <1>5, <1>6, Zenon

\* Handing the blocks of one inode to another does not, either.
LEMMA UpsMove ==
  ASSUME NEW u, NEW v, NEW y, NEW x
  PROVE  Ups(v, MoveBlocks(u, v, y, x))
  <1>1. PICK M : M = [u.tbl[x] EXCEPT !.sectors = u.tbl[y].sectors, !.size = u.tbl[y].size]
    OBVIOUS
  <1>2. PICK a : a = free_inode(v, y)
    OBVIOUS
  <1>3. PICK b : b = sync_inode(a, x, M)
    OBVIOUS
  <1>4. MoveBlocks(u, v, y, x) = sync_inode_bitmap(b)
    BY <1>1, <1>2, <1>3, Zenon DEF MoveBlocks
  <1>5. Ups(v, a)
    BY <1>2, UpsSteps, Zenon
  <1>6. Ups(a, b)
    BY <1>3, UpsSteps, Zenon
  <1>7. Ups(b, sync_inode_bitmap(b))
    BY UpsSteps, Zenon
  <1> QED BY <1>4, <1>5, <1>6, <1>7, UpsTwice, Zenon

\* What move_file does to the paths: only the old name may stop leading to a
\* file, and then, unless the file was moved to itself, the new one leads to a
\* file with the same sectors and size.
MovedTo(s, t, p, q) ==
  \A r \in Seq(Names) : TypeOf(s, r) = "FILE" /\ TypeOf(t, r) # "FILE" =>
    /\ r = p
    /\ p # q => LET old == s.tbl[dir_is_exists(s, p)]
                    new == t.tbl[dir_is_exists(t, q)]
                IN  /\ TypeOf(t, q) = "FILE"
                    /\ new.sectors = old.sectors /\ new.size = old.size

\* A step that keeps every path loses no file.
LEMMA NoneLost ==
  ASSUME NEW s, Walkable(s), NEW t, NEW y, PathsKept(s, t, y), NEW r \in Seq(Names),
         TypeOf(s, r) = "FILE", TypeOf(t, r) # "FILE"
  PROVE  dir_is_exists(s, r) = y /\ dir_is_exists(s, r) # -1
  <1>1. dir_is_exists(s, r) # -1
    BY TypeCases
  <1> QED BY <1>1 DEF PathsKept

\* move_file keeps every file but the two it is about.
LEMMA Mvfile_ ==
  ASSUME NEW s, Good(s), uid \in Users, NEW p \in Seq(Names), NEW q \in Seq(Names), p # <<>>, q # <<>>,
         TypeOf(s, ParentOf(q)) # "FILE", TypeOf(s, p) \in {"FILE", "NONE"}, TypeOf(s, q) \in {"FILE", "NONE"},
         NEW t, t = move_file(s, p, q), ~t.wild
  PROVE  Kept(s, t, {dir_is_exists(s, p), dir_is_exists(s, q)}) /\ MovedTo(s, t, p, q)
  <1>1. PICK u : u = sys_mkfile(s, q)
    OBVIOUS
  <1>2. PICK y, x : y = dir_is_exists(u, p) /\ x = dir_is_exists(u, q)
    BY Zenon
  <1>3. PICK v : v = ForgetName(u, p)
    OBVIOUS
  <1>4. \/ (y = -1 \/ x = -1) /\ t = Wild(u)
        \/ y # -1 /\ x # -1 /\ t = u
        \/ y # -1 /\ x # -1 /\ t = MoveBlocks(u, v, y, x)
    BY <1>1, <1>2, <1>3, Zenon DEF move_file, ino2inode, MoveBlocks
  <1>5. Flagged(s) /\ Walkable(s)
    BY DEF Good, Flagged, Partition, Walkable
  <1>6. Ups(s, u) /\ Ups(u, MoveBlocks(u, v, y, x)) /\ Ups(u, Wild(u)) /\ Ups(u, u)
    <2>1. Ups(u, v)
      BY <1>3, UpsRemove, Zenon DEF ForgetName
    <2>2. Ups(u, MoveBlocks(u, v, y, x))
      BY <2>1, UpsMove, UpsTwice, Zenon
    <2> QED BY <1>1, <2>2, UpsMkfile, UpsSteps, Zenon DEF Ups
  <1>7. ~u.wild /\ Flagged(u)
    BY <1>4, <1>5, <1>6 DEF Ups
  <1>8. t # Wild(u)
    <2>1. Wild(u).wild = TRUE
      BY <1>7 DEF Wild, Flagged
    <2> QED BY <2>1
  <1>9. Good(u) /\ Kept(s, u, {}) /\ PathsKept(s, u, -1) /\ Walkable(u)
    BY <1>1, <1>7, MkfileKept DEF Walkable, Good
  <1>10. CASE t = u
    <2>1. Kept(s, t, {dir_is_exists(s, p), dir_is_exists(s, q)})
      BY <1>9, <1>10, KnownTo
    <2>2. ASSUME NEW r \in Seq(Names), TypeOf(s, r) = "FILE", TypeOf(t, r) # "FILE" PROVE FALSE
      BY <1>5, <1>9, <1>10, <2>2, NoneLost
    <2> QED BY <2>1, <2>2, Zenon DEF MovedTo
  <1>11. CASE y # -1 /\ x # -1 /\ t = MoveBlocks(u, v, y, x)
    <2>1. /\ IsPlain(u, y) /\ (y \notin s.inode_bmap \/ (y = dir_is_exists(s, p) /\ u.tbl[y] = s.tbl[y]))
          /\ IsPlain(u, x) /\ (x \notin s.inode_bmap \/ x = dir_is_exists(s, q))
          /\ TypeOf(u, q) = "FILE"
      BY <1>1, <1>2, <1>7, <1>11, AfterMkfile
    <2>2. PICK d : d = dir_is_exists(u, ParentOf(p))
      OBVIOUS
    <2>3. Leads(u, d, ChildOf(p), y, TypeOf(u, p))
      BY <1>2, <1>9, <1>11, <2>2, PathEntry
    <2>4. IsDir(u, d) /\ y # 0
      BY <1>9, <2>3, LeadsFacts
    <2>5. Removed(u, v, d, y)
      BY <1>3, <1>9, <2>2, <2>3, Remove, Zenon DEF ForgetName
    <2>6. /\ Kept(u, t, {y} \cup {x}) /\ PathsKept(u, t, y)
          /\ x # y => t.tbl[x].sectors = u.tbl[y].sectors /\ t.tbl[x].size = u.tbl[y].size
      <3>1. CASE x = y
        <4>1. Kept(u, t, {y}) /\ PathsKept(u, t, y)
          BY <1>9, <1>11, <2>1, <2>4, <2>5, <3>1, MoveSelf
        <4>2. {y} \cup {x} = {y}
          BY <3>1
        <4>3. Kept(u, t, {y} \cup {x})
          BY <4>1, <4>2, Zenon
        <4> QED BY <3>1, <4>1, <4>3, Zenon
      <3>2. CASE x # y
        <4>1. /\ Kept(u, t, {y} \cup {x}) /\ PathsKept(u, t, y)
              /\ t.tbl[x].sectors = u.tbl[y].sectors /\ t.tbl[x].size = u.tbl[y].size
          <5>1. IsPlain(u, x) /\ IsPlain(u, y) /\ Good(u) /\ t = MoveBlocks(u, v, y, x)
            BY <1>9, <1>11, <2>1
          <5>2. MovedOver(u, t, y, x)
            BY <2>4, <2>5, <3>2, <5>1, MoveOver
          <5> QED BY <5>2, Zenon DEF MovedOver
        <4> QED BY <4>1, Zenon
      <3> QED BY <3>1, <3>2
    <2>7. Kept(s, t, {dir_is_exists(s, p), dir_is_exists(s, q)})
      <3>1. Kept(s, t, {} \cup ({y} \cup {x}))
        BY <1>9, <2>6, KeptTwice
      <3>2. \A z \in {} \cup ({y} \cup {x}) :
              z \in {dir_is_exists(s, p), dir_is_exists(s, q)} \/ z \notin s.inode_bmap
        BY <2>1
      <3> QED BY <3>1, <3>2, KnownTo
    <2>8. ASSUME NEW r \in Seq(Names), TypeOf(s, r) = "FILE", TypeOf(t, r) # "FILE"
          PROVE  /\ r = p
                 /\ p # q => LET old == s.tbl[dir_is_exists(s, p)]
                                 new == t.tbl[dir_is_exists(t, q)]
                             IN  /\ TypeOf(t, q) = "FILE"
                                 /\ new.sectors = old.sectors /\ new.size = old.size
      <3>1. dir_is_exists(s, r) # -1
        BY <1>5, <2>8, TypeCases
      <3>2. dir_is_exists(u, r) = dir_is_exists(s, r) /\ TypeOf(u, r) = "FILE"
        BY <1>9, <2>8, <3>1 DEF PathsKept
      <3>3. dir_is_exists(u, r) = y
        BY <1>9, <2>6, <2>8, <3>2, NoneLost
      <3>4. r = p
        BY <1>2, <1>9, <1>11, <3>3, Apart
      <3>5. ASSUME p # q
            PROVE  /\ TypeOf(t, q) = "FILE" /\ dir_is_exists(t, q) = x /\ u.tbl[y] = s.tbl[y]
                   /\ dir_is_exists(s, p) = y /\ x # y
        <4>1. x # y
          BY <1>2, <1>9, <1>11, <3>5, Apart
        <4>2. dir_is_exists(t, q) = dir_is_exists(u, q) /\ TypeOf(t, q) = TypeOf(u, q)
          BY <1>2, <1>11, <2>6, <4>1 DEF PathsKept
        <4>3. y = dir_is_exists(s, p)
          BY <3>2, <3>3, <3>4
        <4>4. y \in s.inode_bmap
          BY <1>5, <2>8, <3>4, <4>3, TypeCases DEF IsPlain
        <4> QED BY <1>2, <2>1, <4>1, <4>2, <4>3, <4>4
      <3> QED BY <2>6, <3>4, <3>5
    <2>9. MovedTo(s, t, p, q)
      BY <2>8, Zenon DEF MovedTo
    <2> QED BY <2>7, <2>9
  <1> QED BY <1>4, <1>8, <1>10, <1>11

-----------------------------------------------------------------------------
(* Requests on something they are not meant for: the partition is still one, *)
(* and its bitmaps are on disk.                                              *)

\* CMD_RMDIR, whatever the path names.
LEMMA RmdirSane ==
  ASSUME NEW s, Good(s), NEW p \in Seq(Names), p # <<>>, NEW t, t = sys_rmdir(s, p), ~t.wild
  PROVE  Sane(t)
  <1>0. s \in Partition /\ Walkable(s) /\ Sane(s)
    BY DEF Good, Walkable, Sane
  <1>1. PICK x, d, c, type : /\ x = dir_is_exists(s, p) /\ d = dir_is_exists(s, ParentOf(p))
                             /\ c = ChildOf(p) /\ type = TypeOf(s, p)
    BY Zenon
  <1>2. x # -1 /\ s.tbl[x].sectors[0] # 0
    <2>1. Wild(s).wild = TRUE
      BY <1>0 DEF Wild, Partition
    <2>2. x = -1 \/ s.tbl[x].sectors[0] = 0 => t = Wild(s)
      BY <1>1, Zenon DEF sys_rmdir, ino2inode
    <2> QED BY <2>1, <2>2
  <1>3. CASE t # s
    <2>1. PICK u : u = remove_dir_entry(s, d, c)
      OBVIOUS
    <2>2. t = sync_inode_bitmap(free_inode(u, x))
      BY <1>1, <1>2, <1>3, <2>1, Zenon DEF sys_rmdir, ino2inode
    <2>3. Leads(s, d, c, x, type) /\ x \in Inodes
      BY <1>0, <1>1, <1>2, PathEntry, TypeCases
    <2>4. Removed(s, u, d, x)
      BY <2>1, <2>3, Remove
    <2>5. u \in Partition /\ Synced(u)
      BY <2>4 DEF Removed, Good
    <2>6. /\ t \in Partition /\ t.block_bmap = u.block_bmap /\ t.block_bitmap = u.block_bitmap
          /\ t.inode_bitmap = t.inode_bmap
      BY <2>2, <2>3, <2>5, FreeInode
    <2> QED BY <2>5, <2>6 DEF Sane, Synced
  <1> QED BY <1>0, <1>3

\* CMD_RMFILE.
LEMMA RmfileSane ==
  ASSUME NEW s, Good(s), NEW p \in Seq(Names), p # <<>>, NEW t, t = sys_rmfile(s, p), ~t.wild
  PROVE  Sane(t)
  <1>0. s \in Partition /\ Walkable(s) /\ Sane(s)
    BY DEF Good, Walkable, Sane
  <1>1. PICK x, d, c, type : /\ x = dir_is_exists(s, p) /\ d = dir_is_exists(s, ParentOf(p))
                             /\ c = ChildOf(p) /\ type = TypeOf(s, p)
    BY Zenon
  <1>2. CASE t # s
    <2>1. PICK u, L : u = remove_dir_entry(s, d, c) /\ L = SectorsOf(s.tbl[x])
      BY Zenon
    <2>2. PICK f : f = free_blocks(u, L)
      OBVIOUS
    <2>3. PICK v : v = sync_block_bitmap(f)
      OBVIOUS
    <2>4. x # -1 /\ t = sync_inode_bitmap(free_inode(v, x))
      BY <1>1, <1>2, <2>1, <2>2, <2>3, Zenon DEF sys_rmfile, ino2inode, free_inode_sectors
    <2>5. Leads(s, d, c, x, type) /\ x \in Inodes
      BY <1>0, <1>1, <2>4, PathEntry, TypeCases
    <2>6. Removed(s, u, d, x)
      BY <2>1, <2>5, Remove
    <2>7. u \in Partition
      BY <2>6 DEF Removed, Good
    <2>8. L \subseteq Lbas /\ 0 \notin L
      <3>1. s.tbl[x].sectors \in [SectorNrs -> Lbas]
        BY <1>0, <2>5, PartFacts
      <3> QED BY <2>1, <3>1 DEF SectorsOf
    <2>9. f \in Partition
      BY <2>2, <2>7, <2>8, FreeFields
    <2>10. v \in Partition /\ v.block_bitmap = v.block_bmap
      BY <2>3, <2>9, SyncBlocks
    <2>11. /\ t \in Partition /\ t.block_bmap = v.block_bmap /\ t.block_bitmap = v.block_bitmap
           /\ t.inode_bitmap = t.inode_bmap
      BY <2>4, <2>5, <2>10, FreeInode
    <2> QED BY <2>10, <2>11 DEF Sane, Synced
  <1> QED BY <1>0, <1>2

\* CMD_CPFILE.
LEMMA CpfileSane ==
  ASSUME NEW s, Good(s), uid \in Users, NEW p \in Seq(Names), NEW q \in Seq(Names), q # <<>>,
         TypeOf(s, ParentOf(q)) # "FILE", NEW t, t = copy_file(s, p, q), ~t.wild
  PROVE  Sane(t)
  <1>1. PICK u : u = sys_mkfile(s, q)
    OBVIOUS
  <1>2. PICK y, x : y = dir_is_exists(u, p) /\ x = dir_is_exists(u, q)
    BY Zenon
  <1>3. \/ (y = -1 \/ x = -1) /\ t = Wild(u)
        \/ y # -1 /\ x # -1 /\ t = u
        \/ y # -1 /\ x # -1 /\ t = CopyBlocks(u, y, x)
    BY <1>1, <1>2, Zenon DEF copy_file, ino2inode, CopyBlocks
  <1>4. Flagged(s)
    BY DEF Good, Flagged, Partition
  <1>5. Ups(s, u) /\ Ups(u, CopyBlocks(u, y, x)) /\ Ups(u, Wild(u)) /\ Ups(u, u)
    BY <1>1, UpsMkfile, UpsCopy, UpsSteps, Zenon DEF Ups
  <1>6. ~u.wild /\ Flagged(u)
    BY <1>3, <1>4, <1>5 DEF Ups
  <1>7. t # Wild(u)
    <2>1. Wild(u).wild = TRUE
      BY <1>6 DEF Wild, Flagged
    <2> QED BY <2>1
  <1>8. Good(u) /\ Walkable(u) /\ u \in Partition /\ Synced(u)
    BY <1>1, <1>6, MkfileKept DEF Good, Walkable
  <1>9. CASE y # -1 /\ x # -1 /\ t = CopyBlocks(u, y, x)
    <2>1. y \in Inodes /\ x \in Inodes
      BY <1>2, <1>8, <1>9, TypeCases
    <2>2. PICK at : at = {i \in SectorNrs : u.tbl[y].sectors[i] # 0}
      OBVIOUS
    <2>3. PICK r : r = GiveBlocks(u, u.tbl[x], at)
      OBVIOUS
    <2>4. PICK m : m = CopySectors(r.s, u.tbl[y], r.inode, at)
      OBVIOUS
    <2>5. PICK E : E = [r.inode EXCEPT !.size = u.tbl[y].size]
      OBVIOUS
    <2>6. PICK v : v = sync_inode(m, x, E)
      OBVIOUS
    <2>7. t = sync_block_bitmap(v)
      BY <1>9, <2>2, <2>3, <2>4, <2>5, <2>6, Zenon DEF CopyBlocks
    <2>8. at \in SUBSET SectorNrs /\ u.tbl[x] \in Inode /\ u.tbl[y] \in Inode
      BY <1>8, <2>1, <2>2, PartFacts
    <2>9. Ups(u, r.s) /\ (~r.s.wild => Given(u, u.tbl[x], at, r))
      BY <1>8, <2>3, <2>8, GiveAll
    <2>10. ~r.s.wild
      <3>1. Ups(r.s, m) /\ Ups(m, v) /\ Ups(v, t)
        BY <2>4, <2>6, <2>7, UpsSteps, Zenon
      <3>2. Ups(r.s, t)
        BY <3>1, UpsTwice
      <3> QED BY <1>6, <2>9, <3>2 DEF Ups
    <2>11. /\ r.s \in Partition /\ r.inode \in Inode /\ r.s.inode_bmap = u.inode_bmap
           /\ r.s.inode_bitmap = u.inode_bitmap
      BY <2>9, <2>10, Zenon DEF Given
    <2>12. m \in Partition /\ m.inode_bmap = r.s.inode_bmap /\ m.inode_bitmap = r.s.inode_bitmap
      <3>1. PICK A : A = u.tbl[y]
        OBVIOUS
      <3>2. \A k \in at : A.sectors[k] \in Lbas /\ A.sectors[k] # 0
        BY <2>2, <2>8, <3>1 DEF Inode
      <3>3. m = CopySectors(r.s, A, r.inode, at)
        BY <2>4, <3>1
      <3> QED BY <2>8, <2>11, <3>2, <3>3, CopiesSectors
    <2>13. E \in Inode
      BY <2>5, <2>8, <2>11 DEF Inode
    <2>14. v \in Partition /\ v.inode_bmap = m.inode_bmap /\ v.inode_bitmap = m.inode_bitmap
      BY <2>1, <2>6, <2>12, <2>13, SyncInode
    <2>15. /\ t \in Partition /\ t.block_bitmap = t.block_bmap
           /\ t.inode_bmap = v.inode_bmap /\ t.inode_bitmap = v.inode_bitmap
      BY <2>7, <2>14, SyncBlocks
    <2> QED BY <1>8, <2>11, <2>12, <2>14, <2>15 DEF Sane, Synced
  <1> QED BY <1>3, <1>7, <1>8, <1>9 DEF Sane

\* CMD_MVFILE.
LEMMA MvfileSane ==
  ASSUME NEW s, Good(s), uid \in Users, NEW p \in Seq(Names), NEW q \in Seq(Names), p # <<>>, q # <<>>,
         TypeOf(s, ParentOf(q)) # "FILE", NEW t, t = move_file(s, p, q), ~t.wild
  PROVE  Sane(t)
  <1>1. PICK u : u = sys_mkfile(s, q)
    OBVIOUS
  <1>2. PICK y, x : y = dir_is_exists(u, p) /\ x = dir_is_exists(u, q)
    BY Zenon
  <1>3. PICK v : v = ForgetName(u, p)
    OBVIOUS
  <1>4. \/ (y = -1 \/ x = -1) /\ t = Wild(u)
        \/ y # -1 /\ x # -1 /\ t = u
        \/ y # -1 /\ x # -1 /\ t = MoveBlocks(u, v, y, x)
    BY <1>1, <1>2, <1>3, Zenon DEF move_file, ino2inode, MoveBlocks
  <1>5. Flagged(s)
    BY DEF Good, Flagged, Partition
  <1>6. Ups(s, u) /\ Ups(u, MoveBlocks(u, v, y, x)) /\ Ups(u, Wild(u)) /\ Ups(u, u)
    <2>1. Ups(u, v)
      BY <1>3, UpsRemove, Zenon DEF ForgetName
    <2>2. Ups(u, MoveBlocks(u, v, y, x))
      BY <2>1, UpsMove, UpsTwice, Zenon
    <2> QED BY <1>1, <2>2, UpsMkfile, UpsSteps, Zenon DEF Ups
  <1>7. ~u.wild /\ Flagged(u)
    BY <1>4, <1>5, <1>6 DEF Ups
  <1>8. t # Wild(u)
    <2>1. Wild(u).wild = TRUE
      BY <1>7 DEF Wild, Flagged
    <2> QED BY <2>1
  <1>9. Good(u) /\ Walkable(u) /\ u \in Partition /\ Synced(u)
    BY <1>1, <1>7, MkfileKept DEF Good, Walkable
  <1>10. CASE y # -1 /\ x # -1 /\ t = MoveBlocks(u, v, y, x)
    <2>1. y \in Inodes /\ x \in Inodes
      BY <1>2, <1>9, <1>10, TypeCases
    <2>2. PICK d : d = dir_is_exists(u, ParentOf(p))
      OBVIOUS
    <2>3. Leads(u, d, ChildOf(p), y, TypeOf(u, p))
      BY <1>2, <1>9, <1>10, <2>2, PathEntry
    <2>4. Removed(u, v, d, y)
      BY <1>3, <1>9, <2>2, <2>3, Remove, Zenon DEF ForgetName
    <2>5. v \in Partition /\ Synced(v)
      BY <2>4 DEF Removed, Good
    <2>6. InodeMoved(u, v, t, y, x)
      BY <1>9, <1>10, <2>1, <2>5, MoveFields
    <2> QED BY <2>5, <2>6 DEF InodeMoved, Sane, Synced
  <1> QED BY <1>4, <1>8, <1>9, <1>10 DEF Sane

-----------------------------------------------------------------------------
(* Requests that change no block, and starting. *)

\* The two partitions differ in modes, owners and the wild flag at most.
SameShape(s, t) ==
  /\ t \in Partition /\ t.blk = s.blk
  /\ t.inode_bmap = s.inode_bmap /\ t.inode_bitmap = s.inode_bitmap
  /\ t.block_bmap = s.block_bmap /\ t.block_bitmap = s.block_bitmap
  /\ \A i \in Inodes : t.tbl[i].sectors = s.tbl[i].sectors /\ t.tbl[i].size = s.tbl[i].size

\* Modes and owners have no part in what the files and the paths are.
LEMMA SameShapeKept ==
  ASSUME NEW s, Good(s), NEW t, SameShape(s, t)
  PROVE  Kept(s, t, {}) /\ PathsKept(s, t, -1)
  <1>1. /\ s \in Partition /\ t \in Partition /\ Space(s) /\ Tree(s, -1) /\ Synced(s) /\ FreeClean(s)
        /\ Walkable(s)
    BY DEF Good, SameShape, Space, Walkable
  <1>2. PICK x : x = -1
    OBVIOUS
  <1>3. x \notin Inodes /\ x \notin s.inode_bmap /\ x \notin t.inode_bmap
    BY <1>1, <1>2, Indices, PartFacts
  <1>4. \A i \in s.inode_bmap : i \in Inodes
    BY <1>1, PartFacts
  <1>5. Frame(s, t, x)
    <2>1. \A i : i # x => (i \in t.inode_bmap <=> i \in s.inode_bmap)
      BY DEF SameShape
    <2>2. \A i \in s.inode_bmap : i # x => t.tbl[i].sectors = s.tbl[i].sectors
      BY <1>4 DEF SameShape
    <2>3. \A b \in Blocks : t.blk[b] = s.blk[b] \/ NotOthers(s, x, b)
      BY DEF SameShape
    <2> QED BY <1>1, <2>1, <2>2, <2>3, FrameFrom
  <1>6. ASSUME NEW i, i # x
        PROVE  /\ IsDir(t, i) <=> IsDir(s, i)
               /\ IsPlain(t, i) <=> IsPlain(s, i)
               /\ \A k, j : /\ Ent(t, i, k, j) <=> Ent(s, i, k, j)
                            /\ Ent(s, i, k, j) => At(t, i, k, j) = At(s, i, k, j)
    BY <1>5, <1>6, FrameFacts
  <1>7. Space(t)
    <2>1. \A b \in Blocks : b \notin t.block_bmap => t.blk[b] \in {DATA, ZeroBlock}
      BY <1>1 DEF FreeClean, SameShape
    <2>2. \A b \in s.block_bmap : b \notin t.block_bmap => NotOthers(s, x, b)
      BY DEF SameShape
    <2> QED BY <1>1, <1>3, <1>5, <2>1, <2>2, SpaceFrame
  <1>8. ASSUME NEW i, NEW k, NEW j, Ent(t, i, k, j) PROVE i # x
    BY <1>3, <1>8 DEF Ent
  <1>9. Sub(s, t)
    BY <1>6, <1>8 DEF Sub
  <1>10. IsDir(t, 0)
    BY <1>1, <1>2, <1>6 DEF Tree
  <1>11. ASSUME NEW i, NEW k, NEW j, Ent(t, i, k, j), At(t, i, k, j).ino = x PROVE FALSE
    <2>1. Ent(s, i, k, j) /\ At(t, i, k, j) = At(s, i, k, j)
      BY <1>9, <1>11 DEF Sub
    <2>2. At(s, i, k, j).ino \in s.inode_bmap
      BY <1>1, <2>1 DEF Tree, Refs
    <2> QED BY <1>3, <1>11, <2>1, <2>2
  <1>12. Tree(t, -1)
    BY <1>1, <1>2, <1>5, <1>9, <1>10, <1>11, TreeSub
  <1>13. Good(t) /\ Walkable(t)
    <2>1. Synced(t)
      BY <1>1 DEF Synced, SameShape
    <2> QED BY <1>1, <1>7, <1>12, <2>1 DEF Good, Walkable
  <1>14. ASSUME NEW i, IsPlain(s, i)
         PROVE  IsPlain(t, i) /\ t.tbl[i].sectors = s.tbl[i].sectors /\ t.tbl[i].size = s.tbl[i].size
    <2>1. i \in s.inode_bmap
      BY <1>14 DEF IsPlain
    <2>2. i \in Inodes /\ i # x
      BY <1>3, <1>4, <2>1
    <2> QED BY <1>6, <1>14, <2>2 DEF SameShape
  <1>15. LeadsKept(s, t)
    <2>1. ASSUME NEW d, NEW name, NEW ino, NEW type, Leads(s, d, name, ino, type)
          PROVE  Leads(t, d, name, ino, type)
      <3>1. PICK k, j : /\ Ent(s, d, k, j) /\ At(s, d, k, j).name = name
                        /\ At(s, d, k, j).ino = ino /\ At(s, d, k, j).type = type
        BY <2>1, Zenon DEF Leads
      <3>2. d # x
        BY <1>3, <3>1 DEF Ent
      <3>3. Ent(t, d, k, j) /\ At(t, d, k, j) = At(s, d, k, j)
        BY <1>6, <3>1, <3>2
      <3> QED BY <3>1, <3>3, Zenon DEF Leads
    <2> QED BY <2>1, Zenon DEF LeadsKept
  <1>16. PathsKept(s, t, -1)
    BY <1>1, <1>13, <1>15, SamePaths
  <1>17. Kept(s, t, {})
    BY <1>13, <1>14, Zenon DEF Kept
  <1> QED BY <1>16, <1>17

\* sys_chmod and sys_chown.
LEMMA Manage_ ==
  ASSUME NEW s, Good(s), NEW x \in Inodes, NEW D \in Inode,
         D.sectors = s.tbl[x].sectors, D.size = s.tbl[x].size, NEW t, t = sync_inode(s, x, D)
  PROVE  Kept(s, t, {}) /\ PathsKept(s, t, -1)
  <1>1. s \in Partition
    BY DEF Good
  <1>2. /\ t \in Partition /\ t.tbl[x] = D /\ \A i \in Inodes : i # x => t.tbl[i] = s.tbl[i]
        /\ t.blk = s.blk /\ t.block_bmap = s.block_bmap /\ t.block_bitmap = s.block_bitmap
        /\ t.inode_bmap = s.inode_bmap /\ t.inode_bitmap = s.inode_bitmap
    BY <1>1, SyncInode
  <1>3. \A i \in Inodes : t.tbl[i].sectors = s.tbl[i].sectors /\ t.tbl[i].size = s.tbl[i].size
    BY <1>2
  <1>4. SameShape(s, t)
    BY <1>2, <1>3, Zenon DEF SameShape
  <1> QED BY <1>4, SameShapeKept

\* A request that went wrong leaves the partition as it was, marked.
LEMMA Wild_ ==
  ASSUME NEW s, Good(s)
  PROVE  Kept(s, Wild(s), {}) /\ PathsKept(s, Wild(s), -1)
  <1>1. s \in Partition
    BY DEF Good
  <1>2. /\ Wild(s) \in Partition /\ Wild(s).tbl = s.tbl /\ Wild(s).blk = s.blk
        /\ Wild(s).inode_bmap = s.inode_bmap /\ Wild(s).inode_bitmap = s.inode_bitmap
        /\ Wild(s).block_bmap = s.block_bmap /\ Wild(s).block_bitmap = s.block_bitmap
    BY <1>1 DEF Wild, Partition
  <1>3. SameShape(s, Wild(s))
    BY <1>2, Zenon DEF SameShape
  <1> QED BY <1>3, SameShapeKept

\* The inode of the root directory of an installed partition.
RootInode == [size |-> 2, uid |-> 0, mode |-> DEFAULT_PRIVILEGE,
              sectors |-> [NoSectors EXCEPT ![0] = DATA_START]]

\* init_fs makes a partition with an empty root directory, whatever was there.
LEMMA Install ==
  ASSUME NEW s \in Partition, NEW t, t = init_fs(s)
  PROVE  Good(t)
  <1>1. PICK T : T = [i \in Inodes |-> IF i = 0 THEN RootInode ELSE ZeroInode]
    OBVIOUS
  <1>2. PICK B : B = [b \in Blocks |-> CASE b = 0 -> DotEntries(0, 0)
                                         [] b \in 1 .. 2 -> ZeroBlock
                                         [] OTHER -> Leftover(s.blk[b])]
    OBVIOUS
  <1>3. s.magic # PRIMARY_MAGIC
    BY PartFacts DEF PRIMARY_MAGIC, MAGIC, NO_MAGIC
  <1>4. PICK a : a = [s EXCEPT !.magic = MAGIC, !.block_bitmap = {0}, !.inode_bitmap = {0},
                               !.tbl = T, !.blk = B]
    OBVIOUS
  <1>5. a = partition_install_fs(s)
    BY <1>1, <1>2, <1>4, Zenon DEF partition_install_fs, RootInode
  <1>6. t = [a EXCEPT !.block_bmap = a.block_bitmap, !.inode_bmap = a.inode_bitmap, !.wild = FALSE]
    BY <1>3, <1>5, Zenon DEF init_fs, mount_partition
  <1>7. 0 \in Inodes /\ 0 \in Blocks /\ 0 \in SectorNrs /\ 0 \in SlotNrs /\ 1 \in SlotNrs
    BY Indices
  <1>8. NoSectors \in [SectorNrs -> Lbas] /\ DATA_START \in Lbas /\ DATA_START # 0 /\ BlockNo(DATA_START) = 0
    BY LbaFacts, <1>7 DEF NoSectors, BlockNo, DATA_START, Lbas
  <1>9. RootInode \in Inode /\ ZeroInode \in Inode
    <2>1. 0 \in Nat /\ 2 \in Nat
      OBVIOUS
    <2>2. 0 \in Users /\ {} \in SUBSET Bits /\ DEFAULT_PRIVILEGE \in SUBSET Bits
      BY UsersAssumption DEF DEFAULT_PRIVILEGE
    <2>3. [NoSectors EXCEPT ![0] = DATA_START] \in [SectorNrs -> Lbas]
      BY <1>8
    <2> QED BY <1>8, <2>1, <2>2, <2>3 DEF ZeroInode, RootInode, Inode
  <1>10. T \in [Inodes -> Inode] /\ T[0] = RootInode
    BY <1>1, <1>7, <1>9
  <1>11. /\ DotEntries(0, 0) \in [SlotNrs -> Entries] /\ DotEntries(0, 0) # DATA
         /\ DotEntries(0, 0)[0].name = "." /\ DotEntries(0, 0)[1].name = ".."
         /\ \A j \in SlotNrs : DotEntries(0, 0)[j].name \notin Names
    BY <1>7, DotFacts
  <1>12. B[0] = DotEntries(0, 0)
    BY <1>2, <1>7
  <1>13. ASSUME NEW b \in Blocks, b # 0 PROVE B[b] \in {DATA, ZeroBlock}
    <2>1. Leftover(s.blk[b]) \in {DATA, ZeroBlock}
      BY LeftoverFacts
    <2>2. B[b] = ZeroBlock \/ B[b] = Leftover(s.blk[b])
      BY <1>2, <1>13
    <2> QED BY <2>1, <2>2
  <1>14. B \in [Blocks -> [SlotNrs -> Entries] \cup {DATA}]
    <2>1. \A b \in Blocks : B[b] \in [SlotNrs -> Entries] \cup {DATA}
      BY <1>11, <1>12, <1>13, ZeroFacts
    <2> QED BY <1>2, <2>1
  <1>15. /\ a \in Partition /\ a.tbl = T /\ a.blk = B
         /\ a.block_bitmap = {0} /\ a.inode_bitmap = {0}
    <2>1. MAGIC \in {NO_MAGIC, MAGIC} /\ {0} \subseteq Blocks /\ {0} \subseteq Inodes
      BY <1>7
    <2> QED BY <1>4, <1>10, <1>14, <2>1 DEF Partition
  <1>16. /\ t \in Partition /\ t.tbl = T /\ t.blk = B
         /\ t.block_bitmap = {0} /\ t.inode_bitmap = {0} /\ t.block_bmap = {0} /\ t.inode_bmap = {0}
    <2>1. {0} \subseteq Blocks /\ {0} \subseteq Inodes
      BY <1>7
    <2> QED BY <1>6, <1>15, <2>1 DEF Partition
  <1>17. Lba(t, 0, 0) = DATA_START /\ \A k \in SectorNrs : k # 0 => Lba(t, 0, k) = 0
    <2>1. T[0].sectors = [NoSectors EXCEPT ![0] = DATA_START]
      BY <1>10 DEF RootInode
    <2>2. \A k \in SectorNrs : NoSectors[k] = 0
      BY DEF NoSectors
    <2> QED BY <1>7, <1>8, <1>16, <2>1, <2>2 DEF Lba
  <1>18. Block(t, 0, 0) = DotEntries(0, 0)
    BY <1>8, <1>12, <1>16, <1>17 DEF Block, Lba
  <1>19. IsDir(t, 0)
    <2>1. \A k \in SectorNrs : Lba(t, 0, k) # 0 => Block(t, 0, k) # DATA
      BY <1>11, <1>17, <1>18
    <2> QED BY <1>8, <1>11, <1>16, <1>17, <1>18, <2>1 DEF IsDir, At
  <1>20. ASSUME NEW i, NEW k, NEW j, Ent(t, i, k, j) PROVE FALSE
    <2>1. i = 0 /\ j \in SlotNrs
      BY <1>16, <1>20 DEF Ent, IsDir
    <2>2. k = 0 /\ At(t, 0, k, j).name \in Names
      BY <1>17, <1>20, <2>1 DEF Ent
    <2> QED BY <1>11, <1>18, <2>1, <2>2 DEF At
  <1>21. Tree(t, -1)
    <2>1. Refs(t, -1)
      BY <1>20, Zenon DEF Refs
    <2>2. Once(t)
      BY <1>20, ZenonT(60) DEF Once
    <2> QED BY <1>19, <2>1, <2>2 DEF Tree
  <1>22. Owned(t)
    BY <1>8, <1>16, <1>17 DEF Owned
  <1>23. FreeClean(t)
    BY <1>13, <1>16 DEF FreeClean
  <1> QED BY <1>16, <1>21, <1>22, <1>23 DEF Good, Space, Synced

\* A disk that nothing was written to is one.
LEMMA Blank == BlankDisk \in Partition
  <1>1. [b \in Blocks |-> ZeroBlock] \in [Blocks -> [SlotNrs -> Entries] \cup {DATA}]
    BY ZeroFacts
  <1>2. ZeroInode \in Inode
    <2>1. NoSectors \in [SectorNrs -> Lbas]
      BY LbaFacts DEF NoSectors
    <2>2. 0 \in Nat
      OBVIOUS
    <2>3. 0 \in Users /\ {} \in SUBSET Bits
      BY UsersAssumption
    <2> QED BY <2>1, <2>2, <2>3 DEF ZeroInode, Inode
  <1>3. [i \in Inodes |-> ZeroInode] \in [Inodes -> Inode]
    BY <1>2
  <1> QED BY <1>1, <1>3 DEF BlankDisk, Partition

-----------------------------------------------------------------------------
(* Open files. *)

FileRec == [ino : Inodes, inode : Inode, offset : Nat]

\* The copy of an open file is that of a file, and up to date.
Fresh(s, file) ==
  /\ IsPlain(s, file.ino)
  /\ file.inode.sectors = s.tbl[file.ino].sectors /\ file.inode.size = s.tbl[file.ino].size

\* Two slots never have the same file.
Single(f) ==
  \A fd1, fd2 \in Fds : f[fd1] # NULL /\ f[fd2] # NULL /\ f[fd1].ino = f[fd2].ino => fd1 = fd2

\* The open files, slot by slot.
LEMMA OpenParts ==
  ASSUME NEW s, NEW f
  PROVE  OpenFiles(s, f) <=> /\ f \in [Fds -> {NULL} \cup FileRec]
                             /\ \A fd \in Fds : f[fd] # NULL => Fresh(s, f[fd])
                             /\ Single(f)
  BY DEF OpenFiles, FileRec, Fresh, Single

\* A file that a step keeps is still open.
LEMMA KeptFresh ==
  ASSUME NEW s, NEW t, NEW X, Kept(s, t, X), NEW file, Fresh(s, file), file.ino \notin X
  PROVE  Fresh(t, file)
  BY DEF Kept, Fresh

\* A step that is not about an open file.
LEMMA StillOpen ==
  ASSUME NEW s, NEW t, NEW f, OpenFiles(s, f), NEW X, Kept(s, t, X),
         \A fd \in Fds : f[fd] # NULL => f[fd].ino \notin X
  PROVE  OpenFiles(t, f)
  <1>1. /\ f \in [Fds -> {NULL} \cup FileRec] /\ Single(f)
        /\ \A fd \in Fds : f[fd] # NULL => Fresh(s, f[fd])
    BY OpenParts
  <1>2. \A fd \in Fds : f[fd] # NULL => Fresh(t, f[fd])
    BY <1>1, KeptFresh
  <1> QED BY <1>1, <1>2, OpenParts

\* The other slots have other files than those of X, and than R.
Others(f, fd0, X, R) ==
  \A fd \in Fds : fd # fd0 /\ f[fd] # NULL =>
    f[fd].ino \notin X /\ (R # NULL => f[fd].ino # R.ino)

\* A step on the file in one slot.
LEMMA SlotChange ==
  ASSUME NEW s, NEW t, NEW f, OpenFiles(s, f), NEW X, Kept(s, t, X), NEW fd0 \in Fds,
         NEW R, R = NULL \/ (R \in FileRec /\ Fresh(t, R)), NEW g, g = [f EXCEPT ![fd0] = R],
         Others(f, fd0, X, R)
  PROVE  OpenFiles(t, g)
  <1>1. /\ f \in [Fds -> {NULL} \cup FileRec] /\ Single(f)
        /\ \A fd \in Fds : f[fd] # NULL => Fresh(s, f[fd])
    BY OpenParts
  <1>2. g \in [Fds -> {NULL} \cup FileRec]
    BY <1>1
  <1>3. g[fd0] = R /\ \A fd \in Fds : fd # fd0 => g[fd] = f[fd]
    BY <1>1
  <1>4. ASSUME NEW fd \in Fds, g[fd] # NULL PROVE Fresh(t, g[fd])
    <2>1. CASE fd = fd0
      BY <1>3, <1>4, <2>1
    <2>2. CASE fd # fd0
      <3>1. g[fd] = f[fd] /\ f[fd] # NULL
        BY <1>3, <1>4, <2>2
      <3>2. Fresh(s, f[fd]) /\ f[fd].ino \notin X
        BY <1>1, <2>2, <3>1 DEF Others
      <3> QED BY <3>1, <3>2, KeptFresh
    <2> QED BY <2>1, <2>2
  <1>5. Single(g)
    <2> SUFFICES ASSUME NEW fd1 \in Fds, NEW fd2 \in Fds, g[fd1] # NULL, g[fd2] # NULL, g[fd1].ino = g[fd2].ino
                 PROVE  fd1 = fd2
      BY DEF Single
    <2>1. CASE fd1 = fd0 /\ fd2 # fd0
      BY <1>3, <2>1 DEF Others
    <2>2. CASE fd1 # fd0 /\ fd2 = fd0
      BY <1>3, <2>2 DEF Others
    <2>3. CASE fd1 # fd0 /\ fd2 # fd0
      BY <1>1, <1>3, <2>3 DEF Single
    <2> QED BY <2>1, <2>2, <2>3
  <1> QED BY <1>2, <1>4, <1>5, OpenParts

-----------------------------------------------------------------------------
(* The requests. *)

\* What a request owes to the invariant, but for the count of requests.
After == Good(fs') /\ OpenFiles(fs', fdt') /\ uid' \in Users

\* Every path to a file still leads to a file.
KeepsFiles(s, t) == \A r \in Seq(Names) : TypeOf(s, r) = "FILE" => TypeOf(t, r) = "FILE"

\* A step that keeps the paths keeps the files.
LEMMA PathsFiles ==
  ASSUME NEW s, Good(s), NEW t, NEW x, PathsKept(s, t, x), x = -1 \/ ~IsPlain(s, x)
  PROVE  KeepsFiles(s, t)
  <1>1. Walkable(s)
    BY DEF Good, Walkable
  <1>2. ASSUME NEW r \in Seq(Names), TypeOf(s, r) = "FILE", TypeOf(t, r) # "FILE" PROVE FALSE
    <2>1. dir_is_exists(s, r) = x /\ dir_is_exists(s, r) # -1
      BY <1>1, <1>2, NoneLost
    <2>2. IsPlain(s, dir_is_exists(s, r))
      BY <1>1, <1>2, TypeCases
    <2> QED BY <2>1, <2>2
  <1> QED BY <1>2, Zenon DEF KeepsFiles

\* A request that is not about an open file, and leaves the table alone.
LEMMA Calm ==
  ASSUME Tidy, NEW X, Kept(fs, fs', X), UNCHANGED <<fdt, uid>>,
         \A fd \in Fds : fdt[fd] # NULL => fdt[fd].ino \notin X
  PROVE  After
  <1>1. OpenFiles(fs, fdt) /\ uid \in Users /\ fdt' = fdt /\ uid' = uid
    BY DEF Tidy
  <1>2. OpenFiles(fs', fdt)
    BY <1>1, StillOpen
  <1>3. Good(fs')
    BY DEF Kept
  <1> QED BY <1>1, <1>2, <1>3 DEF After

\* One that takes nothing away.
LEMMA Quiet ==
  ASSUME Tidy, Kept(fs, fs', {}), PathsKept(fs, fs', -1), UNCHANGED <<fdt, uid>>
  PROVE  After /\ KeepsFiles(fs, fs')
  <1>1. Good(fs)
    BY DEF Tidy
  <1>2. PICK X : X = {}
    OBVIOUS
  <1>3. Kept(fs, fs', X)
    BY <1>2
  <1>4. After
    BY <1>2, <1>3, Calm
  <1>5. KeepsFiles(fs, fs')
    BY <1>1, PathsFiles
  <1> QED BY <1>4, <1>5

\* The paths that clients send.
LEMMA PathFacts ==
  ASSUME NEW path \in DirPaths \cup FilePaths \cup Managed
  PROVE  path \in Seq(Names) /\ path # <<>>
  BY PathsAssumption

\* A path that is sound has no file for a parent.
LEMMA SoundFacts ==
  ASSUME NEW path \in Seq(Names), path # <<>>, Sound(path)
  PROVE  TypeOf(fs, ParentOf(path)) # "FILE"
  <1>1. Len(path) - 1 \in 0 .. Len(path) - 1
    BY EmptySeq, LenProperties
  <1> QED BY <1>1, Zenon DEF Sound, ParentOf

\* What a request owes to the invariant, whatever it was used for.
Settled ==
  /\ Sane(fs') /\ fdt' \in [Fds -> {NULL} \cup FileRec]
  /\ uid' \in Users /\ misused' \in BOOLEAN

\* A request that keeps the invariant.
LEMMA AfterSettled ==
  ASSUME After, misused' \in BOOLEAN
  PROVE  Settled
  BY OpenParts DEF After, Settled, Good, Sane

\* One on the partition that is sane at its end.
LEMMA SaneSettled ==
  ASSUME Tidy, NEW t, t.wild \/ Sane(t), fs' = (IF t.wild THEN Wild(fs) ELSE t),
         UNCHANGED <<fdt, uid>>, misused' \in BOOLEAN
  PROVE  Settled
  <1>1. Good(fs) /\ fdt \in [Fds -> {NULL} \cup FileRec] /\ uid \in Users
    BY OpenParts DEF Tidy
  <1>2. Good(Wild(fs))
    BY <1>1, Wild_ DEF Kept
  <1>3. Sane(fs')
    BY <1>2 DEF Good, Sane
  <1> QED BY <1>1, <1>3 DEF Settled

\* A request that changes nothing.
LEMMA NoChange ==
  ASSUME Tidy, UNCHANGED <<fs, fdt>>, uid' = uid
  PROVE  After /\ fs' = fs
  BY DEF Tidy, After

\* CMD_MKDIR.
LEMMA MkdirStep ==
  ASSUME Tidy, NEW path \in DirPaths, Mkdir(path)
  PROVE  After /\ KeepsFiles(fs, fs')
  <1>1. /\ Good(fs) /\ uid \in Users /\ path \in Seq(Names) /\ path # <<>>
        /\ TypeOf(fs, ParentOf(path)) # "FILE" /\ UNCHANGED <<fdt, uid>>
    BY PathFacts, SoundFacts DEF Tidy, Mkdir
  <1>2. PICK t : t = sys_mkdir(fs, path)
    OBVIOUS
  <1>3. fs' = IF t.wild THEN Wild(fs) ELSE t
    BY <1>2, Zenon DEF Mkdir, Becomes
  <1>4. CASE t.wild
    BY <1>1, <1>3, <1>4, Wild_, Quiet
  <1>5. CASE ~t.wild
    <2>1. t = fs \/ \E x : Wider(fs, t, x, "DIR")
      BY <1>1, <1>2, <1>5, Mkdir_
    <2>2. Kept(fs, t, {}) /\ PathsKept(fs, t, -1)
      <3>1. CASE t = fs
        BY <1>1, <3>1, KeptSelf
      <3>2. CASE \E x : Wider(fs, t, x, "DIR")
        BY <1>1, <3>2, WiderKept
      <3> QED BY <2>1, <3>1, <3>2
    <2> QED BY <1>1, <1>3, <1>5, <2>2, Quiet
  <1> QED BY <1>4, <1>5

\* CMD_MKFILE.
LEMMA MkfileStep ==
  ASSUME Tidy, NEW path \in FilePaths, Mkfile(path)
  PROVE  After /\ KeepsFiles(fs, fs')
  <1>1. /\ Good(fs) /\ uid \in Users /\ path \in Seq(Names) /\ path # <<>>
        /\ TypeOf(fs, ParentOf(path)) # "FILE" /\ UNCHANGED <<fdt, uid>>
    BY PathFacts, SoundFacts DEF Tidy, Mkfile
  <1>2. PICK t : t = sys_mkfile(fs, path)
    OBVIOUS
  <1>3. fs' = IF t.wild THEN Wild(fs) ELSE t
    BY <1>2, Zenon DEF Mkfile, Becomes
  <1>4. CASE t.wild
    BY <1>1, <1>3, <1>4, Wild_, Quiet
  <1>5. CASE ~t.wild
    <2>1. Kept(fs, t, {}) /\ PathsKept(fs, t, -1)
      BY <1>1, <1>2, <1>5, MkfileKept
    <2> QED BY <1>1, <1>3, <1>5, <2>1, Quiet
  <1> QED BY <1>4, <1>5

\* CMD_RMDIR.
LEMMA RmdirStep ==
  ASSUME Tidy, NEW path \in DirPaths, Rmdir(path), Names_(path, "DIR")
  PROVE  After /\ KeepsFiles(fs, fs')
  <1>1. /\ Good(fs) /\ OpenFiles(fs, fdt) /\ path \in Seq(Names) /\ path # <<>>
        /\ TypeOf(fs, path) \in {"DIR", "NONE"} /\ UNCHANGED <<fdt, uid>>
    BY PathFacts DEF Tidy, Rmdir, Names_
  <1>2. PICK t : t = sys_rmdir(fs, path)
    OBVIOUS
  <1>3. fs' = IF t.wild THEN Wild(fs) ELSE t
    BY <1>2, Zenon DEF Rmdir, Becomes
  <1>4. CASE t.wild
    BY <1>1, <1>3, <1>4, Wild_, Quiet
  <1>5. CASE ~t.wild
    <2>1. PICK x : ~IsPlain(fs, x) /\ Kept(fs, t, {x}) /\ PathsKept(fs, t, x)
      BY <1>1, <1>2, <1>5, Rmdir_
    <2>2. \A fd \in Fds : fdt[fd] # NULL => fdt[fd].ino \notin {x}
      BY <1>1, <2>1 DEF OpenFiles
    <2>3. fs' = t
      BY <1>3, <1>5
    <2>4. After
      BY <1>1, <2>1, <2>2, <2>3, Calm
    <2>5. KeepsFiles(fs, fs')
      BY <1>1, <2>1, <2>3, PathsFiles
    <2> QED BY <2>4, <2>5
  <1> QED BY <1>4, <1>5

\* CMD_RMFILE: the path that is removed is the only one that may stop leading
\* to a file.
LEMMA RmfileStep ==
  ASSUME Tidy, NEW path \in FilePaths, Rmfile(path), Names_(path, "FILE"), ~IsOpen(path)
  PROVE  /\ After
         /\ \A r \in Seq(Names) : TypeOf(fs, r) = "FILE" /\ TypeOf(fs', r) # "FILE" => r = path
  <1>1. /\ Good(fs) /\ Walkable(fs) /\ path \in Seq(Names) /\ path # <<>>
        /\ TypeOf(fs, path) \in {"FILE", "NONE"} /\ UNCHANGED <<fdt, uid>>
    BY PathFacts DEF Tidy, Rmfile, Names_, Good, Walkable
  <1>2. PICK t : t = sys_rmfile(fs, path)
    OBVIOUS
  <1>3. fs' = IF t.wild THEN Wild(fs) ELSE t
    BY <1>2, Zenon DEF Rmfile, Becomes
  <1>4. CASE t.wild
    <2>1. After /\ KeepsFiles(fs, fs')
      BY <1>1, <1>3, <1>4, Wild_, Quiet
    <2> QED BY <2>1, Zenon DEF KeepsFiles
  <1>5. CASE ~t.wild
    <2>1. PICK x : x = dir_is_exists(fs, path)
      OBVIOUS
    <2>2. Kept(fs, t, {x}) /\ PathsKept(fs, t, x)
      BY <1>1, <1>2, <1>5, <2>1, Rmfile_
    <2>3. \A fd \in Fds : fdt[fd] # NULL => fdt[fd].ino \notin {x}
      BY <2>1 DEF IsOpen
    <2>4. fs' = t
      BY <1>3, <1>5
    <2>5. After
      BY <1>1, <2>2, <2>3, <2>4, Calm
    <2>6. ASSUME NEW r \in Seq(Names), TypeOf(fs, r) = "FILE", TypeOf(fs', r) # "FILE"
          PROVE  r = path
      <3>1. dir_is_exists(fs, r) = x /\ dir_is_exists(fs, r) # -1
        BY <1>1, <2>2, <2>4, <2>6, NoneLost
      <3> QED BY <1>1, <2>1, <3>1, Apart
    <2> QED BY <2>5, <2>6
  <1> QED BY <1>4, <1>5

\* CMD_CP.
LEMMA CpfileStep ==
  ASSUME Tidy, NEW src \in FilePaths, NEW dst \in FilePaths, Cpfile(src, dst),
         Names_(src, "FILE"), Names_(dst, "FILE"), ~IsOpen(dst)
  PROVE  After /\ KeepsFiles(fs, fs')
  <1>1. /\ Good(fs) /\ uid \in Users /\ src \in Seq(Names) /\ dst \in Seq(Names) /\ dst # <<>>
        /\ TypeOf(fs, ParentOf(dst)) # "FILE" /\ TypeOf(fs, src) \in {"FILE", "NONE"}
        /\ TypeOf(fs, dst) \in {"FILE", "NONE"} /\ UNCHANGED <<fdt, uid>>
    BY PathFacts, SoundFacts DEF Tidy, Cpfile, Names_
  <1>2. PICK t : t = copy_file(fs, src, dst)
    OBVIOUS
  <1>3. fs' = IF t.wild THEN Wild(fs) ELSE t
    BY <1>2, Zenon DEF Cpfile, Becomes
  <1>4. CASE t.wild
    BY <1>1, <1>3, <1>4, Wild_, Quiet
  <1>5. CASE ~t.wild
    <2>1. PICK x : x = dir_is_exists(fs, dst)
      OBVIOUS
    <2>2. Kept(fs, t, {x}) /\ PathsKept(fs, t, -1)
      BY <1>1, <1>2, <1>5, <2>1, Cpfile_
    <2>3. \A fd \in Fds : fdt[fd] # NULL => fdt[fd].ino \notin {x}
      BY <2>1 DEF IsOpen
    <2>4. fs' = t
      BY <1>3, <1>5
    <2>5. After
      BY <1>1, <2>2, <2>3, <2>4, Calm
    <2>6. KeepsFiles(fs, fs')
      BY <1>1, <2>2, <2>4, PathsFiles
    <2> QED BY <2>5, <2>6
  <1> QED BY <1>4, <1>5

\* CMD_MV.
LEMMA MvfileStep ==
  ASSUME Tidy, NEW src \in FilePaths, NEW dst \in FilePaths, Mvfile(src, dst),
         Names_(src, "FILE"), Names_(dst, "FILE"), ~IsOpen(src), ~IsOpen(dst)
  PROVE  After /\ MovedTo(fs, fs', src, dst)
  <1>1. /\ Good(fs) /\ uid \in Users /\ src \in Seq(Names) /\ dst \in Seq(Names) /\ dst # <<>> /\ src # <<>>
        /\ TypeOf(fs, ParentOf(dst)) # "FILE" /\ TypeOf(fs, src) \in {"FILE", "NONE"}
        /\ TypeOf(fs, dst) \in {"FILE", "NONE"} /\ UNCHANGED <<fdt, uid>>
    BY PathFacts, SoundFacts DEF Tidy, Mvfile, Names_
  <1>2. PICK t : t = move_file(fs, src, dst)
    OBVIOUS
  <1>3. fs' = IF t.wild THEN Wild(fs) ELSE t
    BY <1>2, Zenon DEF Mvfile, Becomes
  <1>4. CASE t.wild
    <2>1. After /\ KeepsFiles(fs, fs')
      BY <1>1, <1>3, <1>4, Wild_, Quiet
    <2> QED BY <2>1, Zenon DEF KeepsFiles, MovedTo
  <1>5. CASE ~t.wild
    <2>1. PICK X : X = {dir_is_exists(fs, src), dir_is_exists(fs, dst)}
      OBVIOUS
    <2>2. Kept(fs, t, X) /\ MovedTo(fs, t, src, dst)
      BY <1>1, <1>2, <1>5, <2>1, Mvfile_
    <2>3. \A fd \in Fds : fdt[fd] # NULL => fdt[fd].ino \notin X
      BY <2>1 DEF IsOpen
    <2>4. fs' = t
      BY <1>3, <1>5
    <2>5. After
      BY <1>1, <2>2, <2>3, <2>4, Calm
    <2> QED BY <2>2, <2>4, <2>5
  <1> QED BY <1>4, <1>5

\* CMD_CHMOD and CMD_CHOWN.
LEMMA ManageStep ==
  ASSUME Tidy, NEW path \in Managed,
         \/ \E mode \in Modes : Chmod(path, mode)
         \/ \E new_uid \in Users : Chown(path, new_uid)
  PROVE  After /\ KeepsFiles(fs, fs')
  <1>1. /\ Good(fs) /\ Walkable(fs) /\ fs \in Partition /\ path \in Seq(Names)
        /\ UNCHANGED <<fdt, uid>>
    BY PathFacts DEF Tidy, Chmod, Chown, Good, Walkable
  <1>2. PICK x : x = dir_is_exists(fs, path)
    OBVIOUS
  <1>3. x \in Inodes
    <2>1. x # -1
      BY <1>2 DEF Chmod, Chown
    <2> QED BY <1>1, <1>2, <2>1, TypeCases
  <1>4. fs.tbl[x] \in Inode
    BY <1>1, <1>3, PartFacts
  <1>5. \E D \in Inode : /\ D.sectors = fs.tbl[x].sectors /\ D.size = fs.tbl[x].size
                         /\ fs' = sync_inode(fs, x, D)
    <2>1. ASSUME NEW mode \in Modes, Chmod(path, mode)
          PROVE  \E D \in Inode : /\ D.sectors = fs.tbl[x].sectors /\ D.size = fs.tbl[x].size
                                  /\ fs' = sync_inode(fs, x, D)
      <3>1. PICK D : D = IF MayManage(fs.tbl[x]) THEN [fs.tbl[x] EXCEPT !.mode = mode] ELSE fs.tbl[x]
        OBVIOUS
      <3>2. fs' = sync_inode(fs, x, D)
        BY <1>2, <2>1, <3>1, Zenon DEF Chmod, ino2inode
      <3>3. mode \in SUBSET Bits
        BY ModesAssumption
      <3>4. D \in Inode /\ D.sectors = fs.tbl[x].sectors /\ D.size = fs.tbl[x].size
        BY <1>4, <3>1, <3>3 DEF Inode
      <3> QED BY <3>2, <3>4
    <2>2. ASSUME NEW new_uid \in Users, Chown(path, new_uid)
          PROVE  \E D \in Inode : /\ D.sectors = fs.tbl[x].sectors /\ D.size = fs.tbl[x].size
                                  /\ fs' = sync_inode(fs, x, D)
      <3>1. PICK D : D = IF MayManage(fs.tbl[x]) THEN [fs.tbl[x] EXCEPT !.uid = new_uid] ELSE fs.tbl[x]
        OBVIOUS
      <3>2. fs' = sync_inode(fs, x, D)
        BY <1>2, <2>2, <3>1, Zenon DEF Chown, ino2inode
      <3>3. D \in Inode /\ D.sectors = fs.tbl[x].sectors /\ D.size = fs.tbl[x].size
        BY <1>4, <3>1 DEF Inode
      <3> QED BY <3>2, <3>3
    <2> QED BY <2>1, <2>2
  <1>6. Kept(fs, fs', {}) /\ PathsKept(fs, fs', -1)
    BY <1>1, <1>3, <1>5, Manage_
  <1> QED BY <1>1, <1>6, Quiet

\* The files that are open, in Tidy.
LEMMA SlotFacts ==
  ASSUME Tidy, NEW fd \in Fds, fdt[fd] # NULL
  PROVE  /\ Good(fs) /\ fdt[fd] \in FileRec /\ Fresh(fs, fdt[fd])
         /\ \A fd2 \in Fds : fd2 # fd /\ fdt[fd2] # NULL => fdt[fd2].ino # fdt[fd].ino
  <1>1. /\ fdt \in [Fds -> {NULL} \cup FileRec] /\ Single(fdt)
        /\ \A fd1 \in Fds : fdt[fd1] # NULL => Fresh(fs, fdt[fd1])
    BY OpenParts DEF Tidy
  <1>2. \A fd2 \in Fds : fd2 # fd /\ fdt[fd2] # NULL => fdt[fd2].ino # fdt[fd].ino
    BY <1>1 DEF Single
  <1> QED BY <1>1, <1>2 DEF Tidy

\* A request on the table alone.
LEMMA TableStep ==
  ASSUME Tidy, NEW fd \in Fds, NEW R, R = NULL \/ (R \in FileRec /\ Fresh(fs, R)),
         fdt' = [fdt EXCEPT ![fd] = R], UNCHANGED <<fs, uid>>,
         R # NULL => \A fd2 \in Fds : fd2 # fd /\ fdt[fd2] # NULL => fdt[fd2].ino # R.ino
  PROVE  After
  <1>1. Good(fs) /\ OpenFiles(fs, fdt) /\ uid \in Users /\ fs' = fs /\ uid' = uid
    BY DEF Tidy
  <1>2. PICK X : X = {}
    OBVIOUS
  <1>3. Kept(fs, fs, X)
    BY <1>1, KeptSelf
  <1>4. OpenFiles(fs, fdt')
    <2>1. Others(fdt, fd, X, R)
      BY <1>2 DEF Others
    <2> QED BY <1>1, <1>3, <2>1, SlotChange
  <1> QED BY <1>1, <1>4 DEF After

\* CMD_OPEN.
LEMMA OpenStep ==
  ASSUME Tidy, NEW path \in FilePaths, OpenFile(path), Names_(path, "FILE"), ~IsOpen(path)
  PROVE  After /\ fs' = fs
  <1>1. PICK x : x = dir_is_exists(fs, path)
    OBVIOUS
  <1>2. PICK free : free = {fd \in Fds : fdt[fd] = NULL}
    OBVIOUS
  <1>3. PICK R : R = [ino |-> x, inode |-> fs.tbl[x], offset |-> 0]
    OBVIOUS
  <1>4. /\ TypeOf(fs, path) \in {"FILE", "NONE"} /\ x # -1 /\ free # {}
        /\ fdt' = [fdt EXCEPT ![Min(free)] = R] /\ UNCHANGED <<fs, uid>>
    BY <1>1, <1>2, <1>3, Zenon DEF OpenFile, Names_, ino2inode
  <1>5. Walkable(fs) /\ fs \in Partition /\ path \in Seq(Names)
    BY PathFacts DEF Tidy, Good, Walkable
  <1>6. IsPlain(fs, x) /\ x \in Inodes
    BY <1>1, <1>4, <1>5, TypeCases
  <1>7. fs.tbl[x] \in Inode
    BY <1>5, <1>6, PartFacts
  <1>8. R \in FileRec /\ Fresh(fs, R) /\ R.ino = x
    BY <1>3, <1>6, <1>7 DEF FileRec, Fresh
  <1>9. Min(free) \in Fds
    <2>1. free \subseteq Fds /\ free \subseteq Nat
      BY <1>2, SizesAssumption DEF Fds
    <2> QED BY <1>4, <2>1, MinIsLeast
  <1>10. \A fd2 \in Fds : fdt[fd2] # NULL => fdt[fd2].ino # R.ino
    BY <1>1, <1>8 DEF IsOpen
  <1>11. PICK fd \in Fds : fd = Min(free)
    BY <1>9
  <1>12. fdt' = [fdt EXCEPT ![fd] = R]
    BY <1>4, <1>11
  <1>13. After
    BY <1>4, <1>8, <1>10, <1>12, TableStep
  <1> QED BY <1>4, <1>13

\* CMD_CLOSE.
LEMMA CloseStep ==
  ASSUME Tidy, NEW fd \in Fds, CloseFile(fd)
  PROVE  After /\ fs' = fs
  <1>1. fdt' = [fdt EXCEPT ![fd] = NULL] /\ UNCHANGED <<fs, uid>>
    BY DEF CloseFile
  <1>2. After
    BY <1>1, TableStep
  <1> QED BY <1>1, <1>2

\* CMD_READ and CMD_LSEEK move the offset.
LEMMA OffsetStep ==
  ASSUME Tidy, NEW fd \in Fds, fdt[fd] # NULL, NEW n \in Nat,
         fdt' = [fdt EXCEPT ![fd].offset = n], UNCHANGED <<fs, uid>>
  PROVE  After
  <1>1. /\ fdt[fd] \in FileRec /\ Fresh(fs, fdt[fd])
        /\ \A fd2 \in Fds : fd2 # fd /\ fdt[fd2] # NULL => fdt[fd2].ino # fdt[fd].ino
    BY SlotFacts
  <1>2. PICK R : R = [fdt[fd] EXCEPT !.offset = n]
    OBVIOUS
  <1>3. R \in FileRec /\ R.ino = fdt[fd].ino /\ R.inode = fdt[fd].inode
    BY <1>1, <1>2 DEF FileRec
  <1>4. Fresh(fs, R)
    BY <1>1, <1>3 DEF Fresh
  <1>5. fdt' = [fdt EXCEPT ![fd] = R]
    BY <1>2
  <1>6. R # NULL => \A fd2 \in Fds : fd2 # fd /\ fdt[fd2] # NULL => fdt[fd2].ino # R.ino
    BY <1>1, <1>3
  <1> QED BY <1>3, <1>4, <1>5, <1>6, TableStep

\* read moves the offset of an open file and leaves the partition alone.
LEMMA ReadStep ==
  ASSUME Tidy, NEW fd \in Fds, NEW count \in 1 .. MaxCount, ReadFile(fd, count)
  PROVE  After /\ fs' = fs
  <1>1. fdt[fd] # NULL /\ UNCHANGED <<fs, uid>>
    BY DEF ReadFile
  <1>2. PICK n : n = fdt[fd].offset + Min({count, fdt[fd].inode.size})
    OBVIOUS
  <1>3. fdt' = [fdt EXCEPT ![fd].offset = n]
    BY <1>2, Zenon DEF ReadFile
  <1>4. fdt[fd].offset \in Nat /\ fdt[fd].inode.size \in Nat
    <2>1. fdt[fd] \in FileRec
      BY <1>1, SlotFacts
    <2>2. fdt[fd].offset \in Nat /\ fdt[fd].inode.size \in Nat
      BY <2>1 DEF FileRec, Inode
    <2> QED BY <2>2, SizesAssumption
  <1>5. {count, fdt[fd].inode.size} \subseteq Nat
    BY <1>4, SizesAssumption
  <1>6. Min({count, fdt[fd].inode.size}) \in Nat
    BY <1>5, MinIsLeast
  <1>7. n \in Nat
    BY <1>2, <1>4, <1>6
  <1> QED BY <1>1, <1>3, <1>7, OffsetStep

\* So does lseek.
LEMMA LseekStep ==
  ASSUME Tidy, NEW fd \in Fds, NEW offset \in 0 .. MaxCount, LseekFile(fd, offset)
  PROVE  After /\ fs' = fs
  <1>1. fdt[fd] # NULL /\ UNCHANGED <<fs, uid>>
    BY DEF LseekFile
  <1>2. PICK n : n = Min({offset, fdt[fd].inode.size})
    OBVIOUS
  <1>3. fdt' = [fdt EXCEPT ![fd].offset = n]
    BY <1>2, Zenon DEF LseekFile
  <1>4. fdt[fd].inode.size \in Nat
    <2>1. fdt[fd] \in FileRec
      BY <1>1, SlotFacts
    <2>2. fdt[fd].inode.size \in Nat
      BY <2>1 DEF FileRec, Inode
    <2> QED BY <2>2, SizesAssumption
  <1>5. {offset, fdt[fd].inode.size} \subseteq Nat
    BY <1>4, SizesAssumption
  <1>6. n \in Nat
    BY <1>2, <1>5, MinIsLeast
  <1> QED BY <1>1, <1>3, <1>6, OffsetStep

\* CMD_WRITE: the copy of the inode follows the inode.
LEMMA WriteStep ==
  ASSUME Tidy, NEW fd \in Fds, NEW count \in 1 .. MaxCount, NEW append \in BOOLEAN,
         WriteFile(fd, count, append)
  PROVE  After /\ KeepsFiles(fs, fs')
  <1>1. PICK x, D : x = fdt[fd].ino /\ D = fdt[fd].inode
    BY Zenon
  <1>2. PICK w : w = write_file(fs, x, D, count, append)
    OBVIOUS
  <1>3. /\ fdt[fd] # NULL
        /\ fs' = (IF w.s.wild THEN Wild(fs) ELSE w.s)
        /\ fdt' = (IF w.s.wild THEN fdt ELSE [fdt EXCEPT ![fd].inode = w.inode])
        /\ uid' = uid
    BY <1>1, <1>2, Zenon DEF WriteFile, Becomes
  <1>4. /\ Good(fs) /\ fdt[fd] \in FileRec /\ Fresh(fs, fdt[fd])
        /\ \A fd2 \in Fds : fd2 # fd /\ fdt[fd2] # NULL => fdt[fd2].ino # x
    BY <1>1, <1>3, SlotFacts
  <1>5. /\ IsPlain(fs, x) /\ D \in Inode /\ x \in Inodes
        /\ D.sectors = fs.tbl[x].sectors /\ D.size = fs.tbl[x].size
    BY <1>1, <1>4 DEF FileRec, Fresh
  <1>6. count \in Nat
    BY SizesAssumption
  <1>7. CASE w.s.wild
    BY <1>3, <1>4, <1>7, Wild_, Quiet
  <1>8. CASE ~w.s.wild
    <2>1. WroteTo(fs, w, x)
      BY <1>2, <1>3, <1>4, <1>5, <1>6, <1>8, Write_
    <2>2. /\ Kept(fs, w.s, {x}) /\ PathsKept(fs, w.s, -1)
          /\ IsPlain(w.s, x) /\ w.s.tbl[x] = w.inode /\ w.inode \in Inode
      BY <2>1, Zenon DEF WroteTo
    <2>3. PICK R : R = [fdt[fd] EXCEPT !.inode = w.inode]
      OBVIOUS
    <2>4. R \in FileRec /\ R.ino = x /\ R.inode = w.inode
      BY <1>1, <1>4, <2>2, <2>3 DEF FileRec
    <2>5. Fresh(w.s, R)
      BY <2>2, <2>4 DEF Fresh
    <2>6. fdt' = [fdt EXCEPT ![fd] = R] /\ fs' = w.s
      BY <1>3, <1>8, <2>3
    <2>7. PICK X : X = {x}
      OBVIOUS
    <2>8. Others(fdt, fd, X, R) /\ Kept(fs, w.s, X)
      BY <1>4, <2>2, <2>4, <2>7 DEF Others
    <2>9. OpenFiles(fs, fdt) /\ uid \in Users
      BY DEF Tidy
    <2>10. OpenFiles(w.s, fdt')
      BY <2>4, <2>5, <2>6, <2>8, <2>9, SlotChange
    <2>11. After
      BY <1>3, <2>2, <2>6, <2>9, <2>10 DEF After, Kept
    <2>12. KeepsFiles(fs, fs')
      BY <1>4, <2>2, <2>6, PathsFiles
    <2> QED BY <2>11, <2>12
  <1> QED BY <1>7, <1>8

\* CMD_CUR_USER.
LEMMA UserStep ==
  ASSUME Tidy, NEW u \in Users, CurUser(u)
  PROVE  After /\ fs' = fs
  BY DEF Tidy, CurUser, After

\* A restart.
LEMMA RestartStep ==
  ASSUME FsInv, Restart
  PROVE  After /\ requests' \in 0 .. MaxRequests
  <1>1. fs \in Partition /\ requests \in 0 .. MaxRequests
    BY DEF FsInv, Sane
  <1>2. Good(fs')
    BY <1>1, Install DEF Restart
  <1>3. fdt' \in [Fds -> {NULL}]
    BY DEF Restart
  <1>4. OpenFiles(fs', fdt')
    BY <1>3 DEF OpenFiles
  <1>5. uid' \in Users
    BY UsersAssumption DEF Restart
  <1>6. requests' \in 0 .. MaxRequests
    <2>1. {requests + 1, MaxRequests} \subseteq Nat /\ MaxRequests \in Nat
      BY <1>1, SizesAssumption
    <2>2. /\ Min({requests + 1, MaxRequests}) \in Nat
          /\ Min({requests + 1, MaxRequests}) <= MaxRequests
      BY <2>1, MinIsLeast
    <2> QED BY <2>1, <2>2 DEF Restart
  <1> QED BY <1>2, <1>4, <1>5, <1>6 DEF After

-----------------------------------------------------------------------------
(* The invariant. *)

\* A file is lost only by a request that is meant to lose it (see FilesKept).
LossMeant ==
  \A p \in FilePaths :
    TypeOf(fs, p) = "FILE" /\ TypeOf(fs', p) # "FILE" =>
      \/ Rmfile(p) \/ Mvfile(p, p)
      \/ \E q \in FilePaths \ {p} :
           LET old == fs.tbl[dir_is_exists(fs, p)]
               new == fs'.tbl[dir_is_exists(fs', q)]
           IN  /\ Mvfile(p, q)
               /\ TypeOf(fs', q) = "FILE"
               /\ new.sectors = old.sectors /\ new.size = old.size

\* A request that keeps the files loses none.
LEMMA NoLoss ==
  ASSUME KeepsFiles(fs, fs')
  PROVE  LossMeant
  <1>1. \A p \in FilePaths : p \in Seq(Names)
    BY PathFacts
  <1>2. ASSUME NEW p \in FilePaths, TypeOf(fs, p) = "FILE", TypeOf(fs', p) # "FILE" PROVE FALSE
    BY <1>1, <1>2 DEF KeepsFiles
  <1> QED BY <1>2, Zenon DEF LossMeant

\* The loss of CMD_RMFILE and of CMD_MV is meant.
LEMMA RmfileLoss ==
  ASSUME Tidy, NEW path \in FilePaths, Rmfile(path), Names_(path, "FILE"), ~IsOpen(path)
  PROVE  LossMeant
  <1>1. \A p \in FilePaths : p \in Seq(Names)
    BY PathFacts
  <1>2. \A r \in Seq(Names) : TypeOf(fs, r) = "FILE" /\ TypeOf(fs', r) # "FILE" => r = path
    BY RmfileStep
  <1>3. ASSUME NEW p \in FilePaths, TypeOf(fs, p) = "FILE", TypeOf(fs', p) # "FILE" PROVE Rmfile(p)
    <2>1. p = path
      BY <1>1, <1>2, <1>3
    <2> QED BY <2>1
  <1> QED BY <1>3, Zenon DEF LossMeant

\* mvfile loses at most the file it was asked to move.
LEMMA MvfileLoss ==
  ASSUME Tidy, NEW src \in FilePaths, NEW dst \in FilePaths, Mvfile(src, dst),
         Names_(src, "FILE"), Names_(dst, "FILE"), ~IsOpen(src), ~IsOpen(dst)
  PROVE  LossMeant
  <1>1. \A p \in FilePaths : p \in Seq(Names)
    BY PathFacts
  <1>2. MovedTo(fs, fs', src, dst)
    BY MvfileStep
  <1>3. ASSUME NEW p \in FilePaths, TypeOf(fs, p) = "FILE", TypeOf(fs', p) # "FILE"
        PROVE  \/ Mvfile(p, p)
               \/ \E q \in FilePaths \ {p} :
                    LET old == fs.tbl[dir_is_exists(fs, p)]
                        new == fs'.tbl[dir_is_exists(fs', q)]
                    IN  /\ Mvfile(p, q)
                        /\ TypeOf(fs', q) = "FILE"
                        /\ new.sectors = old.sectors /\ new.size = old.size
    <2>1. p \in Seq(Names)
      BY <1>1
    <2>2. /\ p = src
          /\ src # dst => LET old == fs.tbl[dir_is_exists(fs, src)]
                              new == fs'.tbl[dir_is_exists(fs', dst)]
                          IN  /\ TypeOf(fs', dst) = "FILE"
                              /\ new.sectors = old.sectors /\ new.size = old.size
      BY <1>2, <1>3, <2>1, Zenon DEF MovedTo
    <2>3. CASE src = dst
      BY <2>2, <2>3, Zenon
    <2>4. CASE src # dst
      <3>1. dst \in FilePaths \ {p} /\ Mvfile(p, dst)
        BY <2>2, <2>4
      <3>2. LET old == fs.tbl[dir_is_exists(fs, p)]
                new == fs'.tbl[dir_is_exists(fs', dst)]
            IN  /\ TypeOf(fs', dst) = "FILE"
                /\ new.sectors = old.sectors /\ new.size = old.size
        BY <2>2, <2>4, Zenon
      <3> QED BY <3>1, <3>2, Zenon
    <2> QED BY <2>3, <2>4, Zenon
  <1> QED BY <1>3, Zenon DEF LossMeant

\* The requests of the switch in main.cc.
Request ==
  \/ \E path \in DirPaths \cup FilePaths \cup Managed : ThroughFile(path)
  \/ \E path \in DirPaths : Mkdir(path) \/ Rmdir(path)
  \/ \E path \in FilePaths :
       \/ Mkfile(path) \/ Rmfile(path) \/ OpenFile(path)
       \/ \E dst \in FilePaths : Cpfile(path, dst) \/ Mvfile(path, dst)
  \/ \E path \in Managed :
       \/ \E mode \in Modes : Chmod(path, mode)
       \/ \E new_uid \in Users : Chown(path, new_uid)
  \/ \E fd \in Fds :
       \/ CloseFile(fd)
       \/ \E count \in 1 .. MaxCount, append \in BOOLEAN :
            WriteFile(fd, count, append)
       \/ \E count \in 1 .. MaxCount : ReadFile(fd, count)
       \/ \E offset \in 0 .. MaxCount : LseekFile(fd, offset)
  \/ \E u \in Users : CurUser(u)

\* A path that runs through a file.
LEMMA ThroughStep ==
  ASSUME Tidy, NEW path, ThroughFile(path)
  PROVE  After /\ KeepsFiles(fs, fs')
  <1>1. Good(fs) /\ fs' = Wild(fs) /\ UNCHANGED <<fdt, uid>>
    BY DEF Tidy, ThroughFile
  <1> QED BY <1>1, Wild_, Quiet

\* A request that was used for what it is meant for keeps the invariant, and
\* loses no file that it should keep.
Proper == After /\ (fs' = fs \/ LossMeant)
Outcome == Settled /\ (misused' \/ Proper)

\* A request that cannot be misused.
LEMMA ProperOutcome ==
  ASSUME Tidy, Proper, UNCHANGED misused
  PROVE  Outcome
  <1>1. misused' \in BOOLEAN
    BY DEF Tidy
  <1> QED BY <1>1, AfterSettled DEF Outcome, Proper

\* CMD_RMDIR.
LEMMA RmdirOutcome ==
  ASSUME Tidy, NEW path \in DirPaths, Rmdir(path)
  PROVE  Outcome
  <1>1. /\ misused' \in BOOLEAN /\ UNCHANGED <<fdt, uid>>
        /\ misused' \/ Names_(path, "DIR") \/ UNCHANGED <<fs, fdt>>
    BY Zenon DEF Rmdir, MeantFor
  <1>2. Settled
    <2>1. PICK t : t = sys_rmdir(fs, path)
      OBVIOUS
    <2>2. fs' = IF t.wild THEN Wild(fs) ELSE t
      BY <2>1, Zenon DEF Rmdir, Becomes
    <2>3. t.wild \/ Sane(t)
      BY <2>1, PathFacts, RmdirSane DEF Tidy
    <2> QED BY <1>1, <2>2, <2>3, SaneSettled
  <1>3. CASE Names_(path, "DIR")
    BY <1>2, <1>3, RmdirStep, NoLoss DEF Outcome, Proper
  <1>4. CASE UNCHANGED <<fs, fdt>>
    BY <1>1, <1>2, <1>4, NoChange DEF Outcome, Proper
  <1> QED BY <1>1, <1>2, <1>3, <1>4 DEF Outcome

\* CMD_RMFILE.
LEMMA RmfileOutcome ==
  ASSUME Tidy, NEW path \in FilePaths, Rmfile(path)
  PROVE  Outcome
  <1>1. /\ misused' \in BOOLEAN /\ UNCHANGED <<fdt, uid>>
        /\ misused' \/ (Names_(path, "FILE") /\ ~IsOpen(path)) \/ UNCHANGED <<fs, fdt>>
    BY Zenon DEF Rmfile, MeantFor
  <1>2. Settled
    <2>1. PICK t : t = sys_rmfile(fs, path)
      OBVIOUS
    <2>2. fs' = IF t.wild THEN Wild(fs) ELSE t
      BY <2>1, Zenon DEF Rmfile, Becomes
    <2>3. t.wild \/ Sane(t)
      BY <2>1, PathFacts, RmfileSane DEF Tidy
    <2> QED BY <1>1, <2>2, <2>3, SaneSettled
  <1>3. CASE Names_(path, "FILE") /\ ~IsOpen(path)
    BY <1>2, <1>3, RmfileStep, RmfileLoss DEF Outcome, Proper
  <1>4. CASE UNCHANGED <<fs, fdt>>
    BY <1>1, <1>2, <1>4, NoChange DEF Outcome, Proper
  <1> QED BY <1>1, <1>2, <1>3, <1>4 DEF Outcome

\* CMD_CPFILE.
LEMMA CpfileOutcome ==
  ASSUME Tidy, NEW src \in FilePaths, NEW dst \in FilePaths, Cpfile(src, dst)
  PROVE  Outcome
  <1>1. /\ misused' \in BOOLEAN /\ UNCHANGED <<fdt, uid>>
        /\ \/ misused' \/ (Names_(src, "FILE") /\ Names_(dst, "FILE") /\ ~IsOpen(dst))
           \/ UNCHANGED <<fs, fdt>>
    BY Zenon DEF Cpfile, MeantFor
  <1>2. Settled
    <2>1. PICK t : t = copy_file(fs, src, dst)
      OBVIOUS
    <2>2. fs' = IF t.wild THEN Wild(fs) ELSE t
      BY <2>1, Zenon DEF Cpfile, Becomes
    <2>3. dst \in Seq(Names) /\ dst # <<>> /\ src \in Seq(Names) /\ TypeOf(fs, ParentOf(dst)) # "FILE"
      BY PathFacts, SoundFacts DEF Cpfile
    <2>4. t.wild \/ Sane(t)
      BY <2>1, <2>3, CpfileSane DEF Tidy
    <2> QED BY <1>1, <2>2, <2>4, SaneSettled
  <1>3. CASE Names_(src, "FILE") /\ Names_(dst, "FILE") /\ ~IsOpen(dst)
    BY <1>2, <1>3, CpfileStep, NoLoss DEF Outcome, Proper
  <1>4. CASE UNCHANGED <<fs, fdt>>
    BY <1>1, <1>2, <1>4, NoChange DEF Outcome, Proper
  <1> QED BY <1>1, <1>2, <1>3, <1>4 DEF Outcome

\* CMD_MVFILE.
LEMMA MvfileOutcome ==
  ASSUME Tidy, NEW src \in FilePaths, NEW dst \in FilePaths, Mvfile(src, dst)
  PROVE  Outcome
  <1>1. /\ misused' \in BOOLEAN /\ UNCHANGED <<fdt, uid>>
        /\ \/ misused' \/ (Names_(src, "FILE") /\ Names_(dst, "FILE") /\ ~IsOpen(src) /\ ~IsOpen(dst))
           \/ UNCHANGED <<fs, fdt>>
    BY Zenon DEF Mvfile, MeantFor
  <1>2. Settled
    <2>1. PICK t : t = move_file(fs, src, dst)
      OBVIOUS
    <2>2. fs' = IF t.wild THEN Wild(fs) ELSE t
      BY <2>1, Zenon DEF Mvfile, Becomes
    <2>3. /\ dst \in Seq(Names) /\ dst # <<>> /\ src \in Seq(Names) /\ src # <<>>
          /\ TypeOf(fs, ParentOf(dst)) # "FILE"
      BY PathFacts, SoundFacts DEF Mvfile
    <2>4. t.wild \/ Sane(t)
      BY <2>1, <2>3, MvfileSane DEF Tidy
    <2> QED BY <1>1, <2>2, <2>4, SaneSettled
  <1>3. CASE Names_(src, "FILE") /\ Names_(dst, "FILE") /\ ~IsOpen(src) /\ ~IsOpen(dst)
    BY <1>2, <1>3, MvfileStep, MvfileLoss DEF Outcome, Proper
  <1>4. CASE UNCHANGED <<fs, fdt>>
    BY <1>1, <1>2, <1>4, NoChange DEF Outcome, Proper
  <1> QED BY <1>1, <1>2, <1>3, <1>4 DEF Outcome

\* CMD_OPEN_FILE: a slot gets the copy of an inode, whatever that is.
LEMMA OpenOutcome ==
  ASSUME Tidy, NEW path \in FilePaths, OpenFile(path)
  PROVE  Outcome
  <1>1. /\ misused' \in BOOLEAN /\ UNCHANGED <<fs, uid>>
        /\ misused' \/ (Names_(path, "FILE") /\ ~IsOpen(path)) \/ UNCHANGED <<fs, fdt>>
    BY Zenon DEF OpenFile, MeantFor
  <1>2. Settled
    <2>1. PICK x : x = dir_is_exists(fs, path)
      OBVIOUS
    <2>2. PICK R : R = [ino |-> x, inode |-> fs.tbl[x], offset |-> 0]
      OBVIOUS
    <2>3. PICK fd : x # -1 /\ fdt' = [fdt EXCEPT ![fd] = R]
      BY <2>1, <2>2, Zenon DEF OpenFile, ino2inode
    <2>4. /\ Walkable(fs) /\ fs \in Partition /\ path \in Seq(Names) /\ Sane(fs) /\ uid \in Users
          /\ fdt \in [Fds -> {NULL} \cup FileRec]
      BY PathFacts, OpenParts DEF Tidy, Good, Walkable, Sane
    <2>5. x \in Inodes /\ fs.tbl[x] \in Inode
      BY <2>1, <2>3, <2>4, TypeCases, PartFacts
    <2>6. R \in FileRec
      BY <2>2, <2>5 DEF FileRec
    <2>7. fdt' \in [Fds -> {NULL} \cup FileRec]
      BY <2>3, <2>4, <2>6
    <2> QED BY <1>1, <2>4, <2>7 DEF Settled
  <1>3. CASE Names_(path, "FILE") /\ ~IsOpen(path)
    BY <1>2, <1>3, OpenStep DEF Outcome, Proper
  <1>4. CASE UNCHANGED <<fs, fdt>>
    BY <1>1, <1>2, <1>4, NoChange DEF Outcome, Proper
  <1> QED BY <1>1, <1>2, <1>3, <1>4 DEF Outcome

\* Every request keeps the invariant and loses no file that it should keep.
LEMMA RequestStep ==
  ASSUME Tidy, Request
  PROVE  Outcome
  <1>0. ASSUME NEW path, ThroughFile(path) PROVE Outcome
    <2>1. UNCHANGED misused
      BY <1>0 DEF ThroughFile
    <2> QED BY <1>0, <2>1, ThroughStep, NoLoss, ProperOutcome DEF Proper
  <1>1. ASSUME NEW path \in DirPaths, Mkdir(path) PROVE Outcome
    <2>1. UNCHANGED misused
      BY <1>1 DEF Mkdir
    <2> QED BY <1>1, <2>1, MkdirStep, NoLoss, ProperOutcome DEF Proper
  <1>2. ASSUME NEW path \in FilePaths, Mkfile(path) PROVE Outcome
    <2>1. UNCHANGED misused
      BY <1>2 DEF Mkfile
    <2> QED BY <1>2, <2>1, MkfileStep, NoLoss, ProperOutcome DEF Proper
  <1>3. ASSUME NEW path \in Managed, \/ \E mode \in Modes : Chmod(path, mode)
                                     \/ \E new_uid \in Users : Chown(path, new_uid)
        PROVE  Outcome
    <2>1. UNCHANGED misused
      BY <1>3, Zenon DEF Chmod, Chown
    <2> QED BY <1>3, <2>1, ManageStep, NoLoss, ProperOutcome DEF Proper
  <1>4. ASSUME NEW fd \in Fds, NEW count \in 1 .. MaxCount, NEW append \in BOOLEAN, WriteFile(fd, count, append)
        PROVE  Outcome
    <2>1. UNCHANGED misused
      BY <1>4, Zenon DEF WriteFile
    <2> QED BY <1>4, <2>1, WriteStep, NoLoss, ProperOutcome DEF Proper
  <1>5. ASSUME NEW fd \in Fds, \/ CloseFile(fd)
                               \/ \E count \in 1 .. MaxCount : ReadFile(fd, count)
                               \/ \E offset \in 0 .. MaxCount : LseekFile(fd, offset)
        PROVE  Outcome
    <2>1. UNCHANGED misused
      BY <1>5, Zenon DEF CloseFile, ReadFile, LseekFile
    <2> QED BY <1>5, <2>1, CloseStep, ReadStep, LseekStep, ProperOutcome DEF Proper
  <1>6. ASSUME NEW u \in Users, CurUser(u) PROVE Outcome
    <2>1. UNCHANGED misused
      BY <1>6 DEF CurUser
    <2> QED BY <1>6, <2>1, UserStep, ProperOutcome DEF Proper
  <1> QED BY <1>0, <1>1, <1>2, <1>3, <1>4, <1>5, <1>6, RmdirOutcome, RmfileOutcome, CpfileOutcome,
             MvfileOutcome, OpenOutcome, Zenon DEF Request

\* A step is a request, which is counted if it changed something, or a restart.
LEMMA NextCases ==
  ASSUME FsNext
  PROVE  \/ /\ Request /\ ~misused /\ requests < MaxRequests
            /\ requests' = requests \/ requests' = requests + 1
         \/ Restart
  BY Zenon DEF FsNext, Request

\* A request finds a tidy state.
LEMMA IsTidy ==
  ASSUME FsInv, ~misused
  PROVE  Tidy
  BY DEF FsInv, Tidy

\* The invariant holds when the server has started.
LEMMA FsInvInit ==
  ASSUME FsInit
  PROVE  FsInv
  <1>1. Good(fs) /\ Sane(fs)
    BY Blank, Install DEF FsInit, Good, Sane
  <1>2. fdt \in [Fds -> {NULL}]
    BY DEF FsInit
  <1>3. OpenFiles(fs, fdt)
    BY <1>2 DEF OpenFiles
  <1>4. fdt \in [Fds -> {NULL} \cup [ino : Inodes, inode : Inode, offset : Nat]]
    BY <1>2
  <1>5. uid \in Users /\ requests \in 0 .. MaxRequests
    BY SizesAssumption, UsersAssumption DEF FsInit
  <1>6. misused \in BOOLEAN
    BY Zenon DEF FsInit
  <1> QED BY <1>1, <1>3, <1>4, <1>5, <1>6, Zenon DEF FsInv

\* Every step keeps it.
LEMMA FsInvNext ==
  ASSUME FsInv, [FsNext]_vars
  PROVE  FsInv'
  <1>1. CASE Request /\ ~misused /\ requests < MaxRequests /\ (requests' = requests \/ requests' = requests + 1)
    <2>1. Settled /\ (misused' \/ After)
      BY <1>1, IsTidy, RequestStep DEF Outcome, Proper
    <2>2. requests' \in 0 .. MaxRequests
      BY <1>1, SizesAssumption DEF FsInv
    <2>3. Sane(fs)' /\ (~misused => Good(fs) /\ OpenFiles(fs, fdt))'
      BY <2>1 DEF Settled, After
    <2> QED BY <2>1, <2>2, <2>3 DEF Settled, FileRec, FsInv
  <1>2. CASE Restart
    <2>1. After /\ requests' \in 0 .. MaxRequests /\ misused' = FALSE
      BY <1>2, RestartStep DEF Restart
    <2>2. Settled
      BY <2>1, AfterSettled
    <2>3. Sane(fs)' /\ (~misused => Good(fs) /\ OpenFiles(fs, fdt))'
      BY <2>1, <2>2 DEF Settled, After
    <2> QED BY <2>1, <2>2, <2>3 DEF Settled, FileRec, FsInv
  <1>3. CASE UNCHANGED vars
    BY <1>3 DEF FsInv, vars
  <1> QED BY <1>1, <1>2, <1>3, NextCases

\* The partition has its types and its bitmaps on disk; and unless the last
\* request was misused it is one between two requests, and every open file is
\* a file whose copy is up to date: fs.cc, inode.cc, dir.cc and file.cc keep
\* the invariant through every sequence of requests and restarts.
THEOREM FsInvariant == FsSpec => []FsInv
  <1>1. FsInit => FsInv
    BY FsInvInit
  <1>2. FsInv /\ [FsNext]_vars => FsInv'
    BY FsInvNext
  <1> QED BY <1>1, <1>2, PTL DEF FsSpec

-----------------------------------------------------------------------------
(* What the invariant says. *)

\* A set of sectors or places that has no two elements.
LEMMA AtMostOne ==
  ASSUME NEW S, \A x, y \in S : x = y
  PROVE  Cardinality(S) <= 1 /\ (S # {} => Cardinality(S) = 1)
  <1>1. CASE S = {}
    BY <1>1, FS_EmptySet
  <1>2. CASE S # {}
    <2>1. PICK x : S = {x}
      BY <1>2
    <2> QED BY <2>1, FS_Singleton
  <1> QED BY <1>1, <1>2

\* Two paths lead to two inodes: there are as many inodes as paths.
LEMMA PathsCounted ==
  ASSUME NEW s, Walkable(s), NEW P, P \subseteq Seq(Names), IsFiniteSet(P),
         \A p \in P : dir_is_exists(s, p) # -1
  PROVE  Cardinality({dir_is_exists(s, p) : p \in P}) = Cardinality(P)
  <1>1. PICK T : T = {dir_is_exists(s, p) : p \in P}
    OBVIOUS
  <1>2. PICK f : f = [p \in P |-> dir_is_exists(s, p)]
    OBVIOUS
  <1>3. f \in [P -> T]
    BY <1>1, <1>2
  <1>4. \A p, q \in P : f[p] = f[q] => p = q
    BY <1>2, Apart
  <1>5. \A x \in T : \E p \in P : f[p] = x
    BY <1>1, <1>2
  <1>6. f \in Injection(P, T)
    BY <1>3, <1>4 DEF Injection, IsInjective
  <1>7. f \in Surjection(P, T)
    BY <1>3, <1>5 DEF Surjection
  <1>8. ExistsBijection(P, T)
    BY <1>6, <1>7 DEF ExistsBijection, Bijection
  <1> QED BY <1>1, <1>8, FS_Bijection

\* The paths of clients, and the root, are sequences of names.
LEMMA PathsAreSequences == \A p \in Paths : p \in Seq(Names)
  <1>1. <<>> \in Seq(Names)
    BY EmptySeq
  <1>2. DirPaths \subseteq Seq(Names) /\ FilePaths \subseteq Seq(Names)
    BY PathsAssumption
  <1> QED BY <1>1, <1>2 DEF Paths

\* Types.
LEMMA TypesHold ==
  ASSUME FsInv
  PROVE  FsTypeOK
  BY DEF FsInv, FsTypeOK, Sane

\* Paths.
LEMMA PathsHold ==
  ASSUME FsInv
  PROVE  PathsLive
  <1> SUFFICES ASSUME ~misused PROVE PathsLive
    BY Zenon DEF PathsLive
  <1>1. Walkable(fs)
    BY IsTidy DEF Tidy, Good, Walkable
  <1>2. PICK P : P = {p \in Paths : Sound(p) /\ dir_is_exists(fs, p) # -1}
    OBVIOUS
  <1>3. Paths \subseteq Seq(Names)
    BY PathsAreSequences
  <1>4. IsFiniteSet(Paths)
    <2>1. IsFiniteSet({<<>>})
      BY FS_Singleton
    <2>2. IsFiniteSet({<<>>} \cup DirPaths)
      BY <2>1, PathSetsAssumption, FS_Union
    <2>3. IsFiniteSet(({<<>>} \cup DirPaths) \cup FilePaths)
      BY <2>2, PathSetsAssumption, FS_Union
    <2> QED BY <2>3 DEF Paths
  <1>5. IsFiniteSet(P) /\ P \subseteq Seq(Names) /\ \A p \in P : dir_is_exists(fs, p) # -1
    <2>1. P \in SUBSET Paths
      BY <1>2
    <2>2. IsFiniteSet(P)
      BY <1>4, <2>1, FS_Subset
    <2> QED BY <1>2, <1>3, <2>1, <2>2
  <1>6. \A p \in P : dir_is_exists(fs, p) \in fs.inode_bmap
    BY <1>1, <1>5, TypeCases DEF IsDir, IsPlain
  <1>7. {dir_is_exists(fs, p) : p \in P} \subseteq fs.inode_bmap
    BY <1>6
  <1>8. Cardinality({dir_is_exists(fs, p) : p \in P}) = Cardinality(P)
    BY <1>1, <1>5, PathsCounted
  <1> QED BY <1>2, <1>7, <1>8, Zenon DEF PathsLive

\* Blocks.
LEMMA BlocksHold ==
  ASSUME FsInv
  PROVE  NoSharedBlock
  <1> SUFFICES ASSUME ~misused PROVE NoSharedBlock
    BY Zenon DEF NoSharedBlock
  <1>1. fs \in Partition /\ Owned(fs)
    BY IsTidy DEF Tidy, Good, Space
  <1>2. ASSUME NEW i \in fs.inode_bmap, NEW l \in SectorsOf(fs.tbl[i])
        PROVE  /\ BlockNo(l) \in fs.block_bmap
               /\ Cardinality({k \in SectorNrs : fs.tbl[i].sectors[k] = l}) = 1
    <2>1. PICK k0 \in SectorNrs : fs.tbl[i].sectors[k0] = l /\ l # 0
      BY <1>2 DEF SectorsOf
    <2>2. BlockNo(l) \in fs.block_bmap /\ \A k \in SectorNrs : fs.tbl[i].sectors[k] = l => k = k0
      BY <1>1, <2>1 DEF Owned, Lba
    <2>3. PICK S : S = {k \in SectorNrs : fs.tbl[i].sectors[k] = l}
      OBVIOUS
    <2>4. S # {} /\ \A x, y \in S : x = y
      BY <2>1, <2>2, <2>3
    <2>5. Cardinality(S) = 1
      BY <2>4, AtMostOne
    <2> QED BY <2>2, <2>3, <2>5
  <1>3. ASSUME NEW i \in fs.inode_bmap, NEW j \in fs.inode_bmap, i # j,
               NEW l \in SectorsOf(fs.tbl[i]) \cap SectorsOf(fs.tbl[j])
        PROVE  FALSE
    <2>1. PICK k0 \in SectorNrs : fs.tbl[i].sectors[k0] = l /\ l # 0
      BY <1>3 DEF SectorsOf
    <2>2. PICK k1 \in SectorNrs : fs.tbl[j].sectors[k1] = l
      BY <1>3 DEF SectorsOf
    <2> QED BY <1>1, <1>3, <2>1, <2>2 DEF Owned, Lba
  <1>4. ASSUME NEW i \in fs.inode_bmap, NEW j \in fs.inode_bmap, i # j
        PROVE  SectorsOf(fs.tbl[i]) \cap SectorsOf(fs.tbl[j]) = {}
    BY <1>3, <1>4
  <1> QED BY <1>2, <1>4, Zenon DEF NoSharedBlock

\* Names.
LEMMA NamesHold ==
  ASSUME FsInv
  PROVE  NamesUnique
  <1> SUFFICES ASSUME ~misused PROVE NamesUnique
    BY Zenon DEF NamesUnique
  <1>1. Walkable(fs) /\ fs \in Partition /\ Once(fs)
    BY IsTidy DEF Tidy, Good, Walkable, Tree
  <1>2. ASSUME NEW p \in Paths, NEW name \in Names, TypeOf(fs, p) = "DIR"
        PROVE  Cardinality(Places(fs, ino2inode(fs, dir_is_exists(fs, p)), name)) <= 1
    <2>1. p \in Seq(Names)
      BY PathsAreSequences
    <2>2. PICK d : d = dir_is_exists(fs, p)
      OBVIOUS
    <2>3. IsDir(fs, d) /\ d \in Inodes
      BY <1>1, <1>2, <2>1, <2>2, TypeCases
    <2>4. ASSUME NEW m \in Places(fs, fs.tbl[d], name), NEW n \in Places(fs, fs.tbl[d], name)
          PROVE  m = n
      <3>1. /\ m \in 0 .. (NSEC * SLOTS) - 1 /\ Slot(fs, d, m \div SLOTS, m % SLOTS, name)
            /\ n \in 0 .. (NSEC * SLOTS) - 1 /\ Slot(fs, d, n \div SLOTS, n % SLOTS, name)
        BY <2>4, InPlaces
      <3>2. PICK k1, j1 : k1 = m \div SLOTS /\ j1 = m % SLOTS
        BY Zenon
      <3>3. PICK k2, j2 : k2 = n \div SLOTS /\ j2 = n % SLOTS
        BY Zenon
      <3>4. /\ Ent(fs, d, k1, j1) /\ At(fs, d, k1, j1).name = name
            /\ Ent(fs, d, k2, j2) /\ At(fs, d, k2, j2).name = name
        BY <1>1, <2>3, <3>1, <3>2, <3>3, SlotIsEntry
      <3>5. k1 = k2 /\ j1 = j2
        BY <1>1, <3>4, Zenon DEF Once
      <3>6. m = (SLOTS * k1) + j1 /\ n = (SLOTS * k2) + j2
        BY <3>1, <3>2, <3>3, PlaceSplit
      <3> QED BY <3>5, <3>6
    <2>5. PICK S : S = Places(fs, fs.tbl[d], name)
      OBVIOUS
    <2>6. Cardinality(S) <= 1
      BY <2>4, <2>5, AtMostOne
    <2> QED BY <2>2, <2>5, <2>6 DEF ino2inode
  <1> QED BY <1>2, Zenon DEF NamesUnique

\* Bitmaps.
LEMMA BitmapsHold ==
  ASSUME FsInv
  PROVE  BitmapsSynced
  BY DEF FsInv, Sane, Synced, BitmapsSynced

\* Open files.
LEMMA CopiesHold ==
  ASSUME FsInv
  PROVE  CachedInodeFresh
  <1> SUFFICES ASSUME ~misused PROVE CachedInodeFresh
    BY Zenon DEF CachedInodeFresh
  <1>1. OpenFiles(fs, fdt)
    BY IsTidy DEF Tidy
  <1> QED BY <1>1 DEF OpenFiles, IsPlain, CachedInodeFresh

\* The fields of the partition, the open files and the user are what their
\* types say, after any sequence of requests (fs.cc, inode.cc, file.cc).
THEOREM FsTypes == FsSpec => []FsTypeOK
  BY FsInvariant, TypesHold, PTL

\* Unless the last request was misused, every path that leads somewhere leads
\* to an allocated inode, and two paths never lead to the same one: names and inodes are taken and given back in an
\* order that never leaves one without the other (sys_mkdir, sys_mkfile,
\* sys_rmdir, sys_rmfile, move_file).
THEOREM PathsAreLive == FsSpec => []PathsLive
  BY FsInvariant, PathsHold, PTL

\* Unless the last request was misused, no block belongs to two inodes, or
\* twice to one, and none in use is free
\* (allocate_block, free_inode_sectors, write_file, copy_file, move_file).
THEOREM BlocksAreNotShared == FsSpec => []NoSharedBlock
  BY FsInvariant, BlocksHold, PTL

\* Unless the last request was misused, a directory has a name once
\* (create_dir_entry, remove_dir_entry).  A directory that has grown into a
\* block with something in it is wild, and the theorem does not follow it.
THEOREM NamesAreUnique == FsSpec => []NamesUnique
  BY FsInvariant, NamesHold, PTL

\* The bitmaps on disk are the ones in memory between two requests
\* (sync_inode_bitmap, sync_block_bitmap).
THEOREM BitmapsAreSynced == FsSpec => []BitmapsSynced
  BY FsInvariant, BitmapsHold, PTL

\* Unless the last request was misused, the copy of the inode that an open file
\* works on has the blocks and the size of the inode on disk (open_file,
\* write_file).
THEOREM CachedInodesAreFresh == FsSpec => []CachedInodeFresh
  BY FsInvariant, CopiesHold, PTL

\* A path stops leading to a file only because the file was removed or moved,
\* by a restart, or by a request that was misused; the path it was moved to has its blocks and its size
\* (sys_rmfile, move_file).
THEOREM FilesAreKept == FsSpec => FilesKept
  <1>1. FsInv /\ [FsNext]_vars =>
          [Restart \/ misused' \/ fs' = fs \/ \A p \in FilePaths :
             TypeOf(fs, p) = "FILE" /\ TypeOf(fs', p) # "FILE" =>
               \/ Rmfile(p) \/ Mvfile(p, p)
               \/ \E q \in FilePaths \ {p} :
                    LET old == fs.tbl[dir_is_exists(fs, p)]
                        new == fs'.tbl[dir_is_exists(fs', q)]
                    IN  /\ Mvfile(p, q)
                        /\ TypeOf(fs', q) = "FILE"
                        /\ new.sectors = old.sectors /\ new.size = old.size]_vars
    <2>1. FsInv /\ FsNext => Restart \/ misused' \/ fs' = fs \/ LossMeant
      BY NextCases, IsTidy, RequestStep, Zenon DEF Outcome, Proper
    <2> QED BY <2>1, Zenon DEF LossMeant
  <1> QED BY <1>1, FsInvariant, PTL DEF FsSpec, FilesKept

=============================================================================
