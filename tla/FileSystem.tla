----------------------------- MODULE FileSystem -----------------------------
(***************************************************************************)
(* The file server: fs/fs.cc, inode.cc, dir.cc, file.cc, protect.cc and    *)
(* the switch of fs/main.cc, over lib/bitmap.cc.                           *)
(*                                                                         *)
(* The server takes one request at a time, so a request is one step.  What *)
(* the partition holds (super block, both bitmaps, inode table, data       *)
(* blocks) is kept apart from what the server holds in memory (its copies  *)
(* of the bitmaps, the open files with their copies of inodes).  A power   *)
(* cut is Restart: init_fs on what the disk holds.                         *)
(*                                                                         *)
(* A request is a state function: it maps the record of the partition to   *)
(* the record after it.  fs.wild says that the server has used a value     *)
(* nobody gave it (the number -1, sector 0, memory behind an array, bytes  *)
(* of a file or of an earlier use taken for entries); what it does from    *)
(* there on is not defined by the code.  misused says that a request named *)
(* the wrong kind of thing, or an open file, which the server does not     *)
(* check: the request is modelled with what it does, and what follows from *)
(* it is not looked into.  After either only a restart follows.  Buffers   *)
(* from malloc are clear (memory.cc).                                      *)
(***************************************************************************)
EXTENDS Integers, Sequences, FiniteSets, FiniteSetsExt, TLC

CONSTANTS
  NI,        \* inodes of the partition (_fs::max_file_nr)
  NB,        \* data blocks of the partition
  NSEC,      \* sectors of an inode (9 in the code)
  SLOTS,     \* directory entries in a sector
  SECTOR,    \* bytes in a sector (_fs::sector_size)
  NFD,       \* slots of file_desc_tbl (64 in the code)
  Names,     \* names of files and directories
  DirPaths,  \* paths clients make directories at: sequences of names
  FilePaths, \* and files
  Managed,   \* the paths whose mode and owner clients change
  Users,     \* user numbers, 0 is root
  Modes,     \* modes clients give to CMD_CHMOD
  MaxCount,  \* bound: bytes of one read or write
  MaxRequests, \* bound: requests made
  NULL

ASSUME SizesAssumption ==
  /\ NI \in Nat \ {0} /\ NB \in Nat /\ NB >= 3 /\ NSEC \in Nat \ {0}
  /\ SLOTS \in Nat /\ SLOTS >= 2 /\ SECTOR \in Nat \ {0}
  /\ NFD \in Nat \ {0} /\ MaxCount \in Nat /\ MaxRequests \in Nat
ASSUME PathsAssumption ==
  \A set \in {DirPaths, FilePaths, Managed} : set \subseteq Seq(Names) \ {<<>>}
ASSUME UsersAssumption == 0 \in Users /\ Users \subseteq Nat
\* The terminal resolves ".." itself: the names clients send are others than
\* the two a directory starts with, and than that of a free entry.
ASSUME NamesAssumption == {"", ".", ".."} \cap Names = {}
ASSUME PathSetsAssumption == IsFiniteSet(DirPaths) /\ IsFiniteSet(FilePaths)

VARIABLES
  fs,        \* the partition and the server's bitmaps, see Partition below
  fdt,       \* file_desc_tbl: NULL or the copy of an inode and an offset
  uid,       \* the user whose requests these are
  misused,   \* the last request changed something it was not meant for
  requests   \* requests so far that changed something, and restarts

vars == <<fs, fdt, uid, misused, requests>>

Inodes == 0 .. NI - 1
Blocks == 0 .. NB - 1
Fds == 0 .. NFD - 1
SectorNrs == 0 .. NSEC - 1
SlotNrs == 0 .. SLOTS - 1
Paths == {<<>>} \cup DirPaths \cup FilePaths

-----------------------------------------------------------------------------
(* What is on the disk. *)

\* The data blocks follow the inode table; sector 0 stands for "no sector".
DATA_START == 1
Lbas == {0} \cup {DATA_START + b : b \in Blocks}
BlockNo(lba) == lba - DATA_START

\* The permission bits of an inode: a class of users and an operation.
Bits == {"owner", "other"} \X {"READ", "WRITE", "EXEC"}
DEFAULT_PRIVILEGE == Bits \ {<<"other", "WRITE">>}
ASSUME ModesAssumption == Modes \subseteq SUBSET Bits

\* The size is not bounded by the sectors: an append that starts in a later
\* sector counts its sectors from there (see SectorCnts).
Inode == [size : Nat, uid : Users, mode : SUBSET Bits,
          sectors : [SectorNrs -> Lbas]]
NoSectors == [i \in SectorNrs |-> 0]
ZeroInode == [size |-> 0, uid |-> 0, mode |-> {}, sectors |-> NoSectors]

\* A directory entry; one whose name starts with 0 is free.
Entry(name, ino, type) == [name |-> name, ino |-> ino, type |-> type]
FREE == Entry("", 0, "DIR")
Entries == {FREE} \cup [name : Names \cup {".", ".."}, ino : Inodes,
                        type : {"DIR", "FILE"}]

\* A block holds directory entries, zeros being free ones, or file data.
DATA == <<"data">>
ZeroBlock == [j \in SlotNrs |-> FREE]
NamedIn(block) ==
  IF block = DATA THEN {} ELSE {j \in SlotNrs : block[j] # FREE}
DotEntries(ino, parent) ==
  [ZeroBlock EXCEPT ![0] = Entry(".", ino, "DIR"),
                    ![1] = Entry("..", parent, "DIR")]

\* Names, or bytes of a file, past the first slot.
Dirty(block) == block = DATA \/ NamedIn(block) \ {0} # {}

Leftover(block) == IF Dirty(block) THEN DATA ELSE ZeroBlock

NO_MAGIC == "none"
MAGIC == "Shmily"

Partition == [magic : {NO_MAGIC, MAGIC},
              tbl : [Inodes -> Inode],      \* the inode table
              blk : [Blocks -> [SlotNrs -> Entries] \cup {DATA}],
              block_bitmap : SUBSET Blocks, \* the bitmaps on disk
              inode_bitmap : SUBSET Inodes,
              block_bmap : SUBSET Blocks,   \* and in memory
              inode_bmap : SUBSET Inodes,
              wild : BOOLEAN]

Wild(s) == [s EXCEPT !.wild = TRUE]

-----------------------------------------------------------------------------
(* Bitmaps, inodes and blocks: lib/bitmap.cc and inode.cc. *)

\* A faulty variant, for the check that a property notices it: one bit too
\* many is looked at.
bitmap_scan_OneMore(bits, n) ==
  LET clear == (0 .. n) \ bits IN IF clear = {} THEN -1 ELSE Min(clear)

\* The first clear bit of n, -1 when all are set.
bitmap_scan(bits, n) ==
  LET clear == (0 .. n - 1) \ bits IN IF clear = {} THEN -1 ELSE Min(clear)

\* The bitmap of the inodes is a sector, with more bits than there are inodes:
\* when all are in use the number handed out is one of no inode, which is then
\* written over the first data block.  A scan of the blocks that fails is not
\* noticed either: bit -1 is set, outside the bitmap.
allocate_inode_no(s) ==
  LET slot == bitmap_scan(s.inode_bmap, NI)
  IN  IF slot = -1 THEN Wild(s)
      ELSE [s EXCEPT !.inode_bmap = @ \cup {slot}]

allocate_block(s) ==
  LET slot == bitmap_scan(s.block_bmap, NB)
  IN  IF slot = -1 THEN Wild(s)
      ELSE [s EXCEPT !.block_bmap = @ \cup {slot}]

\* What the next allocation returns.
NextInode(s) == Max({0, bitmap_scan(s.inode_bmap, NI)})
NextBlock(s) == Max({0, bitmap_scan(s.block_bmap, NB)})

\* Giving back clears a bit.  The inode stays in the table and the bytes in
\* the block; create_inode writes the whole inode, so what a free one holds is
\* not kept, and of a free block only whether it is dirty.
free_inode(s, ino) ==
  [s EXCEPT !.inode_bmap = @ \ {ino}, !.tbl[ino] = ZeroInode]
free_blocks(s, lbas) ==
  [s EXCEPT !.block_bmap = @ \ {BlockNo(l) : l \in lbas},
            !.blk = [b \in Blocks |-> IF DATA_START + b \in lbas
                                      THEN Leftover(@[b]) ELSE @[b]]]

sync_inode(s, ino, inode) == [s EXCEPT !.tbl[ino] = inode]
sync_block(s, lba, content) == [s EXCEPT !.blk[BlockNo(lba)] = content]
sync_inode_bitmap(s) == [s EXCEPT !.inode_bitmap = s.inode_bmap]
sync_block_bitmap(s) == [s EXCEPT !.block_bitmap = s.block_bmap]
ino2inode(s, ino) == s.tbl[ino]
read_block(s, lba) == s.blk[BlockNo(lba)]

create_inode(s) ==
  sync_inode(allocate_inode_no(s), NextInode(s),
             [size |-> 0, uid |-> uid, mode |-> DEFAULT_PRIVILEGE,
              sectors |-> NoSectors])

check_inode_permission(inode, op) ==
  \/ uid = 0
  \/ <<IF uid = inode.uid THEN "owner" ELSE "other", op>> \in inode.mode

-----------------------------------------------------------------------------
(* Directories: dir.cc. *)

\* The places of a directory that hold an entry with this name ("" finds the
\* free ones), numbered in the order in which the code walks them.
Places(s, dir, name) ==
  {n \in 0 .. NSEC * SLOTS - 1 :
     LET lba == dir.sectors[n \div SLOTS]
     IN  /\ lba # 0 /\ read_block(s, lba) # DATA
         /\ read_block(s, lba)[n % SLOTS].name = name}

\* Write an entry to a place of a directory.
PutEntry(s, dir, n, e) ==
  LET lba == dir.sectors[n \div SLOTS]
  IN  sync_block(s, lba, [read_block(s, lba) EXCEPT ![n % SLOTS] = e])

find_dir_entry(s, dir, name) ==
  LET found == Places(s, dir, name)
      n == Min(found)
  IN  IF found = {} THEN -1
      ELSE read_block(s, dir.sectors[n \div SLOTS])[n % SLOTS].ino

\* The inode a path leads to, -1 when there is none.
dir_is_exists(s, path) ==
  LET walk[i \in 0 .. Len(path)] ==
        IF i = 0 THEN 0
        ELSE IF walk[i - 1] = -1 THEN -1
        ELSE find_dir_entry(s, ino2inode(s, walk[i - 1]), path[i])
  IN  walk[Len(path)]

\* split_path_2parts.
ParentOf(path) == SubSeq(path, 1, Len(path) - 1)
ChildOf(path) == path[Len(path)]

\* A faulty variant, for the check that a property notices it: only the
\* entries before the first free one are compared.
NameTaken_BeforeFree(s, dir, name) ==
  \E n \in Places(s, dir, name) : \A f \in Places(s, dir, "") : n < f

NameTaken(s, dir, name) == Places(s, dir, name) # {}

\* A name that exists is refused; otherwise the first free place is taken, or
\* the directory grows by a block, whose other slots are whatever the block
\* held.  A directory that cannot grow drops the entry without a word.
create_dir_entry(s, parent, e) ==
  LET dir == ino2inode(s, parent)
      free == Places(s, dir, "")
      room == {i \in SectorNrs : dir.sectors[i] = 0}
      lba == DATA_START + NextBlock(s)
      old == read_block(s, lba)
      s1 == sync_block(allocate_block(s), lba, [ZeroBlock EXCEPT ![0] = e])
      s2 == sync_inode(s1, parent, [dir EXCEPT !.sectors[Min(room)] = lba])
      s3 == sync_block_bitmap(s2)
  IN  IF NameTaken(s, dir, e.name) THEN s
      ELSE IF free # {} THEN PutEntry(s, dir, Min(free), e)
      ELSE IF room = {} THEN s
      ELSE IF Dirty(old) THEN Wild(s3) ELSE s3

init_child_dir(s, parent, ino) ==
  LET lba == DATA_START + NextBlock(s)
      s1 == sync_block(allocate_block(s), lba, DotEntries(ino, parent))
      s2 == sync_inode(s1, ino, [ino2inode(s, ino) EXCEPT !.sectors[0] = lba])
  IN  sync_block_bitmap(s2)

\* Clears the entry and gives back the first sector, from there on, that is
\* left without a name.
remove_dir_entry(s, parent, name) ==
  LET dir == ino2inode(s, parent)
      found == Places(s, dir, name)
      s1 == PutEntry(s, dir, Min(found), FREE)
      empty == {i \in SectorNrs : /\ i >= Min(found) \div SLOTS
                                  /\ dir.sectors[i] # 0
                                  /\ read_block(s1, dir.sectors[i]) # DATA
                                  /\ NamedIn(read_block(s1, dir.sectors[i])) = {}}
      i0 == Min(empty)
      s2 == sync_block_bitmap(free_blocks(s1, {dir.sectors[i0]}))
  IN  IF found = {} THEN s
      ELSE IF empty = {} THEN s1
      ELSE sync_inode(s2, parent, [dir EXCEPT !.sectors[i0] = 0])

\* A faulty variant, for the check that a property notices it: the
\* first entry after "." and ".." is passed over too.
dir_is_empty_OneMore(s, ino) ==
  LET dir == ino2inode(s, ino)
  IN  /\ NamedIn(read_block(s, dir.sectors[0])) \subseteq {0, 1, 2}
      /\ \A i \in SectorNrs \ {0} : dir.sectors[i] = 0

\* Only the first sector is looked into, and not its first two entries.  The
\* data of a file passes for empty, as that of a small one does; when it does
\* not, the request changes nothing.
dir_is_empty(s, ino) ==
  LET dir == ino2inode(s, ino)
  IN  /\ NamedIn(read_block(s, dir.sectors[0])) \subseteq {0, 1}
      /\ \A i \in SectorNrs \ {0} : dir.sectors[i] = 0

MayChange(s, ino) == check_inode_permission(ino2inode(s, ino), "WRITE")

\* sys_mkdir and sys_mkfile: the inode is on disk before the name, and stays
\* there when the name is refused.
sys_mkfile(s, path) ==
  LET parent == dir_is_exists(s, ParentOf(path))
      ino == NextInode(s)
      s1 == sync_inode_bitmap(create_inode(s))
  IN  IF parent = -1 \/ ~MayChange(s, parent) THEN s
      ELSE create_dir_entry(s1, parent, Entry(ChildOf(path), ino, "FILE"))

sys_mkdir(s, path) ==
  LET parent == dir_is_exists(s, ParentOf(path))
      ino == NextInode(s)
      s1 == sync_inode_bitmap(create_inode(s))
      s2 == create_dir_entry(s1, parent, Entry(ChildOf(path), ino, "DIR"))
  IN  IF parent = -1 \/ ~MayChange(s, parent) THEN s
      ELSE init_child_dir(s2, parent, ino)

\* The blocks of the directory are not given back.  Sector 0 of the disk is
\* read when the inode has no first sector.
sys_rmdir(s, path) ==
  LET ino == dir_is_exists(s, path)
      parent == dir_is_exists(s, ParentOf(path))
      s1 == remove_dir_entry(s, parent, ChildOf(path))
  IN  IF ino = -1 \/ ino2inode(s, ino).sectors[0] = 0 THEN Wild(s)
      ELSE IF ~dir_is_empty(s, ino) \/ ~MayChange(s, parent) THEN s
      ELSE sync_inode_bitmap(free_inode(s1, ino))

-----------------------------------------------------------------------------
(* Files: file.cc. *)

SectorsOf(inode) == {inode.sectors[i] : i \in SectorNrs} \ {0}

\* A faulty variant, for the check that a property notices it: the
\* bitmap is not written.
free_inode_sectors_NoSync(s, inode) == free_blocks(s, SectorsOf(inode))

free_inode_sectors(s, inode) ==
  sync_block_bitmap(free_blocks(s, SectorsOf(inode)))

sys_rmfile(s, path) ==
  LET ino == dir_is_exists(s, path)
      parent == dir_is_exists(s, ParentOf(path))
      s1 == remove_dir_entry(s, parent, ChildOf(path))
      s2 == free_inode_sectors(s1, ino2inode(s, ino))
  IN  IF ino = -1 \/ ~MayChange(s, parent) THEN s
      ELSE sync_inode_bitmap(free_inode(s2, ino))

\* Give the inode a new block at each of these sector numbers, in their order.
GiveBlocks(s, inode, at) ==
  LET give[k \in 0 .. NSEC] ==
        IF k = 0 THEN [s |-> s, inode |-> inode]
        ELSE LET r == give[k - 1]
                 lba == DATA_START + NextBlock(r.s)
             IN  IF k - 1 \notin at THEN r
                 ELSE [s |-> allocate_block(r.s),
                       inode |-> [r.inode EXCEPT !.sectors[k - 1] = lba]]
  IN  give[NSEC]

\* Fill these sectors with file data.
write_disk(s, lbas) ==
  [s EXCEPT !.blk = [b \in Blocks |->
                       IF DATA_START + b \in lbas THEN DATA ELSE @[b]]]

\* The sector numbers a write works with: the first, the last, and the ones it
\* writes to (a middle sector and the last one are computed from the count).
StartSector(inode, append) == IF append THEN inode.size \div SECTOR ELSE 0
SectorCnts(inode, count, append) ==
  IF append
  THEN (inode.size + count) \div SECTOR - StartSector(inode, append)
  ELSE count \div SECTOR
WrittenSectors(inode, count, append) ==
  LET start == StartSector(inode, append)
      cnts == SectorCnts(inode, count, append)
      surplus == SECTOR - (IF append THEN inode.size % SECTOR ELSE 0)
  IN  {start} \cup (start + 1 .. cnts - 2)
        \cup (IF count > surplus THEN {Max({start + 1, cnts - 1})} ELSE {})

\* Every index that a write uses is one of inode->sectors.
InBounds(inode, count, append) ==
  (StartSector(inode, append) .. SectorCnts(inode, count, append))
    \cup WrittenSectors(inode, count, append) \subseteq SectorNrs

SizeAfter(inode, count, append) ==
  IF append THEN inode.size + count ELSE count

\* A faulty variant, for the check that a property notices it: the
\* inode keeps the sectors that are given back.
WithoutSectors_Kept(inode, at) == inode

WithoutSectors(inode, at) ==
  [inode EXCEPT !.sectors = [i \in SectorNrs |-> IF i \in at THEN 0 ELSE @[i]]]

\* A faulty variant, for the check that a property notices it: the
\* inode is not synced a second time.
SyncAtEnd_Not(s, ino, inode) == s

SyncAtEnd(s, ino, inode) == sync_inode(s, ino, inode)

\* write_file on an open file: the partition and the cached inode after it.
\* The inode is synced with its new blocks and again, after the data, without
\* the ones past the end and with the new size.  A write that does not fit
\* reads and writes behind inode->sectors.
write_file(s, ino, inode, count, append) ==
  LET start == StartSector(inode, append)
      cnts == SectorCnts(inode, count, append)
      need == {i \in SectorNrs : /\ i \in start .. cnts
                                 /\ inode.sectors[i] = 0}
      r == GiveBlocks(s, inode, need)
      s1 == sync_block_bitmap(sync_inode(r.s, ino, r.inode))
      written == {r.inode.sectors[i] :
                    i \in WrittenSectors(inode, count, append)}
      surplus == {i \in SectorNrs : i > cnts /\ r.inode.sectors[i] # 0}
      inode2 == [WithoutSectors(r.inode, surplus) EXCEPT
                   !.size = SizeAfter(inode, count, append)]
      s2 == free_blocks(write_disk(s1, written),
                        {r.inode.sectors[i] : i \in surplus})
      s3 == SyncAtEnd(s2, ino, inode2)
  IN  [s |-> IF ~InBounds(inode, count, append) THEN Wild(s)
             ELSE IF 0 \in written THEN Wild(s3)
             ELSE IF surplus = {} THEN s3 ELSE sync_block_bitmap(s3),
       inode |-> inode2]

\* Copy these sectors of one inode to the ones of another.
CopySectors(s, from, to, at) ==
  LET Source(b) == {i \in at : to.sectors[i] = DATA_START + b}
  IN  [s EXCEPT !.blk = [b \in Blocks |->
         IF Source(b) = {} THEN @[b]
         ELSE read_block(s, from.sectors[Min(Source(b))])]]

\* The blocks the destination had are forgotten, and so is a destination that
\* could not be made.
copy_file(s, src, dst) ==
  LET s1 == sys_mkfile(s, dst)
      from == dir_is_exists(s1, src)
      to == dir_is_exists(s1, dst)
      inode == ino2inode(s1, from)
      at == {i \in SectorNrs : inode.sectors[i] # 0}
      r == GiveBlocks(s1, ino2inode(s1, to), at)
  IN  IF from = -1 \/ to = -1 THEN Wild(s1)
      ELSE IF ~check_inode_permission(inode, "READ") THEN s1
      ELSE sync_block_bitmap(
             sync_inode(CopySectors(r.s, inode, r.inode, at), to,
                        [r.inode EXCEPT !.size = inode.size]))

\* A faulty variant, for the check that a property notices it: the
\* old name stays.
ForgetName_Not(s, path) == s

\* The old name of a moved file goes.
ForgetName(s, path) ==
  remove_dir_entry(s, dir_is_exists(s, ParentOf(path)), ChildOf(path))

\* The destination takes over the blocks of the source.
move_file(s, src, dst) ==
  LET s1 == sys_mkfile(s, dst)
      from == dir_is_exists(s1, src)
      to == dir_is_exists(s1, dst)
      inode == ino2inode(s1, from)
      moved == [ino2inode(s1, to) EXCEPT !.sectors = inode.sectors,
                                         !.size = inode.size]
      s2 == free_inode(ForgetName(s1, src), from)
  IN  IF from = -1 \/ to = -1 THEN Wild(s1)
      ELSE IF ~MayChange(s1, from) THEN s1
      ELSE sync_inode_bitmap(sync_inode(s2, to, moved))

-----------------------------------------------------------------------------
(* Starting: fs.cc.  The partition mounted, sda0, is a primary one. *)

\* Three data sectors are cleared; of the others all that matters is whether
\* the files from before left something in them.
partition_install_fs(s) ==
  [s EXCEPT
     !.magic = MAGIC,
     !.block_bitmap = {0},
     !.inode_bitmap = {0},
     !.tbl = [i \in Inodes |->
                IF i = 0 THEN [size |-> 2, uid |-> 0,
                               mode |-> DEFAULT_PRIVILEGE,
                               sectors |-> [NoSectors EXCEPT ![0] = DATA_START]]
                ELSE ZeroInode],
     !.blk = [b \in Blocks |-> CASE b = 0 -> DotEntries(0, 0)
                                 [] b \in 1 .. 2 -> ZeroBlock
                                 [] OTHER -> Leftover(@[b])]]

\* The magic that keeps a primary partition from being installed again.
PRIMARY_MAGIC == "hmily"

mount_partition(s) ==
  [s EXCEPT !.block_bmap = s.block_bitmap,
            !.inode_bmap = s.inode_bitmap, !.wild = FALSE]

init_fs(s) ==
  mount_partition(IF s.magic = PRIMARY_MAGIC THEN s
                  ELSE partition_install_fs(s))

\* A disk that nothing has been written to.
BlankDisk == [magic |-> NO_MAGIC, tbl |-> [i \in Inodes |-> ZeroInode],
              blk |-> [b \in Blocks |-> ZeroBlock],
              block_bitmap |-> {}, inode_bitmap |-> {},
              block_bmap |-> {}, inode_bmap |-> {}, wild |-> FALSE]

FsInit ==
  /\ fs = init_fs(BlankDisk)
  /\ fdt = [fd \in Fds |-> NULL]
  /\ uid = 0
  /\ misused = FALSE
  /\ requests = 0

-----------------------------------------------------------------------------
(* What the requests are meant for.  Neither the server nor the terminal    *)
(* checks that a command on a file names a file and one on a directory a    *)
(* directory, or whether the file is open.                                  *)

TypeOf(s, path) ==
  LET parent == dir_is_exists(s, ParentOf(path))
      dir == ino2inode(s, parent)
      found == IF parent = -1 THEN {} ELSE Places(s, dir, ChildOf(path))
      n == Min(found)
  IN  CASE path = <<>> -> "DIR"
        [] path # <<>> /\ found = {} -> "NONE"
        [] OTHER -> read_block(s, dir.sectors[n \div SLOTS])[n % SLOTS].type

\* No file stands where the path needs a directory.
Sound(path) ==
  \A n \in 0 .. Len(path) - 1 : TypeOf(fs, SubSeq(path, 1, n)) # "FILE"
Names_(path, type) == TypeOf(fs, path) \in {type, "NONE"}
IsOpen(path) ==
  \E fd \in Fds : fdt[fd] # NULL /\ fdt[fd].ino = dir_is_exists(fs, path)

\* A request is misused when it was not meant for what it changes.
MeantFor(cond) == misused' = ~(cond \/ UNCHANGED <<fs, fdt>>)

-----------------------------------------------------------------------------
(* The requests: the switch of main.cc. *)

\* The partition after a request; nothing more is known of a wild one.
Becomes(s) == fs' = IF s.wild THEN Wild(fs) ELSE s

\* Any request on a path that runs through a file: the bytes of the file are
\* read as the entries of a directory.
ThroughFile(path) ==
  /\ ~Sound(path)
  /\ fs' = Wild(fs)
  /\ UNCHANGED <<fdt, uid, misused>>

Mkdir(path) ==
  /\ Sound(path)
  /\ Becomes(sys_mkdir(fs, path))
  /\ UNCHANGED <<fdt, uid, misused>>

Rmdir(path) ==
  /\ Sound(path)
  /\ Becomes(sys_rmdir(fs, path))
  /\ UNCHANGED <<fdt, uid>>
  /\ MeantFor(Names_(path, "DIR"))

Mkfile(path) ==
  /\ Sound(path)
  /\ Becomes(sys_mkfile(fs, path))
  /\ UNCHANGED <<fdt, uid, misused>>

Rmfile(path) ==
  /\ Sound(path)
  /\ Becomes(sys_rmfile(fs, path))
  /\ UNCHANGED <<fdt, uid>>
  /\ MeantFor(Names_(path, "FILE") /\ ~IsOpen(path))

\* The inode is copied when the file is opened; a full table refuses.
OpenFile(path) ==
  LET ino == dir_is_exists(fs, path)
      free == {fd \in Fds : fdt[fd] = NULL}
  IN  /\ Sound(path)
      /\ ino # -1 /\ check_inode_permission(ino2inode(fs, ino), "READ")
      /\ free # {}
      /\ fdt' = [fdt EXCEPT ![Min(free)] =
                   [ino |-> ino, inode |-> ino2inode(fs, ino), offset |-> 0]]
      /\ UNCHANGED <<fs, uid>>
      /\ MeantFor(Names_(path, "FILE") /\ ~IsOpen(path))

CloseFile(fd) ==
  /\ fdt[fd] # NULL
  /\ fdt' = [fdt EXCEPT ![fd] = NULL]
  /\ UNCHANGED <<fs, uid, misused>>

WriteFile(fd, count, append) ==
  LET file == fdt[fd]
      r == write_file(fs, file.ino, file.inode, count, append)
  IN  /\ file # NULL
      /\ check_inode_permission(file.inode, "WRITE")
      /\ Becomes(r.s)
      /\ fdt' = IF r.s.wild THEN fdt ELSE [fdt EXCEPT ![fd].inode = r.inode]
      /\ UNCHANGED <<uid, misused>>

is_eof(file) == file.offset >= file.inode.size

\* A client reads until is_eof says so.
ReadFile(fd, count) ==
  LET file == fdt[fd]
  IN  /\ file # NULL
      /\ check_inode_permission(file.inode, "READ")
      /\ ~is_eof(file)
      /\ fdt' = [fdt EXCEPT ![fd].offset = @ + Min({count, file.inode.size})]
      /\ UNCHANGED <<fs, uid, misused>>

LseekFile(fd, offset) ==
  /\ fdt[fd] # NULL
  /\ fdt' = [fdt EXCEPT ![fd].offset = Min({offset, fdt[fd].inode.size})]
  /\ UNCHANGED <<fs, uid, misused>>

Cpfile(src, dst) ==
  /\ Sound(src) /\ Sound(dst)
  /\ Becomes(copy_file(fs, src, dst))
  /\ UNCHANGED <<fdt, uid>>
  /\ MeantFor(Names_(src, "FILE") /\ Names_(dst, "FILE") /\ ~IsOpen(dst))

Mvfile(src, dst) ==
  /\ Sound(src) /\ Sound(dst)
  /\ Becomes(move_file(fs, src, dst))
  /\ UNCHANGED <<fdt, uid>>
  /\ MeantFor(/\ Names_(src, "FILE") /\ Names_(dst, "FILE")
              /\ ~IsOpen(src) /\ ~IsOpen(dst))

\* sys_chmod and sys_chown write the inode back whether or not they change it.
MayManage(inode) == uid \in {0, inode.uid}

Chmod(path, mode) ==
  LET ino == dir_is_exists(fs, path)
      inode == ino2inode(fs, ino)
  IN  /\ Sound(path) /\ ino # -1
      /\ fs' = sync_inode(fs, ino, IF MayManage(inode)
                                   THEN [inode EXCEPT !.mode = mode] ELSE inode)
      /\ UNCHANGED <<fdt, uid, misused>>

Chown(path, new_uid) ==
  LET ino == dir_is_exists(fs, path)
      inode == ino2inode(fs, ino)
  IN  /\ Sound(path) /\ ino # -1
      /\ fs' = sync_inode(fs, ino, IF MayManage(inode)
                                   THEN [inode EXCEPT !.uid = new_uid] ELSE inode)
      /\ UNCHANGED <<fdt, uid, misused>>

CurUser(u) ==
  /\ uid' = u
  /\ UNCHANGED <<fs, fdt, misused>>

\* Power goes and comes back between two requests; a cut inside a request is
\* not modelled.
Restart ==
  /\ fs' = init_fs(fs)
  /\ fdt' = [fd \in Fds |-> NULL]
  /\ uid' = 0
  /\ misused' = FALSE
  /\ requests' = Min({requests + 1, MaxRequests})

FsNext ==
  \/ /\ ~fs.wild /\ ~misused /\ requests < MaxRequests
     /\ \/ \E path \in DirPaths \cup FilePaths \cup Managed : ThroughFile(path)
        \/ \E path \in DirPaths : Mkdir(path) \/ Rmdir(path)
        \/ \E path \in FilePaths :
             \/ Mkfile(path) \/ Rmfile(path) \/ OpenFile(path)
             \/ \E dst \in FilePaths : Cpfile(path, dst) \/ Mvfile(path, dst)
        \/ \E path \in Managed :
             \/ \E mode \in Modes : Chmod(path, mode)
             \/ \E new_uid \in Users : Chown(path, new_uid)
        \/ \E fd \in Fds :
             \/ CloseFile(fd)
             \/ \E count \in 1 .. MaxCount, append \in BOOLEAN :
                  WriteFile(fd, count, append)
             \/ \E count \in 1 .. MaxCount : ReadFile(fd, count)
             \/ \E offset \in 0 .. MaxCount : LseekFile(fd, offset)
        \/ \E u \in Users : CurUser(u)
     /\ requests' = IF UNCHANGED <<fs, fdt, uid>> THEN requests ELSE requests + 1
  \/ Restart

FsSpec == FsInit /\ [][FsNext]_vars

-----------------------------------------------------------------------------
(* Properties.  The ones about the tree and its blocks say nothing of the     *)
(* state after a request that was misused; the types and the bitmaps do.      *)

FsTypeOK ==
  /\ fs \in Partition
  /\ \A fd \in Fds : fdt[fd] # NULL =>
       fdt[fd] \in [ino : Inodes, inode : Inode, offset : Nat]
  /\ uid \in Users
  /\ misused \in BOOLEAN
  /\ requests \in 0 .. MaxRequests

\* Every path that leads somewhere leads to an inode that is allocated, and
\* two paths never lead to the same one: a name is written after its inode is
\* taken and cleared before its inode is given back (sys_mkfile, sys_mkdir,
\* sys_rmfile, sys_rmdir, move_file).
PathsLive ==
  misused \/
  LET leading == {p \in Paths : Sound(p) /\ dir_is_exists(fs, p) # -1}
      inodes == {dir_is_exists(fs, p) : p \in leading}
  IN  /\ inodes \subseteq fs.inode_bmap
      /\ Cardinality(inodes) = Cardinality(leading)

\* No block belongs to two inodes, or twice to one, and none that belongs to
\* an inode is free: allocate_block never hands out a block in use, through
\* any order of creating, growing, shrinking, copying, moving and removing.
NoSharedBlock ==
  misused \/
  /\ \A i \in fs.inode_bmap : \A l \in SectorsOf(fs.tbl[i]) :
       /\ BlockNo(l) \in fs.block_bmap
       /\ Cardinality({k \in SectorNrs : fs.tbl[i].sectors[k] = l}) = 1
  /\ \A i, j \in fs.inode_bmap :
       i # j => SectorsOf(fs.tbl[i]) \cap SectorsOf(fs.tbl[j]) = {}

\* A directory has a name once, however its free places are spread over its
\* sectors: create_dir_entry looks at every entry before it takes a place.
NamesUnique ==
  misused \/
  \A p \in Paths, name \in Names :
    TypeOf(fs, p) = "DIR" =>
      Cardinality(Places(fs, ino2inode(fs, dir_is_exists(fs, p)), name)) <= 1

\* Between two requests the bitmaps on disk are the ones in memory: every
\* handler that changed one has written it.
BitmapsSynced ==
  /\ fs.block_bitmap = fs.block_bmap
  /\ fs.inode_bitmap = fs.inode_bmap

\* The copy of the inode an open file works on has the blocks and the size of
\* the one on disk, so that a write never brings back blocks that went to
\* another file (its mode and owner may be older: CMD_CHMOD, CMD_CHOWN).
CachedInodeFresh ==
  misused \/
  \A fd \in Fds : fdt[fd] # NULL =>
    /\ fdt[fd].ino \in fs.inode_bmap
    /\ fdt[fd].inode.sectors = fs.tbl[fdt[fd].ino].sectors
    /\ fdt[fd].inode.size = fs.tbl[fdt[fd].ino].size

\* A file does not get lost: its path stops leading to a file only because it
\* was removed, or moved (to itself, which loses it), or because the machine
\* restarted, or by a request that was misused (CMD_RMDIR on a small file
\* removes it); and the path it was moved to has its blocks and its size.
FilesKept ==
  [][Restart \/ misused' \/ fs' = fs \/ \A p \in FilePaths :
       TypeOf(fs, p) = "FILE" /\ TypeOf(fs', p) # "FILE" =>
         \/ Rmfile(p) \/ Mvfile(p, p)
         \/ \E q \in FilePaths \ {p} :
              LET old == fs.tbl[dir_is_exists(fs, p)]
                  new == fs'.tbl[dir_is_exists(fs', q)]
              IN  /\ Mvfile(p, q)
                  /\ TypeOf(fs', q) = "FILE"
                  /\ new.sectors = old.sectors /\ new.size = old.size]_vars

\* A partition with the magic 'S' 'h' 'm' 'i' 'l' 'y' of super_block.h is an
\* installed one, and a restart leaves its files alone.
FilesSurviveRestart ==
  [][Restart /\ fs.magic = MAGIC =>
       fs'.tbl = fs.tbl /\ fs'.blk = fs.blk]_vars

=============================================================================
