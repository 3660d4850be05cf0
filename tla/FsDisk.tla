------------------------------- MODULE FsDisk -------------------------------
(***************************************************************************)
(* Directories and inodes on the disk: fs/dir.c, the allocation of fs/     *)
(* file.c and fs/inode.c, and the system calls of fs/fs.c that change the  *)
(* tree.  A call is a list of disk accesses (todo); between two of them    *)
(* another process may run, or the power may fail.  Each process has its   *)
(* io_buf.  The path to the parent directory is walked in one step.  The   *)
(* life of in-core inodes is the subject of OpenFiles: an inode is in      *)
(* memory here while a call uses it, the root always.                      *)
(*                                                                         *)
(* Blocks are counted from 1 (sb->data_start_lba), 0 is "no block"; the    *)
(* bit of block b is b - 1.  Sizes of directories are counted in entries.  *)
(*                                                                         *)
(* The size of the partition and the calls that are made are chosen when   *)
(* the story begins, from Setups: the processes (users), their calls       *)
(* (ops), the names, the inodes, blocks and entries of a sector there are, *)
(* and how often the power may fail in the middle of a call (fails).       *)
(***************************************************************************)
EXTENDS Pools, FiniteSets, Sequences

CONSTANTS Proc, Name, None,
          Inodes, Blocks,   \* 4096, and the size of the partition
          Slots,            \* entries of a sector, 21, at the most
          Direct, Indirect, \* blocks of a file, 12 and 128
          Setups

ASSUME FsDiskAssumption ==
    /\ \A s \in Setups : /\ s.users \subseteq Proc /\ s.names \subseteq Name
                        /\ s.ops \subseteq {"create", "append", "mkdir", "unlink", "rmdir"}
                        /\ s.inodes \in 1 .. Inodes /\ s.slots \in 2 .. Slots
                        /\ s.blocks \in 1 .. Blocks
                        /\ s.fails \in Nat
    /\ Inodes \in Nat \ {0} /\ Blocks \in Nat \ {0} /\ Slots \in Nat \ {0, 1}
    /\ Direct \in Nat \ {0} /\ Indirect \in Nat
    /\ {".", ".."} \cap Name = {} /\ None \notin Name

Ino == 0 .. Inodes - 1
Block == 1 .. Blocks
Slot == 1 .. Slots

Free == [name |-> None, ino |-> 0, type |-> "unknown"]
ZeroSector == [s \in Slot |-> Free]
ZeroTable == [k \in 1 .. Indirect |-> 0]

\* The block of "." and "..", of partition_format and alloc_directory_inode
Dots(i, up) == [s \in Slot |-> CASE s = 1 -> [name |-> ".", ino |-> i, type |-> "dir"]
                                [] s = 2 -> [name |-> "..", ino |-> up, type |-> "dir"]
                                [] OTHER -> Free]

\* inode_init
inode_init == [size |-> 0, sect |-> [k \in 0 .. Direct |-> 0]]

VARIABLES setup,
          disk,       \* bitmaps, inode table, and blocks as directory sectors
                      \* and as tables of block numbers
          imem, bmem, \* the bitmaps in memory
          core,       \* i_size and i_sectors of the inodes in memory
          r,          \* what each process is doing
          fault,      \* TRUE when an ASSERT failed
          failed      \* how often the power failed in the middle of a call
vars == <<setup, disk, imem, bmem, core, r, fault, failed>>

Idle == [op |-> "none", dir |-> 0, ino |-> 0, ent |-> Free, idx |-> 0, slot |-> 0,
         lba |-> 0, sec |-> ZeroSector, tier |-> <<>>, table |-> <<>>,
         snap |-> inode_init, todo |-> <<>>]

\* partition_format, then mount_partition and open_root_dir
Root == [inode_init EXCEPT !.size = 2, !.sect[0] = 1]
Init == /\ setup \in Setups
        /\ disk = [ibits |-> {0}, bbits |-> {0},
                   inode |-> [i \in Ino |-> IF i = 0 THEN Root ELSE inode_init],
                   ents |-> [b \in Block |-> IF b = 1 THEN Dots(0, 0) ELSE ZeroSector],
                   tab |-> [b \in Block |-> ZeroTable]]
        /\ imem = disk.ibits /\ bmem = disk.bbits
        /\ core = [i \in Ino |-> IF i = 0 THEN Root ELSE inode_init]
        /\ r = [p \in Proc |-> Idle]
        /\ fault = FALSE /\ failed = 0

-----------------------------------------------------------------------------
\* The inodes some call has open, and what inode_open makes of the in-core
\* inodes
Opened == {0} \cup UNION {{r[p].dir, r[p].ino} : p \in Proc}
inode_open(i) == IF i \in Opened THEN core ELSE [core EXCEPT ![i] = disk.inode[i]]

\* all_blocks of an inode
Index == 0 .. Direct + Indirect - 1
all_blocks(nd) ==
    [k \in Index |-> IF k < Direct THEN nd.sect[k]
                     ELSE IF nd.sect[Direct] = 0 THEN 0
                     ELSE disk.tab[nd.sect[Direct]][k - Direct + 1]]

Places(nd) == {x \in Index \X Slot : LET b == all_blocks(nd)[x[1]]
                                     IN  b # 0 /\ disk.ents[b][x[2]] # Free}
At(nd, x) == disk.ents[all_blocks(nd)[x[1]]][x[2]]
Entries(nd) == {At(nd, x) : x \in Places(nd)}

\* search_dir_entry
Search(nd, n) == {e \in Entries(nd) : e.name = n}

\* Directories that a path leads to: they are in every set that holds the root
\* and, with a directory, those it names
Subdirs(i) == {e.ino : e \in {x \in Entries(disk.inode[i]) :
                                  x.type = "dir" /\ x.name \in Name}}
Dirs == LET below == UNION {{i} \X Subdirs(i) : i \in Ino}
            named == {0} \cup {x[2] : x \in below}
            closed == {S \in SUBSET named : 0 \in S /\ \A x \in below : x[1] \in S => x[2] \in S}
        IN  {d \in named : \A S \in closed : d \in S}

\* The directory as a call sees it when it opens it
Dir(d) == inode_open(d)[d]

Step(what, x) == [do |-> what, on |-> x]
Doing(p, what) == /\ ~fault /\ r[p].todo # <<>> /\ Head(r[p].todo).do = what
Then(p, x) == r' = [r EXCEPT ![p] = IF x.todo = <<>> THEN Idle ELSE x]
Rest(p) == Tail(r[p].todo)
inode_sync(i) == <<Step("load", i), Step("store", i)>>

\* dir_close and inode_close at the end of a call: what nobody else has open
\* leaves memory.
dir_close(p) ==
    [i \in Ino |-> IF i = 0 \/ \E q \in Proc \ {p} : i \in {r[q].dir, r[q].ino}
                  THEN core[i] ELSE inode_init]

inode_bitmap_alloc == bitmap_scan(imem, setup.inodes, 1)

\* mutant: the entry is written before the directory it names
mkdir_entry_first(d, i) ==
    <<Step("find", 0)>> \o inode_sync(d)
    \o <<Step("alloc", 0), Step("dots", 0)>> \o inode_sync(i)

\* alloc_directory_inode after its inode number, and the entry
mkdir_steps(d, i) ==
    <<Step("alloc", 0), Step("dots", 0)>> \o inode_sync(i)
    \o <<Step("find", 0)>> \o inode_sync(d)

file_create_steps(d, i) ==
    <<Step("find", 0)>> \o inode_sync(d) \o inode_sync(i) \o <<Step("ibits", 0)>>

\* A new name in directory d: file_create, which writes the inode bitmap last,
\* and sys_mkdir, which writes it first
NewName(p, op, d, n) ==
    LET i == inode_bitmap_alloc
        e == [name |-> n, ino |-> i, type |-> IF op = "mkdir" THEN "dir" ELSE "file"]
    IN  /\ op \in setup.ops /\ ~fault /\ r[p] = Idle /\ d \in Dirs
        /\ Search(Dir(d), n) = {} /\ i # -1
        /\ imem' = bitmap_set(imem, i, 1)
        /\ disk' = IF op = "mkdir" THEN [disk EXCEPT !.ibits = imem'] ELSE disk
        /\ core' = [inode_open(d) EXCEPT ![i] = inode_init]
        /\ r' = [r EXCEPT ![p] = [Idle EXCEPT !.op = op, !.dir = d, !.ino = i, !.ent = e,
                     !.todo = IF op = "mkdir" THEN mkdir_steps(d, i)
                              ELSE file_create_steps(d, i)]]
        /\ UNCHANGED <<bmem, fault, failed>>

\* The first block of an empty file, by file_write; module FileIO has the rest
FirstBlock(p, d, i) ==
    /\ "append" \in setup.ops /\ ~fault /\ r[p] = Idle /\ d \in Dirs
    /\ \E e \in Entries(Dir(d)) : e.ino = i /\ e.type = "file"
    /\ i \notin Opened /\ disk.inode[i].size = 0
    /\ core' = inode_open(i)
    /\ r' = [r EXCEPT ![p] = [Idle EXCEPT !.op = "append", !.ino = i,
                  !.todo = <<Step("alloc", 0), Step("data", 0)>> \o inode_sync(i)]]
    /\ UNCHANGED <<disk, imem, bmem, fault, failed>>

dir_is_empty(nd) == nd.size = 2

\* sys_unlink, of a file nobody has open, and sys_rmdir with dir_remove, of an
\* empty directory
Remove(p, op, d, n) ==
    \E e \in Search(Dir(d), n) :
        LET i == e.ino
            child == inode_open(i)[i]
        IN  /\ op \in setup.ops /\ ~fault /\ r[p] = Idle /\ d \in Dirs
            /\ \/ op = "unlink" /\ e.type = "file"
                  /\ \A q \in Proc : r[q].op \in {"create", "append"} => r[q].ino # i
               \/ op = "rmdir" /\ e.type = "dir" /\ dir_is_empty(child)
            /\ core' = [core EXCEPT ![d] = Dir(d), ![i] = child]
            /\ fault' = (op = "rmdir" /\ \E k \in 1 .. Direct : child.sect[k] # 0)
            /\ r' = [r EXCEPT ![p] = [Idle EXCEPT !.op = op, !.dir = d, !.ino = i,
                         !.todo = <<Step("delete", 0)>> \o inode_sync(d)
                                  \o <<Step("release", 0)>>]]
            /\ UNCHANGED <<disk, imem, bmem, failed>>

-----------------------------------------------------------------------------
\* inode_sync: the sector of the inode table is read, and written back with
\* the inode as it was at the call.
SyncLoad(p) ==
    /\ Doing(p, "load")
    /\ Then(p, [r[p] EXCEPT !.table = disk.inode, !.snap = core[Head(r[p].todo).on],
                            !.todo = Rest(p)])
    /\ UNCHANGED <<disk, imem, bmem, core, fault, failed>>

SyncStore(p) ==
    /\ Doing(p, "store")
    /\ disk' = [disk EXCEPT !.inode = [r[p].table EXCEPT ![Head(r[p].todo).on] = r[p].snap]]
    /\ Then(p, [r[p] EXCEPT !.table = <<>>, !.snap = inode_init, !.todo = Rest(p)])
    /\ core' = IF Rest(p) = <<>> THEN dir_close(p) ELSE core
    /\ UNCHANGED <<imem, bmem, fault, failed>>

\* bitmap_sync of the inode bitmap, at the end of file_create
SyncInodeBits(p) ==
    /\ Doing(p, "ibits")
    /\ disk' = [disk EXCEPT !.ibits = imem]
    /\ core' = dir_close(p)
    /\ Then(p, [r[p] EXCEPT !.todo = Rest(p)])
    /\ UNCHANGED <<imem, bmem, fault, failed>>

\* mutant: block_bitmap_alloc does not set the bit it found
AllocWithoutBit(p) ==
    LET i == bitmap_scan(bmem, setup.blocks, 1)
    IN  /\ Doing(p, "alloc")
        /\ fault' = (i = -1)
        /\ disk' = [disk EXCEPT !.bbits = bmem]
        /\ Then(p, [r[p] EXCEPT !.lba = i + 1, !.todo = Rest(p)])
        /\ UNCHANGED <<bmem, imem, core, failed>>

\* allocate_block, and allocate_part_block up to its bitmap_sync
Alloc(p) ==
    LET i == bitmap_scan(bmem, setup.blocks, 1)
    IN  /\ Doing(p, "alloc")
        /\ fault' = (i = -1)
        /\ bmem' = IF i = -1 THEN bmem ELSE bitmap_set(bmem, i, 1)
        /\ disk' = [disk EXCEPT !.bbits = bmem']
        /\ Then(p, [r[p] EXCEPT !.lba = i + 1, !.todo = Rest(p)])
        /\ UNCHANGED <<imem, core, failed>>

\* alloc_directory_inode writes "." and "..".
WriteDots(p) ==
    /\ Doing(p, "dots")
    /\ disk' = [disk EXCEPT !.ents[r[p].lba] = Dots(r[p].ino, r[p].dir)]
    /\ core' = [core EXCEPT ![r[p].ino] = [inode_init EXCEPT !.size = 2, !.sect[0] = r[p].lba]]
    /\ Then(p, [r[p] EXCEPT !.todo = Rest(p)])
    /\ UNCHANGED <<imem, bmem, fault, failed>>

\* file_write writes the data and enters the block.
WriteData(p) ==
    /\ Doing(p, "data")
    /\ core' = [core EXCEPT ![r[p].ino] = [@ EXCEPT !.size = 1, !.sect[0] = r[p].lba]]
    /\ Then(p, [r[p] EXCEPT !.todo = Rest(p)])
    /\ UNCHANGED <<disk, imem, bmem, fault, failed>>

\* sync_dir_entry fails, and its caller's rollback takes the inode number back
\* in memory.
NoRoom(p) ==
    /\ Doing(p, "find") /\ r[p].idx = Direct + Indirect
    /\ imem' = bitmap_set(imem, r[p].ino, 0)
    /\ core' = dir_close(p)
    /\ r' = [r EXCEPT ![p] = Idle]
    /\ UNCHANGED <<disk, bmem, fault, failed>>

\* sync_dir_entry, the loop: a missing block is allocated, an existing one is
\* read and searched for a free entry (find_free_dir_entry).
FindBlock(p) ==
    LET x == r[p]
        direct == x.idx < Direct
        tiered == x.tier # <<>>
        indirect == core[x.dir].sect[Direct]
        b == IF direct THEN core[x.dir].sect[x.idx] ELSE x.tier[x.idx - Direct + 1]
        free == {s \in 1 .. setup.slots : disk.ents[b][s].type = "unknown"}
        more(steps) == [x EXCEPT !.todo = steps \o @]
    IN  /\ Doing(p, "find") /\ x.idx < Direct + Indirect
        /\ Then(p,
             IF ~direct /\ ~tiered
             THEN IF indirect = 0 THEN more(<<Step("alloc", 0), Step("zero", 0)>>)
                  ELSE [x EXCEPT !.tier = disk.tab[indirect]]
             ELSE IF b = 0
             THEN more(<<Step("alloc", 0), Step("zero", 0)>>
                       \o IF direct THEN <<>> ELSE <<Step("tier", 0)>>)
             ELSE IF free = {} THEN [x EXCEPT !.idx = @ + 1]
             ELSE [x EXCEPT !.lba = b, !.sec = disk.ents[b], !.slot = Least(free),
                            !.todo = <<Step("put", 0)>> \o Rest(p)])
        /\ UNCHANGED <<disk, imem, bmem, core, fault, failed>>

\* The new block is cleared, and entered where it was missing.
ZeroBlock(p) ==
    LET x == r[p]
        tiered == x.idx >= Direct /\ x.tier # <<>>
        k == IF x.idx < Direct THEN x.idx ELSE Direct
    IN  /\ Doing(p, "zero")
        /\ disk' = [disk EXCEPT !.ents[x.lba] = ZeroSector, !.tab[x.lba] = ZeroTable]
        /\ core' = IF tiered THEN core ELSE [core EXCEPT ![x.dir].sect[k] = x.lba]
        /\ Then(p, [x EXCEPT !.todo = Rest(p),
                      !.tier = IF tiered THEN [@ EXCEPT ![x.idx - Direct + 1] = x.lba] ELSE @])
        /\ UNCHANGED <<imem, bmem, fault, failed>>

\* The change of a directory's size that goes with the entry of a call
Delta(x) == IF x.ent = Free THEN -1 ELSE 1

\* mutant: the size stays when an entry is removed
PutKeepsSize(p) ==
    LET x == r[p]
    IN  /\ Doing(p, "put")
        /\ disk' = [disk EXCEPT !.ents[x.lba] = [x.sec EXCEPT ![x.slot] = x.ent]]
        /\ core' = IF x.ent = Free THEN core ELSE [core EXCEPT ![x.dir].size = @ + 1]
        /\ Then(p, [x EXCEPT !.sec = ZeroSector, !.todo = Rest(p)])
        /\ UNCHANGED <<imem, bmem, fault, failed>>

\* The sector is written back with the entry, or without the removed one.
PutEntry(p) ==
    LET x == r[p]
    IN  /\ Doing(p, "put")
        /\ disk' = [disk EXCEPT !.ents[x.lba] = [x.sec EXCEPT ![x.slot] = x.ent]]
        /\ core' = [core EXCEPT ![x.dir].size = @ + Delta(x)]
        /\ Then(p, [x EXCEPT !.sec = ZeroSector, !.todo = Rest(p)])
        /\ UNCHANGED <<imem, bmem, fault, failed>>

\* The table of indirect blocks is written back; for delete_dir_entry this is
\* the end of it.
WriteTable(p) ==
    LET x == r[p]
    IN  /\ Doing(p, "tier")
        /\ disk' = [disk EXCEPT !.tab[core[x.dir].sect[Direct]] = x.tier]
        /\ core' = IF x.ent = Free THEN [core EXCEPT ![x.dir].size = @ - 1] ELSE core
        /\ Then(p, [x EXCEPT !.todo = Rest(p)])
        /\ UNCHANGED <<imem, bmem, fault, failed>>

\* delete_dir_entry up to the sector that holds the entry.  The last entry of
\* a block takes the block with it.  Its result is ignored.
DeleteEntry(p) ==
    LET x == r[p]
        nd == core[x.dir]
        found == {y \in Places(nd) : At(nd, y).ino = x.ino}
        k == Least({y[1] : y \in found})
        b == all_blocks(nd)[k]
        here == {y \in found : y[1] = k}
        alone == Cardinality({y \in Places(nd) : y[1] = k}) = 1
        tier == IF k < Direct THEN <<>>
                ELSE [disk.tab[nd.sect[Direct]] EXCEPT ![k - Direct + 1] = 0]
        steps == IF ~alone THEN <<Step("put", 0)>>
                 ELSE <<Step("drop", 0)>> \o
                      IF k < Direct THEN <<>>
                      ELSE IF tier = ZeroTable THEN <<Step("droptier", 0)>>
                      ELSE <<Step("tier", 0)>>
    IN  /\ Doing(p, "delete")
        /\ IF found = {}
           THEN /\ Then(p, [x EXCEPT !.todo = SubSeq(@, 4, Len(@))])
                /\ UNCHANGED fault
           ELSE /\ fault' = (Cardinality(here) > 1)
                /\ Then(p, [x EXCEPT !.idx = k, !.lba = b, !.tier = tier,
                               !.sec = IF alone THEN @ ELSE disk.ents[b],
                               !.slot = Least({y[2] : y \in here}),
                               !.todo = steps \o Rest(p)])
        /\ UNCHANGED <<disk, imem, bmem, core, failed>>

DropBlock(p) ==
    LET x == r[p]
    IN  /\ Doing(p, "drop")
        /\ bmem' = bitmap_set(bmem, x.lba - 1, 0)
        /\ disk' = [disk EXCEPT !.bbits = bmem']
        /\ core' = IF x.idx < Direct
                   THEN [core EXCEPT ![x.dir].sect[x.idx] = 0, ![x.dir].size = @ - 1]
                   ELSE core
        /\ Then(p, [x EXCEPT !.todo = Rest(p)])
        /\ UNCHANGED <<imem, fault, failed>>

\* mutant: the indirect block stays allocated
DropTableKeepsBit(p) ==
    LET x == r[p]
    IN  /\ Doing(p, "droptier")
        /\ core' = [core EXCEPT ![x.dir].sect[Direct] = 0, ![x.dir].size = @ - 1]
        /\ Then(p, [x EXCEPT !.todo = Rest(p)])
        /\ UNCHANGED <<disk, bmem, imem, fault, failed>>

DropTable(p) ==
    LET x == r[p]
    IN  /\ Doing(p, "droptier")
        /\ bmem' = bitmap_set(bmem, core[x.dir].sect[Direct] - 1, 0)
        /\ disk' = [disk EXCEPT !.bbits = bmem']
        /\ core' = [core EXCEPT ![x.dir].sect[Direct] = 0, ![x.dir].size = @ - 1]
        /\ Then(p, [x EXCEPT !.todo = Rest(p)])
        /\ UNCHANGED <<imem, fault, failed>>

\* inode_release: the indirect block, the blocks, and the inode's number
Release(p) ==
    LET x == r[p]
        nd == core[x.ino]
        blocks == [k \in 0 .. Direct + Indirect |->
                      IF k = 0 THEN nd.sect[Direct] ELSE all_blocks(nd)[k - 1]]
    IN  /\ Doing(p, "release")
        /\ Then(p, [x EXCEPT !.todo = [k \in 1 .. Direct + Indirect + 2 |->
               IF k < Direct + Indirect + 2 THEN Step("free", blocks[k - 1])
               ELSE Step("ifree", 0)]])
        /\ UNCHANGED <<disk, imem, bmem, core, fault, failed>>

\* A place without a block is passed over.
ReleaseBlock(p) ==
    LET b == Head(r[p].todo).on
    IN
    /\ Doing(p, "free")
    /\ bmem' = IF b = 0 THEN bmem ELSE bitmap_set(bmem, b - 1, 0)
    /\ disk' = [disk EXCEPT !.bbits = IF b = 0 THEN @ ELSE bmem']
    /\ Then(p, [r[p] EXCEPT !.todo = Rest(p)])
    /\ UNCHANGED <<imem, core, fault, failed>>

\* mutant: bitmap_sync is not called
ReleaseInodeInMemory(p) ==
    /\ Doing(p, "ifree")
    /\ imem' = bitmap_set(imem, r[p].ino, 0)
    /\ core' = dir_close(p)
    /\ Then(p, [r[p] EXCEPT !.todo = Rest(p)])
    /\ UNCHANGED <<disk, bmem, fault, failed>>

ReleaseInode(p) ==
    /\ Doing(p, "ifree")
    /\ imem' = bitmap_set(imem, r[p].ino, 0)
    /\ disk' = [disk EXCEPT !.ibits = imem']
    /\ core' = dir_close(p)
    /\ Then(p, [r[p] EXCEPT !.todo = Rest(p)])
    /\ UNCHANGED <<bmem, fault, failed>>

Quiet == r = [p \in Proc |-> Idle]

\* mount_partition and open_root_dir after the machine was switched off
Mount == /\ ~fault /\ (Quiet \/ failed < setup.fails)
         /\ failed' = IF Quiet THEN failed ELSE failed + 1
         /\ imem' = disk.ibits /\ bmem' = disk.bbits
         /\ core' = [i \in Ino |-> IF i = 0 THEN disk.inode[0] ELSE inode_init]
         /\ r' = [p \in Proc |-> Idle]
         /\ UNCHANGED <<disk, fault>>

Stopped == fault /\ UNCHANGED vars

Call == \/ \E p \in setup.users :
              \/ \E d \in Ino, n \in setup.names :
                    \/ NewName(p, "create", d, n) \/ NewName(p, "mkdir", d, n)
                    \/ Remove(p, "unlink", d, n) \/ Remove(p, "rmdir", d, n)
              \/ \E d, i \in Ino : FirstBlock(p, d, i)
              \/ SyncLoad(p) \/ SyncStore(p) \/ SyncInodeBits(p)
              \/ Alloc(p) \/ WriteDots(p) \/ WriteData(p)
              \/ FindBlock(p) \/ NoRoom(p) \/ ZeroBlock(p) \/ PutEntry(p) \/ WriteTable(p)
              \/ DeleteEntry(p) \/ DropBlock(p) \/ DropTable(p)
              \/ Release(p) \/ ReleaseBlock(p) \/ ReleaseInode(p)

Next == ((Call \/ Mount) /\ UNCHANGED setup) \/ Stopped

Spec == Init /\ [][Next]_vars

-----------------------------------------------------------------------------
\* The blocks of inodes, each with the place that names it
Held(is, node) == {x \in UNION {{<<i, k, all_blocks(node[i])[k]>> : k \in Index}
                                \cup {<<i, -1, node[i].sect[Direct]>>} : i \in is} :
                      x[3] # 0}

\* One process makes all the calls, and the power does not fail inside them.
OneUser == \E p \in Proc : setup.users = {p}
Alone == OneUser /\ setup.fails = 0

\* Between calls a block belongs to one place of one inode, and the bitmap, in
\* memory as on the disk, holds exactly the blocks that belong to some:
\* directories that grow into their indirect blocks and shrink again neither
\* lose nor share one.
BlocksExact == Alone /\ Quiet /\ ~fault =>
    /\ \A x, y \in Held(imem, disk.inode) : x[3] = y[3] => x = y
    /\ bmem = {x[3] - 1 : x \in Held(imem, disk.inode)}
    /\ disk.bbits = bmem

\* Between calls every inode but the root has one name in the tree, no name
\* belongs to a free inode, and the bitmap on the disk says the same.
Named == UNION {{d} \X {x \in Places(disk.inode[d]) : At(disk.inode[d], x).name \in Name} :
                   d \in Dirs}
NamesExact == Alone /\ Quiet /\ ~fault =>
    /\ {At(disk.inode[x[1]], x[2]).ino : x \in Named} = imem \ {0}
    /\ Cardinality(Named) = Cardinality(imem) - 1
    /\ disk.ibits = imem

\* i_size of a directory counts its entries through removals and reuse of their
\* places, which dir_is_empty and dir_read rely on, and the root in memory is
\* the root on the disk.
SizeIsEntries == Alone /\ Quiet /\ ~fault =>
    /\ \A d \in Dirs : disk.inode[d].size = Cardinality(Places(disk.inode[d]))
    /\ core[0] = disk.inode[0]

\* On the disk, at any moment, a directory that has a name has an inode, and
\* a block whose first entry is itself: a power failure in sys_mkdir or
\* sys_rmdir costs space, never a directory.  One process makes the calls: two
\* inode_syncs of one sector at once undo each other.  And no directory has
\* more than its first block: delete_dir_entry gives a block back on the disk
\* before it writes the inode or the table that names it.
Compact == \A i \in Ino, k \in 1 .. Direct : disk.inode[i].sect[k] = 0
DirsComplete == OneUser /\ (setup.fails = 0 \/ Compact) =>
  \A d \in Dirs \ {0} :
    /\ d \in disk.ibits
    /\ LET b == disk.inode[d].sect[0]
       IN  b # 0 /\ b - 1 \in disk.bbits /\ disk.ents[b][1].ino = d

\* No two calls under way, and no call and an inode, have the same block or
\* inode number, whatever disk accesses they wait in.
TakenOnce == \A p, q \in Proc : p # q /\ r[p] # Idle /\ r[q] # Idle =>
    /\ r[p].ino # r[q].ino
    /\ \A x \in Held({r[p].dir, r[p].ino}, core), y \in Held({r[q].dir, r[q].ino}, core) :
           x[3] = y[3] => x = y

\* The entry that sync_dir_entry writes to is a free one.
EntryTakenIsFree == [][\A p \in Proc :
    Doing(p, "put") /\ r[p].ent # Free /\ disk'.ents # disk.ents
        => disk.ents[r[p].lba][r[p].slot] = Free]_vars
=============================================================================
