------------------------------- MODULE FileIO -------------------------------
(***************************************************************************)
(* Reading and writing of one open file: file_write and file_read of fs/   *)
(* file.c with the block arithmetic, and sys_lseek.  A call is one step;   *)
(* what lies between its disk accesses is the subject of FsDisk.  Blocks   *)
(* are numbered as in FsDisk, and "no block" is 0.  The buffer all_blocks  *)
(* comes from sys_malloc, so an entry that the call did not fill in, or    *)
(* one past the end, is whatever the memory held.                          *)
(***************************************************************************)
EXTENDS Pools, FiniteSets

CONSTANTS BlockSize, Direct, Indirect, \* 512, 12 and 128
          Blocks,                      \* blocks of the partition
          Byte, Hole,
          Positions, Counts            \* arguments of sys_lseek, and of reads
                                       \* and writes

\* What a disk and its clients are like; the root has a block.
FileShape == /\ BlockSize \in Nat \ {0} /\ Blocks \in Nat \ {0}
             /\ Direct \in Nat /\ Indirect \in Nat
             /\ Positions \subseteq Nat /\ Counts \subseteq Nat
             /\ 0 \in Byte /\ Hole \notin Byte

Index == 0 .. Direct + Indirect - 1
MaxSize == BlockSize * (Direct + Indirect)
Block == 1 .. Blocks

VARIABLES pos,     \* fd_pos
          size,    \* i_size
          sect,    \* i_sectors
          tab,     \* the table in the indirect block
          content, \* the bytes of each block
          bits,    \* the block bitmap
          got,     \* what the last read returned: a byte, or Hole, for each
                   \* position
          fault    \* "no", or what the last call came to
vars == <<pos, size, sect, tab, content, bits, got, fault>>

Nothing == [x \in {} |-> Hole]

\* inode_init; bit 0 is that of the root's block
Init == /\ pos = 0 /\ size = 0
        /\ sect = [k \in 0 .. Direct |-> 0]
        /\ tab = [k \in 0 .. Indirect - 1 |-> 0]
        /\ content = [b \in Block |-> [o \in 0 .. BlockSize - 1 |-> 0]]
        /\ bits = {0}
        /\ got = Nothing /\ fault = "no"

\* start_sec .. end_sec of a transfer of n bytes; end_sec is the block after
\* the last one when the transfer ends at a block's end.
Touched(n) == pos \div BlockSize .. (pos + n) \div BlockSize

\* all_blocks, when the indirect table has been read
all_blocks == [k \in Index |-> IF k < Direct THEN sect[k]
                               ELSE IF sect[Direct] = 0 THEN 0 ELSE tab[k - Direct]]

\* The n-th block that block_bitmap_alloc gives out from now on
NthFree(n) == 1 + CHOOSE i \in 0 .. Blocks - 1 :
                  i \notin bits /\ Cardinality({j \in 0 .. i : j \notin bits}) = n

sys_lseek(x) ==
    /\ fault = "no"
    /\ pos' = x
    /\ got' = Nothing
    /\ UNCHANGED <<size, sect, tab, content, bits, fault>>

\* SEEK_END
sys_lseek_end ==
    /\ fault = "no"
    /\ pos' = size
    /\ got' = Nothing
    /\ UNCHANGED <<size, sect, tab, content, bits, fault>>

\* mutant: the indirect table is loaded from the next block on only
NeedsTable_late(n) == (pos + n) \div BlockSize > Direct

\* file_write loads the table, or makes one, when end_sec >= 12.
NeedsTable(n) == (pos + n) \div BlockSize >= Direct

\* mutant: load_or_alloc_inode_block reads a block that is there after
\* clearing the buffer
Contents_cleared(lba, fresh, n, v) ==
    [b \in Block |-> IF \E k \in DOMAIN lba : lba[k] = b
                     THEN LET k == CHOOSE j \in DOMAIN lba : lba[j] = b
                          IN  [o \in 0 .. BlockSize - 1 |->
                                  IF k * BlockSize + o \in pos .. pos + n - 1 THEN v ELSE 0]
                     ELSE content[b]]

\* What the blocks hold after n bytes v were written at pos: a fresh block is
\* zero where nothing was written.
Contents(lba, fresh, n, v) ==
    [b \in Block |-> IF \E k \in DOMAIN lba : lba[k] = b
                     THEN LET k == CHOOSE j \in DOMAIN lba : lba[j] = b
                          IN  [o \in 0 .. BlockSize - 1 |->
                                  IF k * BlockSize + o \in pos .. pos + n - 1 THEN v
                                  ELSE IF k \in fresh THEN 0 ELSE content[b][o]]
                     ELSE content[b]]

\* file_write: n bytes v.  The blocks it lacks are taken in order, that of the
\* table first.  all_blocks[140] is looked at when the file becomes as long as
\* it may; a sector is read and written, or a block lost, by what is there.
file_write(n, v) ==
    LET table == NeedsTable(n) /\ sect[Direct] = 0
        fresh == {k \in Touched(n) \cap Index : all_blocks[k] = 0}
        first == IF table THEN 1 ELSE 0
        Lba(k) == IF k \notin fresh THEN all_blocks[k]
                  ELSE NthFree(first + Cardinality({j \in fresh : j =< k}))
        lba == [k \in Touched(n) |-> Lba(k)]
        need == first + Cardinality(fresh)
        new == {lba[k] : k \in fresh} \cup IF table THEN {NthFree(1)} ELSE {}
    IN  /\ fault = "no"
        /\ pos + n =< MaxSize
        /\ IF ~(Touched(n) \subseteq Index) \/ need > Blocks - Cardinality(bits)
           THEN /\ fault' = IF Touched(n) \subseteq Index THEN "full" ELSE "beyond"
                /\ UNCHANGED <<pos, size, sect, tab, content, bits, got>>
           ELSE /\ sect' = [k \in 0 .. Direct |->
                               IF k = Direct THEN IF table THEN NthFree(1) ELSE sect[k]
                               ELSE IF k \in fresh THEN lba[k] ELSE sect[k]]
                /\ tab' = [k \in 0 .. Indirect - 1 |->
                              IF k + Direct \in fresh THEN lba[k + Direct] ELSE tab[k]]
                /\ content' = Contents(lba, fresh, n, v)
                /\ bits' = bits \cup {b - 1 : b \in new}
                /\ pos' = pos + n
                /\ size' = IF pos + n > size THEN pos + n ELSE size
                /\ got' = Nothing
                /\ UNCHANGED fault

\* The byte that a process finds at position x if it reads its block
ByteAt(x) == LET b == all_blocks[x \div BlockSize]
             IN  IF b = 0 THEN Hole ELSE content[b][x % BlockSize]

\* mutant: the length is not cut at the end of the file
ReadLength_uncut(n) == n

\* A read beyond the end fails, one across the end is cut.
ReadLength(n) == IF pos + n > size THEN size - pos ELSE n

\* file_read reads the table when end_sec > 12 only: the entry of block 12 is
\* what the memory held when that is the last one.
file_read(n) ==
    LET m == ReadLength(n)
        last == (pos + m) \div BlockSize
        Seen(x) == IF last = Direct /\ x \div BlockSize = Direct THEN Hole ELSE ByteAt(x)
    IN  /\ fault = "no" /\ pos =< size
        /\ got' = [x \in pos .. pos + m - 1 |-> Seen(x)]
        /\ pos' = pos + m
        /\ UNCHANGED <<size, sect, tab, content, bits, fault>>

Stopped == fault # "no" /\ UNCHANGED vars

Next == \/ \E x \in Positions : sys_lseek(x)
        \/ sys_lseek_end
        \/ \E n \in Counts, v \in Byte : file_write(n, v)
        \/ \E n \in Counts : file_read(n)
        \/ Stopped

Spec == Init /\ [][Next]_vars

-----------------------------------------------------------------------------
\* The file is a row of bytes: through direct and indirect blocks, holes and
\* overwriting a write changes the bytes it writes and no other.
File == INSTANCE ByteFile WITH data <- [x \in 0 .. MaxSize - 1 |-> ByteAt(x)]
IsByteFile == File!Spec

\* The blocks of the file and the indirect block are different blocks, and
\* their bits are the ones that are set.
BlocksOwned ==
    LET used == {<<k, all_blocks[k]>> : k \in Index} \cup {<<-1, sect[Direct]>>}
        held == {x \in used : x[2] # 0}
    IN  /\ \A x, y \in held : x[2] = y[2] => x = y
        /\ bits = {0} \cup {x[2] - 1 : x \in held}

\* A read returns the bytes that were written, unless its last block is the
\* first of the indirect ones.
ReadIsExact == (pos \div BlockSize # Direct) =>
                   \A x \in DOMAIN got : x < size /\ got[x] = ByteAt(x)
=============================================================================
