---------------------------- MODULE FsTreeProofs ----------------------------
(***************************************************************************)
(* The tree of directories as one process works on it: a view of the tree, *)
(* the phases of a call, and what each change of a call does to the view,  *)
(* for any disk, bitmaps and inodes in memory.  No lemma here speaks of a  *)
(* step; FsDiskProofs says which step makes which change.                  *)
(***************************************************************************)
EXTENDS FsDisk, FiniteSetTheorems, TLAPS

\* inode numbers and blocks as they are named: an inode, a table of block
\* numbers, and the place of a block in a file, -1 for that of the table
Node == [size : Int, sect : [0 .. Direct -> 0 .. Blocks]]
Table == [1 .. Indirect -> 0 .. Blocks]
Place == Ino \X (-1 .. Direct + Indirect - 1)

\* Owner o gives every block the place it was first taken for, for good.  Block
\* b, if it is one, is marked in m, and named at its place: k of inode i.
Belongs(o, m, b, i, k) == b # 0 => b - 1 \in m /\ o[b] = <<i, k>>
NodeBelongs(o, m, i, nd) ==
    \A k \in 0 .. Direct : Belongs(o, m, nd.sect[k], i, IF k < Direct THEN k ELSE -1)
TableBelongs(o, m, i, t) == \A k \in 1 .. Indirect : Belongs(o, m, t[k], i, Direct + k - 1)

-----------------------------------------------------------------------------
\* The constants, and the setups
LEMMA DiskConstants ==
  /\ Inodes \in Nat \ {0} /\ Blocks \in Nat \ {0} /\ Slots \in Nat \ {0, 1}
  /\ Direct \in Nat \ {0} /\ Indirect \in Nat
  /\ \A s \in Setups : /\ s.inodes \in 1 .. Inodes /\ s.blocks \in 1 .. Blocks
                       /\ s.users \subseteq Proc
BY FsDiskAssumption

\* An inode and a table that name nothing
LEMMA NothingBelongs ==
  ASSUME NEW o, NEW m
  PROVE  /\ inode_init \in Node /\ \A i : NodeBelongs(o, m, i, inode_init)
         /\ ZeroTable \in Table /\ \A i : TableBelongs(o, m, i, ZeroTable)
BY DiskConstants DEF inode_init, Node, NodeBelongs, Belongs, ZeroTable, Table, TableBelongs

-----------------------------------------------------------------------------
(***************************************************************************)
(* One process that makes calls: the tree it works on, and what is left of *)
(* its call.                                                               *)
(***************************************************************************)

\* Directory entries and sectors of them.  An inode names its blocks at the
\* places 0 .. Last - 1, and its table of indirect blocks at place -1.
Last == Direct + Indirect
Entry == [name : Name \cup {".", "..", None}, ino : Ino, type : {"unknown", "dir", "file"}]
Sector == [Slot -> Entry]
Where == -1 .. Last - 1
Blank == [k \in Where |-> 0]
Empty == [k \in Index |-> ZeroSector]

\* A view v is the tree as the call sees it: node and tab are the inodes and
\* tables, with those in memory before those on the disk; live are the inodes
\* in use, dirs the directories of them; at and ent the block and the entries at
\* every place of every inode; hand are blocks that are taken or about to be
\* given back and named nowhere; pend is the inode without a name, or 0; late
\* the directory whose size still counts an entry that is gone, or -1.
Types(v) ==
    /\ v.node \in [Ino -> Node] /\ v.tab \in [Block -> Table]
    /\ v.live \in SUBSET Ino /\ v.dirs \in SUBSET Ino /\ v.dirs \subseteq v.live /\ 0 \in v.dirs
    /\ v.at \in [Ino -> [Where -> 0 .. Blocks]]
    /\ v.ent \in [Ino -> [Index -> Sector]]
    /\ v.hand \in SUBSET Block /\ v.pend \in v.live /\ v.late \in Ino \cup {-1}

\* A block is at one place or in hand, and the bitmap m knows just these.
Owned(at, hand, m) ==
    /\ \A i, j \in Ino, k, l \in Where : at[i][k] # 0 /\ at[i][k] = at[j][l] => i = j /\ k = l
    /\ \A i \in Ino, k \in Where : at[i][k] # 0 => at[i][k] - 1 \in m /\ at[i][k] \notin hand
    /\ m \in SUBSET Nat
    /\ \A n \in m : n + 1 \in hand \/ \E i \in Ino, k \in Where : at[i][k] = n + 1
    /\ \A b \in hand : b - 1 \in m

\* Block c comes to place k of inode i, or, if it is 0, the block there goes.
Placed(at, new, i, k, c) ==
    \A j \in Ino, l \in Where : new[j][l] = IF j = i /\ l = k THEN c ELSE at[j][l]
Emptied(at, new, i) == \A j \in Ino, l \in Where : new[j][l] = IF j = i THEN 0 ELSE at[j][l]

\* f are the blocks that inode nd names, with tables t.
Names(f, nd, t) ==
    /\ f[-1] = nd.sect[Direct] /\ \A k \in 0 .. Direct - 1 : f[k] = nd.sect[k]
    /\ \A k \in Direct .. Last - 1 :
          f[k] = IF nd.sect[Direct] = 0 THEN 0 ELSE t[nd.sect[Direct]][k - Direct + 1]
Laid(at, node, tab, live) ==
    \A i \in Ino : IF i \in live THEN Names(at[i], node[i], tab) ELSE at[i] = Blank

\* The entries of directories are those of their blocks, e.
Shown(at, ent, dirs, e) ==
    /\ \A i \in Ino \ dirs : ent[i] = Empty
    /\ \A i \in dirs, k \in Index : ent[i][k] = IF at[i][k] = 0 THEN ZeroSector ELSE e[at[i][k]]

\* Beside "." and ".." an entry is a name.
DotPlaces == {<<0, 1>>, <<0, 2>>}
IsName(ent, i, k, s) == <<k, s>> \notin DotPlaces /\ ent[i][k][s] # Free

Parent(ent, i) == ent[i][0][2].ino
Dotted(ent, dirs) ==
    /\ \A i \in dirs : /\ ent[i][0][1] = [name |-> ".", ino |-> i, type |-> "dir"]
                       /\ ent[i][0][2].name = ".." /\ ent[i][0][2].type = "dir"
    /\ ent[0][0][2].ino = 0

\* A name is that of an inode in use, of a directory if and only if it says so;
\* that directory's ".." leads back.
NamesLive(ent, dirs, live, pend) ==
    \A i \in Ino, k \in Index, s \in Slot : IsName(ent, i, k, s) =>
       /\ ent[i][k][s].name \in Name /\ ent[i][k][s].ino \in live \ {0, pend}
       /\ \/ /\ ent[i][k][s].type = "dir" /\ ent[i][k][s].ino \in dirs
             /\ ent[ent[i][k][s].ino][0][2].ino = i
          \/ ent[i][k][s].type = "file" /\ ent[i][k][s].ino \notin dirs
NamedOnce(ent) ==
    \A i, j \in Ino, k, l \in Index, s, t \in Slot :
       IsName(ent, i, k, s) /\ IsName(ent, j, l, t) /\ ent[i][k][s].ino = ent[j][l][t].ino
          => i = j /\ k = l /\ s = t
HasName(ent, n) == \E i \in Ino, k \in Index, s \in Slot : IsName(ent, i, k, s) /\ ent[i][k][s].ino = n
Closed(ent, S) ==
    /\ 0 \in S
    /\ \A i \in S, k \in Index, s \in Slot :
          IsName(ent, i, k, s) /\ ent[i][k][s].type = "dir" => ent[i][k][s].ino \in S
Reached(ent, dirs, pend) == \A S \in SUBSET Ino : Closed(ent, S) => dirs \ {pend} \subseteq S

Tree(ent, dirs, live, pend) ==
    /\ Dotted(ent, dirs) /\ NamesLive(ent, dirs, live, pend) /\ NamedOnce(ent)
    /\ \A n \in live \ {0, pend} : HasName(ent, n)
    /\ Reached(ent, dirs, pend)

\* The size of a directory counts its entries; an empty file has no block.
Filled(g) == {y \in Index \X Slot : g[y[1]][y[2]] # Free}
Sizes(node, ent, dirs, late) ==
    \A i \in dirs : node[i].size = Cardinality(Filled(ent[i])) + (IF i = late THEN 1 ELSE 0)
EmptyFiles(node, at, dirs, live) == \A i \in live \ dirs : node[i].size = 0 => at[i] = Blank

\* What one change to inode d leaves alone: functions on inodes and sets of them
OnlyAt(f, g, d) == \A i \in Ino \ {d} : g[i] = f[i]
OnlyIn(S, T, d) == \A i \in Ino \ {d} : i \in T <=> i \in S
\* the tables and sectors of others,
KeptTables(node, live, d, tab, tab2) ==
    \A i \in live \ {d} : node[i].sect[Direct] # 0 =>
        tab2[node[i].sect[Direct]] = tab[node[i].sect[Direct]]
KeptSectors(at, dirs, d, e, e2) ==
    \A i \in dirs \ {d}, k \in Index : at[i][k] # 0 => e2[at[i][k]] = e[at[i][k]]
\* and the entries but one
EntryPut(ent, ent2, d, k, s, e) ==
    \A i \in Ino, l \in Index, t \in Slot :
        ent2[i][l][t] = IF i = d /\ l = k /\ t = s THEN e ELSE ent[i][l][t]
\* e is the entry of inode n for directory d.
IsEntry(ent, dirs, d, n, e) ==
    /\ e # Free /\ e.name \in Name /\ e.ino = n
    /\ \/ e.type = "dir" /\ n \in dirs /\ Parent(ent, n) = d
       \/ e.type = "file" /\ n \notin dirs
NoNames(ent, n) == \A l \in Index, t \in Slot : ~IsName(ent, n, l, t)

\* View v agrees with the bitmap m and the sectors e.
Agrees(v, m, e) ==
    /\ Types(v) /\ Owned(v.at, v.hand, m) /\ Laid(v.at, v.node, v.tab, v.live)
    /\ Shown(v.at, v.ent, v.dirs, e) /\ Tree(v.ent, v.dirs, v.live, v.pend)
    /\ Sizes(v.node, v.ent, v.dirs, v.late) /\ EmptyFiles(v.node, v.at, v.dirs, v.live)

-----------------------------------------------------------------------------
LEMMA Ranges ==
  /\ Last \in Nat \ {0} /\ Index = 0 .. Last - 1 /\ 0 \in Index /\ -1 \in Where /\ 0 \in Where
  /\ \A k \in Index : k \in Where /\ k \in Nat /\ k # -1
  /\ \A k \in Where : k = -1 \/ k \in Index
  /\ 0 \in Ino /\ -1 \notin Ino /\ Slot \subseteq Nat /\ 1 \in Slot /\ 2 \in Slot
  /\ Index \subseteq Nat /\ \A b \in 0 .. Blocks : b # 0 => b \in Block
  /\ \A b \in Block : b \in 0 .. Blocks /\ b # 0 /\ b \in Nat /\ b - 1 \in Nat
  /\ Direct \in 0 .. Direct /\ 0 \in 0 .. Direct
BY DiskConstants DEF Last, Index, Where, Ino, Slot, Block

\* Free entries and sectors
LEMMA Zeros ==
  /\ Free \in Entry /\ ZeroSector \in Sector /\ \A s \in Slot : ZeroSector[s] = Free
  /\ Blank \in [Where -> 0 .. Blocks] /\ \A k \in Where : Blank[k] = 0
  /\ Empty \in [Index -> Sector] /\ \A k \in Index : Empty[k] = ZeroSector
<1>1. Free \in Entry
  <2>1. 0 \in Ino
    BY Ranges
  <2> QED BY <2>1 DEF Free, Entry
<1>2. ZeroSector \in Sector /\ \A s \in Slot : ZeroSector[s] = Free
  BY <1>1 DEF ZeroSector, Sector
<1> QED BY <1>1, <1>2, DiskConstants DEF Blank, Empty

\* An entry in hand to be put where it was taken from: the blocks
LEMMA OwnedTakes ==
  ASSUME NEW at \in [Ino -> [Where -> 0 .. Blocks]], NEW m, Owned(at, {}, m),
         NEW c \in Block, c - 1 \notin m
  PROVE  Owned(at, {c}, m \cup {c - 1})
<1>1. c - 1 \in Nat /\ c \in Nat
  BY Ranges
<1>2. \A i \in Ino, k \in Where : at[i][k] # 0 => at[i][k] - 1 \in m /\ at[i][k] # c
  BY DEF Owned
<1>3. m \cup {c - 1} \in SUBSET Nat
  BY <1>1 DEF Owned
<1>4. ASSUME NEW n \in m \cup {c - 1}
      PROVE  n + 1 \in {c} \/ \E i \in Ino, k \in Where : at[i][k] = n + 1
  BY <1>1 DEF Owned
<1> QED BY <1>2, <1>3, <1>4 DEF Owned

LEMMA OwnedEnters ==
  ASSUME NEW at \in [Ino -> [Where -> 0 .. Blocks]], NEW m, NEW c \in Block, Owned(at, {c}, m),
         NEW i \in Ino, NEW k \in Where, at[i][k] = 0,
         NEW new \in [Ino -> [Where -> 0 .. Blocks]], Placed(at, new, i, k, c)
  PROVE  Owned(new, {}, m)
<1>0. \A j \in Ino, l \in Where : new[j][l] = IF j = i /\ l = k THEN c ELSE at[j][l]
  BY DEF Placed
<1>1. c - 1 \in m /\ c # 0 /\ m \in SUBSET Nat
  BY Ranges DEF Owned
<1>2. \A j \in Ino, l \in Where : at[j][l] # c
  BY <1>1 DEF Owned
<1>3. ASSUME NEW j \in Ino, NEW a \in Ino, NEW l \in Where, NEW b \in Where,
             new[j][l] # 0, new[j][l] = new[a][b]
      PROVE  j = a /\ l = b
  BY <1>0, <1>2, <1>3 DEF Owned
<1>4. \A j \in Ino, l \in Where : new[j][l] # 0 => new[j][l] - 1 \in m
  BY <1>0, <1>1 DEF Owned
<1>5. ASSUME NEW n \in m PROVE \E j \in Ino, l \in Where : new[j][l] = n + 1
  <2>1. CASE n + 1 = c
    BY <1>0, <2>1
  <2>2. CASE n + 1 # c
    <3>1. PICK j \in Ino, l \in Where : at[j][l] = n + 1
      BY <2>2 DEF Owned
    <3>2. n + 1 # 0
      BY <1>1
    <3>3. new[j][l] = n + 1
      BY <1>0, <3>1, <3>2
    <3> QED BY <3>3
  <2> QED BY <2>1, <2>2
<1> QED BY <1>1, <1>3, <1>4, <1>5 DEF Owned

LEMMA OwnedLeaves ==
  ASSUME NEW at \in [Ino -> [Where -> 0 .. Blocks]], NEW m, Owned(at, {}, m),
         NEW i \in Ino, NEW k \in Where, at[i][k] # 0,
         NEW new \in [Ino -> [Where -> 0 .. Blocks]], Placed(at, new, i, k, 0)
  PROVE  Owned(new, {at[i][k]}, m)
<1>0. \A j \in Ino, l \in Where : new[j][l] = IF j = i /\ l = k THEN 0 ELSE at[j][l]
  BY DEF Placed
<1>1. at[i][k] - 1 \in m /\ m \in SUBSET Nat
  BY DEF Owned
<1>2. \A j \in Ino, l \in Where : new[j][l] # 0 => new[j][l] = at[j][l] /\ new[j][l] # at[i][k]
  BY <1>0 DEF Owned
<1>3. ASSUME NEW n \in m, n + 1 # at[i][k] PROVE \E j \in Ino, l \in Where : new[j][l] = n + 1
  <2>1. PICK j \in Ino, l \in Where : at[j][l] = n + 1
    BY DEF Owned
  <2>2. new[j][l] = n + 1
    BY <1>0, <1>3, <2>1
  <2> QED BY <2>2
<1>4. \A j, a \in Ino, l, b \in Where : new[j][l] # 0 /\ new[j][l] = new[a][b] => j = a /\ l = b
  BY <1>2 DEF Owned
<1> QED BY <1>1, <1>2, <1>3, <1>4 DEF Owned

LEMMA OwnedFrees ==
  ASSUME NEW at \in [Ino -> [Where -> 0 .. Blocks]], NEW hand \in SUBSET Block, NEW m,
         Owned(at, hand, m), NEW c \in hand
  PROVE  Owned(at, hand \ {c}, m \ {c - 1})
<1>1. m \in SUBSET Nat /\ \A b \in Block : b \in Nat
  BY Ranges DEF Owned
<1>2. \A i \in Ino, k \in Where : at[i][k] # 0 => at[i][k] - 1 \in m \ {c - 1} /\ at[i][k] \notin hand
  <2>1. \A i \in Ino, k \in Where : at[i][k] \in Nat
    BY DiskConstants
  <2> QED BY <1>1, <2>1 DEF Owned
<1>3. \A n \in m \ {c - 1} : n + 1 \in hand \ {c} \/ \E i \in Ino, k \in Where : at[i][k] = n + 1
  BY <1>1 DEF Owned
<1>4. ASSUME NEW b \in hand, b # c PROVE b - 1 \in m \ {c - 1}
  <2>1. b \in Nat /\ c \in Nat /\ b - 1 \in m
    BY <1>1 DEF Owned
  <2> QED BY <1>4, <2>1
<1> QED BY <1>1, <1>2, <1>3, <1>4 DEF Owned

LEMMA OwnedReleases ==
  ASSUME NEW at \in [Ino -> [Where -> 0 .. Blocks]], NEW m, Owned(at, {}, m), NEW i \in Ino,
         NEW new \in [Ino -> [Where -> 0 .. Blocks]], Emptied(at, new, i)
  PROVE  Owned(new, {at[i][k] : k \in Where} \ {0}, m)
<1> DEFINE hand == {at[i][k] : k \in Where} \ {0}
<1>1. \A j \in Ino, l \in Where : new[j][l] # 0 => j # i /\ new[j][l] = at[j][l]
  BY DEF Emptied
<1>2. \A j \in Ino, l \in Where : new[j][l] # 0 => new[j][l] - 1 \in m /\ new[j][l] \notin hand
  BY <1>1 DEF Owned
<1>3. ASSUME NEW n \in m PROVE n + 1 \in hand \/ \E j \in Ino, l \in Where : new[j][l] = n + 1
  <2>1. PICK j \in Ino, l \in Where : at[j][l] = n + 1
    BY DEF Owned
  <2>2. n + 1 # 0
    BY DEF Owned
  <2>3. CASE j = i
    BY <2>1, <2>2, <2>3
  <2>4. CASE j # i
    BY <2>1, <2>4 DEF Emptied
  <2> QED BY <2>3, <2>4
<1>4. \A b \in hand : b - 1 \in m
  BY DEF Owned
<1>5. \A j, a \in Ino, l, b \in Where : new[j][l] # 0 /\ new[j][l] = new[a][b] => j = a /\ l = b
  BY <1>1 DEF Owned
<1>6. m \in SUBSET Nat
  BY DEF Owned
<1> HIDE DEF hand
<1>7. Owned(new, hand, m)
  BY <1>2, <1>3, <1>4, <1>5, <1>6 DEF Owned
<1> QED BY <1>7 DEF hand

\* The blocks, when one inode changes and the tables of the others do not
LEMMA LaidChanges ==
  ASSUME NEW at, NEW node, NEW tab, NEW live, Laid(at, node, tab, live), NEW d \in Ino,
         NEW at2, NEW node2, NEW tab2, NEW live2,
         OnlyAt(at, at2, d), OnlyAt(node, node2, d), OnlyIn(live, live2, d),
         KeptTables(node, live, d, tab, tab2),
         IF d \in live2 THEN Names(at2[d], node2[d], tab2) ELSE at2[d] = Blank
  PROVE  Laid(at2, node2, tab2, live2)
<1>1. ASSUME NEW i \in Ino \ {d}, i \in live PROVE Names(at2[i], node2[i], tab2)
  <2>1. Names(at[i], node[i], tab)
    BY <1>1 DEF Laid
  <2> QED BY <1>1, <2>1 DEF Names, OnlyAt, KeptTables
<1>2. ASSUME NEW i \in Ino \ {d}, i \notin live PROVE at2[i] = Blank
  BY <1>2 DEF Laid, OnlyAt
<1>3. ASSUME NEW i \in Ino PROVE IF i \in live2 THEN Names(at2[i], node2[i], tab2) ELSE at2[i] = Blank
  <2>1. CASE i = d
    BY <2>1
  <2>2. CASE i # d
    BY <1>1, <1>2, <2>2 DEF OnlyIn
  <2> QED BY <2>1, <2>2
<1> QED BY <1>3 DEF Laid

\* No two inodes have the same table.
LEMMA TablesApart ==
  ASSUME NEW v, Types(v), NEW m, Owned(v.at, v.hand, m), Laid(v.at, v.node, v.tab, v.live),
         NEW i \in v.live, v.node[i].sect[Direct] # 0
  PROVE  /\ v.node[i].sect[Direct] \in Block /\ v.node[i].sect[Direct] \notin v.hand
         /\ \A d \in v.live : d # i => v.node[d].sect[Direct] # v.node[i].sect[Direct]
<1>1. \A j \in v.live : j \in Ino /\ v.at[j][-1] = v.node[j].sect[Direct]
  BY DEF Types, Laid, Names
<1>2. \A j \in v.live : v.at[j][-1] \in 0 .. Blocks
  BY <1>1, Ranges DEF Types
<1> QED BY <1>1, <1>2, Ranges DEF Owned

\* The entries, when those of one inode change
ShownIn(at, ent, dirs, e, d) ==
    IF d \in dirs THEN \A k \in Index : ent[d][k] = IF at[d][k] = 0 THEN ZeroSector ELSE e[at[d][k]]
    ELSE ent[d] = Empty
LEMMA ShownChanges ==
  ASSUME NEW at, NEW ent, NEW dirs, NEW e, Shown(at, ent, dirs, e), NEW d \in Ino,
         NEW at2, NEW ent2, NEW dirs2, NEW e2, dirs \in SUBSET Ino, dirs2 \in SUBSET Ino,
         OnlyAt(at, at2, d), OnlyAt(ent, ent2, d), OnlyIn(dirs, dirs2, d),
         KeptSectors(at, dirs, d, e, e2), ShownIn(at2, ent2, dirs2, e2, d)
  PROVE  Shown(at2, ent2, dirs2, e2)
<1>1. ASSUME NEW i \in Ino \ dirs2 PROVE ent2[i] = Empty
  BY <1>1 DEF Shown, OnlyAt, OnlyIn, ShownIn
<1>2. ASSUME NEW i \in dirs2, NEW k \in Index
      PROVE  ent2[i][k] = IF at2[i][k] = 0 THEN ZeroSector ELSE e2[at2[i][k]]
  <2>1. CASE i = d
    BY <1>2, <2>1 DEF ShownIn
  <2>2. CASE i # d
    <3>1. i \in dirs \ {d} /\ i \in Ino
      BY <1>2, <2>2 DEF OnlyIn
    <3>2. ent[i][k] = IF at[i][k] = 0 THEN ZeroSector ELSE e[at[i][k]]
      BY <3>1 DEF Shown
    <3> QED BY <3>1, <3>2 DEF OnlyAt, KeptSectors
  <2> QED BY <2>1, <2>2
<1> QED BY <1>1, <1>2 DEF Shown

-----------------------------------------------------------------------------
\* The tree: an inode is taken, and taken back,
LEMMA TreeTakes ==
  ASSUME NEW ent, NEW dirs, NEW live, Tree(ent, dirs, live, 0), 0 \in dirs, dirs \subseteq live,
         NEW n, n \notin live
  PROVE  Tree(ent, dirs, live \cup {n}, n)
<1>1. n # 0 /\ n \notin dirs
  OBVIOUS
<1>2. NamesLive(ent, dirs, live \cup {n}, n)
  BY DEF Tree, NamesLive
<1>3. \A j \in (live \cup {n}) \ {0, n} : HasName(ent, j)
  BY DEF Tree
<1>4. Reached(ent, dirs, n)
  <2>1. ASSUME NEW S \in SUBSET Ino, Closed(ent, S) PROVE dirs \ {n} \subseteq S
    <3>1. dirs \ {0} \subseteq S /\ 0 \in S
      BY <2>1 DEF Tree, Reached, Closed
    <3> QED BY <3>1
  <2> QED BY <2>1 DEF Reached
<1> QED BY <1>2, <1>3, <1>4 DEF Tree

LEMMA TreeTakesBack ==
  ASSUME NEW ent, NEW dirs, NEW live, NEW n, Tree(ent, dirs, live, n), n \notin dirs
  PROVE  Tree(ent, dirs, live \ {n}, 0)
<1>1. NamesLive(ent, dirs, live \ {n}, 0)
  BY DEF Tree, NamesLive
<1>2. \A j \in (live \ {n}) \ {0, 0} : HasName(ent, j)
  BY DEF Tree
<1>3. Reached(ent, dirs, 0)
  BY DEF Tree, Reached
<1> QED BY <1>1, <1>2, <1>3 DEF Tree

\* it becomes a directory,
JustDots(g, n, up) == g[0] = Dots(n, up) /\ \A k \in Index \ {0} : g[k] = ZeroSector
LEMMA TreeDots ==
  ASSUME NEW ent, NEW dirs \in SUBSET Ino, NEW live, NEW n \in Ino, NEW up,
         Tree(ent, dirs, live, n), n # 0, n \notin dirs, ent[n] = Empty, NEW ent2,
         OnlyAt(ent, ent2, n), JustDots(ent2[n], n, up)
  PROVE  Tree(ent2, dirs \cup {n}, live, n)
<1>0. /\ \A i \in Ino \ {n} : ent2[i] = ent[i]
      /\ ent2[n][0] = Dots(n, up) /\ \A k \in Index \ {0} : ent2[n][k] = ZeroSector
  BY DEF OnlyAt, JustDots
<1> USE <1>0
<1>1. /\ ent2[n][0][1] = [name |-> ".", ino |-> n, type |-> "dir"]
      /\ ent2[n][0][2] = [name |-> "..", ino |-> up, type |-> "dir"]
      /\ \A s \in Slot \ {1, 2} : ent2[n][0][s] = Free
  BY Ranges DEF Dots
<1>2. ASSUME NEW i \in Ino, NEW k \in Index, NEW s \in Slot
      PROVE  IsName(ent2, i, k, s) <=> IsName(ent, i, k, s)
  <2>1. CASE i # n
    BY <2>1 DEF IsName
  <2>2. CASE i = n
    <3>1. ~IsName(ent, i, k, s)
      BY <2>2, Zeros DEF IsName
    <3>2. <<k, s>> \notin DotPlaces => ent2[i][k][s] = Free
      <4>1. CASE k = 0
        BY <1>1, <2>2, <4>1 DEF DotPlaces
      <4>2. CASE k # 0
        BY <2>2, <4>2, Zeros
      <4> QED BY <4>1, <4>2
    <3> QED BY <3>1, <3>2 DEF IsName
  <2> QED BY <2>1, <2>2
<1>3. \A i \in Ino, k \in Index, s \in Slot : IsName(ent2, i, k, s) => i # n /\ ent2[i] = ent[i]
  <2>1. \A k \in Index, s \in Slot : ~IsName(ent, n, k, s)
    BY Zeros DEF IsName
  <2> QED BY <1>2, <2>1
<1>4. Dotted(ent2, dirs \cup {n})
  BY <1>1, Ranges DEF Dotted, Tree
<1>5. NamesLive(ent2, dirs \cup {n}, live, n)
  <2>1. ASSUME NEW i \in Ino, NEW k \in Index, NEW s \in Slot, IsName(ent2, i, k, s)
        PROVE  LET e == ent2[i][k][s] IN
               /\ e.name \in Name /\ e.ino \in live \ {0, n}
               /\ \/ e.type = "dir" /\ e.ino \in dirs \cup {n} /\ ent2[e.ino][0][2].ino = i
                  \/ e.type = "file" /\ e.ino \notin dirs \cup {n}
    <3>1. IsName(ent, i, k, s) /\ ent2[i][k][s] = ent[i][k][s]
      BY <1>2, <1>3, <2>1
    <3>2. PICK e : e = ent[i][k][s]
      OBVIOUS
    <3>3. /\ e.name \in Name /\ e.ino \in live \ {0, n}
          /\ \/ e.type = "dir" /\ e.ino \in dirs /\ ent[e.ino][0][2].ino = i
             \/ e.type = "file" /\ e.ino \notin dirs
      BY <3>1, <3>2 DEF Tree, NamesLive
    <3>4. e.ino \in dirs => ent2[e.ino] = ent[e.ino]
      BY <3>3
    <3> QED BY <3>1, <3>2, <3>3, <3>4
  <2> QED BY <2>1 DEF NamesLive
<1>6. NamedOnce(ent2)
  <2>1. ASSUME NEW i \in Ino, NEW j \in Ino, NEW k \in Index, NEW l \in Index,
               NEW s \in Slot, NEW t \in Slot, IsName(ent2, i, k, s), IsName(ent2, j, l, t),
               ent2[i][k][s].ino = ent2[j][l][t].ino
        PROVE  i = j /\ k = l /\ s = t
    <3>1. ent2[i] = ent[i] /\ ent2[j] = ent[j] /\ IsName(ent, i, k, s) /\ IsName(ent, j, l, t)
      BY <1>2, <1>3, <2>1
    <3> QED BY <2>1, <3>1 DEF Tree, NamedOnce
  <2> QED BY <2>1 DEF NamedOnce
<1>7. ASSUME NEW j \in live \ {0, n} PROVE HasName(ent2, j)
  <2>1. PICK i \in Ino, k \in Index, s \in Slot : IsName(ent, i, k, s) /\ ent[i][k][s].ino = j
    BY <1>7 DEF Tree, HasName
  <2>2. IsName(ent2, i, k, s) /\ ent2[i][k][s].ino = j
    BY <1>2, <1>3, <2>1
  <2> QED BY <2>2 DEF HasName
<1>8. Reached(ent2, dirs \cup {n}, n)
  <2>1. ASSUME NEW S \in SUBSET Ino, Closed(ent2, S) PROVE (dirs \cup {n}) \ {n} \subseteq S
    <3>1. Closed(ent, S)
      <4>1. ASSUME NEW i \in S, NEW k \in Index, NEW s \in Slot, IsName(ent, i, k, s),
                   ent[i][k][s].type = "dir"
            PROVE  ent[i][k][s].ino \in S
        <5>1. i \in Ino /\ IsName(ent2, i, k, s) /\ ent2[i] = ent[i]
          BY <1>2, <1>3, <4>1
        <5> QED BY <2>1, <4>1, <5>1 DEF Closed
      <4> QED BY <2>1, <4>1 DEF Closed
    <3> QED BY <3>1 DEF Tree, Reached
  <2> QED BY <2>1 DEF Reached
<1> QED BY <1>1, <1>4, <1>5, <1>6, <1>7, <1>8 DEF Tree

\* it is named,
LEMMA TreeNames ==
  ASSUME NEW ent, NEW dirs \in SUBSET Ino, NEW live \in SUBSET Ino, NEW n \in live \ {0},
         Tree(ent, dirs, live, n), NEW d \in dirs, d # n, NEW k \in Index, NEW s \in Slot,
         ent[d][k][s] = Free, NEW e, IsEntry(ent, dirs, d, n, e),
         0 \in dirs, NEW ent2, EntryPut(ent, ent2, d, k, s, e)
  PROVE  Tree(ent2, dirs, live, 0) /\ <<k, s>> \notin DotPlaces
<1>0. \A i \in Ino, l \in Index, t \in Slot :
         ent2[i][l][t] = IF i = d /\ l = k /\ t = s THEN e ELSE ent[i][l][t]
  BY DEF EntryPut
<1>a. /\ e # Free /\ e.name \in Name /\ e.ino = n
      /\ \/ e.type = "dir" /\ n \in dirs /\ ent[n][0][2].ino = d
         \/ e.type = "file" /\ n \notin dirs
  BY DEF IsEntry, Parent
<1> USE <1>0, <1>a
<1>1. <<k, s>> \notin DotPlaces
  <2>1. ent[d][0][1].type = "dir" /\ ent[d][0][2].type = "dir"
    <3>1. ent[d][0][1] = [name |-> ".", ino |-> d, type |-> "dir"] /\ ent[d][0][2].type = "dir"
      BY DEF Tree, Dotted
    <3> QED BY <3>1
  <2>2. Free.type = "unknown"
    BY DEF Free
  <2> QED BY <2>1, <2>2 DEF DotPlaces
<1>2. ASSUME NEW i \in Ino, NEW l \in Index, NEW t \in Slot
      PROVE  IsName(ent2, i, l, t) <=> IsName(ent, i, l, t) \/ (i = d /\ l = k /\ t = s)
  BY <1>1 DEF IsName
<1>3. \A i \in Ino : ent2[i][0][1] = ent[i][0][1] /\ ent2[i][0][2] = ent[i][0][2]
  BY <1>1, Ranges DEF DotPlaces
<1>4. Dotted(ent2, dirs)
  BY <1>3, Ranges DEF Tree, Dotted
<1>5. \A i \in Ino, l \in Index, t \in Slot : IsName(ent, i, l, t) => ent2[i][l][t] = ent[i][l][t]
  BY DEF IsName
<1>6. ent2[d][k][s] = e
  OBVIOUS
<1>7. NamesLive(ent2, dirs, live, 0)
  <2>1. ASSUME NEW i \in Ino, NEW l \in Index, NEW t \in Slot, IsName(ent, i, l, t)
        PROVE  LET f == ent2[i][l][t] IN
               /\ f.name \in Name /\ f.ino \in live \ {0}
               /\ \/ f.type = "dir" /\ f.ino \in dirs /\ ent2[f.ino][0][2].ino = i
                  \/ f.type = "file" /\ f.ino \notin dirs
    <3>1. PICK f : f = ent[i][l][t]
      OBVIOUS
    <3>2. /\ f.name \in Name /\ f.ino \in live \ {0, n}
          /\ \/ f.type = "dir" /\ f.ino \in dirs /\ ent[f.ino][0][2].ino = i
             \/ f.type = "file" /\ f.ino \notin dirs
      BY <2>1, <3>1 DEF Tree, NamesLive
    <3>3. f.ino \in Ino /\ ent2[i][l][t] = f
      BY <1>5, <2>1, <3>1, <3>2
    <3> QED BY <1>3, <3>2, <3>3
  <2>2. /\ e.name \in Name /\ e.ino \in live \ {0}
        /\ \/ e.type = "dir" /\ e.ino \in dirs /\ ent2[e.ino][0][2].ino = d
           \/ e.type = "file" /\ e.ino \notin dirs
    BY <1>3
  <2> QED BY <1>2, <1>6, <2>1, <2>2 DEF NamesLive
<1>8. \A i \in Ino, l \in Index, t \in Slot : IsName(ent, i, l, t) => ent[i][l][t].ino # n
  BY DEF Tree, NamesLive
<1>9. NamedOnce(ent2)
  <2>1. ASSUME NEW i \in Ino, NEW j \in Ino, NEW a \in Index, NEW b \in Index,
               NEW t \in Slot, NEW u \in Slot, IsName(ent2, i, a, t), IsName(ent2, j, b, u),
               ent2[i][a][t].ino = ent2[j][b][u].ino
        PROVE  i = j /\ a = b /\ t = u
    <3>1. CASE IsName(ent, i, a, t) /\ IsName(ent, j, b, u)
      <4>1. ent2[i][a][t] = ent[i][a][t] /\ ent2[j][b][u] = ent[j][b][u]
        BY <1>5, <3>1
      <4>2. NamedOnce(ent) /\ ent[i][a][t].ino = ent[j][b][u].ino
        BY <2>1, <4>1 DEF Tree
      <4> QED BY <3>1, <4>2 DEF NamedOnce
    <3>2. CASE ~IsName(ent, i, a, t)
      <4>1. ent2[i][a][t].ino = n
        BY <1>2, <1>6, <2>1, <3>2
      <4>2. ~IsName(ent, j, b, u)
        <5>1. IsName(ent, j, b, u) => ent2[j][b][u] = ent[j][b][u] /\ ent[j][b][u].ino # n
          BY <1>5, <1>8
        <5>2. ent2[j][b][u].ino = n
          BY <2>1, <4>1
        <5> QED BY <5>1, <5>2
      <4> QED BY <1>2, <2>1, <3>2, <4>2
    <3>3. CASE ~IsName(ent, j, b, u)
      <4>1. ent2[j][b][u].ino = n
        BY <1>2, <1>6, <2>1, <3>3
      <4>2. ~IsName(ent, i, a, t)
        <5>1. IsName(ent, i, a, t) => ent2[i][a][t] = ent[i][a][t] /\ ent[i][a][t].ino # n
          BY <1>5, <1>8
        <5>2. ent2[i][a][t].ino = n
          BY <2>1, <4>1
        <5> QED BY <5>1, <5>2
      <4> QED BY <1>2, <2>1, <3>3, <4>2
    <3> QED BY <3>1, <3>2, <3>3
  <2> QED BY <2>1 DEF NamedOnce
<1>10. ASSUME NEW j \in live \ {0} PROVE HasName(ent2, j)
  <2>1. CASE j = n
    <3>1. IsName(ent2, d, k, s) /\ ent2[d][k][s].ino = j /\ d \in Ino
      BY <1>2, <1>6, <2>1
    <3> QED BY <3>1 DEF HasName
  <2>2. CASE j # n
    <3>1. PICK i \in Ino, l \in Index, t \in Slot : IsName(ent, i, l, t) /\ ent[i][l][t].ino = j
      BY <1>10, <2>2 DEF Tree, HasName
    <3>2. IsName(ent2, i, l, t) /\ ent2[i][l][t].ino = j
      BY <1>2, <1>5, <3>1
    <3> QED BY <3>2 DEF HasName
  <2> QED BY <2>1, <2>2
<1>11. Reached(ent2, dirs, 0)
  <2>1. ASSUME NEW S \in SUBSET Ino, Closed(ent2, S) PROVE dirs \subseteq S
    <3>1. Closed(ent, S)
      <4>1. ASSUME NEW i \in S, NEW l \in Index, NEW t \in Slot, IsName(ent, i, l, t),
                   ent[i][l][t].type = "dir"
            PROVE  ent[i][l][t].ino \in S
        <5>1. i \in Ino /\ IsName(ent2, i, l, t) /\ ent2[i][l][t] = ent[i][l][t]
          BY <1>2, <1>5, <4>1
        <5> QED BY <2>1, <4>1, <5>1 DEF Closed
      <4> QED BY <2>1, <4>1 DEF Closed
    <3>2. dirs \ {n} \subseteq S
      BY <3>1 DEF Tree, Reached
    <3>3. d \in S
      BY <3>2
    <3>4. n \in dirs => n \in S
      <4>1. IsName(ent2, d, k, s)
        BY <1>2
      <4>2. n \in dirs => e.type = "dir"
        OBVIOUS
      <4> QED BY <1>6, <2>1, <3>3, <4>1, <4>2 DEF Closed
    <3> QED BY <3>2, <3>4
  <2> QED BY <2>1 DEF Reached
<1>12. (live \ {0, 0}) = live \ {0}
  OBVIOUS
<1> QED BY <1>1, <1>4, <1>7, <1>9, <1>10, <1>11, <1>12 DEF Tree

\* its name is removed, when it names nothing itself,
LEMMA TreeUnnames ==
  ASSUME NEW ent, NEW dirs \in SUBSET Ino, NEW live \in SUBSET Ino, NEW n \in live \ {0},
         Tree(ent, dirs, live, 0), NEW d \in Ino, NEW k \in Index, NEW s \in Slot,
         IsName(ent, d, k, s), ent[d][k][s].ino = n, NoNames(ent, n),
         NEW ent2, EntryPut(ent, ent2, d, k, s, Free)
  PROVE  Tree(ent2, dirs, live, n)
<1>0. /\ \A l \in Index, t \in Slot : ~IsName(ent, n, l, t)
      /\ \A i \in Ino, l \in Index, t \in Slot :
            ent2[i][l][t] = IF i = d /\ l = k /\ t = s THEN Free ELSE ent[i][l][t]
  BY DEF EntryPut, NoNames
<1> USE <1>0
<1>1. <<k, s>> \notin DotPlaces
  BY DEF IsName
<1>2. ASSUME NEW i \in Ino, NEW l \in Index, NEW t \in Slot, IsName(ent2, i, l, t)
      PROVE  /\ IsName(ent, i, l, t) /\ ~(i = d /\ l = k /\ t = s)
             /\ ent2[i][l][t] = ent[i][l][t] /\ ent[i][l][t].ino # n
  <2>1. IsName(ent, i, l, t) /\ ~(i = d /\ l = k /\ t = s) /\ ent2[i][l][t] = ent[i][l][t]
    BY <1>2 DEF IsName
  <2>2. ent[i][l][t].ino # n
    BY <2>1 DEF Tree, NamedOnce
  <2> QED BY <2>1, <2>2
<1>3. \A i \in Ino : ent2[i][0][1] = ent[i][0][1] /\ ent2[i][0][2] = ent[i][0][2]
  BY <1>1, Ranges DEF DotPlaces
<1>4. Dotted(ent2, dirs)
  BY <1>3, Ranges DEF Tree, Dotted
<1>5. NamesLive(ent2, dirs, live, n)
  <2>1. ASSUME NEW i \in Ino, NEW l \in Index, NEW t \in Slot, IsName(ent2, i, l, t)
        PROVE  LET f == ent2[i][l][t] IN
               /\ f.name \in Name /\ f.ino \in live \ {0, n}
               /\ \/ f.type = "dir" /\ f.ino \in dirs /\ ent2[f.ino][0][2].ino = i
                  \/ f.type = "file" /\ f.ino \notin dirs
    <3>1. PICK f : f = ent[i][l][t]
      OBVIOUS
    <3>2. /\ f.name \in Name /\ f.ino \in live \ {0}
          /\ \/ f.type = "dir" /\ f.ino \in dirs /\ ent[f.ino][0][2].ino = i
             \/ f.type = "file" /\ f.ino \notin dirs
      BY <1>2, <2>1, <3>1 DEF Tree, NamesLive
    <3>3. f.ino \in Ino /\ f.ino # n /\ ent2[i][l][t] = f
      BY <1>2, <2>1, <3>1, <3>2
    <3> QED BY <1>3, <3>2, <3>3
  <2> QED BY <2>1 DEF NamesLive
<1>6. NamedOnce(ent2)
  <2>1. ASSUME NEW i \in Ino, NEW j \in Ino, NEW a \in Index, NEW b \in Index,
               NEW t \in Slot, NEW u \in Slot, IsName(ent2, i, a, t), IsName(ent2, j, b, u),
               ent2[i][a][t].ino = ent2[j][b][u].ino
        PROVE  i = j /\ a = b /\ t = u
    <3>1. /\ IsName(ent, i, a, t) /\ ent2[i][a][t] = ent[i][a][t]
          /\ IsName(ent, j, b, u) /\ ent2[j][b][u] = ent[j][b][u]
      BY <1>2, <2>1
    <3> QED BY <2>1, <3>1 DEF Tree, NamedOnce
  <2> QED BY <2>1 DEF NamedOnce
<1>7. ASSUME NEW j \in live \ {0, n} PROVE HasName(ent2, j)
  <2>1. PICK i \in Ino, l \in Index, t \in Slot : IsName(ent, i, l, t) /\ ent[i][l][t].ino = j
    BY <1>7 DEF Tree, HasName
  <2>2. ~(i = d /\ l = k /\ t = s)
    BY <2>1
  <2>3. ent2[i][l][t] = ent[i][l][t]
    BY <2>2
  <2>4. IsName(ent2, i, l, t) /\ ent2[i][l][t].ino = j
    BY <2>1, <2>3 DEF IsName
  <2> QED BY <2>4 DEF HasName
<1>8. Reached(ent2, dirs, n)
  <2>1. ASSUME NEW S \in SUBSET Ino, Closed(ent2, S) PROVE dirs \ {n} \subseteq S
    <3>1. PICK T \in SUBSET Ino : T = S \cup {n}
      OBVIOUS
    <3>2. Closed(ent, T)
      <4>1. ASSUME NEW i \in T, NEW l \in Index, NEW t \in Slot, IsName(ent, i, l, t),
                   ent[i][l][t].type = "dir"
            PROVE  ent[i][l][t].ino \in T
        <5>1. i \in S /\ i \in Ino
          BY <3>1, <4>1
        <5>2. CASE i = d /\ l = k /\ t = s
          BY <3>1, <5>2
        <5>3. CASE ~(i = d /\ l = k /\ t = s)
          <6>1. ent2[i][l][t] = ent[i][l][t]
            BY <5>1, <5>3
          <6>2. IsName(ent2, i, l, t)
            BY <4>1, <6>1 DEF IsName
          <6> QED BY <2>1, <3>1, <4>1, <5>1, <6>1, <6>2 DEF Closed
        <5> QED BY <5>2, <5>3
      <4>2. 0 \in T
        BY <2>1, <3>1 DEF Closed
      <4> QED BY <4>1, <4>2 DEF Closed
    <3>3. dirs \ {0} \subseteq T /\ 0 \in T
      BY <3>2 DEF Tree, Reached, Closed
    <3> QED BY <3>1, <3>3
  <2> QED BY <2>1 DEF Reached
<1> QED BY <1>4, <1>5, <1>6, <1>7, <1>8 DEF Tree

\* and it is released.
LEMMA TreeReleases ==
  ASSUME NEW ent, NEW dirs \in SUBSET Ino, NEW live \in SUBSET Ino, NEW n \in live \ {0},
         Tree(ent, dirs, live, n), NoNames(ent, n), 0 \in Ino,
         NEW ent2, OnlyAt(ent, ent2, n), ent2[n] = Empty
  PROVE  Tree(ent2, dirs \ {n}, live \ {n}, 0)
<1>0. /\ \A l \in Index, t \in Slot : ~IsName(ent, n, l, t)
      /\ \A i \in Ino \ {n} : ent2[i] = ent[i]
  BY DEF OnlyAt, NoNames
<1> USE <1>0
<1>1. ASSUME NEW i \in Ino, NEW l \in Index, NEW t \in Slot
      PROVE  /\ IsName(ent2, i, l, t) <=> IsName(ent, i, l, t)
             /\ IsName(ent2, i, l, t) => ent2[i] = ent[i]
  <2>1. i = n => ent2[i][l][t] = Free
    BY Zeros
  <2> QED BY <2>1 DEF IsName
<1>2. Dotted(ent2, dirs \ {n})
  BY DEF Tree, Dotted
<1>3. NamesLive(ent2, dirs \ {n}, live \ {n}, 0)
  <2>1. ASSUME NEW i \in Ino, NEW l \in Index, NEW t \in Slot, IsName(ent2, i, l, t)
        PROVE  LET f == ent2[i][l][t] IN
               /\ f.name \in Name /\ f.ino \in (live \ {n}) \ {0}
               /\ \/ f.type = "dir" /\ f.ino \in dirs \ {n} /\ ent2[f.ino][0][2].ino = i
                  \/ f.type = "file" /\ f.ino \notin dirs \ {n}
    <3>1. PICK f : f = ent[i][l][t]
      OBVIOUS
    <3>2. IsName(ent, i, l, t) /\ ent2[i][l][t] = f
      BY <1>1, <2>1, <3>1
    <3>3. /\ f.name \in Name /\ f.ino \in live \ {0, n}
          /\ \/ f.type = "dir" /\ f.ino \in dirs /\ ent[f.ino][0][2].ino = i
             \/ f.type = "file" /\ f.ino \notin dirs
      BY <3>1, <3>2 DEF Tree, NamesLive
    <3>4. ent2[f.ino] = ent[f.ino]
      BY <3>3
    <3> QED BY <3>2, <3>3, <3>4
  <2> QED BY <2>1 DEF NamesLive
<1>4. NamedOnce(ent2)
  <2>1. ASSUME NEW i \in Ino, NEW j \in Ino, NEW a \in Index, NEW b \in Index,
               NEW t \in Slot, NEW u \in Slot, IsName(ent2, i, a, t), IsName(ent2, j, b, u),
               ent2[i][a][t].ino = ent2[j][b][u].ino
        PROVE  i = j /\ a = b /\ t = u
    <3>1. /\ IsName(ent, i, a, t) /\ ent2[i] = ent[i] /\ IsName(ent, j, b, u) /\ ent2[j] = ent[j]
      BY <1>1, <2>1
    <3> QED BY <2>1, <3>1 DEF Tree, NamedOnce
  <2> QED BY <2>1 DEF NamedOnce
<1>5. ASSUME NEW j \in (live \ {n}) \ {0} PROVE HasName(ent2, j)
  <2>1. PICK i \in Ino, l \in Index, t \in Slot : IsName(ent, i, l, t) /\ ent[i][l][t].ino = j
    BY <1>5 DEF Tree, HasName
  <2>2. IsName(ent2, i, l, t) /\ ent2[i][l][t].ino = j
    BY <1>1, <2>1
  <2> QED BY <2>2 DEF HasName
<1>6. Reached(ent2, dirs \ {n}, 0)
  <2>1. ASSUME NEW S \in SUBSET Ino, Closed(ent2, S) PROVE dirs \ {n} \subseteq S
    <3>1. Closed(ent, S)
      <4>1. ASSUME NEW i \in S, NEW k \in Index, NEW s \in Slot, IsName(ent, i, k, s),
                   ent[i][k][s].type = "dir"
            PROVE  ent[i][k][s].ino \in S
        <5>1. i \in Ino /\ IsName(ent2, i, k, s) /\ ent2[i] = ent[i]
          BY <1>1, <4>1
        <5> QED BY <2>1, <4>1, <5>1 DEF Closed
      <4> QED BY <2>1, <4>1 DEF Closed
    <3> QED BY <3>1 DEF Tree, Reached
  <2> QED BY <2>1 DEF Reached
<1>7. (live \ {n}) \ {0, 0} = (live \ {n}) \ {0}
  OBVIOUS
<1> QED BY <1>2, <1>3, <1>4, <1>5, <1>6, <1>7 DEF Tree

-----------------------------------------------------------------------------
\* The number of entries of a directory
LEMMA FilledFinite ==
  ASSUME NEW g PROVE IsFiniteSet(Filled(g)) /\ Cardinality(Filled(g)) \in Nat
<1>1. IsFiniteSet(Index) /\ IsFiniteSet(Slot)
  BY Ranges, DiskConstants, FS_Interval DEF Slot
<1>2. IsFiniteSet(Index \X Slot)
  BY <1>1, FS_Product
<1>3. Filled(g) \in SUBSET (Index \X Slot)
  BY DEF Filled
<1> QED BY <1>2, <1>3, FS_Subset, FS_CardinalityType

LEMMA FilledMore ==
  ASSUME NEW ent, NEW ent2, NEW d \in Ino, NEW k \in Index, NEW s \in Slot, NEW e,
         EntryPut(ent, ent2, d, k, s, e), ent[d][k][s] = Free, e # Free
  PROVE  Cardinality(Filled(ent2[d])) = Cardinality(Filled(ent[d])) + 1
<1>1. Filled(ent2[d]) = Filled(ent[d]) \cup {<<k, s>>} /\ <<k, s>> \notin Filled(ent[d])
  BY DEF Filled, EntryPut
<1> QED BY <1>1, FilledFinite, FS_AddElement

LEMMA FilledLess ==
  ASSUME NEW ent, NEW ent2, NEW d \in Ino, NEW k \in Index, NEW s \in Slot,
         EntryPut(ent, ent2, d, k, s, Free), ent[d][k][s] # Free
  PROVE  Cardinality(Filled(ent2[d])) = Cardinality(Filled(ent[d])) - 1
<1>1. Filled(ent[d]) = Filled(ent2[d]) \cup {<<k, s>>} /\ <<k, s>> \notin Filled(ent2[d])
  BY DEF Filled, EntryPut
<1>2. IsFiniteSet(Filled(ent2[d])) /\ Cardinality(Filled(ent2[d])) \in Nat
  BY FilledFinite
<1>3. Cardinality(Filled(ent[d])) = Cardinality(Filled(ent2[d])) + 1
  BY <1>1, <1>2, FS_AddElement
<1> QED BY <1>2, <1>3

LEMMA TwoDots == DotPlaces \in SUBSET (Index \X Slot) /\ Cardinality(DotPlaces) = 2
<1>1. PICK S : S = {<<0, 1>>}
  OBVIOUS
<1>2. DotPlaces = S \cup {<<0, 2>>} /\ <<0, 2>> \notin S
  BY <1>1 DEF DotPlaces
<1>3. IsFiniteSet(S) /\ Cardinality(S) = 1
  BY <1>1, FS_Singleton
<1>4. Cardinality(S \cup {<<0, 2>>}) = Cardinality(S) + 1
  BY <1>2, <1>3, FS_AddElement
<1>5. Cardinality(DotPlaces) = 2
  <2> HIDE <1>1
  <2> QED BY <1>2, <1>3, <1>4
<1>6. <<0, 1>> \in Index \X Slot /\ <<0, 2>> \in Index \X Slot
  BY Ranges
<1> QED BY <1>5, <1>6 DEF DotPlaces

LEMMA FilledDots ==
  ASSUME NEW g, NEW n, NEW up, JustDots(g, n, up)
  PROVE  Filled(g) = DotPlaces
<1>0. g[0] = Dots(n, up) /\ \A k \in Index \ {0} : g[k] = ZeroSector
  BY DEF JustDots
<1> USE <1>0
<1>1. g[0][1] # Free /\ g[0][2] # Free /\ \A s \in Slot \ {1, 2} : g[0][s] = Free
  <2>1. Free.type = "unknown"
    BY DEF Free
  <2>2. g[0][1].type = "dir" /\ g[0][2].type = "dir" /\ \A s \in Slot \ {1, 2} : g[0][s] = Free
    BY Ranges DEF Dots
  <2> QED BY <2>1, <2>2
<1>2. Filled(g) = DotPlaces
  <2>1. ASSUME NEW k \in Index, NEW s \in Slot PROVE g[k][s] # Free <=> <<k, s>> \in DotPlaces
    <3>1. CASE k = 0
      BY <1>1, <3>1 DEF DotPlaces
    <3>2. CASE k # 0
      BY <3>2, Zeros DEF DotPlaces
    <3> QED BY <3>1, <3>2
  <2>2. ASSUME NEW y \in Index \X Slot PROVE g[y[1]][y[2]] # Free <=> y \in DotPlaces
    <3>1. y[1] \in Index /\ y[2] \in Slot /\ y = <<y[1], y[2]>>
      OBVIOUS
    <3> QED BY <2>1, <3>1
  <2> QED BY <2>2, TwoDots DEF Filled
<1> QED BY <1>2

\* A directory of two entries has no other than its dots.
LEMMA OnlyDots ==
  ASSUME NEW ent, NEW dirs, Dotted(ent, dirs), NEW i \in dirs, Cardinality(Filled(ent[i])) = 2
  PROVE  NoNames(ent, i)
<1>1. DotPlaces \in SUBSET Filled(ent[i])
  <2>1. ent[i][0][1] = [name |-> ".", ino |-> i, type |-> "dir"] /\ ent[i][0][2].type = "dir"
    BY DEF Dotted
  <2>2. ent[i][0][1].type = "dir" /\ Free.type = "unknown"
    BY <2>1 DEF Free
  <2>3. ent[i][0][1] # Free /\ ent[i][0][2] # Free
    BY <2>1, <2>2
  <2> QED BY <2>3, Ranges DEF Filled, DotPlaces
<1>3. Filled(ent[i]) = DotPlaces
  BY <1>1, TwoDots, FilledFinite, FS_Subset
<1>4. \A k \in Index, s \in Slot : ~IsName(ent, i, k, s)
  BY <1>3 DEF Filled, IsName
<1> QED BY <1>4 DEF NoNames

-----------------------------------------------------------------------------
\* What is left of a call, as a list
Doings == {"load", "store", "ibits", "alloc", "dots", "data", "find", "zero", "tier", "put",
           "delete", "drop", "droptier", "release", "free", "ifree"}
Steps == [do : Doings, on : Nat]
Cons(a, t) == <<a>> \o t
Load(i, t) == Cons(Step("load", i), Cons(Step("store", i), t))
Store(i, t) == Cons(Step("store", i), t)
End(x) == CASE x.op = "create" -> Load(x.dir, Load(x.ino, Cons(Step("ibits", 0), <<>>)))
            [] x.op = "mkdir" -> Load(x.dir, <<>>)
            [] OTHER -> Load(x.dir, Cons(Step("release", 0), <<>>))
Seek(x) == Cons(Step("find", 0), End(x))

\* The inodes of the disk dk are those of the view, but S.
Synced(v, dk, S) == \A j \in Ino \ S : dk.inode[j] = v.node[j]
\* inode_sync(j) is under way, then t comes, when S are behind still.
Syncs(v, x, dk, j, t, S) ==
    \/ x.todo = Load(j, t) /\ Synced(v, dk, S \cup {j})
    \/ /\ x.todo = Store(j, t) /\ Synced(v, dk, S \cup {j})
       /\ x.snap = v.node[j] /\ x.table = dk.inode

\* The phases of a call x, with disk dk and bitmap im of inodes.  No call
Resting(v, x, dk, im) ==
    /\ x = Idle /\ v.pend = 0 /\ v.hand = {} /\ v.late = -1 /\ v.live = im
    /\ v.tab = dk.tab /\ Synced(v, dk, {}) /\ dk.ibits = im

\* A name is made.
New(v, x, dk, im) ==
    /\ x.op \in {"create", "mkdir"} /\ x.dir \in v.dirs /\ x.dir # x.ino /\ x.ino \in v.live \ {0}
    /\ x.ent \in Entry /\ x.ent.name \in Name /\ x.ent.ino = x.ino
    /\ x.ent.type = IF x.op = "mkdir" THEN "dir" ELSE "file"
    /\ v.live = im /\ v.late = -1
    /\ dk.ibits = IF x.op = "mkdir" THEN im ELSE im \ {x.ino}

MakingDir(v, x, dk, im) ==
    /\ New(v, x, dk, im) /\ x.op = "mkdir" /\ v.pend = x.ino /\ x.ino \notin v.dirs
    /\ v.node[x.ino] = inode_init /\ x.idx = 0 /\ x.tier = <<>> /\ v.tab = dk.tab
    /\ Synced(v, dk, {x.ino})
    /\ \/ /\ x.todo = Cons(Step("alloc", 0), Cons(Step("dots", 0), Load(x.ino, Seek(x))))
          /\ v.hand = {}
       \/ x.todo = Cons(Step("dots", 0), Load(x.ino, Seek(x))) /\ v.hand = {x.lba}

\* The new inode is a directory of its parent, or an empty file.
Ready(v, x) ==
    IF x.op = "mkdir" THEN x.ino \in v.dirs /\ Parent(v.ent, x.ino) = x.dir
    ELSE x.ino \notin v.dirs /\ v.node[x.ino] = inode_init

MadeDir(v, x, dk, im) ==
    /\ New(v, x, dk, im) /\ x.op = "mkdir" /\ v.pend = x.ino /\ Ready(v, x)
    /\ x.idx = 0 /\ x.tier = <<>> /\ v.tab = dk.tab /\ v.hand = {}
    /\ Syncs(v, x, dk, x.ino, Seek(x), {})

\* sync_dir_entry: the table of indirect blocks may be in memory only.
Behind(x) == IF x.op = "mkdir" THEN {} ELSE {x.ino}
InHand(v, x, dk) ==
    /\ v.node[x.dir].sect[Direct] # 0 /\ x.tier = v.tab[v.node[x.dir].sect[Direct]]
    /\ \A b \in Block : b # v.node[x.dir].sect[Direct] => v.tab[b] = dk.tab[b]
Searching(v, x, dk, im) ==
    /\ New(v, x, dk, im) /\ v.pend = x.ino /\ Ready(v, x) /\ Synced(v, dk, Behind(x) \cup {x.dir})
    /\ x.idx \in 0 .. Last
    /\ x.tier # <<>> => x.idx >= Direct /\ InHand(v, x, dk)

\* The directory is as it was, or has a block with a place for the entry.
Untouched(v, x, dk) == dk.inode[x.dir] = v.node[x.dir]
Roomy(v, x) == x.idx < Last /\ v.ent[x.dir][x.idx] = ZeroSector

\* The place without a block
Missing(x) == IF x.idx >= Direct /\ x.tier = <<>> THEN -1 ELSE x.idx

Finds(v, x, dk, im) ==
    /\ Searching(v, x, dk, im) /\ x.todo = Seek(x) /\ v.tab = dk.tab /\ v.hand = {}
    /\ Untouched(v, x, dk) \/ Roomy(v, x)
Enters(x) == IF x.idx >= Direct /\ x.tier # <<>> THEN Cons(Step("tier", 0), Seek(x)) ELSE Seek(x)
Adds(v, x, dk, im) ==
    /\ Searching(v, x, dk, im) /\ x.idx < Last /\ v.tab = dk.tab /\ v.at[x.dir][Missing(x)] = 0
    /\ \/ x.todo = Cons(Step("alloc", 0), Cons(Step("zero", 0), Enters(x))) /\ v.hand = {}
       \/ x.todo = Cons(Step("zero", 0), Enters(x)) /\ v.hand = {x.lba}
Tables(v, x, dk, im) ==
    /\ Searching(v, x, dk, im) /\ x.todo = Cons(Step("tier", 0), Seek(x))
    /\ x.tier # <<>> /\ v.hand = {} /\ Roomy(v, x)
Puts(v, x, dk, im) ==
    /\ Searching(v, x, dk, im) /\ x.todo = Cons(Step("put", 0), End(x))
    /\ v.tab = dk.tab /\ v.hand = {}
    /\ x.idx < Last /\ x.lba # 0 /\ x.lba = v.at[x.dir][x.idx]
    /\ x.slot \in Slot /\ x.sec = dk.ents[x.lba] /\ x.sec[x.slot] = Free

Entered(v, x, dk, im) ==
    /\ New(v, x, dk, im) /\ v.pend = 0 /\ v.tab = dk.tab /\ v.hand = {}
    /\ IF x.op = "mkdir" THEN Syncs(v, x, dk, x.dir, <<>>, {})
       ELSE LET rest == Cons(Step("ibits", 0), <<>>)
            IN  \/ Syncs(v, x, dk, x.dir, Load(x.ino, rest), {x.ino})
                \/ Syncs(v, x, dk, x.ino, rest, {})
                \/ x.todo = rest /\ Synced(v, dk, {})

\* An empty file gets its first block.
Appends(v, x, dk, im) ==
    /\ x.op = "append" /\ x.dir = 0 /\ x.ino \in v.live \ v.dirs /\ v.pend = 0 /\ v.late = -1
    /\ v.live = im /\ dk.ibits = im /\ v.tab = dk.tab
    /\ \/ /\ v.at[x.ino] = Blank /\ Synced(v, dk, {})
          /\ \/ /\ x.todo = Cons(Step("alloc", 0), Cons(Step("data", 0), Load(x.ino, <<>>)))
                /\ v.hand = {}
             \/ x.todo = Cons(Step("data", 0), Load(x.ino, <<>>)) /\ v.hand = {x.lba}
       \/ v.hand = {} /\ Syncs(v, x, dk, x.ino, <<>>, {})

\* A name is removed.
Old(v, x, dk, im) ==
    /\ x.op \in {"unlink", "rmdir"} /\ x.dir \in v.dirs /\ x.dir # x.ino /\ x.ino \in v.live \ {0}
    /\ x.ent = Free /\ v.live = im /\ dk.ibits = im
    /\ NoNames(v.ent, x.ino)
    /\ Parent(v.ent, x.dir) # x.ino

Aims(v, x) == IsName(v.ent, x.dir, x.idx, x.slot) /\ v.ent[x.dir][x.idx][x.slot].ino = x.ino
Deletes(v, x, dk, im) ==
    /\ Old(v, x, dk, im) /\ v.pend = 0 /\ v.hand = {} /\ v.tab = dk.tab /\ v.late = -1
    /\ Synced(v, dk, {})
    /\ x.todo = Cons(Step("delete", 0), End(x))
    /\ \E k \in Index, s \in Slot : IsName(v.ent, x.dir, k, s) /\ v.ent[x.dir][k][s].ino = x.ino
Clears(v, x, dk, im) ==
    /\ Old(v, x, dk, im) /\ v.pend = 0 /\ v.hand = {} /\ v.tab = dk.tab /\ v.late = -1
    /\ Synced(v, dk, {})
    /\ x.idx \in Index /\ x.slot \in Slot /\ Aims(v, x)
    /\ x.lba = v.at[x.dir][x.idx] /\ x.lba # 0
    /\ \/ x.todo = Cons(Step("put", 0), End(x)) /\ x.sec = dk.ents[x.lba]
       \/ /\ x.todo = Cons(Step("drop", 0), End(x)) /\ x.idx < Direct
          /\ \A s \in Slot \ {x.slot} : v.ent[x.dir][x.idx][s] = Free
Ending(x) == IF x.tier = ZeroTable THEN Cons(Step("droptier", 0), End(x))
             ELSE Cons(Step("tier", 0), End(x))
DropsIndirect(v, x, dk, im) ==
    /\ Old(v, x, dk, im) /\ v.pend = x.ino /\ v.late = x.dir /\ Synced(v, dk, {})
    /\ x.idx \in Direct .. Last - 1 /\ InHand(v, x, dk)
    /\ \/ x.todo = Cons(Step("drop", 0), Ending(x)) /\ v.hand = {x.lba}
       \/ x.todo = Ending(x) /\ v.hand = {}
Removed(v, x, dk, im) ==
    /\ Old(v, x, dk, im) /\ v.pend = x.ino /\ v.hand = {} /\ v.tab = dk.tab /\ v.late = -1
    /\ LET rest == Cons(Step("release", 0), <<>>)
       IN  Syncs(v, x, dk, x.dir, rest, {}) \/ (x.todo = rest /\ Synced(v, dk, {}))
Freeing(t, hand) ==
    /\ t # <<>> /\ t \in Seq(Steps)
    /\ \A j \in DOMAIN t : t[j].do = IF j = Len(t) THEN "ifree" ELSE "free"
    /\ \A j, l \in 1 .. Len(t) - 1 : t[j].on = t[l].on /\ j # l => t[j].on = 0
    /\ hand = {t[j].on : j \in 1 .. Len(t) - 1} \ {0}
Releases(v, x, dk, im) ==
    /\ x.ino \in im \ {0} /\ v.live = im \ {x.ino} /\ dk.ibits = im
    /\ v.pend = 0 /\ v.late = -1 /\ v.tab = dk.tab /\ Synced(v, dk, {})
    /\ Freeing(x.todo, v.hand)

Phase(v, x, dk, im) ==
    \/ Resting(v, x, dk, im) \/ MakingDir(v, x, dk, im) \/ MadeDir(v, x, dk, im)
    \/ Finds(v, x, dk, im) \/ Adds(v, x, dk, im) \/ Tables(v, x, dk, im) \/ Puts(v, x, dk, im)
    \/ Entered(v, x, dk, im) \/ Appends(v, x, dk, im)
    \/ Deletes(v, x, dk, im) \/ Clears(v, x, dk, im) \/ DropsIndirect(v, x, dk, im)
    \/ Removed(v, x, dk, im) \/ Releases(v, x, dk, im)

\* View v is what the call x sees of the disk dk, the bitmap bm of blocks and
\* the inodes co in memory.
Disk == [ibits : SUBSET Nat, bbits : SUBSET Nat, inode : [Ino -> Node],
         ents : [Block -> Sector], tab : [Block -> Table]]
Seen(x) == {0, x.dir, x.ino}
Sees(v, x, dk, bm, co) ==
    /\ Agrees(v, bm, dk.ents) /\ dk \in Disk /\ dk.bbits = bm /\ co \in [Ino -> Node]
    /\ \A b \in Block, s \in Slot : dk.ents[b][s].type = "unknown" => dk.ents[b][s] = Free
    /\ DOMAIN x = DOMAIN Idle /\ x.dir \in Ino /\ x.ino \in Ino
    /\ \A j \in Ino : v.node[j] = IF j \in Seen(x) THEN co[j] ELSE dk.inode[j]
Sound(v, x, dk, im, bm, co) == Sees(v, x, dk, bm, co) /\ Phase(v, x, dk, im)

-----------------------------------------------------------------------------
\* Lists
LEMMA StepKinds ==
  /\ \A i \in Nat : /\ Step("load", i) \in Steps /\ Step("load", i).do = "load" /\ Step("load", i).on = i
                   /\ Step("store", i) \in Steps /\ Step("store", i).do = "store" /\ Step("store", i).on = i
  /\ Step("ibits", 0) \in Steps /\ Step("ibits", 0).do = "ibits"
  /\ Step("alloc", 0) \in Steps /\ Step("alloc", 0).do = "alloc"
  /\ Step("dots", 0) \in Steps /\ Step("dots", 0).do = "dots"
  /\ Step("data", 0) \in Steps /\ Step("data", 0).do = "data"
  /\ Step("find", 0) \in Steps /\ Step("find", 0).do = "find"
  /\ Step("zero", 0) \in Steps /\ Step("zero", 0).do = "zero"
  /\ Step("tier", 0) \in Steps /\ Step("tier", 0).do = "tier"
  /\ Step("put", 0) \in Steps /\ Step("put", 0).do = "put"
  /\ Step("delete", 0) \in Steps /\ Step("delete", 0).do = "delete"
  /\ Step("drop", 0) \in Steps /\ Step("drop", 0).do = "drop"
  /\ Step("droptier", 0) \in Steps /\ Step("droptier", 0).do = "droptier"
  /\ Step("release", 0) \in Steps /\ Step("release", 0).do = "release"
BY DEF Step, Steps, Doings

LEMMA Conses ==
  /\ \A a \in Steps, t \in Seq(Steps) :
        Cons(a, t) \in Seq(Steps) /\ Cons(a, t) # <<>> /\ Head(Cons(a, t)) = a /\ Tail(Cons(a, t)) = t
  /\ <<>> \in Seq(Steps) /\ 0 \in Nat
<1>1. ASSUME NEW a \in Steps, NEW t \in Seq(Steps)
      PROVE  /\ Cons(a, t) \in Seq(Steps) /\ Cons(a, t) # <<>>
             /\ Head(Cons(a, t)) = a /\ Tail(Cons(a, t)) = t
  BY DEF Cons
<1> QED BY <1>1

LEMMA LoadList ==
  ASSUME NEW i \in Nat, NEW t \in Seq(Steps)
  PROVE  /\ Load(i, t) \in Seq(Steps) /\ Load(i, t) # <<>>
         /\ Head(Load(i, t)) = Step("load", i) /\ Tail(Load(i, t)) = Store(i, t)
         /\ Store(i, t) \in Seq(Steps) /\ Store(i, t) # <<>>
         /\ Head(Store(i, t)) = Step("store", i) /\ Tail(Store(i, t)) = t
<1>1. Step("load", i) \in Steps /\ Step("store", i) \in Steps
  BY StepKinds
<1>2. Store(i, t) \in Seq(Steps) /\ Store(i, t) # <<>>
         /\ Head(Store(i, t)) = Step("store", i) /\ Tail(Store(i, t)) = t
  BY <1>1, Conses DEF Store
<1>3. Load(i, t) = Cons(Step("load", i), Store(i, t))
  BY DEF Load, Store
<1>4. PICK u \in Seq(Steps) : u = Store(i, t)
  BY <1>2
<1>5. Load(i, t) = Cons(Step("load", i), u)
  BY <1>3, <1>4
<1>6.  /\ Load(i, t) \in Seq(Steps) /\ Load(i, t) # <<>>
         /\ Head(Load(i, t)) = Step("load", i) /\ Tail(Load(i, t)) = u
  BY <1>1, <1>5, Conses
<1> QED BY <1>2, <1>4, <1>6

LEMMA EndList ==
  ASSUME NEW x, x.dir \in Ino, x.ino \in Ino
  PROVE  /\ End(x) \in Seq(Steps) /\ End(x) # <<>> /\ x.dir \in Nat /\ x.ino \in Nat
         /\ Seek(x) \in Seq(Steps) /\ Seek(x) # <<>>
         /\ Head(Seek(x)) = Step("find", 0) /\ Tail(Seek(x)) = End(x)
         /\ Enters(x) \in Seq(Steps) /\ Ending(x) \in Seq(Steps)
<1>1. x.dir \in Nat /\ x.ino \in Nat
  BY DiskConstants DEF Ino
<1>2. Cons(Step("ibits", 0), <<>>) \in Seq(Steps) /\ Cons(Step("release", 0), <<>>) \in Seq(Steps)
  BY StepKinds, Conses
<1>3. Load(x.ino, Cons(Step("ibits", 0), <<>>)) \in Seq(Steps)
  BY <1>1, <1>2, LoadList
<1>4. End(x) \in Seq(Steps) /\ End(x) # <<>>
  BY <1>1, <1>2, <1>3, LoadList, StepKinds, Conses DEF End
<1>5. /\ Seek(x) \in Seq(Steps) /\ Seek(x) # <<>>
      /\ Head(Seek(x)) = Step("find", 0) /\ Tail(Seek(x)) = End(x)
  BY <1>4, StepKinds, Conses DEF Seek
<1> QED BY <1>1, <1>4, <1>5, StepKinds, Conses DEF Enters, Ending

\* The next step of a call tells its phase.
LEMMA Heads ==
  ASSUME NEW v, NEW x, NEW dk, NEW im, x.dir \in Ino, x.ino \in Ino, Phase(v, x, dk, im)
  PROVE  \/ Resting(v, x, dk, im) /\ x.todo = <<>>
         \/ /\ x.todo # <<>>
            /\ \/ /\ Head(x.todo).do \in {"load", "store"}
                  /\ \/ MadeDir(v, x, dk, im) \/ Entered(v, x, dk, im)
                     \/ Appends(v, x, dk, im) \/ Removed(v, x, dk, im)
               \/ Head(x.todo).do = "ibits" /\ Entered(v, x, dk, im)
               \/ /\ Head(x.todo).do = "alloc"
                  /\ MakingDir(v, x, dk, im) \/ Adds(v, x, dk, im) \/ Appends(v, x, dk, im)
               \/ Head(x.todo).do = "dots" /\ MakingDir(v, x, dk, im)
               \/ Head(x.todo).do = "data" /\ Appends(v, x, dk, im)
               \/ Head(x.todo).do = "find" /\ Finds(v, x, dk, im)
               \/ Head(x.todo).do = "zero" /\ Adds(v, x, dk, im)
               \/ Head(x.todo).do = "put" /\ (Puts(v, x, dk, im) \/ Clears(v, x, dk, im))
               \/ Head(x.todo).do = "tier" /\ (Tables(v, x, dk, im) \/ DropsIndirect(v, x, dk, im))
               \/ Head(x.todo).do = "delete" /\ Deletes(v, x, dk, im)
               \/ Head(x.todo).do = "drop" /\ (Clears(v, x, dk, im) \/ DropsIndirect(v, x, dk, im))
               \/ Head(x.todo).do = "droptier" /\ DropsIndirect(v, x, dk, im)
               \/ Head(x.todo).do = "release" /\ Removed(v, x, dk, im)
               \/ Head(x.todo).do \in {"free", "ifree"} /\ Releases(v, x, dk, im)
<1> DEFINE a == Head(x.todo).do
           ibits == Cons(Step("ibits", 0), <<>>)
           release == Cons(Step("release", 0), <<>>)
<1>a. /\ End(x) \in Seq(Steps) /\ x.dir \in Nat /\ x.ino \in Nat
      /\ Seek(x) \in Seq(Steps) /\ Seek(x) # <<>> /\ Head(Seek(x)) = Step("find", 0)
      /\ Enters(x) \in Seq(Steps) /\ Ending(x) \in Seq(Steps)
  BY EndList
<1>b. /\ ibits \in Seq(Steps) /\ ibits # <<>> /\ Head(ibits) = Step("ibits", 0)
      /\ release \in Seq(Steps) /\ release # <<>> /\ Head(release) = Step("release", 0)
  BY StepKinds, Conses
<1>c. ASSUME NEW i \in Nat, NEW t \in Seq(Steps)
      PROVE  /\ Load(i, t) \in Seq(Steps)
             /\ Load(i, t) # <<>> /\ Head(Load(i, t)).do = "load"
             /\ Store(i, t) # <<>> /\ Head(Store(i, t)).do = "store"
  <2>1. /\ Load(i, t) # <<>> /\ Head(Load(i, t)) = Step("load", i) /\ Load(i, t) \in Seq(Steps)
        /\ Store(i, t) # <<>> /\ Head(Store(i, t)) = Step("store", i)
    BY LoadList
  <2> QED BY <2>1, StepKinds
<1>d. ASSUME NEW j \in Nat, NEW t \in Seq(Steps), NEW S, Syncs(v, x, dk, j, t, S)
      PROVE  x.todo # <<>> /\ a \in {"load", "store"}
  BY <1>c, <1>d DEF Syncs
<1> HIDE DEF ibits, release
<1>1. Resting(v, x, dk, im) => x.todo = <<>>
  BY DEF Resting, Idle
<1>2. MakingDir(v, x, dk, im) => x.todo # <<>> /\ a \in {"alloc", "dots"}
  <2>1. PICK t \in Seq(Steps) : t = Load(x.ino, Seek(x))
    BY <1>a, <1>c
  <2>2. PICK u \in Seq(Steps) : u = Cons(Step("dots", 0), t) /\ u # <<>> /\ Head(u) = Step("dots", 0)
    BY StepKinds, Conses
  <2>3. Cons(Step("alloc", 0), u) # <<>> /\ Head(Cons(Step("alloc", 0), u)) = Step("alloc", 0)
    BY StepKinds, Conses
  <2> QED BY <2>1, <2>2, <2>3, StepKinds DEF MakingDir
<1>3. MadeDir(v, x, dk, im) => x.todo # <<>> /\ a \in {"load", "store"}
  BY <1>a, <1>d DEF MadeDir
<1>4. Finds(v, x, dk, im) => x.todo # <<>> /\ a = "find"
  BY <1>a, StepKinds DEF Finds
<1>5. Adds(v, x, dk, im) => x.todo # <<>> /\ a \in {"alloc", "zero"}
  <2>1. PICK t \in Seq(Steps) : t = Enters(x)
    BY <1>a
  <2>2. PICK u \in Seq(Steps) : u = Cons(Step("zero", 0), t) /\ u # <<>> /\ Head(u) = Step("zero", 0)
    BY StepKinds, Conses
  <2>3. Cons(Step("alloc", 0), u) # <<>> /\ Head(Cons(Step("alloc", 0), u)) = Step("alloc", 0)
    BY StepKinds, Conses
  <2> QED BY <2>1, <2>2, <2>3, StepKinds DEF Adds
<1>6. Tables(v, x, dk, im) => x.todo # <<>> /\ a = "tier"
  <2>1. Cons(Step("tier", 0), Seek(x)) # <<>> /\ Head(Cons(Step("tier", 0), Seek(x))) = Step("tier", 0)
    BY <1>a, StepKinds, Conses
  <2> QED BY <2>1, StepKinds DEF Tables
<1>f. PICK e \in Seq(Steps) : e = End(x)
  BY <1>a
<1>g. /\ Cons(Step("put", 0), e) # <<>> /\ Head(Cons(Step("put", 0), e)) = Step("put", 0)
      /\ Cons(Step("delete", 0), e) # <<>> /\ Head(Cons(Step("delete", 0), e)) = Step("delete", 0)
      /\ Cons(Step("drop", 0), e) # <<>> /\ Head(Cons(Step("drop", 0), e)) = Step("drop", 0)
      /\ Cons(Step("tier", 0), e) # <<>> /\ Head(Cons(Step("tier", 0), e)) = Step("tier", 0)
      /\ Cons(Step("droptier", 0), e) # <<>> /\ Head(Cons(Step("droptier", 0), e)) = Step("droptier", 0)
  BY StepKinds, Conses
<1>7. Puts(v, x, dk, im) => x.todo # <<>> /\ a = "put"
  BY <1>f, <1>g, StepKinds DEF Puts
<1>8. Entered(v, x, dk, im) => x.todo # <<>> /\ a \in {"load", "store", "ibits"}
  <2>1. Load(x.ino, ibits) \in Seq(Steps) /\ <<>> \in Seq(Steps)
    BY <1>a, <1>b, <1>c
  <2>2. a = "ibits" <=> Head(x.todo).do = "ibits"
    OBVIOUS
  <2>3. x.todo = ibits => x.todo # <<>> /\ a = "ibits"
    BY <1>b, StepKinds
  <2> HIDE DEF a
  <2> QED BY <2>1, <2>3, <1>a, <1>b, <1>d DEF Entered, ibits
<1>9. Appends(v, x, dk, im) => x.todo # <<>> /\ a \in {"load", "store", "alloc", "data"}
  <2>0. <<>> \in Seq(Steps)
    OBVIOUS
  <2>1. PICK t \in Seq(Steps) : t = Load(x.ino, <<>>)
    BY <2>0, <1>a, <1>c
  <2>2. PICK u \in Seq(Steps) : u = Cons(Step("data", 0), t) /\ u # <<>> /\ Head(u) = Step("data", 0)
    BY StepKinds, Conses
  <2>3. Cons(Step("alloc", 0), u) # <<>> /\ Head(Cons(Step("alloc", 0), u)) = Step("alloc", 0)
    BY StepKinds, Conses
  <2>4. x.todo = u \/ x.todo = Cons(Step("alloc", 0), u) => x.todo # <<>> /\ a \in {"alloc", "data"}
    BY <2>2, <2>3, StepKinds
  <2> HIDE DEF a
  <2> QED BY <2>0, <2>1, <2>2, <2>4, <1>a, <1>d DEF Appends
<1>10. Deletes(v, x, dk, im) => x.todo # <<>> /\ a = "delete"
  BY <1>f, <1>g, StepKinds DEF Deletes
<1>11. Clears(v, x, dk, im) => x.todo # <<>> /\ a \in {"put", "drop"}
  BY <1>f, <1>g, StepKinds DEF Clears
<1>12. DropsIndirect(v, x, dk, im) => x.todo # <<>> /\ a \in {"drop", "tier", "droptier"}
  <2>1. PICK u \in Seq(Steps) : u = Ending(x) /\ u # <<>> /\ Head(u).do \in {"tier", "droptier"}
    BY <1>a, <1>f, <1>g, StepKinds DEF Ending
  <2>2. Cons(Step("drop", 0), u) # <<>> /\ Head(Cons(Step("drop", 0), u)) = Step("drop", 0)
    BY <2>1, StepKinds, Conses
  <2> QED BY <2>1, <2>2, StepKinds DEF DropsIndirect
<1>13. Removed(v, x, dk, im) => x.todo # <<>> /\ a \in {"load", "store", "release"}
  <2>1. x.todo = release => x.todo # <<>> /\ a = "release"
    BY <1>b, StepKinds
  <2> HIDE DEF a
  <2> QED BY <2>1, <1>a, <1>b, <1>d DEF Removed, release
<1>14. Releases(v, x, dk, im) => x.todo # <<>> /\ a \in {"free", "ifree"}
  <2>1. ASSUME Releases(v, x, dk, im) PROVE x.todo # <<>> /\ x.todo[1].do \in {"free", "ifree"}
    <3>1. Len(x.todo) \in Nat /\ DOMAIN x.todo = 1 .. Len(x.todo) /\ Len(x.todo) # 0 /\ x.todo # <<>>
      BY <2>1 DEF Releases, Freeing
    <3> QED BY <2>1, <3>1 DEF Releases, Freeing
  <2>2. Releases(v, x, dk, im) => Head(x.todo) = x.todo[1]
    BY DEF Releases, Freeing
  <2> QED BY <2>1, <2>2
<1> HIDE DEF a
<1>15. \/ Resting(v, x, dk, im) /\ x.todo = <<>>
       \/ /\ x.todo # <<>>
          /\ \/ /\ a \in {"load", "store"}
                /\ \/ MadeDir(v, x, dk, im) \/ Entered(v, x, dk, im)
                   \/ Appends(v, x, dk, im) \/ Removed(v, x, dk, im)
             \/ a = "ibits" /\ Entered(v, x, dk, im)
             \/ a = "alloc" /\ (MakingDir(v, x, dk, im) \/ Adds(v, x, dk, im) \/ Appends(v, x, dk, im))
             \/ a = "dots" /\ MakingDir(v, x, dk, im)
             \/ a = "data" /\ Appends(v, x, dk, im)
             \/ a = "find" /\ Finds(v, x, dk, im)
             \/ a = "zero" /\ Adds(v, x, dk, im)
             \/ a = "put" /\ (Puts(v, x, dk, im) \/ Clears(v, x, dk, im))
             \/ a = "tier" /\ (Tables(v, x, dk, im) \/ DropsIndirect(v, x, dk, im))
             \/ a = "delete" /\ Deletes(v, x, dk, im)
             \/ a = "drop" /\ (Clears(v, x, dk, im) \/ DropsIndirect(v, x, dk, im))
             \/ a = "droptier" /\ DropsIndirect(v, x, dk, im)
             \/ a = "release" /\ Removed(v, x, dk, im)
             \/ a \in {"free", "ifree"} /\ Releases(v, x, dk, im)
  BY <1>1, <1>2, <1>3, <1>4, <1>5, <1>6, <1>7, <1>8, <1>9, <1>10, <1>11, <1>12, <1>13, <1>14 DEF Phase
<1> QED BY <1>15 DEF a

-----------------------------------------------------------------------------
\* What a call keeps while it goes on
Same(x, y) ==
    /\ DOMAIN y = DOMAIN Idle /\ y.op = x.op /\ y.dir = x.dir /\ y.ino = x.ino
    /\ y.ent = x.ent /\ y.idx = x.idx /\ y.tier = x.tier

LEMMA SameLists == ASSUME NEW x, NEW y, Same(x, y) PROVE End(y) = End(x) /\ Seek(y) = Seek(x)
BY DEF Same, End, Seek

LEMMA SameCall ==
  ASSUME NEW v, NEW x, NEW y, NEW dk, NEW im, Same(x, y)
  PROVE  /\ New(v, x, dk, im) => New(v, y, dk, im)
         /\ Old(v, x, dk, im) => Old(v, y, dk, im)
         /\ Ready(v, x) => Ready(v, y)
BY DEF Same, New, Old, Ready

LEMMA SeesOn ==
  ASSUME NEW v, NEW x, NEW dk, NEW bm, NEW co, Sees(v, x, dk, bm, co),
         NEW y, DOMAIN y = DOMAIN Idle, y.dir = x.dir, y.ino = x.ino
  PROVE  Sees(v, y, dk, bm, co)
BY DEF Sees, Seen

\* The end of a call: only the root stays in memory.
LEMMA SeesEnd ==
  ASSUME NEW v, NEW x, NEW dk, NEW bm, NEW co, Sees(v, x, dk, bm, co), Synced(v, dk, {}),
         NEW co2 \in [Ino -> Node], co2[0] = co[0]
  PROVE  Sees(v, Idle, dk, bm, co2)
<1>1. Idle.dir = 0 /\ Idle.ino = 0 /\ 0 \in Ino
  BY Ranges DEF Idle
<1>2. \A j \in Ino : v.node[j] = IF j \in Seen(Idle) THEN co2[j] ELSE dk.inode[j]
  <2>1. v.node[0] = co[0]
    BY <1>1 DEF Sees, Seen
  <2>2. Seen(Idle) = {0}
    BY <1>1 DEF Seen
  <2> QED BY <2>1, <2>2 DEF Synced
<1> QED BY <1>1, <1>2 DEF Sees

\* Parts of the disk that a call writes without being seen
LEMMA SeesDisk ==
  ASSUME NEW v, NEW x, NEW dk, NEW bm, NEW co, Sees(v, x, dk, bm, co),
         NEW dk2 \in Disk, dk2.bbits = dk.bbits, dk2.ents = dk.ents,
         \A j \in Ino \ Seen(x) : dk2.inode[j] = dk.inode[j]
  PROVE  Sees(v, x, dk2, bm, co)
BY DEF Sees

-----------------------------------------------------------------------------
\* inode_sync reads the sector,
LEMMA SyncsLoad ==
  ASSUME NEW v, NEW x, NEW dk, NEW j \in Nat, NEW t \in Seq(Steps), NEW S, Syncs(v, x, dk, j, t, S),
         Head(x.todo).do = "load", NEW y, NEW co, co[j] = v.node[j],
         y.table = dk.inode, y.snap = co[Head(x.todo).on], y.todo = Tail(x.todo)
  PROVE  Syncs(v, y, dk, j, t, S)
<1>1. /\ Head(Load(j, t)) = Step("load", j) /\ Tail(Load(j, t)) = Store(j, t)
      /\ Head(Store(j, t)) = Step("store", j)
  BY LoadList
<1>2. Step("load", j).on = j /\ Step("store", j).do # "load"
  BY StepKinds
<1>3. x.todo = Load(j, t) /\ Synced(v, dk, S \cup {j})
  BY <1>1, <1>2 DEF Syncs
<1> QED BY <1>1, <1>2, <1>3 DEF Syncs

LEMMA Loads ==
  ASSUME NEW v, NEW x, NEW dk, NEW im, NEW bm, NEW co, Sound(v, x, dk, im, bm, co),
         x.todo # <<>>, Head(x.todo).do = "load", NEW y, Same(x, y),
         y.table = dk.inode, y.snap = co[Head(x.todo).on], y.todo = Tail(x.todo)
  PROVE  Sound(v, y, dk, im, bm, co)
<1>1. Sees(v, x, dk, bm, co) /\ Phase(v, x, dk, im) /\ x.dir \in Ino /\ x.ino \in Ino
  BY DEF Sound, Sees
<1>2. Sees(v, y, dk, bm, co)
  BY <1>1, SeesOn DEF Same
<1>3. /\ x.dir \in Nat /\ x.ino \in Nat /\ Seek(x) \in Seq(Steps)
      /\ co[x.dir] = v.node[x.dir] /\ co[x.ino] = v.node[x.ino]
  BY <1>1, EndList DEF Sees, Seen
<1>4. y.dir = x.dir /\ y.ino = x.ino /\ Seek(y) = Seek(x)
  BY SameLists DEF Same
<1>5. ASSUME NEW j \in {x.dir, x.ino}, NEW t \in Seq(Steps), NEW S, Syncs(v, x, dk, j, t, S)
      PROVE  Syncs(v, y, dk, j, t, S)
  <2>1. j \in Nat /\ co[j] = v.node[j]
    BY <1>3
  <2> QED BY <1>5, <2>1, SyncsLoad
<1>6. \/ MadeDir(v, x, dk, im) \/ Entered(v, x, dk, im)
      \/ Appends(v, x, dk, im) \/ Removed(v, x, dk, im)
  BY <1>1, Heads
<1>7. CASE MadeDir(v, x, dk, im)
  <2>1. Syncs(v, y, dk, y.ino, Seek(y), {})
    BY <1>3, <1>4, <1>5, <1>7 DEF MadeDir
  <2>2. New(v, y, dk, im) /\ Ready(v, y)
    BY <1>7, SameCall DEF MadeDir
  <2>3. MadeDir(v, y, dk, im)
    BY <1>7, <2>1, <2>2 DEF MadeDir, Same
  <2> QED BY <1>2, <2>3 DEF Sound, Phase
<1>8. CASE Entered(v, x, dk, im)
  <2>1. PICK rest \in Seq(Steps) : rest = Cons(Step("ibits", 0), <<>>) /\ Head(rest) = Step("ibits", 0)
    BY StepKinds, Conses
  <2>2. Load(x.ino, rest) \in Seq(Steps) /\ <<>> \in Seq(Steps) /\ x.todo # rest
    BY <1>3, <2>1, LoadList, StepKinds
  <2>3. New(v, y, dk, im)
    BY <1>8, SameCall DEF Entered
  <2>4. IF y.op = "mkdir" THEN Syncs(v, y, dk, y.dir, <<>>, {})
        ELSE \/ Syncs(v, y, dk, y.dir, Load(y.ino, rest), {y.ino})
             \/ Syncs(v, y, dk, y.ino, rest, {})
    BY <1>4, <1>5, <1>8, <2>1, <2>2 DEF Entered, Same
  <2>5. Entered(v, y, dk, im)
    BY <1>8, <2>1, <2>3, <2>4 DEF Entered
  <2> QED BY <1>2, <2>5 DEF Sound, Phase
<1>9. CASE Appends(v, x, dk, im)
  <2>1. <<>> \in Seq(Steps)
    OBVIOUS
  <2>2. Syncs(v, x, dk, x.ino, <<>>, {}) /\ v.hand = {}
    <3>1. PICK t \in Seq(Steps) : t = Load(x.ino, <<>>)
      BY <1>3, <2>1, LoadList
    <3>2. PICK u \in Seq(Steps) : u = Cons(Step("data", 0), t) /\ Head(u) = Step("data", 0)
      BY StepKinds, Conses
    <3>3. Head(Cons(Step("alloc", 0), u)) = Step("alloc", 0)
      BY StepKinds, Conses
    <3>4. x.todo # u /\ x.todo # Cons(Step("alloc", 0), u)
      BY <3>2, <3>3, StepKinds
    <3> QED BY <1>9, <3>1, <3>2, <3>4 DEF Appends
  <2>3. Syncs(v, y, dk, y.ino, <<>>, {})
    BY <1>4, <1>5, <2>1, <2>2
  <2>4. Appends(v, y, dk, im)
    BY <1>9, <2>2, <2>3 DEF Appends, Same
  <2> QED BY <1>2, <2>4 DEF Sound, Phase
<1>10. CASE Removed(v, x, dk, im)
  <2>1. PICK rest \in Seq(Steps) : rest = Cons(Step("release", 0), <<>>) /\ Head(rest) = Step("release", 0)
    BY StepKinds, Conses
  <2>2. x.todo # rest
    BY <2>1, StepKinds
  <2>3. Syncs(v, y, dk, y.dir, rest, {})
    BY <1>4, <1>5, <1>10, <2>1, <2>2 DEF Removed
  <2>4. Old(v, y, dk, im)
    BY <1>10, SameCall DEF Removed
  <2>5. Removed(v, y, dk, im)
    BY <1>10, <2>1, <2>3, <2>4 DEF Removed, Same
  <2> QED BY <1>2, <2>5 DEF Sound, Phase
<1> QED BY <1>6, <1>7, <1>8, <1>9, <1>10

\* and writes it back; a call that has no more to do ends.
Written(x, dk, dk2) ==
    /\ dk2.inode = [x.table EXCEPT ![Head(x.todo).on] = x.snap]
    /\ dk2.ibits = dk.ibits /\ dk2.bbits = dk.bbits /\ dk2.ents = dk.ents /\ dk2.tab = dk.tab
Stored(v, y, dk, im, bm, co, co2) ==
    IF y.todo = <<>> THEN Sound(v, Idle, dk, im, bm, co2) ELSE Sound(v, y, dk, im, bm, co)

LEMMA Stores ==
  ASSUME NEW v, NEW x, NEW dk, NEW im, NEW bm, NEW co, Sound(v, x, dk, im, bm, co),
         x.todo # <<>>, Head(x.todo).do = "store", NEW y, Same(x, y), y.todo = Tail(x.todo),
         NEW dk2 \in Disk, Written(x, dk, dk2), NEW co2 \in [Ino -> Node], co2[0] = co[0]
  PROVE  Stored(v, y, dk2, im, bm, co, co2)
<1> USE DEF Written, Stored
<1>1. /\ Sees(v, x, dk, bm, co) /\ Phase(v, x, dk, im) /\ x.dir \in Ino /\ x.ino \in Ino
      /\ dk.inode \in [Ino -> Node]
  BY DEF Sound, Sees, Disk
<1>2. /\ x.dir \in Nat /\ x.ino \in Nat /\ Seek(x) \in Seq(Steps) /\ Seek(x) # <<>>
  BY <1>1, EndList
<1>3. y.dir = x.dir /\ y.ino = x.ino /\ Seek(y) = Seek(x)
  BY SameLists DEF Same
<1>4. ASSUME NEW j \in {x.dir, x.ino}, NEW t \in Seq(Steps), NEW S, Syncs(v, x, dk, j, t, S)
      PROVE  y.todo = t /\ Synced(v, dk2, S) /\ Sees(v, x, dk2, bm, co) /\ Sees(v, y, dk2, bm, co)
  <2>0. j \in Nat /\ j \in Ino
    BY <1>1, <1>2
  <2>1. /\ Tail(x.todo) = t /\ Synced(v, dk2, S)
        /\ dk2.inode = [dk.inode EXCEPT ![j] = v.node[j]]
    <3>1. /\ Head(Load(j, t)) = Step("load", j) /\ Tail(Store(j, t)) = t
          /\ Head(Store(j, t)) = Step("store", j)
      BY <2>0, LoadList
    <3>2. Step("store", j).on = j /\ Step("load", j).do # "store"
      BY <2>0, StepKinds
    <3>3. /\ x.todo = Store(j, t) /\ Synced(v, dk, S \cup {j}) /\ x.snap = v.node[j]
          /\ x.table = dk.inode
      BY <1>4, <3>1, <3>2 DEF Syncs
    <3>4. dk2.inode = [dk.inode EXCEPT ![j] = v.node[j]]
      BY <3>1, <3>2, <3>3
    <3>5. Synced(v, dk2, S)
      BY <1>1, <2>0, <3>3, <3>4 DEF Synced
    <3> QED BY <3>1, <3>3, <3>4, <3>5
  <2>2. \A k \in Ino \ Seen(x) : dk2.inode[k] = dk.inode[k]
    BY <1>1, <2>1 DEF Seen
  <2>3. Sees(v, x, dk2, bm, co)
    BY <1>1, <2>2, SeesDisk, ZenonT(30)
  <2> QED BY <2>1, <2>3, SeesOn DEF Same
<1>5. \/ MadeDir(v, x, dk, im) \/ Entered(v, x, dk, im)
      \/ Appends(v, x, dk, im) \/ Removed(v, x, dk, im)
  BY <1>1, Heads
<1>6. CASE MadeDir(v, x, dk, im)
  <2>1. y.todo = Seek(y) /\ Synced(v, dk2, {}) /\ Sees(v, y, dk2, bm, co)
    BY <1>2, <1>3, <1>4, <1>6 DEF MadeDir
  <2>2. New(v, y, dk2, im) /\ Ready(v, y)
    <3>1. New(v, y, dk, im) /\ Ready(v, y)
      BY <1>6, SameCall DEF MadeDir
    <3> QED BY <3>1 DEF New
  <2>3. Synced(v, dk2, Behind(y) \cup {y.dir}) /\ Untouched(v, y, dk2)
    BY <1>1, <1>3, <2>1 DEF Synced, Untouched
  <2>4. y.idx = 0 /\ y.tier = <<>> /\ v.pend = y.ino /\ v.hand = {} /\ v.tab = dk2.tab
    BY <1>6 DEF MadeDir, Same
  <2>5. Searching(v, y, dk2, im)
    BY <2>2, <2>3, <2>4, Ranges DEF Searching
  <2>6. Finds(v, y, dk2, im)
    BY <2>1, <2>3, <2>4, <2>5 DEF Finds
  <2> QED BY <1>2, <1>3, <2>1, <2>6 DEF Sound, Phase
<1>7. CASE Entered(v, x, dk, im)
  <2>1. PICK rest \in Seq(Steps) : /\ rest = Cons(Step("ibits", 0), <<>>) /\ rest # <<>>
                                   /\ Head(rest) = Step("ibits", 0)
    BY StepKinds, Conses
  <2>2. /\ Load(x.ino, rest) \in Seq(Steps) /\ <<>> \in Seq(Steps) /\ x.todo # rest
        /\ Load(x.ino, rest) # <<>>
    BY <1>2, <2>1, LoadList, StepKinds
  <2>3. New(v, y, dk2, im)
    <3>1. New(v, y, dk, im)
      BY <1>7, SameCall DEF Entered
    <3> QED BY <3>1 DEF New
  <2>4. CASE x.op = "mkdir"
    <3>1. Syncs(v, x, dk, x.dir, <<>>, {})
      BY <1>7, <2>4 DEF Entered
    <3>2. y.todo = <<>> /\ Synced(v, dk2, {}) /\ Sees(v, x, dk2, bm, co)
      BY <1>4, <2>2, <3>1
    <3>3. Sees(v, Idle, dk2, bm, co2)
      BY <3>2, SeesEnd
    <3>4. Resting(v, Idle, dk2, im)
      BY <1>7, <2>3, <2>4, <3>2 DEF Entered, Resting, New, Same
    <3> QED BY <3>2, <3>3, <3>4 DEF Sound, Phase
  <2>5. CASE x.op # "mkdir"
    <3>1. \/ Syncs(v, x, dk, x.dir, Load(x.ino, rest), {x.ino})
          \/ Syncs(v, x, dk, x.ino, rest, {})
      BY <1>7, <2>1, <2>2, <2>5 DEF Entered
    <3>2. /\ Sees(v, y, dk2, bm, co)
          /\ \/ y.todo = Load(x.ino, rest) /\ Synced(v, dk2, {x.ino})
             \/ y.todo = rest /\ Synced(v, dk2, {})
      BY <1>4, <2>1, <2>2, <3>1
    <3>3. y.todo = Load(x.ino, rest) /\ Synced(v, dk2, {x.ino}) => Syncs(v, y, dk2, y.ino, rest, {})
      BY <1>3 DEF Syncs, Synced
    <3>4. y.op # "mkdir"
      BY <2>5 DEF Same
    <3>5. Entered(v, y, dk2, im)
      BY <1>7, <2>1, <2>3, <3>2, <3>3, <3>4 DEF Entered
    <3> QED BY <2>1, <2>2, <3>2, <3>5 DEF Sound, Phase
  <2> QED BY <2>4, <2>5
<1>8. CASE Appends(v, x, dk, im)
  <2>1. <<>> \in Seq(Steps)
    OBVIOUS
  <2>2. Syncs(v, x, dk, x.ino, <<>>, {}) /\ v.hand = {}
    <3>1. PICK t \in Seq(Steps) : t = Load(x.ino, <<>>)
      BY <1>2, <2>1, LoadList
    <3>2. PICK u \in Seq(Steps) : u = Cons(Step("data", 0), t) /\ Head(u) = Step("data", 0)
      BY StepKinds, Conses
    <3>3. Head(Cons(Step("alloc", 0), u)) = Step("alloc", 0)
      BY StepKinds, Conses
    <3>4. x.todo # u /\ x.todo # Cons(Step("alloc", 0), u)
      BY <3>2, <3>3, StepKinds
    <3> QED BY <1>8, <3>1, <3>2, <3>4 DEF Appends
  <2>3. y.todo = <<>> /\ Synced(v, dk2, {}) /\ Sees(v, x, dk2, bm, co)
    BY <1>4, <2>1, <2>2
  <2>4. Sees(v, Idle, dk2, bm, co2)
    BY <2>3, SeesEnd
  <2>5. Resting(v, Idle, dk2, im)
    BY <1>8, <2>2, <2>3 DEF Appends, Resting
  <2> QED BY <2>3, <2>4, <2>5 DEF Sound, Phase
<1>9. CASE Removed(v, x, dk, im)
  <2>1. PICK rest \in Seq(Steps) : /\ rest = Cons(Step("release", 0), <<>>) /\ rest # <<>>
                                   /\ Head(rest) = Step("release", 0)
    BY StepKinds, Conses, ZenonT(30)
  <2>2. x.todo # rest
    BY <2>1, StepKinds
  <2>3. y.todo = rest /\ Synced(v, dk2, {}) /\ Sees(v, y, dk2, bm, co)
    BY <1>4, <1>9, <2>1, <2>2 DEF Removed
  <2>4. Old(v, y, dk2, im)
    <3>1. Old(v, y, dk, im)
      BY <1>9, SameCall DEF Removed
    <3> QED BY <3>1 DEF Old
  <2>5. Removed(v, y, dk2, im)
    BY <1>9, <2>1, <2>3, <2>4 DEF Removed, Same
  <2> QED BY <2>1, <2>3, <2>5 DEF Sound, Phase
<1> QED BY <1>5, <1>6, <1>7, <1>8, <1>9

\* The inode bitmap is written at the end of a file's creation.
LEMMA Bits ==
  ASSUME NEW v, NEW x, NEW dk, NEW im, NEW bm, NEW co, Sound(v, x, dk, im, bm, co),
         x.todo # <<>>, Head(x.todo).do = "ibits", NEW dk2 \in Disk, dk2.inode = dk.inode,
         dk2.ibits = im, dk2.bbits = dk.bbits, dk2.ents = dk.ents, dk2.tab = dk.tab,
         NEW co2 \in [Ino -> Node], co2[0] = co[0]
  PROVE  Tail(x.todo) = <<>> /\ Sound(v, Idle, dk2, im, bm, co2)
<1>1. /\ Sees(v, x, dk, bm, co) /\ Phase(v, x, dk, im) /\ x.dir \in Ino /\ x.ino \in Ino
  BY DEF Sound, Sees
<1>2. x.dir \in Nat /\ x.ino \in Nat
  BY <1>1, EndList
<1>3. Entered(v, x, dk, im)
  BY <1>1, Heads
<1>4. PICK rest \in Seq(Steps) : rest = Cons(Step("ibits", 0), <<>>) /\ Tail(rest) = <<>>
  BY StepKinds, Conses
<1>5. ASSUME NEW j \in Nat, NEW t \in Seq(Steps), NEW S, Syncs(v, x, dk, j, t, S) PROVE FALSE
  <2>1. Head(Load(j, t)) = Step("load", j) /\ Head(Store(j, t)) = Step("store", j)
    BY LoadList
  <2> QED BY <1>5, <2>1, StepKinds DEF Syncs
<1>6. Load(x.ino, rest) \in Seq(Steps) /\ <<>> \in Seq(Steps)
  BY <1>2, LoadList
<1>7. x.todo = rest /\ Synced(v, dk, {})
  BY <1>2, <1>3, <1>4, <1>5, <1>6 DEF Entered
<1>8. Sees(v, x, dk2, bm, co) /\ Synced(v, dk2, {})
  <2>1. \A j \in Ino \ Seen(x) : dk2.inode[j] = dk.inode[j]
    OBVIOUS
  <2>2. Sees(v, x, dk2, bm, co)
    BY <1>1, <2>1, SeesDisk
  <2> QED BY <1>7, <2>2 DEF Synced
<1>9. Sees(v, Idle, dk2, bm, co2)
  BY <1>8, SeesEnd
<1>10. Resting(v, Idle, dk2, im)
  BY <1>3, <1>8 DEF Entered, New, Resting
<1> QED BY <1>4, <1>7, <1>9, <1>10 DEF Sound, Phase

\* A block is taken.
LEMMA Allocs ==
  ASSUME NEW v, NEW x, NEW dk, NEW im, NEW bm, NEW co, Sound(v, x, dk, im, bm, co),
         x.todo # <<>>, Head(x.todo).do = "alloc", NEW c \in Block, c - 1 \notin bm,
         NEW y, Same(x, y), y.lba = c, y.todo = Tail(x.todo),
         NEW dk2 \in Disk, dk2.inode = dk.inode, dk2.ibits = dk.ibits,
         dk2.bbits = bm \cup {c - 1}, dk2.ents = dk.ents, dk2.tab = dk.tab
  PROVE  y.todo # <<>> /\ \E w : Sound(w, y, dk2, im, bm \cup {c - 1}, co)
<1>1. /\ Sees(v, x, dk, bm, co) /\ Phase(v, x, dk, im) /\ x.dir \in Ino /\ x.ino \in Ino
  BY DEF Sound, Sees
<1>2. PICK w : w = [node |-> v.node, tab |-> v.tab, live |-> v.live, dirs |-> v.dirs, at |-> v.at,
                    ent |-> v.ent, hand |-> {c}, pend |-> v.pend, late |-> v.late]
  OBVIOUS
<1>3. /\ w.node = v.node /\ w.tab = v.tab /\ w.live = v.live /\ w.dirs = v.dirs /\ w.at = v.at
      /\ w.ent = v.ent /\ w.hand = {c} /\ w.pend = v.pend /\ w.late = v.late
  BY <1>2
<1> HIDE <1>2
<1>4. y.dir = x.dir /\ y.ino = x.ino /\ Seek(y) = Seek(x)
  BY SameLists DEF Same
<1>5. v.hand = {} => Sees(w, y, dk2, bm \cup {c - 1}, co)
  <2> HAVE v.hand = {}
  <2>1. Agrees(v, bm, dk.ents)
    BY <1>1 DEF Sees
  <2>2. Types(w)
    BY <1>3, <2>1 DEF Agrees, Types
  <2>3. Owned(w.at, w.hand, bm \cup {c - 1})
    <3>1. v.at \in [Ino -> [Where -> 0 .. Blocks]] /\ Owned(v.at, {}, bm)
      BY <2>1 DEF Agrees, Types
    <3>2. Owned(v.at, {c}, bm \cup {c - 1})
      BY <3>1, OwnedTakes
    <3> QED BY <1>3, <3>2
  <2>4. Agrees(w, bm \cup {c - 1}, dk2.ents)
    BY <1>3, <2>1, <2>2, <2>3 DEF Agrees
  <2>5. \A j \in Ino : w.node[j] = IF j \in Seen(y) THEN co[j] ELSE dk2.inode[j]
    BY <1>1, <1>3, <1>4 DEF Sees, Seen
  <2> QED BY <1>1, <1>4, <2>4, <2>5 DEF Sees, Same
<1>6. ASSUME NEW S, Synced(v, dk, S) PROVE Synced(w, dk2, S)
  BY <1>3, <1>6 DEF Synced
<1>7. x.dir \in Nat /\ x.ino \in Nat /\ Seek(x) \in Seq(Steps) /\ Enters(x) \in Seq(Steps)
  BY <1>1, EndList
<1>8. MakingDir(v, x, dk, im) \/ Adds(v, x, dk, im) \/ Appends(v, x, dk, im)
  BY <1>1, Heads
<1>9. CASE MakingDir(v, x, dk, im)
  <2>1. PICK t \in Seq(Steps) : t = Load(x.ino, Seek(x))
    BY <1>7, LoadList
  <2>2. PICK u \in Seq(Steps) : u = Cons(Step("dots", 0), t) /\ Head(u) = Step("dots", 0) /\ u # <<>>
    BY StepKinds, Conses
  <2>3. Tail(Cons(Step("alloc", 0), u)) = u
    BY StepKinds, Conses
  <2>4. x.todo = Cons(Step("alloc", 0), u) /\ v.hand = {}
    BY <1>9, <2>1, <2>2, StepKinds DEF MakingDir
  <2>5. y.todo = u
    BY <2>3, <2>4
  <2>6. New(w, y, dk2, im)
    <3>1. New(v, y, dk, im)
      BY <1>9, SameCall DEF MakingDir
    <3> QED BY <1>3, <3>1 DEF New
  <2>7. Synced(w, dk2, {y.ino})
    BY <1>4, <1>6, <1>9 DEF MakingDir
  <2>8. y.todo = Cons(Step("dots", 0), Load(y.ino, Seek(y))) /\ w.hand = {y.lba}
    BY <1>3, <1>4, <2>1, <2>2, <2>5
  <2>9. /\ w.node[y.ino] = inode_init /\ y.idx = 0 /\ y.tier = <<>> /\ w.tab = dk2.tab
        /\ y.op = "mkdir" /\ w.pend = y.ino /\ y.ino \notin w.dirs
    BY <1>3, <1>4, <1>9 DEF MakingDir, Same
  <2>10. MakingDir(w, y, dk2, im)
    BY <2>6, <2>7, <2>8, <2>9 DEF MakingDir
  <2> QED BY <1>5, <2>2, <2>4, <2>5, <2>10 DEF Sound, Phase
<1>10. CASE Adds(v, x, dk, im)
  <2>1. PICK t \in Seq(Steps) : t = Enters(x)
    BY <1>7
  <2>2. PICK u \in Seq(Steps) : u = Cons(Step("zero", 0), t) /\ Head(u) = Step("zero", 0) /\ u # <<>>
    BY StepKinds, Conses
  <2>3. Tail(Cons(Step("alloc", 0), u)) = u
    BY StepKinds, Conses
  <2>4. x.todo = Cons(Step("alloc", 0), u) /\ v.hand = {}
    BY <1>10, <2>1, <2>2, StepKinds DEF Adds
  <2>5. y.todo = u /\ Enters(y) = Enters(x) /\ Missing(y) = Missing(x)
    BY <1>4, <2>3, <2>4 DEF Enters, Missing, Same
  <2>6. New(w, y, dk2, im) /\ Ready(w, y)
    <3>1. New(v, y, dk, im) /\ Ready(v, y)
      BY <1>10, SameCall DEF Adds, Searching
    <3> QED BY <1>3, <3>1 DEF New, Ready
  <2>7. Searching(w, y, dk2, im)
    <3>1. Synced(w, dk2, Behind(y) \cup {y.dir})
      BY <1>3, <1>10 DEF Adds, Searching, Synced, Same, Behind
    <3>2. y.tier # <<>> => InHand(w, y, dk2)
      BY <1>3, <1>10 DEF Adds, Searching, InHand, Same
    <3> QED BY <1>3, <1>10, <2>6, <3>1, <3>2 DEF Adds, Searching, Same
  <2>8. Adds(w, y, dk2, im)
    BY <1>3, <1>4, <1>10, <2>1, <2>2, <2>5, <2>7 DEF Adds, Same
  <2> QED BY <1>5, <2>2, <2>4, <2>5, <2>8 DEF Sound, Phase
<1>11. CASE Appends(v, x, dk, im)
  <2>0. <<>> \in Seq(Steps)
    OBVIOUS
  <2>1. PICK t \in Seq(Steps) : t = Load(x.ino, <<>>)
    BY <1>7, <2>0, LoadList
  <2>2. PICK u \in Seq(Steps) : u = Cons(Step("data", 0), t) /\ Head(u) = Step("data", 0) /\ u # <<>>
    BY StepKinds, Conses
  <2>3. Tail(Cons(Step("alloc", 0), u)) = u
    BY StepKinds, Conses
  <2>4. x.todo = Cons(Step("alloc", 0), u) /\ v.hand = {} /\ v.at[x.ino] = Blank /\ Synced(v, dk, {})
    <3>1. ~Syncs(v, x, dk, x.ino, <<>>, {})
      <4>1. Head(Load(x.ino, <<>>)) = Step("load", x.ino) /\ Head(Store(x.ino, <<>>)) = Step("store", x.ino)
        BY <1>7, <2>0, LoadList
      <4> QED BY <1>7, <4>1, StepKinds DEF Syncs
    <3> QED BY <1>11, <2>1, <2>2, <3>1, StepKinds DEF Appends
  <2>5. y.todo = u
    BY <2>3, <2>4
  <2>6. Synced(w, dk2, {})
    BY <1>3, <2>4 DEF Synced
  <2>7. Appends(w, y, dk2, im)
    BY <1>3, <1>4, <1>11, <2>1, <2>2, <2>4, <2>5, <2>6 DEF Appends, Same
  <2> QED BY <1>5, <2>2, <2>4, <2>5, <2>7 DEF Sound, Phase
<1> QED BY <1>8, <1>9, <1>10, <1>11

LEMMA DotsSector ==
  ASSUME NEW n \in Ino, NEW up \in Ino
  PROVE  /\ Dots(n, up) \in Sector
         /\ \A s \in Slot : Dots(n, up)[s].type = "unknown" => Dots(n, up)[s] = Free
<1>1. \A s \in Slot : Dots(n, up)[s] = CASE s = 1 -> [name |-> ".", ino |-> n, type |-> "dir"]
                                [] s = 2 -> [name |-> "..", ino |-> up, type |-> "dir"]
                                [] OTHER -> Free
  BY DEF Dots
<1>2. [name |-> ".", ino |-> n, type |-> "dir"] \in Entry /\ Free \in Entry
      /\ [name |-> "..", ino |-> up, type |-> "dir"] \in Entry
  BY Zeros DEF Entry
<1>3. \A s \in Slot : Dots(n, up)[s] \in Entry
  BY <1>1, <1>2
<1>4. Dots(n, up) = [s \in Slot |-> Dots(n, up)[s]]
  BY DEF Dots
<1>5. ASSUME NEW s \in Slot, Dots(n, up)[s].type = "unknown" PROVE Dots(n, up)[s] = Free
  <2>1. PICK a : a = [name |-> ".", ino |-> n, type |-> "dir"]
    OBVIOUS
  <2>2. PICK b : b = [name |-> "..", ino |-> up, type |-> "dir"]
    OBVIOUS
  <2>3. a.type = "dir" /\ b.type = "dir"
    BY <2>1, <2>2
  <2>4. Dots(n, up)[s] \in {a, b, Free}
    BY <1>1, <2>1, <2>2
  <2> HIDE <2>1, <2>2
  <2> QED BY <1>5, <2>3, <2>4
<1> QED BY <1>3, <1>4, <1>5 DEF Sector

\* An inode without blocks
LEMMA NoBlocks ==
  ASSUME NEW v, Types(v), Laid(v.at, v.node, v.tab, v.live), NEW n \in v.live, v.node[n] = inode_init
  PROVE  v.at[n] = Blank
<1>1. Names(v.at[n], inode_init, v.tab) /\ n \in Ino
  BY DEF Laid, Types
<1>2. \A k \in 0 .. Direct : inode_init.sect[k] = 0
  BY DEF inode_init
<1>3. ASSUME NEW k \in Where PROVE v.at[n][k] = 0
  <2>1. k = -1 \/ k \in 0 .. Direct - 1 \/ k \in Direct .. Last - 1
    BY DiskConstants DEF Where, Last
  <2>2. inode_init.sect[Direct] = 0
    BY <1>2, Ranges
  <2>3. CASE k = -1
    BY <1>1, <2>2, <2>3 DEF Names
  <2>4. CASE k \in 0 .. Direct - 1
    <3>1. k \in 0 .. Direct /\ v.at[n][k] = inode_init.sect[k]
      BY <1>1, <2>4, DiskConstants DEF Names
    <3> QED BY <1>2, <3>1
  <2>5. CASE k \in Direct .. Last - 1
    BY <1>1, <2>2, <2>5 DEF Names
  <2> QED BY <2>1, <2>3, <2>4, <2>5
<1> QED BY <1>1, <1>3 DEF Types, Blank

\* A new directory gets its block with "." and "..",
DotsWritten(x, dk, dk2, co, co2) ==
    /\ dk2 = [dk EXCEPT !.ents = [dk.ents EXCEPT ![x.lba] = Dots(x.ino, x.dir)]]
    /\ co2 = [co EXCEPT ![x.ino] = [inode_init EXCEPT !.size = 2, !.sect[0] = x.lba]]

LEMMA WritesDots ==
  ASSUME NEW v, NEW x, NEW dk, NEW im, NEW bm, NEW co, Sound(v, x, dk, im, bm, co),
         x.todo # <<>>, Head(x.todo).do = "dots", NEW y, Same(x, y), y.todo = Tail(x.todo),
         NEW dk2, NEW co2, DotsWritten(x, dk, dk2, co, co2)
  PROVE  y.todo # <<>> /\ \E w : Sound(w, y, dk2, im, bm, co2)
<1> USE DEF DotsWritten
<1> DEFINE n == x.ino
           d == x.dir
           c == x.lba
<1>1. /\ Sees(v, x, dk, bm, co) /\ Phase(v, x, dk, im) /\ d \in Ino /\ n \in Ino
      /\ Agrees(v, bm, dk.ents) /\ dk \in Disk /\ co \in [Ino -> Node]
  BY DEF Sound, Sees
<1>2. MakingDir(v, x, dk, im) /\ n \notin v.dirs /\ n \in v.live /\ n # 0 /\ d \in v.dirs /\ d # n
  <2>1. MakingDir(v, x, dk, im)
    BY <1>1, Heads
  <2> QED BY <2>1 DEF MakingDir, New
<1>3. d \in Nat /\ n \in Nat /\ Seek(x) \in Seq(Steps)
  BY <1>1, EndList
<1>4. PICK t \in Seq(Steps) : t = Load(n, Seek(x)) /\ t # <<>>
  BY <1>3, LoadList
<1>5. x.todo = Cons(Step("dots", 0), t) /\ v.hand = {c} /\ y.todo = t
  <2>1. PICK u \in Seq(Steps) : u = Cons(Step("dots", 0), t) /\ Tail(u) = t
    BY StepKinds, Conses
  <2>2. Head(Cons(Step("alloc", 0), u)) = Step("alloc", 0)
    BY StepKinds, Conses
  <2>3. Head(Cons(Step("alloc", 0), u)).do = "alloc"
    BY <2>2, StepKinds
  <2>4. x.todo # Cons(Step("alloc", 0), u)
    BY <2>3
  <2>5. x.todo = u /\ v.hand = {c}
    BY <1>2, <1>4, <2>1, <2>4 DEF MakingDir
  <2> QED BY <2>1, <2>5
<1>6. c \in Block /\ c \in 0 .. Blocks /\ c # 0
  BY <1>1, <1>5, Ranges DEF Agrees, Types
<1>7. PICK nd : nd = [inode_init EXCEPT !.size = 2, !.sect[0] = c]
  OBVIOUS
<1>8. /\ nd \in Node /\ nd.size = 2 /\ \A k \in 0 .. Direct : nd.sect[k] = IF k = 0 THEN c ELSE 0
  <2>1. PICK f : f = [k \in 0 .. Direct |-> 0]
    OBVIOUS
  <2>2. PICK g : g = [f EXCEPT ![0] = c]
    OBVIOUS
  <2>3. g \in [0 .. Direct -> 0 .. Blocks] /\ \A k \in 0 .. Direct : g[k] = IF k = 0 THEN c ELSE 0
    BY <1>6, <2>1, <2>2, DiskConstants
  <2>4. inode_init = [size |-> 0, sect |-> f]
    BY <2>1 DEF inode_init
  <2>5. nd = [size |-> 2, sect |-> g]
    BY <1>7, <2>2, <2>4
  <2> HIDE <2>1, <2>2
  <2> QED BY <2>3, <2>5 DEF Node
<1>9. co2 \in [Ino -> Node] /\ co2[n] = nd /\ \A j \in Ino \ {n} : co2[j] = co[j]
  BY <1>1, <1>7, <1>8
<1>10. /\ dk2 \in Disk /\ dk2.bbits = dk.bbits /\ dk2.ibits = dk.ibits /\ dk2.inode = dk.inode
       /\ dk2.tab = dk.tab /\ dk2.ents[c] = Dots(n, d)
       /\ \A b \in Block : b # c => dk2.ents[b] = dk.ents[b]
  <2>1. Dots(n, d) \in Sector
    BY <1>1, DotsSector
  <2>2. PICK e2 : e2 = [dk.ents EXCEPT ![c] = Dots(n, d)]
    OBVIOUS
  <2>3. dk2 = [dk EXCEPT !.ents = e2]
    BY <2>2
  <2>4. e2 \in [Block -> Sector] /\ e2[c] = Dots(n, d) /\ \A b \in Block : b # c => e2[b] = dk.ents[b]
    BY <1>1, <1>6, <2>1, <2>2 DEF Disk
  <2> HIDE <2>2
  <2> QED BY <1>1, <2>3, <2>4 DEF Disk
<1> HIDE <1>7
<1>11. PICK w : w = [node |-> [j \in Ino |-> IF j = n THEN nd ELSE v.node[j]], tab |-> v.tab,
                     live |-> v.live, dirs |-> v.dirs \cup {n},
                     at |-> [j \in Ino |-> [l \in Where |-> IF j = n /\ l = 0 THEN c ELSE v.at[j][l]]],
                     ent |-> [j \in Ino |-> IF j = n
                                 THEN [k \in Index |-> IF k = 0 THEN Dots(n, d) ELSE ZeroSector]
                                 ELSE v.ent[j]],
                     hand |-> {}, pend |-> v.pend, late |-> v.late]
  OBVIOUS
<1>12. /\ w.tab = v.tab /\ w.live = v.live /\ w.dirs = v.dirs \cup {n}
       /\ w.hand = {} /\ w.pend = v.pend /\ w.late = v.late
       /\ w.node = [j \in Ino |-> IF j = n THEN nd ELSE v.node[j]]
       /\ w.at = [j \in Ino |-> [l \in Where |-> IF j = n /\ l = 0 THEN c ELSE v.at[j][l]]]
       /\ w.ent = [j \in Ino |-> IF j = n
                                 THEN [k \in Index |-> IF k = 0 THEN Dots(n, d) ELSE ZeroSector]
                                 ELSE v.ent[j]]
  BY <1>11
<1> HIDE <1>11
<1> HIDE DEF n, d, c
<1>13. /\ Types(v) /\ Owned(v.at, {c}, bm) /\ Laid(v.at, v.node, v.tab, v.live)
       /\ Shown(v.at, v.ent, v.dirs, dk.ents) /\ Tree(v.ent, v.dirs, v.live, v.pend)
       /\ Sizes(v.node, v.ent, v.dirs, v.late) /\ EmptyFiles(v.node, v.at, v.dirs, v.live)
  BY <1>1, <1>5 DEF Agrees
<1>14. /\ v.node \in [Ino -> Node] /\ v.at \in [Ino -> [Where -> 0 .. Blocks]]
       /\ v.ent \in [Ino -> [Index -> Sector]]
       /\ v.live \in SUBSET Ino /\ v.dirs \in SUBSET Ino /\ v.dirs \subseteq v.live
  BY <1>13 DEF Types
<1>15. /\ w.at \in [Ino -> [Where -> 0 .. Blocks]] /\ w.node \in [Ino -> Node]
       /\ w.ent \in [Ino -> [Index -> Sector]]
  <2>1. [k \in Index |-> IF k = 0 THEN Dots(n, d) ELSE ZeroSector] \in [Index -> Sector]
    BY <1>1, DotsSector, Zeros DEF n, d
  <2>2. w.at \in [Ino -> [Where -> 0 .. Blocks]]
    BY <1>6, <1>12, <1>14
  <2> QED BY <1>8, <1>12, <1>14, <2>1, <2>2
<1>16. /\ \A j \in Ino, l \in Where : w.at[j][l] = IF j = n /\ l = 0 THEN c ELSE v.at[j][l]
       /\ \A j \in Ino \ {n} : w.node[j] = v.node[j] /\ w.at[j] = v.at[j] /\ w.ent[j] = v.ent[j]
       /\ w.node[n] = nd /\ n \in Ino /\ 0 \in Where
  <2>1. \A j \in Ino \ {n} : w.at[j] = v.at[j]
    BY <1>12, <1>14
  <2> QED BY <1>1, <1>12, <2>1, Ranges DEF n
<1>17. v.at[n] = Blank /\ \A l \in Where : v.at[n][l] = 0
  <2>1. v.node[n] = inode_init
    BY <1>2 DEF MakingDir, n
  <2>2. v.at[n] = Blank
    BY <1>2, <1>13, <2>1, NoBlocks
  <2> QED BY <2>2, Zeros
<1>18. v.ent[n] = Empty
  BY <1>2, <1>13, <1>16 DEF Shown
<1>19. Types(w)
  BY <1>12, <1>13, <1>15, <1>2, <1>16 DEF Types
<1>20. Owned(w.at, w.hand, bm)
  <2>1. Owned(w.at, {}, bm)
    <3>1. /\ c \in Block /\ Owned(v.at, {c}, bm) /\ n \in Ino /\ 0 \in Where /\ v.at[n][0] = 0
          /\ v.at \in [Ino -> [Where -> 0 .. Blocks]] /\ w.at \in [Ino -> [Where -> 0 .. Blocks]]
      BY <1>6, <1>13, <1>14, <1>15, <1>16, <1>17
    <3>2. Placed(v.at, w.at, n, 0, c)
      BY <1>16 DEF Placed
    <3> QED BY <3>1, <3>2, OwnedEnters
  <2> QED BY <1>12, <2>1
<1>21. Laid(w.at, w.node, w.tab, w.live)
  <2>1. Names(w.at[n], w.node[n], w.tab)
    <3>1. \A k \in Where : w.at[n][k] = IF k = 0 THEN c ELSE 0
      BY <1>16, <1>17
    <3>2. nd.sect[Direct] = 0
      BY <1>8, Ranges, DiskConstants
    <3>3. \A k \in 0 .. Direct - 1 : w.at[n][k] = nd.sect[k]
      BY <1>8, <3>1, DiskConstants DEF Where, Last
    <3>4. \A k \in Direct .. Last - 1 : w.at[n][k] = 0
      BY <3>1, DiskConstants DEF Where, Last
    <3> QED BY <1>16, <3>1, <3>2, <3>3, <3>4, Ranges DEF Names
  <2>2. OnlyAt(v.at, w.at, n) /\ OnlyAt(v.node, w.node, n) /\ OnlyIn(v.live, w.live, n)
    BY <1>12, <1>16 DEF OnlyAt, OnlyIn
  <2>3. KeptTables(v.node, v.live, n, v.tab, w.tab)
    BY <1>12 DEF KeptTables
  <2>4. IF n \in w.live THEN Names(w.at[n], w.node[n], w.tab) ELSE w.at[n] = Blank
    BY <1>2, <1>12, <2>1
  <2> QED BY <1>13, <1>16, <2>2, <2>3, <2>4, LaidChanges
<1>22. JustDots(w.ent[n], n, d) /\ w.ent[n][0] = Dots(n, d)
       /\ \A k \in Index \ {0} : w.ent[n][k] = ZeroSector
  BY <1>12, <1>16, Ranges DEF JustDots
<1>23. Shown(w.at, w.ent, w.dirs, dk2.ents)
  <2>1. KeptSectors(v.at, v.dirs, n, dk.ents, dk2.ents)
    <3>1. ASSUME NEW i \in v.dirs, NEW k \in Index, v.at[i][k] # 0
          PROVE  v.at[i][k] # c /\ v.at[i][k] \in Block
      <4>1. i \in Ino /\ k \in Where
        BY <1>14, Ranges
      <4>2. v.at[i][k] \notin {c}
        BY <1>13, <3>1, <4>1 DEF Owned
      <4> QED BY <1>14, <3>1, <4>1, <4>2, Ranges
    <3> QED BY <1>10, <3>1 DEF c, KeptSectors
  <2>2. \A k \in Index : w.ent[n][k] = IF w.at[n][k] = 0 THEN ZeroSector ELSE dk2.ents[w.at[n][k]]
    <3>1. w.at[n][0] = c /\ \A k \in Index \ {0} : w.at[n][k] = 0
      BY <1>16, <1>17, Ranges
    <3>2. c # 0 /\ dk2.ents[c] = Dots(n, d)
      BY <1>6, <1>10 DEF c, n, d
    <3> QED BY <1>22, <3>1, <3>2
  <2>3. OnlyAt(v.at, w.at, n) /\ OnlyAt(v.ent, w.ent, n) /\ OnlyIn(v.dirs, w.dirs, n)
    BY <1>12, <1>16 DEF OnlyAt, OnlyIn
  <2>4. v.dirs \in SUBSET Ino /\ w.dirs \in SUBSET Ino /\ n \in w.dirs
    BY <1>12, <1>14, <1>16
  <2>5. ShownIn(w.at, w.ent, w.dirs, dk2.ents, n)
    BY <2>2, <2>4 DEF ShownIn
  <2>6. Shown(v.at, v.ent, v.dirs, dk.ents) /\ n \in Ino
    BY <1>13, <1>16
  <2> QED BY <2>1, <2>3, <2>4, <2>5, <2>6, ShownChanges
<1>24. Tree(w.ent, w.dirs, w.live, w.pend) /\ Parent(w.ent, n) = d
  <2>1. v.pend = n
    BY <1>2 DEF MakingDir, n
  <2>2. Parent(w.ent, n) = d
    BY <1>22, Ranges DEF Dots, Parent
  <2>3. Tree(w.ent, v.dirs \cup {n}, v.live, n)
    <3>1. /\ v.dirs \in SUBSET Ino /\ n \in Ino /\ n # 0 /\ n \notin v.dirs /\ v.ent[n] = Empty
          /\ Tree(v.ent, v.dirs, v.live, n)
      BY <1>2, <1>13, <1>14, <1>16, <1>18, <2>1 DEF n
    <3>2. OnlyAt(v.ent, w.ent, n)
      BY <1>16 DEF OnlyAt
    <3> QED BY <1>22, <3>1, <3>2, TreeDots
  <2> QED BY <1>12, <2>1, <2>2, <2>3
<1>25. Sizes(w.node, w.ent, w.dirs, w.late)
  <2>1. Cardinality(Filled(w.ent[n])) = 2
    <3>1. Filled(w.ent[n]) = DotPlaces
      BY <1>22, FilledDots
    <3> QED BY <3>1, TwoDots
  <2>2. w.late = -1
    BY <1>2, <1>12 DEF MakingDir, New
  <2>3. w.node[n].size = Cardinality(Filled(w.ent[n])) + (IF n = w.late THEN 1 ELSE 0)
    BY <1>8, <1>16, <2>1, <2>2, Ranges
  <2>4. ASSUME NEW i \in w.dirs, i # n
        PROVE  w.node[i].size = Cardinality(Filled(w.ent[i])) + (IF i = w.late THEN 1 ELSE 0)
    <3>1. i \in v.dirs /\ w.node[i] = v.node[i] /\ w.ent[i] = v.ent[i]
      BY <1>12, <1>14, <1>16, <2>4
    <3> QED BY <1>12, <1>13, <3>1 DEF Sizes
  <2> QED BY <2>3, <2>4 DEF Sizes
<1>26. EmptyFiles(w.node, w.at, w.dirs, w.live)
  <2>1. ASSUME NEW i \in w.live \ w.dirs, w.node[i].size = 0 PROVE w.at[i] = Blank
    <3>1. i \in v.live \ v.dirs /\ w.node[i] = v.node[i] /\ w.at[i] = v.at[i]
      BY <1>12, <1>14, <1>16
    <3> QED BY <1>13, <2>1, <3>1 DEF EmptyFiles
  <2> QED BY <2>1 DEF EmptyFiles
<1>27. Sees(w, y, dk2, bm, co2)
  <2>1. Agrees(w, bm, dk2.ents)
    BY <1>19, <1>20, <1>21, <1>23, <1>24, <1>25, <1>26 DEF Agrees
  <2>2. \A b \in Block, s \in Slot : dk2.ents[b][s].type = "unknown" => dk2.ents[b][s] = Free
    <3>1. \A s \in Slot : Dots(n, d)[s].type = "unknown" => Dots(n, d)[s] = Free
      BY <1>1, DotsSector DEF n, d
    <3> QED BY <1>1, <1>10, <3>1 DEF Sees, n, d, c
  <2>3. \A j \in Ino : w.node[j] = IF j \in Seen(y) THEN co2[j] ELSE dk2.inode[j]
    <3>1. Seen(y) = Seen(x) /\ n \in Seen(x)
      BY DEF Same, Seen, n
    <3> QED BY <1>1, <1>9, <1>10, <1>16, <3>1 DEF Sees, n
  <2> QED BY <1>1, <1>9, <1>10, <2>1, <2>2, <2>3 DEF Sees, Same, d, n
<1>28. MadeDir(w, y, dk2, im)
  <2>1. New(w, y, dk2, im)
    <3>1. New(v, y, dk, im)
      BY <1>2, SameCall DEF MakingDir
    <3> QED BY <1>10, <1>12, <3>1 DEF New
  <2>2. Ready(w, y)
    BY <1>2, <1>12, <1>24 DEF Ready, Same, MakingDir, n, d
  <2>3. y.todo = Load(y.ino, Seek(y))
    BY <1>4, <1>5, SameLists DEF Same, n
  <2>4. Synced(w, dk2, {} \cup {y.ino})
    BY <1>2, <1>10, <1>16 DEF MakingDir, Synced, Same, n
  <2>5. Syncs(w, y, dk2, y.ino, Seek(y), {})
    BY <2>3, <2>4 DEF Syncs
  <2> QED BY <1>2, <1>10, <1>12, <2>1, <2>2, <2>5 DEF MakingDir, MadeDir, Same
<1> QED BY <1>4, <1>5, <1>27, <1>28 DEF Sound, Phase

\* An inode with another size and another block
NodeIs(nd, nd0, z, k, c) ==
    /\ nd \in Node /\ nd.size = z
    /\ \A l \in 0 .. Direct : nd.sect[l] = IF l = k THEN c ELSE nd0.sect[l]

LEMMA NodeChanges ==
  ASSUME NEW nd0 \in Node, NEW k \in 0 .. Direct, NEW c \in 0 .. Blocks, NEW z \in Int
  PROVE  NodeIs([nd0 EXCEPT !.size = z, !.sect[k] = c], nd0, z, k, c)
<1>1. PICK z0 \in Int, f \in [0 .. Direct -> 0 .. Blocks] : nd0 = [size |-> z0, sect |-> f]
  BY DEF Node
<1>2. PICK g : g = [f EXCEPT ![k] = c]
  OBVIOUS
<1>3. g \in [0 .. Direct -> 0 .. Blocks] /\ \A l \in 0 .. Direct : g[l] = IF l = k THEN c ELSE f[l]
  BY <1>2
<1>4. PICK h : h = [nd0 EXCEPT !.size = z, !.sect[k] = c]
  OBVIOUS
<1>6. h \in Node /\ h.size = z /\ h.sect = g
  <2>1. [nd0 EXCEPT !.size = z, !.sect[k] = c] = [nd0 EXCEPT !.size = z, !.sect = [nd0.sect EXCEPT ![k] = c]]
    BY <1>1
  <2>2. nd0.sect = f
    BY <1>1
  <2>3. [nd0 EXCEPT !.size = z, !.sect[k] = c] = [nd0 EXCEPT !.size = z, !.sect = g]
    BY <1>2, <2>1, <2>2
  <2>4. h = [nd0 EXCEPT !.size = z, !.sect = g]
    BY <1>4, <2>3
  <2> HIDE <1>1, <1>2, <1>4
  <2> QED BY <1>3, <2>4 DEF Node
<1>5. nd0.sect = f
  BY <1>1
<1>7. NodeIs(h, nd0, z, k, c)
  <2> HIDE <1>1, <1>2, <1>4
  <2> QED BY <1>3, <1>5, <1>6 DEF NodeIs
<1> QED BY <1>4, <1>7

\* file_write enters the first block.
DataWritten(x, co, co2) ==
    \E nd : nd = [co[x.ino] EXCEPT !.size = 1, !.sect[0] = x.lba] /\ co2 = [co EXCEPT ![x.ino] = nd]

LEMMA WritesData ==
  ASSUME NEW v, NEW x, NEW dk, NEW im, NEW bm, NEW co, Sound(v, x, dk, im, bm, co),
         x.todo # <<>>, Head(x.todo).do = "data", NEW y, Same(x, y), y.todo = Tail(x.todo),
         NEW co2, DataWritten(x, co, co2)
  PROVE  y.todo # <<>> /\ \E w : Sound(w, y, dk, im, bm, co2)
<1>nd. PICK nd : nd = [co[x.ino] EXCEPT !.size = 1, !.sect[0] = x.lba] /\ co2 = [co EXCEPT ![x.ino] = nd]
  BY DEF DataWritten
<1> USE <1>nd
<1> DEFINE n == x.ino
           c == x.lba
<1>1. /\ Sees(v, x, dk, bm, co) /\ Phase(v, x, dk, im) /\ x.dir \in Ino /\ n \in Ino
      /\ Agrees(v, bm, dk.ents) /\ co \in [Ino -> Node]
  BY DEF Sound, Sees
<1>2. Appends(v, x, dk, im) /\ n \notin v.dirs /\ n \in v.live
  <2>1. Appends(v, x, dk, im)
    BY <1>1, Heads
  <2> QED BY <2>1 DEF Appends
<1>3. n \in Nat /\ <<>> \in Seq(Steps)
  BY <1>1, EndList
<1>4. PICK t \in Seq(Steps) : t = Load(n, <<>>) /\ t # <<>> /\ Head(t) = Step("load", n)
  BY <1>3, LoadList
<1>5. /\ x.todo = Cons(Step("data", 0), t) /\ v.hand = {c} /\ y.todo = t
      /\ v.at[n] = Blank /\ Synced(v, dk, {})
  <2>1. PICK u \in Seq(Steps) : u = Cons(Step("data", 0), t) /\ Tail(u) = t
    BY StepKinds, Conses
  <2>2. Head(Cons(Step("alloc", 0), u)) = Step("alloc", 0)
    BY StepKinds, Conses
  <2>3. Head(Cons(Step("alloc", 0), u)).do = "alloc"
    BY <2>2, StepKinds
  <2>4. ~Syncs(v, x, dk, n, <<>>, {})
    <3>1. Head(Load(n, <<>>)) = Step("load", n) /\ Head(Store(n, <<>>)) = Step("store", n)
      BY <1>3, LoadList
    <3> QED BY <1>3, <3>1, StepKinds DEF Syncs
  <2>5. x.todo = u /\ v.hand = {c} /\ v.at[n] = Blank /\ Synced(v, dk, {})
    BY <1>2, <1>4, <2>1, <2>3, <2>4 DEF Appends
  <2> QED BY <2>1, <2>5
<1>6. c \in Block /\ c \in 0 .. Blocks /\ c # 0
  BY <1>1, <1>5, Ranges DEF Agrees, Types
<1>7. co[n] = v.node[n] /\ v.node[n] \in Node
  BY <1>1 DEF Sees, Seen
<1>8. NodeIs(nd, v.node[n], 1, 0, c) /\ nd.size = 1
  <2>1. NodeIs([v.node[n] EXCEPT !.size = 1, !.sect[0] = c], v.node[n], 1, 0, c)
    <3>1. v.node[n] \in Node /\ 0 \in 0 .. Direct /\ c \in 0 .. Blocks /\ 1 \in Int
      BY <1>6, <1>7, Ranges
    <3> HIDE DEF n, c
    <3> QED BY <3>1, NodeChanges
  <2> QED BY <1>7, <2>1 DEF NodeIs
<1>9. co2 \in [Ino -> Node] /\ co2[n] = nd /\ \A j \in Ino \ {n} : co2[j] = co[j]
  BY <1>1, <1>8 DEF NodeIs
<1>10. PICK w : w = [node |-> [j \in Ino |-> IF j = n THEN nd ELSE v.node[j]], tab |-> v.tab,
                     live |-> v.live, dirs |-> v.dirs,
                     at |-> [j \in Ino |-> [l \in Where |-> IF j = n /\ l = 0 THEN c ELSE v.at[j][l]]],
                     ent |-> v.ent, hand |-> {}, pend |-> v.pend, late |-> v.late]
  OBVIOUS
<1>11. /\ w.tab = v.tab /\ w.live = v.live /\ w.dirs = v.dirs
       /\ w.hand = {} /\ w.pend = v.pend /\ w.late = v.late /\ w.ent = v.ent
  BY <1>10
<1>a. /\ w.node = [j \in Ino |-> IF j = n THEN nd ELSE v.node[j]]
       /\ w.at = [j \in Ino |-> [l \in Where |-> IF j = n /\ l = 0 THEN c ELSE v.at[j][l]]]
  BY <1>10
<1> HIDE <1>10
<1> HIDE DEF n, c
<1>12. /\ Types(v) /\ Owned(v.at, {c}, bm) /\ Laid(v.at, v.node, v.tab, v.live)
       /\ Shown(v.at, v.ent, v.dirs, dk.ents) /\ Tree(v.ent, v.dirs, v.live, v.pend)
       /\ Sizes(v.node, v.ent, v.dirs, v.late) /\ EmptyFiles(v.node, v.at, v.dirs, v.live)
  BY <1>1, <1>5 DEF Agrees
<1>13. /\ v.node \in [Ino -> Node] /\ v.at \in [Ino -> [Where -> 0 .. Blocks]]
       /\ v.live \in SUBSET Ino /\ v.dirs \in SUBSET Ino /\ v.dirs \subseteq v.live
       /\ n \in Ino /\ nd \in Node
  BY <1>1, <1>8, <1>12 DEF Types, NodeIs, n
<1>14. /\ w.at \in [Ino -> [Where -> 0 .. Blocks]] /\ w.node \in [Ino -> Node]
       /\ Placed(v.at, w.at, n, 0, c)
       /\ \A j \in Ino \ {n} : w.node[j] = v.node[j] /\ w.at[j] = v.at[j]
       /\ w.node[n] = nd
  BY <1>6, <1>a, <1>13 DEF Placed
<1>15. \A l \in Where : v.at[n][l] = 0 /\ w.at[n][l] = IF l = 0 THEN c ELSE 0
  BY <1>5, <1>13, <1>14, Zeros DEF Placed
<1>16. Types(w)
  BY <1>11, <1>12, <1>14 DEF Types
<1>17. Owned(w.at, w.hand, bm)
  <2>1. c \in Block /\ 0 \in Where /\ v.at[n][0] = 0
    BY <1>6, <1>15, Ranges
  <2>2. Owned(w.at, {}, bm)
    BY <1>12, <1>13, <1>14, <2>1, OwnedEnters
  <2> QED BY <1>11, <2>2
<1>18. Laid(w.at, w.node, w.tab, w.live)
  <2>1. Names(w.at[n], w.node[n], w.tab)
    <3>1. \A l \in 0 .. Direct : nd.sect[l] = IF l = 0 THEN c ELSE v.node[n].sect[l]
      BY <1>8 DEF NodeIs
    <3>2. Names(v.at[n], v.node[n], v.tab)
      BY <1>2, <1>12, <1>13 DEF Laid
    <3>3. v.node[n].sect[Direct] = 0 /\ \A l \in 0 .. Direct - 1 : v.node[n].sect[l] = 0
      <4>1. ASSUME NEW l \in 0 .. Direct - 1 PROVE v.node[n].sect[l] = 0
        <5>1. l \in Where
          BY DiskConstants DEF Where, Last
        <5> QED BY <1>15, <3>2, <5>1 DEF Names
      <4> QED BY <1>15, <3>2, <4>1, Ranges DEF Names
    <3>4. nd.sect[Direct] = 0 /\ \A l \in 0 .. Direct - 1 : nd.sect[l] = IF l = 0 THEN c ELSE 0
      BY <3>1, <3>3, DiskConstants
    <3>5. \A l \in 0 .. Direct - 1 : l \in Where
      BY DiskConstants DEF Where, Last
    <3>6. \A l \in Direct .. Last - 1 : l \in Where /\ l # 0
      BY DiskConstants DEF Where, Last
    <3> QED BY <1>14, <1>15, <3>4, <3>5, <3>6, Ranges DEF Names
  <2>2. OnlyAt(v.at, w.at, n) /\ OnlyAt(v.node, w.node, n) /\ OnlyIn(v.live, w.live, n)
    BY <1>11, <1>14 DEF OnlyAt, OnlyIn
  <2>3. KeptTables(v.node, v.live, n, v.tab, w.tab)
    BY <1>11 DEF KeptTables
  <2>4. n \in w.live
    BY <1>2, <1>11 DEF n
  <2> QED BY <1>12, <1>13, <2>1, <2>2, <2>3, <2>4, LaidChanges
<1>19. Shown(w.at, w.ent, w.dirs, dk.ents)
  <2>1. n \notin v.dirs
    BY <1>2 DEF n
  <2>2. \A i \in v.dirs : i \in Ino /\ w.at[i] = v.at[i]
    BY <1>13, <1>14, <2>1
  <2> QED BY <1>11, <1>12, <2>2 DEF Shown
<1>20. Sizes(w.node, w.ent, w.dirs, w.late)
  <2>1. \A i \in v.dirs : w.node[i] = v.node[i]
    BY <1>2, <1>13, <1>14 DEF n
  <2> QED BY <1>11, <1>12, <2>1 DEF Sizes
<1>21. EmptyFiles(w.node, w.at, w.dirs, w.live)
  <2>1. ASSUME NEW i \in w.live \ w.dirs, w.node[i].size = 0 PROVE w.at[i] = Blank
    <3>1. i # n
      <4>1. w.node[n].size = 1
        BY <1>8, <1>14
      <4> QED BY <2>1, <4>1
    <3>2. i \in v.live \ v.dirs /\ w.node[i] = v.node[i] /\ w.at[i] = v.at[i]
      BY <1>11, <1>13, <1>14, <3>1
    <3> QED BY <1>12, <2>1, <3>2 DEF EmptyFiles
  <2> QED BY <2>1 DEF EmptyFiles
<1>22. Sees(w, y, dk, bm, co2)
  <2>1. Agrees(w, bm, dk.ents)
    BY <1>11, <1>12, <1>16, <1>17, <1>18, <1>19, <1>20, <1>21 DEF Agrees
  <2>2. \A j \in Ino : w.node[j] = IF j \in Seen(y) THEN co2[j] ELSE dk.inode[j]
    <3>1. Seen(y) = Seen(x) /\ n \in Seen(x)
      BY DEF Same, Seen, n
    <3> QED BY <1>1, <1>9, <1>14, <3>1 DEF Sees, n
  <2> QED BY <1>1, <1>9, <2>1, <2>2 DEF Sees, Same, n
<1>23. Appends(w, y, dk, im)
  <2>1. Synced(w, dk, {} \cup {n})
    BY <1>5, <1>14 DEF Synced
  <2>2. y.ino = n /\ y.todo = Load(n, <<>>)
    BY <1>4, <1>5 DEF Same, n
  <2>3. Syncs(w, y, dk, y.ino, <<>>, {})
    BY <2>1, <2>2 DEF Syncs
  <2> QED BY <1>2, <1>11, <2>3 DEF Appends, Same
<1> QED BY <1>4, <1>5, <1>22, <1>23 DEF Sound, Phase

-----------------------------------------------------------------------------
\* Lists of steps, as the actions write them
LEMMA TwoSteps == ASSUME NEW a \in Steps, NEW b \in Steps PROVE <<a, b>> = <<a>> \o <<b>>
<1>1. PICK s : s = <<a>> \o <<b>>
  OBVIOUS
<1>2. s \in Seq(Steps) /\ Len(s) = 2 /\ s[1] = a /\ s[2] = b
  BY <1>1
<1>3. s = [i \in 1 .. 2 |-> s[i]]
  BY <1>1
<1>4. <<a, b>> = [i \in 1 .. 2 |-> <<a, b>>[i]]
  OBVIOUS
<1>5. \A i \in 1 .. 2 : <<a, b>>[i] = s[i]
  BY <1>2
<1> HIDE <1>1
<1>6. s = <<a, b>>
 BY <1>2, <1>3, <1>4, <1>5
<1> QED BY <1>1, <1>6

LEMMA Joined ==
  ASSUME NEW s \in Seq(Steps), NEW t \in Seq(Steps), NEW u \in Seq(Steps)
  PROVE  (s \o t) \o u = s \o (t \o u) /\ s \o t \in Seq(Steps) /\ t \o <<>> = t
OBVIOUS

LEMMA Before ==
  ASSUME NEW a \in Steps, NEW b \in Steps, NEW t \in Seq(Steps)
  PROVE  <<a, b>> \o t = Cons(a, Cons(b, t)) /\ <<a, b>> \in Seq(Steps) /\ <<a>> \in Seq(Steps)
<1>1. <<a>> \in Seq(Steps) /\ <<b>> \in Seq(Steps)
  OBVIOUS
<1>2. <<a, b>> = <<a>> \o <<b>>
  BY TwoSteps
<1>3. (<<a>> \o <<b>>) \o t = <<a>> \o (<<b>> \o t) /\ <<a>> \o <<b>> \in Seq(Steps)
  BY <1>1, Joined
<1> QED BY <1>1, <1>2, <1>3 DEF Cons

LEMMA BeforeThree ==
  ASSUME NEW a \in Steps, NEW b \in Steps, NEW c \in Steps, NEW t \in Seq(Steps)
  PROVE  (<<a, b>> \o <<c>>) \o t = Cons(a, Cons(b, Cons(c, t)))
<1>1. <<c>> \in Seq(Steps) /\ <<a, b>> \in Seq(Steps)
  BY Before
<1>2. (<<a, b>> \o <<c>>) \o t = <<a, b>> \o Cons(c, t)
  BY <1>1, Joined DEF Cons
<1>3. Cons(c, t) \in Seq(Steps)
  BY Conses
<1> QED BY <1>2, <1>3, Before

LEMMA SyncList ==
  ASSUME NEW i \in Nat, NEW t \in Seq(Steps)
  PROVE  inode_sync(i) \o t = Load(i, t) /\ inode_sync(i) \in Seq(Steps) /\ Load(i, t) \in Seq(Steps)
<1>1. Step("load", i) \in Steps /\ Step("store", i) \in Steps
  BY StepKinds
<1> QED BY <1>1, Before, LoadList DEF inode_sync, Load

\* The calls, as they begin
LEMMA MkdirList ==
  ASSUME NEW x, x.op = "mkdir", x.dir \in Ino, x.ino \in Ino
  PROVE  mkdir_steps(x.dir, x.ino)
           = Cons(Step("alloc", 0), Cons(Step("dots", 0), Load(x.ino, Seek(x))))
<1>1. x.dir \in Nat /\ x.ino \in Nat /\ Seek(x) \in Seq(Steps)
  BY EndList
<1> DEFINE a == <<Step("alloc", 0), Step("dots", 0)>>
           b == inode_sync(x.ino)
           c == <<Step("find", 0)>>
           d == inode_sync(x.dir)
<1>2. /\ Step("alloc", 0) \in Steps /\ Step("dots", 0) \in Steps /\ Step("find", 0) \in Steps
      /\ <<>> \in Seq(Steps)
  BY StepKinds, Conses
<1>3. a \in Seq(Steps) /\ c \in Seq(Steps)
  BY <1>2, Before
<1>4. d \o <<>> = Load(x.dir, <<>>) /\ d \in Seq(Steps) /\ b \in Seq(Steps)
  BY <1>1, <1>2, SyncList
<1>5. d = Load(x.dir, <<>>)
  <2>1. d \o <<>> = d
    BY <1>3, <1>4, Joined
  <2> QED BY <1>4, <2>1
<1>6. c \o d = Seek(x)
  BY <1>5 DEF Seek, Cons, End
<1>7. mkdir_steps(x.dir, x.ino) = ((a \o b) \o c) \o d
  BY DEF mkdir_steps
<1> HIDE DEF a, b, c, d
<1>8. ((a \o b) \o c) \o d = a \o (b \o (c \o d))
  <2>1. a \in Seq(Steps) /\ b \in Seq(Steps) /\ c \in Seq(Steps) /\ d \in Seq(Steps)
    BY <1>3, <1>4
  <2>2. c \o d \in Seq(Steps) /\ (a \o b) \o (c \o d) = a \o (b \o (c \o d))
    BY <2>1
  <2>3. a \o b \in Seq(Steps) /\ ((a \o b) \o c) \o d = (a \o b) \o (c \o d)
    BY <2>1
  <2> QED BY <2>2, <2>3
<1>9. b \o Seek(x) = Load(x.ino, Seek(x)) /\ Load(x.ino, Seek(x)) \in Seq(Steps)
  BY <1>1, SyncList DEF b
<1>10. PICK t \in Seq(Steps) : t = Load(x.ino, Seek(x))
  BY <1>9
<1>11. a \o t = Cons(Step("alloc", 0), Cons(Step("dots", 0), t))
  BY <1>2, Before DEF a
<1> QED BY <1>6, <1>7, <1>8, <1>9, <1>10, <1>11

LEMMA CreateList ==
  ASSUME NEW x, x.op = "create", x.dir \in Ino, x.ino \in Ino
  PROVE  file_create_steps(x.dir, x.ino) = Seek(x)
<1>1. x.dir \in Nat /\ x.ino \in Nat
  BY EndList
<1> DEFINE a == <<Step("find", 0)>>
           b == inode_sync(x.dir)
           c == inode_sync(x.ino)
           d == <<Step("ibits", 0)>>
<1>2. Step("find", 0) \in Steps /\ Step("ibits", 0) \in Steps /\ <<>> \in Seq(Steps)
  BY StepKinds, Conses
<1>3. a \in Seq(Steps) /\ d \in Seq(Steps) /\ Cons(Step("ibits", 0), <<>>) = d
  <2>1. d \in Seq(Steps)
    BY <1>2, Before
  <2>2. d \o <<>> = d
    BY <2>1, Joined
  <2> QED BY <1>2, <2>1, <2>2, Before DEF Cons
<1>4. PICK t \in Seq(Steps) : t = Load(x.ino, d)
  BY <1>1, <1>3, SyncList
<1>5. c \o d = t /\ c \in Seq(Steps) /\ b \o t = Load(x.dir, t) /\ b \in Seq(Steps)
  BY <1>1, <1>3, <1>4, SyncList
<1>6. file_create_steps(x.dir, x.ino) = ((a \o b) \o c) \o d
  BY DEF file_create_steps
<1>7. End(x) = Load(x.dir, t)
  BY <1>3, <1>4 DEF End
<1>b. Seek(x) = a \o End(x)
  BY DEF Seek, Cons
<1> HIDE DEF a, b, c, d
<1>8. ((a \o b) \o c) \o d = a \o (b \o (c \o d))
  <2>1. a \in Seq(Steps) /\ b \in Seq(Steps) /\ c \in Seq(Steps) /\ d \in Seq(Steps)
    BY <1>3, <1>5
  <2> QED BY <2>1
<1> QED BY <1>5, <1>6, <1>7, <1>8, <1>b

LEMMA AppendList ==
  ASSUME NEW i \in Nat
  PROVE  <<Step("alloc", 0), Step("data", 0)>> \o inode_sync(i)
           = Cons(Step("alloc", 0), Cons(Step("data", 0), Load(i, <<>>)))
<1>1. Step("alloc", 0) \in Steps /\ Step("data", 0) \in Steps /\ <<>> \in Seq(Steps)
  BY StepKinds, Conses
<1>2. inode_sync(i) \o <<>> = Load(i, <<>>) /\ inode_sync(i) \in Seq(Steps)
  BY <1>1, SyncList
<1>3. inode_sync(i) = Load(i, <<>>)
  BY <1>1, <1>2, Joined
<1>4. PICK t \in Seq(Steps) : t = inode_sync(i)
  BY <1>2
<1>5. <<Step("alloc", 0), Step("data", 0)>> \o t = Cons(Step("alloc", 0), Cons(Step("data", 0), t))
  BY <1>1, Before
<1> QED BY <1>3, <1>4, <1>5

LEMMA RemoveList ==
  ASSUME NEW x, x.op \in {"unlink", "rmdir"}, x.dir \in Ino, x.ino \in Ino
  PROVE  /\ (<<Step("delete", 0)>> \o inode_sync(x.dir)) \o <<Step("release", 0)>>
              = Cons(Step("delete", 0), End(x))
<1>1. x.dir \in Nat
  BY EndList
<1> DEFINE a == <<Step("delete", 0)>>
           b == inode_sync(x.dir)
           c == <<Step("release", 0)>>
<1>2. Step("delete", 0) \in Steps /\ Step("release", 0) \in Steps /\ <<>> \in Seq(Steps)
  BY StepKinds, Conses
<1>3. a \in Seq(Steps) /\ c \in Seq(Steps) /\ Cons(Step("release", 0), <<>>) = c
  <2>1. c \in Seq(Steps)
    BY <1>2, Before
  <2>2. c \o <<>> = c
    BY <2>1, Joined
  <2> QED BY <1>2, <2>1, <2>2, Before DEF Cons
<1>4. b \o c = Load(x.dir, c) /\ b \in Seq(Steps)
  BY <1>1, <1>3, SyncList
<1>5. End(x) = Load(x.dir, c)
  BY <1>3 DEF End
<1>6. (a \o b) \o c = a \o (b \o c)
  BY <1>3, <1>4, Joined
<1> QED BY <1>4, <1>5, <1>6 DEF Cons

-----------------------------------------------------------------------------
\* The same call, elsewhere in its directory
Like(x, y) == DOMAIN y = DOMAIN Idle /\ y.op = x.op /\ y.dir = x.dir /\ y.ino = x.ino /\ y.ent = x.ent

LEMMA LikeCall ==
  ASSUME NEW v, NEW x, NEW y, NEW dk, NEW im, Like(x, y)
  PROVE  /\ New(v, x, dk, im) => New(v, y, dk, im)
         /\ Old(v, x, dk, im) => Old(v, y, dk, im)
         /\ Ready(v, x) => Ready(v, y)
         /\ End(y) = End(x) /\ Seek(y) = Seek(x) /\ Behind(y) = Behind(x)
BY DEF Like, New, Old, Ready, End, Seek, Behind

\* What a search for a free place is, besides
LEMMA Finding ==
  ASSUME NEW v, NEW x, NEW dk, NEW im, NEW bm, NEW co, Sound(v, x, dk, im, bm, co),
         x.todo # <<>>, Head(x.todo).do = "find", x.idx < Last
  PROVE  /\ Sees(v, x, dk, bm, co) /\ Finds(v, x, dk, im) /\ Agrees(v, bm, dk.ents)
         /\ x.todo = Seek(x) /\ x.todo # <<>> /\ Tail(x.todo) = End(x) /\ End(x) # <<>>
         /\ End(x) \in Seq(Steps) /\ Enters(x) \in Seq(Steps)
         /\ x.idx \in Index /\ x.dir \in Ino /\ x.ino \in Ino
         /\ x.dir \in v.dirs /\ x.dir \in v.live /\ v.node[x.dir] \in Node
         /\ co[x.dir] = v.node[x.dir] /\ Names(v.at[x.dir], v.node[x.dir], v.tab)
<1>1. /\ Sees(v, x, dk, bm, co) /\ Phase(v, x, dk, im) /\ x.dir \in Ino /\ x.ino \in Ino
      /\ Agrees(v, bm, dk.ents) /\ co \in [Ino -> Node] /\ co[x.dir] = v.node[x.dir]
  BY DEF Sound, Sees, Seen
<1>2. Finds(v, x, dk, im)
  BY <1>1, Heads
<1>3. /\ x.todo = Seek(x) /\ Seek(x) # <<>> /\ Tail(Seek(x)) = End(x) /\ End(x) # <<>>
      /\ End(x) \in Seq(Steps) /\ Enters(x) \in Seq(Steps)
  BY <1>1, <1>2, EndList DEF Finds
<1>4. x.idx \in Index
  BY <1>2, Ranges DEF Finds, Searching
<1>5. x.dir \in v.dirs /\ x.dir \in v.live
  BY <1>1, <1>2 DEF Finds, Searching, New, Agrees, Types
<1>6. Names(v.at[x.dir], v.node[x.dir], v.tab)
  BY <1>1, <1>5 DEF Agrees, Laid
<1>7. v.node[x.dir] \in Node
  BY <1>1
<1> QED BY <1>1, <1>2, <1>3, <1>4, <1>5, <1>6, <1>7

\* A block is missing: it is to be allocated, and entered.
Lacking(x, co) ==
    \/ x.idx < Direct /\ co[x.dir].sect[x.idx] = 0
    \/ x.idx >= Direct /\ x.tier = <<>> /\ co[x.dir].sect[Direct] = 0
    \/ x.idx >= Direct /\ x.tier # <<>> /\ x.tier[x.idx - Direct + 1] = 0
BlockAt(x, co, b) ==
    /\ x.idx >= Direct => x.tier # <<>>
    /\ b = IF x.idx < Direct THEN co[x.dir].sect[x.idx] ELSE x.tier[x.idx - Direct + 1]

LEMMA FindsNone ==
  ASSUME NEW v, NEW x, NEW dk, NEW im, NEW bm, NEW co, Sound(v, x, dk, im, bm, co),
         x.todo # <<>>, Head(x.todo).do = "find", x.idx < Last, Lacking(x, co),
         NEW y, Same(x, y),
         y.todo = Cons(Step("alloc", 0), Cons(Step("zero", 0), Enters(x)))
  PROVE  y.todo # <<>> /\ Sound(v, y, dk, im, bm, co)
<1> USE DEF Lacking
<1>1. /\ Sees(v, x, dk, bm, co) /\ Finds(v, x, dk, im) /\ Enters(x) \in Seq(Steps)
      /\ x.idx \in Index /\ co[x.dir] = v.node[x.dir] /\ Names(v.at[x.dir], v.node[x.dir], v.tab)
  BY Finding
<1>2. Searching(v, x, dk, im) /\ v.tab = dk.tab /\ v.hand = {}
  BY <1>1 DEF Finds
<1>3. v.at[x.dir][Missing(x)] = 0
  <2>1. CASE x.idx < Direct /\ co[x.dir].sect[x.idx] = 0
    <3>1. Missing(x) = x.idx /\ x.idx \in 0 .. Direct - 1
      BY <1>1, <2>1, DiskConstants DEF Missing, Index
    <3> QED BY <1>1, <2>1, <3>1 DEF Names
  <2>2. CASE x.idx >= Direct /\ x.tier = <<>> /\ co[x.dir].sect[Direct] = 0
    BY <1>1, <2>2 DEF Missing, Names
  <2>3. CASE x.idx >= Direct /\ x.tier # <<>> /\ x.tier[x.idx - Direct + 1] = 0
    <3>1. Missing(x) = x.idx /\ x.idx \in Direct .. Last - 1
      BY <1>1, <2>3, DiskConstants DEF Missing, Index, Last
    <3>2. v.node[x.dir].sect[Direct] # 0 /\ x.tier = v.tab[v.node[x.dir].sect[Direct]]
      BY <1>2, <2>3 DEF Searching, InHand
    <3> QED BY <1>1, <2>3, <3>1, <3>2, Zenon DEF Names
  <2> QED BY <2>1, <2>2, <2>3
<1>4. PICK t \in Seq(Steps) : t = Enters(x)
  BY <1>1
<1>5. y.todo # <<>>
  <2>1. PICK u \in Seq(Steps) : u = Cons(Step("zero", 0), t)
    BY StepKinds, Conses
  <2>2. Cons(Step("alloc", 0), u) # <<>>
    BY StepKinds, Conses
  <2> QED BY <1>4, <2>1, <2>2
<1>6. Searching(v, y, dk, im)
  <2>1. New(v, y, dk, im) /\ Ready(v, y)
    BY <1>2, SameCall DEF Searching
  <2> QED BY <1>2, <2>1 DEF Searching, Same, Behind, InHand
<1>7. Missing(y) = Missing(x) /\ Enters(y) = Enters(x) /\ y.dir = x.dir /\ y.idx = x.idx
  BY SameLists DEF Missing, Enters, Same
<1>8. Adds(v, y, dk, im)
  BY <1>2, <1>3, <1>6, <1>7 DEF Adds
<1>9. Sees(v, y, dk, bm, co)
  BY <1>1, SeesOn DEF Same
<1> QED BY <1>5, <1>8, <1>9 DEF Sound, Phase

\* The table of indirect blocks is read.
LEMMA FindsTable ==
  ASSUME NEW v, NEW x, NEW dk, NEW im, NEW bm, NEW co, Sound(v, x, dk, im, bm, co),
         x.todo # <<>>, Head(x.todo).do = "find", x.idx < Last,
         x.idx >= Direct, co[x.dir].sect[Direct] # 0,
         NEW y, Like(x, y), y.idx = x.idx, y.todo = x.todo, y.tier = dk.tab[co[x.dir].sect[Direct]]
  PROVE  Sound(v, y, dk, im, bm, co)
<1>1. /\ Sees(v, x, dk, bm, co) /\ Finds(v, x, dk, im) /\ co[x.dir] = v.node[x.dir]
  BY Finding
<1>2. Searching(v, x, dk, im) /\ v.tab = dk.tab /\ v.hand = {}
  BY <1>1 DEF Finds
<1>3. Sees(v, y, dk, bm, co)
  BY <1>1, SeesOn DEF Like
<1>4. InHand(v, y, dk)
  BY <1>1, <1>2 DEF InHand, Like
<1>5. New(v, y, dk, im) /\ Ready(v, y) /\ Seek(y) = Seek(x) /\ Behind(y) = Behind(x)
  BY <1>2, LikeCall DEF Searching
<1>6. Searching(v, y, dk, im)
  BY <1>2, <1>4, <1>5 DEF Searching, Like
<1>7. Finds(v, y, dk, im)
  BY <1>1, <1>5, <1>6 DEF Finds, Untouched, Roomy, Like
<1> QED BY <1>3, <1>7 DEF Sound, Phase

\* The block that is read
LEMMA Reads ==
  ASSUME NEW v, NEW x, NEW dk, NEW im, NEW bm, NEW co, Sound(v, x, dk, im, bm, co),
         x.todo # <<>>, Head(x.todo).do = "find", x.idx < Last,
         NEW b, BlockAt(x, co, b), b # 0
  PROVE  b = v.at[x.dir][x.idx] /\ b \in Block /\ v.ent[x.dir][x.idx] = dk.ents[b]
<1> USE DEF BlockAt
<1>1. /\ Sees(v, x, dk, bm, co) /\ Finds(v, x, dk, im) /\ Agrees(v, bm, dk.ents)
      /\ x.idx \in Index /\ co[x.dir] = v.node[x.dir] /\ Names(v.at[x.dir], v.node[x.dir], v.tab)
      /\ x.dir \in v.dirs /\ x.dir \in Ino
  BY Finding
<1>2. b = v.at[x.dir][x.idx]
  <2>1. CASE x.idx < Direct
    <3>1. x.idx \in 0 .. Direct - 1
      BY <1>1, <2>1, DiskConstants DEF Index
    <3> QED BY <1>1, <2>1, <3>1 DEF Names
  <2>2. CASE ~(x.idx < Direct)
    <3>1. x.idx \in Direct .. Last - 1
      BY <1>1, <2>2, DiskConstants DEF Index, Last
    <3>2. v.node[x.dir].sect[Direct] # 0 /\ x.tier = v.tab[v.node[x.dir].sect[Direct]]
      BY <1>1, <3>1, DiskConstants DEF Finds, Searching, InHand
    <3> QED BY <1>1, <2>2, <3>1, <3>2, Zenon DEF Names
  <2> QED BY <2>1, <2>2
<1>3. b \in Block
  <2>1. v.at[x.dir][x.idx] \in 0 .. Blocks
    BY <1>1, Ranges DEF Agrees, Types
  <2> QED BY <1>2, <2>1, Ranges
<1>4. v.ent[x.dir][x.idx] = dk.ents[b]
  BY <1>1, <1>2 DEF Agrees, Shown
<1> QED BY <1>2, <1>3, <1>4

\* The block is full: the next one is searched,
LEMMA FindsFull ==
  ASSUME NEW v, NEW x, NEW dk, NEW im, NEW bm, NEW co, Sound(v, x, dk, im, bm, co),
         x.todo # <<>>, Head(x.todo).do = "find", x.idx < Last,
         NEW b, BlockAt(x, co, b), b # 0, dk.ents[b][1].type # "unknown",
         NEW y, Like(x, y), y.idx = x.idx + 1, y.todo = x.todo, y.tier = x.tier
  PROVE  Sound(v, y, dk, im, bm, co)
<1>1. Sees(v, x, dk, bm, co) /\ Finds(v, x, dk, im) /\ x.idx \in Index
  BY Finding
<1>2. Searching(v, x, dk, im) /\ v.tab = dk.tab /\ v.hand = {}
  BY <1>1 DEF Finds
<1>3. Sees(v, y, dk, bm, co)
  BY <1>1, SeesOn DEF Like
<1>a. b = v.at[x.dir][x.idx] /\ b \in Block
  BY Reads
<1>4. Untouched(v, x, dk)
  <2>1. v.ent[x.dir][x.idx] = dk.ents[b]
    <3>1. Shown(v.at, v.ent, v.dirs, dk.ents) /\ x.dir \in v.dirs
      BY Finding DEF Agrees
    <3>2. b # 0
      OBVIOUS
    <3> QED BY <1>1, <1>a, <3>1, <3>2 DEF Shown
  <2>2. v.ent[x.dir][x.idx] # ZeroSector
    <3>1. ZeroSector[1] = Free /\ Free.type = "unknown"
      BY Ranges, Zeros DEF Free
    <3>2. dk.ents[b][1].type # "unknown"
      OBVIOUS
    <3> QED BY <2>1, <3>1, <3>2
  <2> QED BY <1>1, <2>2 DEF Finds, Roomy
<1>5. New(v, y, dk, im) /\ Ready(v, y) /\ Seek(y) = Seek(x) /\ Behind(y) = Behind(x)
  BY <1>2, LikeCall DEF Searching
<1>6. y.idx \in 0 .. Last /\ (x.idx >= Direct => y.idx >= Direct)
  <2>1. x.idx \in 0 .. Last - 1 /\ Last \in Nat /\ Direct \in Nat
    BY <1>1, Ranges, DiskConstants
  <2> QED BY <2>1
<1>7. Searching(v, y, dk, im)
  BY <1>2, <1>5, <1>6 DEF Searching, Like, InHand
<1>8. Finds(v, y, dk, im)
  BY <1>1, <1>2, <1>4, <1>5, <1>7 DEF Finds, Untouched, Like
<1> QED BY <1>3, <1>8 DEF Sound, Phase

\* or it has a free place, where the entry is to be put.
LEMMA FindsPlace ==
  ASSUME NEW v, NEW x, NEW dk, NEW im, NEW bm, NEW co, Sound(v, x, dk, im, bm, co),
         x.todo # <<>>, Head(x.todo).do = "find", x.idx < Last,
         NEW b, BlockAt(x, co, b), b # 0, NEW s \in Slot, dk.ents[b][s].type = "unknown",
         NEW y, Same(x, y), y.lba = b, y.sec = dk.ents[b], y.slot = s,
         y.todo = Cons(Step("put", 0), Tail(x.todo))
  PROVE  y.todo # <<>> /\ Sound(v, y, dk, im, bm, co)
<1>1. /\ Sees(v, x, dk, bm, co) /\ Finds(v, x, dk, im) /\ x.idx \in Index
      /\ Tail(x.todo) = End(x) /\ End(x) \in Seq(Steps)
  BY Finding
<1>2. Searching(v, x, dk, im) /\ v.tab = dk.tab /\ v.hand = {}
  BY <1>1 DEF Finds
<1>3. Sees(v, y, dk, bm, co)
  BY <1>1, SeesOn DEF Same
<1>4. b = v.at[x.dir][x.idx] /\ b \in Block
  BY Reads
<1>5. Searching(v, y, dk, im)
  <2>1. New(v, y, dk, im) /\ Ready(v, y)
    BY <1>2, SameCall DEF Searching
  <2> QED BY <1>2, <2>1 DEF Searching, Same, Behind, InHand
<1>6. dk.ents[b][s] = Free
  BY <1>1, <1>4 DEF Sees
<1>7. y.dir = x.dir /\ y.idx = x.idx /\ End(y) = End(x)
  BY SameLists DEF Same
<1>8. Puts(v, y, dk, im)
  BY <1>1, <1>2, <1>4, <1>5, <1>6, <1>7 DEF Puts
<1>9. y.todo # <<>>
  <2>1. PICK t \in Seq(Steps) : t = End(x)
    BY <1>1
  <2>2. Cons(Step("put", 0), t) # <<>>
    BY StepKinds, Conses
  <2> QED BY <1>1, <2>1, <2>2
<1> QED BY <1>3, <1>8, <1>9 DEF Sound, Phase

-----------------------------------------------------------------------------
\* An inode with another block, and with another size
LEMMA SectChanges ==
  ASSUME NEW nd0 \in Node, NEW k \in 0 .. Direct, NEW c \in 0 .. Blocks
  PROVE  NodeIs([nd0 EXCEPT !.sect[k] = c], nd0, nd0.size, k, c)
<1>1. PICK z0 \in Int, f \in [0 .. Direct -> 0 .. Blocks] : nd0 = [size |-> z0, sect |-> f]
  BY DEF Node
<1>2. PICK g : g = [f EXCEPT ![k] = c]
  OBVIOUS
<1>3. g \in [0 .. Direct -> 0 .. Blocks] /\ \A l \in 0 .. Direct : g[l] = IF l = k THEN c ELSE f[l]
  BY <1>2
<1>4. PICK h : h = [nd0 EXCEPT !.sect[k] = c]
  OBVIOUS
<1>5. nd0.sect = f
  BY <1>1
<1>6. h \in Node /\ h.size = nd0.size /\ h.sect = g
  <2>1. h = [nd0 EXCEPT !.sect = g]
    BY <1>1, <1>2, <1>4, <1>5
  <2> HIDE <1>1, <1>2, <1>4
  <2> QED BY <1>3, <2>1 DEF Node
<1>7. NodeIs(h, nd0, nd0.size, k, c)
  <2> HIDE <1>1, <1>2, <1>4
  <2> QED BY <1>3, <1>5, <1>6 DEF NodeIs
<1> QED BY <1>4, <1>7

LEMMA SizeChanges ==
  ASSUME NEW nd0 \in Node, NEW z \in Int
  PROVE  /\ [nd0 EXCEPT !.size = z] \in Node
         /\ [nd0 EXCEPT !.size = z].size = z /\ [nd0 EXCEPT !.size = z].sect = nd0.sect
BY DEF Node

\* The disk with one block cleared
Cleared(dk, dk2, c) == dk2 = [dk EXCEPT !.ents[c] = ZeroSector, !.tab[c] = ZeroTable]
LEMMA DiskCleared ==
  ASSUME NEW dk \in Disk, NEW c \in Block, NEW dk2, Cleared(dk, dk2, c)
  PROVE  /\ dk2 \in Disk /\ dk2.ibits = dk.ibits /\ dk2.bbits = dk.bbits /\ dk2.inode = dk.inode
         /\ dk2.ents[c] = ZeroSector /\ dk2.tab[c] = ZeroTable
         /\ \A b \in Block : b # c => dk2.ents[b] = dk.ents[b] /\ dk2.tab[b] = dk.tab[b]
<1>1. PICK e2 : e2 = [dk.ents EXCEPT ![c] = ZeroSector]
  OBVIOUS
<1>2. PICK t2 : t2 = [dk.tab EXCEPT ![c] = ZeroTable]
  OBVIOUS
<1>3. ZeroTable \in Table
  BY DiskConstants DEF ZeroTable, Table
<1>4. /\ e2 \in [Block -> Sector] /\ e2[c] = ZeroSector
      /\ \A b \in Block : b # c => e2[b] = dk.ents[b]
  BY <1>1, Zeros DEF Disk
<1>5. t2 \in [Block -> Table] /\ t2[c] = ZeroTable /\ \A b \in Block : b # c => t2[b] = dk.tab[b]
  BY <1>2, <1>3 DEF Disk
<1>6. dk2 = [dk EXCEPT !.ents = e2, !.tab = t2]
  BY <1>1, <1>2 DEF Cleared
<1> HIDE <1>1, <1>2
<1> QED BY <1>4, <1>5, <1>6 DEF Disk

\* A new block of a directory is cleared,
LEMMA Zeroing ==
  ASSUME NEW v, NEW x, NEW dk, NEW im, NEW bm, NEW co, Sound(v, x, dk, im, bm, co),
         x.todo # <<>>, Head(x.todo).do = "zero"
  PROVE  /\ Sees(v, x, dk, bm, co) /\ Adds(v, x, dk, im) /\ Agrees(v, bm, dk.ents)
         /\ v.hand = {x.lba} /\ x.lba \in Block /\ x.lba \in 0 .. Blocks /\ x.lba # 0
         /\ Tail(x.todo) = Enters(x) /\ Enters(x) \in Seq(Steps) /\ Enters(x) # <<>>
         /\ x.idx \in Index /\ Missing(x) \in Where /\ x.dir \in Ino /\ x.ino \in Ino
         /\ x.dir \in v.dirs /\ x.dir \in v.live /\ v.node[x.dir] \in Node
         /\ v.at[x.dir][Missing(x)] = 0
         /\ co \in [Ino -> Node] /\ co[x.dir] = v.node[x.dir]
         /\ Names(v.at[x.dir], v.node[x.dir], v.tab) /\ dk \in Disk
<1>1. /\ Sees(v, x, dk, bm, co) /\ Phase(v, x, dk, im) /\ x.dir \in Ino /\ x.ino \in Ino
      /\ Agrees(v, bm, dk.ents) /\ co \in [Ino -> Node] /\ co[x.dir] = v.node[x.dir] /\ dk \in Disk
  BY DEF Sound, Sees, Seen
<1>2. Adds(v, x, dk, im)
  BY <1>1, Heads
<1>3. Enters(x) \in Seq(Steps) /\ Enters(x) # <<>>
  <2>1. /\ Seek(x) \in Seq(Steps) /\ Seek(x) # <<>> /\ Enters(x) \in Seq(Steps)
    BY <1>1, EndList
  <2>2. PICK t \in Seq(Steps) : t = Seek(x) /\ t # <<>>
    BY <2>1
  <2>3. Cons(Step("tier", 0), t) # <<>>
    BY StepKinds, Conses
  <2> QED BY <2>1, <2>2, <2>3 DEF Enters
<1>4. v.hand = {x.lba} /\ Tail(x.todo) = Enters(x)
  <2>1. PICK t \in Seq(Steps) : t = Enters(x)
    BY <1>3
  <2>2. PICK u \in Seq(Steps) : u = Cons(Step("zero", 0), t) /\ Tail(u) = t
    BY StepKinds, Conses
  <2>3. Head(Cons(Step("alloc", 0), u)) = Step("alloc", 0)
    BY StepKinds, Conses
  <2>4. Head(Cons(Step("alloc", 0), u)).do = "alloc"
    BY <2>3, StepKinds
  <2> QED BY <1>2, <2>1, <2>2, <2>4 DEF Adds
<1>5. x.lba \in Block /\ x.lba \in 0 .. Blocks /\ x.lba # 0
  <2>1. x.lba \in Block
    BY <1>1, <1>4 DEF Agrees, Types
  <2> QED BY <2>1, Ranges
<1>6. x.idx \in Index /\ Missing(x) \in Where
  <2>1. x.idx \in Index
    BY <1>2, Ranges DEF Adds, Searching
  <2> QED BY <2>1, Ranges DEF Missing
<1>7. x.dir \in v.dirs /\ x.dir \in v.live /\ v.at[x.dir][Missing(x)] = 0
  BY <1>1, <1>2 DEF Adds, Searching, New, Agrees, Types
<1>8. Names(v.at[x.dir], v.node[x.dir], v.tab) /\ v.node[x.dir] \in Node
  BY <1>1, <1>7 DEF Agrees, Laid
<1> QED BY <1>1, <1>2, <1>3, <1>4, <1>5, <1>6, <1>7, <1>8

\* which changes only the blocks of that directory.
OtherBlocks(v, w) ==
    /\ w.live = v.live /\ w.dirs = v.dirs /\ w.ent = v.ent /\ w.pend = v.pend /\ w.late = v.late

LEMMA ZeroesSees ==
  ASSUME NEW v, NEW x, NEW dk, NEW im, NEW bm, NEW co, Sound(v, x, dk, im, bm, co),
         x.todo # <<>>, Head(x.todo).do = "zero",
         NEW dk2, Cleared(dk, dk2, x.lba),
         NEW co2 \in [Ino -> Node], OnlyAt(co, co2, x.dir),
         NEW w, OtherBlocks(v, w), w.hand = {},
         w.at \in [Ino -> [Where -> 0 .. Blocks]], Placed(v.at, w.at, x.dir, Missing(x), x.lba),
         w.node \in [Ino -> Node], OnlyAt(v.node, w.node, x.dir),
         w.node[x.dir] = co2[x.dir], w.node[x.dir].size = v.node[x.dir].size,
         w.tab \in [Block -> Table], KeptTables(v.node, v.live, x.dir, v.tab, w.tab),
         Names(w.at[x.dir], w.node[x.dir], w.tab)
  PROVE  Sees(w, x, dk2, bm, co2)
<1> DEFINE d == x.dir
           c == x.lba
<1>1. /\ Sees(v, x, dk, bm, co) /\ Agrees(v, bm, dk.ents)
      /\ v.hand = {c} /\ c \in Block /\ c \in 0 .. Blocks /\ c # 0
      /\ x.idx \in Index /\ Missing(x) \in Where /\ d \in Ino
      /\ d \in v.dirs /\ d \in v.live
      /\ v.at[d][Missing(x)] = 0 /\ dk \in Disk
  BY Zeroing
<1>2. /\ dk2 \in Disk /\ dk2.bbits = dk.bbits /\ dk2.inode = dk.inode /\ dk2.ents[c] = ZeroSector
      /\ \A b \in Block : b # c => dk2.ents[b] = dk.ents[b]
  <2>1. dk \in Disk /\ x.lba \in Block
    BY <1>1
  <2> HIDE DEF d
  <2> QED BY <2>1, DiskCleared
<1>3. /\ Types(v) /\ Owned(v.at, {c}, bm) /\ Laid(v.at, v.node, v.tab, v.live)
      /\ Shown(v.at, v.ent, v.dirs, dk.ents) /\ Tree(v.ent, v.dirs, v.live, v.pend)
      /\ Sizes(v.node, v.ent, v.dirs, v.late) /\ EmptyFiles(v.node, v.at, v.dirs, v.live)
  BY <1>1 DEF Agrees
<1> HIDE DEF d, c
<1>4. /\ v.at \in [Ino -> [Where -> 0 .. Blocks]] /\ v.live \in SUBSET Ino /\ v.dirs \in SUBSET Ino
      /\ v.dirs \subseteq v.live
  BY <1>3 DEF Types
<1>a. d \in Ino
  BY <1>1
<1>5. PICK k \in Where : k = Missing(x)
  BY <1>1
<1>6. \A j \in Ino, l \in Where : w.at[j][l] = IF j = d /\ l = k THEN c ELSE v.at[j][l]
  BY <1>5 DEF Placed, d, c
<1>7. OnlyAt(v.at, w.at, d)
  BY <1>4, <1>6 DEF OnlyAt
<1>8. Types(w)
  BY <1>3 DEF Types, OtherBlocks
<1>9. Owned(w.at, w.hand, bm)
  <2>1. v.at[d][k] = 0 /\ Placed(v.at, w.at, d, k, c) /\ d \in Ino /\ c \in Block
    BY <1>1, <1>5 DEF d, c
  <2>2. Owned(w.at, {}, bm)
    BY <1>3, <1>4, <2>1, OwnedEnters
  <2> QED BY <2>2
<1>10. Laid(w.at, w.node, w.tab, w.live)
  <2>1. /\ OnlyAt(v.node, w.node, d) /\ OnlyIn(v.live, w.live, d) /\ d \in Ino
        /\ KeptTables(v.node, v.live, d, v.tab, w.tab)
    BY <1>1 DEF OtherBlocks, OnlyIn, d
  <2>2. d \in w.live /\ Names(w.at[d], w.node[d], w.tab)
    BY <1>1 DEF OtherBlocks, d
  <2> QED BY <1>3, <1>7, <2>1, <2>2, LaidChanges
<1>11. Shown(w.at, w.ent, w.dirs, dk2.ents)
  <2>1. KeptSectors(v.at, v.dirs, d, dk.ents, dk2.ents)
    <3>1. ASSUME NEW i \in v.dirs, NEW l \in Index, v.at[i][l] # 0
          PROVE  v.at[i][l] # c /\ v.at[i][l] \in Block
      <4>1. i \in Ino /\ l \in Where
        BY <1>4, Ranges
      <4>2. v.at[i][l] \notin {c}
        BY <1>3, <3>1, <4>1 DEF Owned
      <4> QED BY <1>4, <3>1, <4>1, <4>2, Ranges
    <3> QED BY <1>2, <3>1 DEF KeptSectors
  <2>2. ASSUME NEW l \in Index
        PROVE  w.ent[d][l] = IF w.at[d][l] = 0 THEN ZeroSector ELSE dk2.ents[w.at[d][l]]
    <3>1. /\ v.ent[d][l] = IF v.at[d][l] = 0 THEN ZeroSector ELSE dk.ents[v.at[d][l]]
          /\ w.ent = v.ent /\ l \in Where
      BY <1>1, <1>3, Ranges DEF Shown, OtherBlocks, d
    <3>2. CASE l = k
      <4>1. w.at[d][l] = c /\ v.at[d][l] = 0 /\ c # 0
        BY <1>1, <1>5, <1>6, <3>2 DEF d, c
      <4> QED BY <1>2, <3>1, <4>1
    <3>3. CASE l # k
      <4>1. w.at[d][l] = v.at[d][l]
        BY <1>1, <1>6, <3>1, <3>3 DEF d
      <4>2. v.at[d][l] # 0 => v.at[d][l] # c /\ v.at[d][l] \in Block
        <5>1. v.at[d][l] # 0 => v.at[d][l] \notin {c}
          BY <1>a, <1>3, <3>1 DEF Owned
        <5> QED BY <1>a, <1>4, <3>1, <5>1, Ranges
      <4> QED BY <1>2, <3>1, <4>1, <4>2
    <3> QED BY <3>2, <3>3
  <2>3. ShownIn(w.at, w.ent, w.dirs, dk2.ents, d)
    BY <1>1, <2>2 DEF ShownIn, OtherBlocks, d
  <2>4. /\ OnlyAt(v.ent, w.ent, d) /\ OnlyIn(v.dirs, w.dirs, d) /\ d \in Ino
        /\ w.dirs \in SUBSET Ino /\ v.dirs \in SUBSET Ino
    BY <1>1, <1>4 DEF OtherBlocks, OnlyIn, OnlyAt, d
  <2> QED BY <1>3, <1>7, <2>1, <2>3, <2>4, ShownChanges
<1>12. Tree(w.ent, w.dirs, w.live, w.pend)
  BY <1>3 DEF OtherBlocks
<1>13. Sizes(w.node, w.ent, w.dirs, w.late)
  <2>1. \A i \in v.dirs : w.node[i].size = v.node[i].size
    BY <1>4 DEF OnlyAt, d
  <2> QED BY <1>3, <2>1 DEF Sizes, OtherBlocks
<1>14. EmptyFiles(w.node, w.at, w.dirs, w.live)
  <2>1. ASSUME NEW i \in v.live \ v.dirs PROVE w.node[i] = v.node[i] /\ w.at[i] = v.at[i]
    <3>1. i \in Ino \ {d}
      BY <1>1, <1>4 DEF d
    <3> QED BY <1>7, <3>1 DEF OnlyAt, d
  <2> QED BY <1>3, <2>1 DEF EmptyFiles, OtherBlocks
<1>15. Agrees(w, bm, dk2.ents)
  BY <1>8, <1>9, <1>10, <1>11, <1>12, <1>13, <1>14 DEF Agrees
<1>16. \A b \in Block, s \in Slot : dk2.ents[b][s].type = "unknown" => dk2.ents[b][s] = Free
  <2>1. \A s \in Slot : dk2.ents[c][s] = Free
    BY <1>2, Zeros
  <2>2. \A b \in Block, s \in Slot : dk.ents[b][s].type = "unknown" => dk.ents[b][s] = Free
    BY <1>1 DEF Sees
  <2>3. \A b \in Block : b = c \/ dk2.ents[b] = dk.ents[b]
    BY <1>2
  <2> QED BY <2>1, <2>2, <2>3
<1>17. \A j \in Ino : w.node[j] = IF j \in Seen(x) THEN co2[j] ELSE dk2.inode[j]
  <2>1. d \in Seen(x) /\ \A j \in Ino : v.node[j] = IF j \in Seen(x) THEN co[j] ELSE dk.inode[j]
    BY <1>1 DEF Sees, Seen, d
  <2> QED BY <1>2, <2>1 DEF OnlyAt, d
<1> QED BY <1>1, <1>2, <1>15, <1>16, <1>17 DEF Sees

EnterSect(co, co2, d, k, c) == co2 = [co EXCEPT ![d].sect[k] = c]
LEMMA EntersSect ==
  ASSUME NEW co \in [Ino -> Node], NEW d \in Ino, NEW k \in 0 .. Direct, NEW c \in 0 .. Blocks,
         NEW co2, EnterSect(co, co2, d, k, c)
  PROVE  co2 \in [Ino -> Node] /\ OnlyAt(co, co2, d) /\ NodeIs(co2[d], co[d], co[d].size, k, c)
<1>1. PICK nd0 \in Node : nd0 = co[d]
  OBVIOUS
<1>2. PICK nd : nd = [nd0 EXCEPT !.sect[k] = c]
  OBVIOUS
<1>3. NodeIs(nd, nd0, nd0.size, k, c)
  BY <1>2, SectChanges
<1>4. co2 = [co EXCEPT ![d] = nd]
  BY <1>1, <1>2 DEF EnterSect
<1>5. nd \in Node
  BY <1>3 DEF NodeIs
<1> HIDE <1>2
<1> QED BY <1>1, <1>3, <1>4, <1>5 DEF OnlyAt

\* A new block is entered in the inode,
SoundOn(x, dk, im, bm, co) == \E v : Sound(v, x, dk, im, bm, co)
NodeLacks(x, k) ==
    (x.idx < Direct \/ x.tier = <<>>) /\ k = IF x.idx < Direct THEN x.idx ELSE Direct

LEMMA ZeroesInode ==
  ASSUME NEW v, NEW x, NEW dk, NEW im, NEW bm, NEW co, Sound(v, x, dk, im, bm, co),
         x.todo # <<>>, Head(x.todo).do = "zero",
         NEW dk2, Cleared(dk, dk2, x.lba), NEW k, NodeLacks(x, k),
         NEW co2, EnterSect(co, co2, x.dir, k, x.lba),
         NEW y, Same(x, y), y.todo = Tail(x.todo)
  PROVE  y.todo # <<>> /\ SoundOn(y, dk2, im, bm, co2)
<1> USE DEF NodeLacks, SoundOn
<1> DEFINE d == x.dir
           c == x.lba
<1>1. /\ Sees(v, x, dk, bm, co) /\ Adds(v, x, dk, im) /\ Agrees(v, bm, dk.ents)
      /\ v.hand = {x.lba} /\ x.lba \in Block /\ x.lba \in 0 .. Blocks /\ x.lba # 0
      /\ Tail(x.todo) = Enters(x) /\ Enters(x) \in Seq(Steps) /\ Enters(x) # <<>>
      /\ x.idx \in Index /\ Missing(x) \in Where /\ x.dir \in Ino /\ x.ino \in Ino
      /\ x.dir \in v.dirs /\ x.dir \in v.live /\ v.node[x.dir] \in Node
      /\ v.at[x.dir][Missing(x)] = 0
      /\ co \in [Ino -> Node] /\ co[x.dir] = v.node[x.dir]
      /\ Names(v.at[x.dir], v.node[x.dir], v.tab) /\ dk \in Disk
  BY Zeroing
<1>2. /\ dk2 \in Disk /\ dk2.ibits = dk.ibits /\ dk2.bbits = dk.bbits /\ dk2.inode = dk.inode
      /\ dk2.tab[c] = ZeroTable /\ \A b \in Block : b # c => dk2.tab[b] = dk.tab[b]
  <2>1. dk \in Disk /\ x.lba \in Block
    BY <1>1
  <2> HIDE DEF d
  <2> QED BY <2>1, DiskCleared
<1>3. k \in 0 .. Direct
  BY <1>1, DiskConstants, Ranges DEF Index
<1>4. /\ co2 \in [Ino -> Node] /\ OnlyAt(co, co2, d) /\ NodeIs(co2[d], co[d], co[d].size, k, c)
  <2>1. d \in Ino /\ c \in 0 .. Blocks /\ co \in [Ino -> Node]
    BY <1>1
  <2> QED BY <1>3, <2>1, EntersSect
<1>5. PICK nd : nd = co2[d]
  OBVIOUS
<1>6. /\ nd \in Node /\ nd.size = v.node[d].size
      /\ \A l \in 0 .. Direct : nd.sect[l] = IF l = k THEN c ELSE v.node[d].sect[l]
  BY <1>1, <1>4, <1>5 DEF NodeIs
<1>7. PICK m \in Where : m = Missing(x)
  BY <1>1
<1>8. PICK w : w = [node |-> [j \in Ino |-> IF j = d THEN nd ELSE v.node[j]], tab |-> dk2.tab,
                    live |-> v.live, dirs |-> v.dirs,
                    at |-> [j \in Ino |-> [l \in Where |-> IF j = d /\ l = m THEN c ELSE v.at[j][l]]],
                    ent |-> v.ent, hand |-> {}, pend |-> v.pend, late |-> v.late]
  OBVIOUS
<1>9. /\ w.tab = dk2.tab /\ w.live = v.live /\ w.dirs = v.dirs /\ w.hand = {} /\ w.ent = v.ent
      /\ w.pend = v.pend /\ w.late = v.late
  BY <1>8
<1>10. /\ w.node = [j \in Ino |-> IF j = d THEN nd ELSE v.node[j]]
       /\ w.at = [j \in Ino |-> [l \in Where |-> IF j = d /\ l = m THEN c ELSE v.at[j][l]]]
  BY <1>8
<1> HIDE <1>8
<1> HIDE DEF d, c
<1>11. d \in Ino /\ c \in Block /\ c \in 0 .. Blocks /\ c # 0 /\ v.node[d] \in Node
  BY <1>1 DEF d, c
<1>12. /\ Types(v) /\ Owned(v.at, v.hand, bm) /\ Laid(v.at, v.node, v.tab, v.live)
       /\ v.at \in [Ino -> [Where -> 0 .. Blocks]] /\ v.node \in [Ino -> Node]
       /\ v.live \in SUBSET Ino
  BY <1>1 DEF Agrees, Types
<1>13. /\ w.at \in [Ino -> [Where -> 0 .. Blocks]] /\ w.node \in [Ino -> Node]
       /\ \A j \in Ino, l \in Where : w.at[j][l] = IF j = d /\ l = m THEN c ELSE v.at[j][l]
       /\ \A j \in Ino \ {d} : w.node[j] = v.node[j]
       /\ w.node[d] = nd
  <2>1. w.at \in [Ino -> [Where -> 0 .. Blocks]]
    BY <1>10, <1>11, <1>12
  <2> QED BY <1>6, <1>10, <1>11, <1>12, <2>1
<1>14. v.tab = dk.tab /\ dk2.tab \in [Block -> Table]
  BY <1>1, <1>2 DEF Adds, Disk
<1>15. \A i \in v.live : v.node[i].sect[Direct] # 0 =>
          v.node[i].sect[Direct] # c /\ w.tab[v.node[i].sect[Direct]] = v.tab[v.node[i].sect[Direct]]
  <2>1. ASSUME NEW i \in v.live, v.node[i].sect[Direct] # 0
        PROVE  v.node[i].sect[Direct] \in Block /\ v.node[i].sect[Direct] \notin v.hand
    BY <1>12, <2>1, TablesApart
  <2> QED BY <1>1, <1>2, <1>9, <1>14, <2>1 DEF c
<1>16. KeptTables(v.node, v.live, d, v.tab, w.tab)
  BY <1>15 DEF KeptTables
<1>17. Names(v.at[d], v.node[d], v.tab) /\ v.at[d][m] = 0 /\ d \in v.live
  BY <1>1, <1>7 DEF d
<1>18. Names(w.at[d], w.node[d], w.tab) /\ v.at[d][x.idx] = 0
  <2>1. \A l \in 0 .. Direct - 1 : l \in Where /\ l # -1 /\ l # Direct /\ l \in 0 .. Direct
    BY DiskConstants DEF Where, Last
  <2>2. \A l \in Direct .. Last - 1 : l \in Where /\ l # -1 /\ l \notin 0 .. Direct - 1
    BY DiskConstants DEF Where, Last
  <2>3. \A l \in Where : w.at[d][l] = IF l = m THEN c ELSE v.at[d][l]
    BY <1>11, <1>13
  <2>4. CASE x.idx < Direct
    <3>1. k = x.idx /\ m = x.idx /\ m # -1 /\ m # Direct /\ m \in 0 .. Direct - 1
      BY <1>1, <1>7, <2>4, DiskConstants DEF Missing, Index
    <3>2. nd.sect[Direct] = v.node[d].sect[Direct] /\ w.at[d][-1] = nd.sect[Direct]
      BY <1>6, <1>17, <2>3, <3>1, Ranges DEF Names
    <3>3. \A l \in 0 .. Direct - 1 : w.at[d][l] = nd.sect[l]
      BY <1>6, <1>17, <2>1, <2>3, <3>1 DEF Names
    <3>4. \A l \in Direct .. Last - 1 : w.at[d][l] = v.at[d][l]
      BY <2>2, <2>3, <3>1
    <3>5. v.node[d].sect[Direct] # 0 => w.tab[v.node[d].sect[Direct]] = v.tab[v.node[d].sect[Direct]]
      BY <1>15, <1>17
    <3>6. Names(w.at[d], w.node[d], w.tab)
      BY <1>13, <1>17, <3>2, <3>3, <3>4, <3>5 DEF Names
    <3> QED BY <1>17, <3>1, <3>6
  <2>5. CASE ~(x.idx < Direct)
    <3>1. k = Direct /\ m = -1 /\ x.idx \in Direct .. Last - 1
      <4>1. x.tier = <<>>
        BY <2>5
      <4> QED BY <1>1, <1>7, <2>5, <4>1, DiskConstants DEF Missing, Index, Last
    <3>2. v.node[d].sect[Direct] = 0 /\ nd.sect[Direct] = c /\ w.at[d][-1] = nd.sect[Direct]
      BY <1>6, <1>17, <2>3, <3>1, Ranges DEF Names
    <3>3. \A l \in 0 .. Direct - 1 : w.at[d][l] = nd.sect[l]
      BY <1>6, <1>17, <2>1, <2>3, <3>1 DEF Names
    <3>4. \A l \in Direct .. Last - 1 : w.at[d][l] = 0 /\ v.at[d][l] = 0
      BY <1>17, <2>2, <2>3, <3>1, <3>2 DEF Names
    <3>5. w.tab[c] = ZeroTable /\ \A l \in Direct .. Last - 1 : ZeroTable[l - Direct + 1] = 0
      <4>1. \A l \in Direct .. Last - 1 : l - Direct + 1 \in 1 .. Indirect
        BY DiskConstants DEF Last
      <4> QED BY <1>2, <1>9, <4>1 DEF ZeroTable
    <3>6. Names(w.at[d], w.node[d], w.tab)
      BY <1>11, <1>13, <3>2, <3>3, <3>4, <3>5 DEF Names
    <3> QED BY <3>1, <3>4, <3>6
  <2> QED BY <2>4, <2>5
<1>19. Placed(v.at, w.at, d, Missing(x), c) /\ OtherBlocks(v, w) /\ OnlyAt(v.node, w.node, d)
  BY <1>7, <1>9, <1>13 DEF Placed, OtherBlocks, OnlyAt
<1>20. Sees(w, x, dk2, bm, co2)
  <2>1. /\ co2 \in [Ino -> Node] /\ OnlyAt(co, co2, x.dir) /\ OtherBlocks(v, w) /\ w.hand = {}
        /\ w.at \in [Ino -> [Where -> 0 .. Blocks]] /\ Placed(v.at, w.at, x.dir, Missing(x), x.lba)
        /\ w.node \in [Ino -> Node] /\ OnlyAt(v.node, w.node, x.dir)
        /\ w.node[x.dir] = co2[x.dir] /\ w.node[x.dir].size = v.node[x.dir].size
    BY <1>4, <1>5, <1>6, <1>9, <1>13, <1>19 DEF d, c
  <2>2. /\ w.tab \in [Block -> Table] /\ KeptTables(v.node, v.live, x.dir, v.tab, w.tab)
        /\ Names(w.at[x.dir], w.node[x.dir], w.tab)
    BY <1>9, <1>14, <1>16, <1>18 DEF d
  <2> QED BY <2>1, <2>2, ZeroesSees
<1>21. Sees(w, y, dk2, bm, co2)
  BY <1>20, SeesOn DEF Same
<1>22. Searching(v, x, dk, im) /\ x.idx < Last
  BY <1>1 DEF Adds
<1>23. New(w, y, dk2, im) /\ Ready(w, y)
  <2>1. New(v, y, dk, im) /\ Ready(v, y)
    BY <1>22, SameCall DEF Searching
  <2>2. y.ino # d /\ y.ino \in Ino
    BY <1>1, <2>1 DEF New, Same, d
  <2>3. w.node[y.ino] = v.node[y.ino]
    BY <1>13, <2>2
  <2> QED BY <1>2, <1>9, <2>1, <2>3 DEF New, Ready
<1>24. Searching(w, y, dk2, im)
  <2>1. Synced(w, dk2, Behind(y) \cup {y.dir})
    <3>1. Behind(y) = Behind(x) /\ y.dir = x.dir
      BY DEF Behind, Same
    <3>2. Synced(v, dk, Behind(x) \cup {x.dir})
      BY <1>22 DEF Searching
    <3> QED BY <1>2, <1>13, <3>1, <3>2 DEF Synced, d
  <2>2. y.tier # <<>> => y.idx >= Direct /\ InHand(w, y, dk2)
    <3>1. y.tier = x.tier /\ (x.tier # <<>> => x.idx >= Direct)
      BY <1>22 DEF Searching, Same
    <3>2. x.tier = <<>>
      BY <1>1, <3>1, DiskConstants DEF Index
    <3> QED BY <3>1, <3>2
  <2>3. w.pend = y.ino /\ y.idx \in 0 .. Last
    BY <1>9, <1>22 DEF Searching, Same
  <2> QED BY <1>23, <2>1, <2>2, <2>3 DEF Searching
<1>25. Roomy(w, y)
  <2>1. v.ent[d][x.idx] = ZeroSector
    BY <1>1, <1>18 DEF Agrees, Shown, d
  <2> QED BY <1>9, <1>22, <2>1 DEF Roomy, Same, d
<1>26. y.todo = Seek(y)
  <2>1. Seek(y) = Seek(x)
    BY SameLists
  <2>2. Enters(x) = Seek(x)
    <3>1. ~(x.idx >= Direct /\ x.tier # <<>>)
      BY <1>1, DiskConstants DEF Index
    <3> QED BY <3>1 DEF Enters
  <2> QED BY <1>1, <2>1, <2>2
<1>27. Finds(w, y, dk2, im)
  BY <1>9, <1>24, <1>25, <1>26 DEF Finds
<1> QED BY <1>1, <1>21, <1>27 DEF Sound, Phase

\* or in the table of indirect blocks, which is still to be written back.
TableGets(x, y) == y.tier = [x.tier EXCEPT ![x.idx - Direct + 1] = x.lba]

LEMMA ZeroesTable ==
  ASSUME NEW v, NEW x, NEW dk, NEW im, NEW bm, NEW co, Sound(v, x, dk, im, bm, co),
         x.todo # <<>>, Head(x.todo).do = "zero",
         x.idx >= Direct, x.tier # <<>>,
         NEW dk2, Cleared(dk, dk2, x.lba),
         NEW y, Like(x, y), y.idx = x.idx, y.todo = Tail(x.todo),
         TableGets(x, y)
  PROVE  y.todo # <<>> /\ SoundOn(y, dk2, im, bm, co)
<1> USE DEF TableGets, SoundOn
<1> DEFINE d == x.dir
           c == x.lba
           k == x.idx
<1>1. /\ Sees(v, x, dk, bm, co) /\ Adds(v, x, dk, im) /\ Agrees(v, bm, dk.ents)
      /\ v.hand = {x.lba} /\ x.lba \in Block /\ x.lba \in 0 .. Blocks /\ x.lba # 0
      /\ Tail(x.todo) = Enters(x) /\ Enters(x) \in Seq(Steps) /\ Enters(x) # <<>>
      /\ x.idx \in Index /\ Missing(x) \in Where /\ x.dir \in Ino /\ x.ino \in Ino
      /\ x.dir \in v.dirs /\ x.dir \in v.live /\ v.node[x.dir] \in Node
      /\ v.at[x.dir][Missing(x)] = 0
      /\ co \in [Ino -> Node] /\ co[x.dir] = v.node[x.dir]
      /\ Names(v.at[x.dir], v.node[x.dir], v.tab) /\ dk \in Disk
  BY Zeroing
<1>2. /\ dk2 \in Disk /\ dk2.ibits = dk.ibits /\ dk2.bbits = dk.bbits /\ dk2.inode = dk.inode
      /\ dk2.tab[c] = ZeroTable /\ \A b \in Block : b # c => dk2.tab[b] = dk.tab[b]
  <2>1. dk \in Disk /\ x.lba \in Block
    BY <1>1
  <2> HIDE DEF d
  <2> QED BY <2>1, DiskCleared
<1>3. Searching(v, x, dk, im) /\ x.idx < Last /\ InHand(v, x, dk)
  BY <1>1 DEF Adds, Searching
<1>4. PICK bt : bt = v.node[d].sect[Direct]
  OBVIOUS
<1>5. /\ Types(v) /\ Owned(v.at, v.hand, bm) /\ Laid(v.at, v.node, v.tab, v.live)
      /\ v.at \in [Ino -> [Where -> 0 .. Blocks]] /\ v.node \in [Ino -> Node]
      /\ v.live \in SUBSET Ino
  BY <1>1 DEF Agrees, Types
<1>6. ASSUME NEW i \in v.live, v.node[i].sect[Direct] # 0
      PROVE  /\ v.node[i].sect[Direct] \in Block /\ v.node[i].sect[Direct] # c
             /\ i # d => v.node[i].sect[Direct] # bt
  <2>1. /\ v.node[i].sect[Direct] \in Block /\ v.node[i].sect[Direct] \notin v.hand
        /\ \A e \in v.live : e # i => v.node[e].sect[Direct] # v.node[i].sect[Direct]
    BY <1>5, <1>6, TablesApart
  <2>2. v.hand = {c} /\ d \in v.live
    BY <1>1
  <2> QED BY <1>4, <2>1, <2>2
<1>7. bt # 0 /\ bt \in Block /\ bt # c /\ x.tier = v.tab[bt] /\ v.tab = dk.tab
  <2>1. bt # 0 /\ x.tier = v.tab[bt] /\ v.tab = dk.tab
    BY <1>1, <1>3, <1>4, Zenon DEF InHand, Adds
  <2>2. d \in v.live
    BY <1>1
  <2> HIDE DEF c, d
  <2> QED BY <1>4, <1>6, <2>1, <2>2
<1>8. PICK m \in Where : m = x.idx /\ m = Missing(x) /\ m \in Direct .. Last - 1
  BY <1>1, Ranges, DiskConstants DEF Missing, Index, Last
<1>9. /\ y.tier \in Table /\ y.tier[m - Direct + 1] = c
      /\ \A l \in Direct .. Last - 1 : l # m => y.tier[l - Direct + 1] = x.tier[l - Direct + 1]
  <2>1. x.tier \in Table
    BY <1>5, <1>7 DEF Types
  <2>2. PICK z : z = m - Direct + 1 /\ z \in 1 .. Indirect
    BY <1>8, DiskConstants DEF Last
  <2>3. \A l \in Direct .. Last - 1 : l - Direct + 1 \in 1 .. Indirect /\ (l # m => l - Direct + 1 # z)
    BY <2>2, <1>8, DiskConstants DEF Last
  <2>4. y.tier = [x.tier EXCEPT ![z] = c]
    BY <1>8, <2>2
  <2>5. c \in 0 .. Blocks
    BY <1>1
  <2> HIDE DEF c
  <2>6. y.tier \in Table /\ y.tier[z] = c /\ \A a \in 1 .. Indirect : a # z => y.tier[a] = x.tier[a]
    BY <2>1, <2>2, <2>4, <2>5 DEF Table
  <2> QED BY <2>2, <2>3, <2>6
<1>10. PICK w : w = [node |-> v.node, tab |-> [dk2.tab EXCEPT ![bt] = y.tier],
                    live |-> v.live, dirs |-> v.dirs,
                    at |-> [j \in Ino |-> [l \in Where |-> IF j = d /\ l = m THEN c ELSE v.at[j][l]]],
                    ent |-> v.ent, hand |-> {}, pend |-> v.pend, late |-> v.late]
  OBVIOUS
<1>11. /\ w.node = v.node /\ w.live = v.live /\ w.dirs = v.dirs /\ w.hand = {} /\ w.ent = v.ent
       /\ w.pend = v.pend /\ w.late = v.late
  BY <1>10
<1>12. /\ w.tab = [dk2.tab EXCEPT ![bt] = y.tier]
       /\ w.at = [j \in Ino |-> [l \in Where |-> IF j = d /\ l = m THEN c ELSE v.at[j][l]]]
  BY <1>10
<1> HIDE <1>10
<1> HIDE DEF d, c, k
<1>13. d \in Ino /\ c \in Block /\ c \in 0 .. Blocks /\ c # 0 /\ v.node[d] \in Node /\ d \in v.live
  BY <1>1 DEF d, c
<1>14. /\ w.at \in [Ino -> [Where -> 0 .. Blocks]]
       /\ \A j \in Ino, l \in Where : w.at[j][l] = IF j = d /\ l = m THEN c ELSE v.at[j][l]
  BY <1>12, <1>13, <1>5
<1>15. /\ w.tab \in [Block -> Table] /\ w.tab[bt] = y.tier
       /\ \A b \in Block : b # bt => w.tab[b] = dk2.tab[b]
  <2>1. dk2.tab \in [Block -> Table]
    BY <1>2 DEF Disk
  <2> QED BY <1>7, <1>9, <1>12, <2>1
<1>16. KeptTables(v.node, v.live, d, v.tab, w.tab)
  <2>1. ASSUME NEW i \in v.live \ {d}, v.node[i].sect[Direct] # 0
        PROVE  w.tab[v.node[i].sect[Direct]] = v.tab[v.node[i].sect[Direct]]
    <3>1. /\ v.node[i].sect[Direct] \in Block /\ v.node[i].sect[Direct] # c
          /\ v.node[i].sect[Direct] # bt
      BY <1>6, <2>1
    <3> QED BY <1>2, <1>7, <1>15, <3>1
  <2> QED BY <2>1 DEF KeptTables
<1>17. Names(v.at[d], v.node[d], v.tab) /\ v.at[d][m] = 0
  BY <1>1, <1>8 DEF d
<1>18. Names(w.at[d], w.node[d], w.tab)
  <2>1. \A l \in 0 .. Direct - 1 : l \in Where /\ l # m
    BY <1>8, DiskConstants DEF Where, Last
  <2>2. \A l \in Direct .. Last - 1 : l \in Where
    BY DiskConstants DEF Where, Last
  <2>3. \A l \in Where : w.at[d][l] = IF l = m THEN c ELSE v.at[d][l]
    BY <1>13, <1>14
  <2>4. w.at[d][-1] = bt
    <3>1. -1 # m /\ -1 \in Where
      BY <1>8, Ranges, DiskConstants
    <3> QED BY <1>4, <1>17, <2>3, <3>1 DEF Names
  <2>5. \A l \in 0 .. Direct - 1 : w.at[d][l] = v.node[d].sect[l]
    BY <1>17, <2>1, <2>3 DEF Names
  <2>6. \A l \in Direct .. Last - 1 : w.at[d][l] = y.tier[l - Direct + 1]
    <3>1. ASSUME NEW l \in Direct .. Last - 1
          PROVE  v.at[d][l] = x.tier[l - Direct + 1]
      BY <1>4, <1>7, <1>17 DEF Names
    <3> QED BY <1>9, <2>2, <2>3, <3>1
  <2>7. w.node[d].sect[Direct] = bt /\ w.tab[bt] = y.tier /\ bt # 0 /\ w.node = v.node
    BY <1>4, <1>7, <1>11, <1>15
  <2> QED BY <2>4, <2>5, <2>6, <2>7 DEF Names
<1>20. Sees(w, x, dk2, bm, co)
  <2>1. /\ co \in [Ino -> Node] /\ OnlyAt(co, co, x.dir) /\ OtherBlocks(v, w) /\ w.hand = {}
        /\ w.at \in [Ino -> [Where -> 0 .. Blocks]] /\ Placed(v.at, w.at, x.dir, Missing(x), x.lba)
    BY <1>1, <1>8, <1>11, <1>14 DEF d, c, Placed, OtherBlocks, OnlyAt
  <2>2. /\ w.node \in [Ino -> Node] /\ OnlyAt(v.node, w.node, x.dir)
        /\ w.node[x.dir] = co[x.dir] /\ w.node[x.dir].size = v.node[x.dir].size
    BY <1>1, <1>5, <1>11 DEF OnlyAt
  <2>3. /\ w.tab \in [Block -> Table] /\ KeptTables(v.node, v.live, x.dir, v.tab, w.tab)
        /\ Names(w.at[x.dir], w.node[x.dir], w.tab)
    BY <1>15, <1>16, <1>18 DEF d
  <2> QED BY <2>1, <2>2, <2>3, ZeroesSees
<1>21. Sees(w, y, dk2, bm, co)
  BY <1>20, SeesOn DEF Like
<1>23. New(w, y, dk2, im) /\ Ready(w, y) /\ Seek(y) = Seek(x) /\ Behind(y) = Behind(x)
  <2>1. New(v, y, dk, im) /\ Ready(v, y) /\ Seek(y) = Seek(x) /\ Behind(y) = Behind(x)
    BY <1>3, LikeCall DEF Searching
  <2> QED BY <1>2, <1>11, <2>1 DEF New, Ready
<1>24. Searching(w, y, dk2, im)
  <2>1. Synced(w, dk2, Behind(y) \cup {y.dir})
    <3>1. Synced(v, dk, Behind(x) \cup {x.dir}) /\ y.dir = x.dir
      BY <1>3 DEF Searching, Like
    <3> QED BY <1>2, <1>11, <1>23, <3>1 DEF Synced
  <2>2. InHand(w, y, dk2)
    <3>1. w.node[y.dir].sect[Direct] = bt
      BY <1>4, <1>11 DEF Like, d
    <3> QED BY <1>7, <1>15, <3>1 DEF InHand
  <2>3. w.pend = y.ino /\ y.idx \in 0 .. Last /\ y.idx >= Direct
    BY <1>3, <1>11 DEF Searching, Like
  <2> QED BY <1>23, <2>1, <2>2, <2>3 DEF Searching
<1>25. Roomy(w, y)
  <2>1. v.ent[d][x.idx] = ZeroSector
    BY <1>1, <1>8, <1>17 DEF Agrees, Shown, d
  <2> QED BY <1>3, <1>11, <2>1 DEF Roomy, Like, d
<1>26. y.todo = Cons(Step("tier", 0), Seek(y)) /\ y.tier # <<>>
  <2>1. Enters(x) = Cons(Step("tier", 0), Seek(x))
    BY DEF Enters
  <2>2. DOMAIN y.tier # {}
    BY <1>9, <1>8, DiskConstants DEF Table, Last
  <2> QED BY <1>1, <1>23, <2>1, <2>2
<1>27. Tables(w, y, dk2, im)
  BY <1>11, <1>24, <1>25, <1>26 DEF Tables
<1> QED BY <1>1, <1>21, <1>27 DEF Sound, Phase

\* The table is written back.
TableWritten(x, dk, dk2, co) ==
    /\ dk2.inode = dk.inode /\ dk2.ibits = dk.ibits /\ dk2.ents = dk.ents /\ dk2.bbits = dk.bbits
    /\ dk2.tab = [dk.tab EXCEPT ![co[x.dir].sect[Direct]] = x.tier]

LEMMA TablesWritten ==
  ASSUME NEW v, NEW x, NEW dk, NEW im, NEW bm, NEW co, Sound(v, x, dk, im, bm, co),
         Tables(v, x, dk, im), NEW y, Same(x, y), y.todo = Tail(x.todo),
         NEW dk2 \in Disk, TableWritten(x, dk, dk2, co)
  PROVE  y.todo # <<>> /\ Sound(v, y, dk2, im, bm, co)
<1> USE DEF TableWritten
<1>1. /\ Sees(v, x, dk, bm, co) /\ x.dir \in Ino /\ x.ino \in Ino /\ co[x.dir] = v.node[x.dir]
      /\ v.tab \in [Block -> Table] /\ dk.tab \in [Block -> Table]
  BY DEF Sound, Sees, Seen, Agrees, Types, Disk
<1>2. Searching(v, x, dk, im) /\ InHand(v, x, dk) /\ x.tier # <<>>
  BY DEF Tables, Searching
<1>3. dk2.tab = v.tab
  <2>1. PICK bt : bt = v.node[x.dir].sect[Direct]
    OBVIOUS
  <2>2. x.tier = v.tab[bt] /\ \A b \in Block : b # bt => v.tab[b] = dk.tab[b]
    BY <1>2, <2>1 DEF InHand
  <2>3. dk2.tab = [dk.tab EXCEPT ![bt] = v.tab[bt]]
    BY <1>1, <2>1, <2>2
  <2> QED BY <1>1, <2>2, <2>3
<1>4. Sees(v, x, dk2, bm, co)
  BY <1>1, SeesDisk
<1>5. Sees(v, y, dk2, bm, co)
  BY <1>4, SeesOn DEF Same
<1>6. y.todo = Seek(y) /\ y.todo # <<>>
  <2>1. Seek(x) \in Seq(Steps) /\ Seek(x) # <<>>
    BY <1>1, EndList
  <2>2. PICK t \in Seq(Steps) : t = Seek(x)
    BY <2>1
  <2>3. Tail(Cons(Step("tier", 0), t)) = t
    BY StepKinds, Conses
  <2> QED BY <2>1, <2>2, <2>3, SameLists DEF Tables
<1>7. New(v, y, dk2, im) /\ Ready(v, y)
  <2>1. New(v, y, dk, im) /\ Ready(v, y)
    BY <1>2, SameCall DEF Searching
  <2> QED BY <2>1 DEF New
<1>8. Searching(v, y, dk2, im)
  <2>1. Synced(v, dk2, Behind(y) \cup {y.dir})
    BY <1>2 DEF Searching, Synced, Behind, Same
  <2> QED BY <1>2, <1>3, <1>7, <2>1, Zenon DEF Searching, InHand, Same
<1>9. Finds(v, y, dk2, im)
  BY <1>3, <1>6, <1>8 DEF Finds, Tables, Roomy, Same
<1> QED BY <1>5, <1>6, <1>9 DEF Sound, Phase

\* No place is left for a file's name: its inode is taken back.
LEMMA NoneLeft ==
  ASSUME NEW v, NEW x, NEW dk, NEW im, NEW bm, NEW co, Sound(v, x, dk, im, bm, co),
         x.todo # <<>>, Head(x.todo).do = "find", x.idx = Last, x.op # "mkdir",
         NEW co2 \in [Ino -> Node], co2[0] = co[0]
  PROVE  \E w : Sound(w, Idle, dk, im \ {x.ino}, bm, co2)
<1> DEFINE n == x.ino
           d == x.dir
<1>1. /\ Sees(v, x, dk, bm, co) /\ Phase(v, x, dk, im) /\ d \in Ino /\ n \in Ino
      /\ Agrees(v, bm, dk.ents) /\ dk \in Disk
  BY DEF Sound, Sees
<1>2. Finds(v, x, dk, im)
  BY <1>1, Heads
<1>3. /\ Searching(v, x, dk, im) /\ New(v, x, dk, im) /\ v.pend = n /\ v.tab = dk.tab /\ v.hand = {}
      /\ n \notin v.dirs /\ v.node[n] = inode_init /\ n \in v.live \ {0} /\ d # n /\ v.live = im
      /\ v.late = -1 /\ dk.ibits = im \ {n} /\ Synced(v, dk, {n, d})
  BY <1>2 DEF Finds, Searching, Ready, New, Behind
<1>4. dk.inode[d] = v.node[d]
  BY <1>2, Ranges DEF Finds, Roomy, Untouched
<1>5. PICK w : w = [node |-> [v.node EXCEPT ![n] = dk.inode[n]], tab |-> v.tab, live |-> v.live \ {n},
                    dirs |-> v.dirs, at |-> v.at, ent |-> v.ent, hand |-> {}, pend |-> 0, late |-> -1]
  OBVIOUS
<1>6. /\ w.tab = v.tab /\ w.live = v.live \ {n} /\ w.dirs = v.dirs /\ w.at = v.at /\ w.ent = v.ent
      /\ w.hand = {} /\ w.pend = 0 /\ w.late = -1
  BY <1>5
<1>7. w.node = [v.node EXCEPT ![n] = dk.inode[n]]
  BY <1>5
<1> HIDE <1>5
<1> HIDE DEF n, d
<1>8. /\ Types(v) /\ Owned(v.at, {}, bm) /\ Laid(v.at, v.node, v.tab, v.live)
      /\ Shown(v.at, v.ent, v.dirs, dk.ents) /\ Tree(v.ent, v.dirs, v.live, n)
      /\ Sizes(v.node, v.ent, v.dirs, -1) /\ EmptyFiles(v.node, v.at, v.dirs, v.live)
  BY <1>1, <1>3 DEF Agrees
<1>9. /\ w.node \in [Ino -> Node] /\ OnlyAt(v.node, w.node, n)
      /\ w.node[n] = dk.inode[n] /\ v.dirs \subseteq v.live /\ 0 \in v.dirs
  BY <1>1, <1>7, <1>8 DEF Types, OnlyAt, Disk, n
<1>10. Types(w)
  BY <1>3, <1>6, <1>8, <1>9 DEF Types
<1>11. Laid(w.at, w.node, w.tab, w.live)
  <2>1. v.at[n] = Blank
    BY <1>3, <1>8, NoBlocks
  <2>2. n \notin w.live /\ w.at[n] = Blank
    BY <1>6, <2>1
  <2>3. OnlyAt(v.at, w.at, n) /\ OnlyIn(v.live, w.live, n) /\ n \in Ino
    BY <1>1, <1>6 DEF OnlyAt, OnlyIn, n
  <2>4. KeptTables(v.node, v.live, n, v.tab, w.tab)
    BY <1>6 DEF KeptTables
  <2> QED BY <1>8, <1>9, <2>2, <2>3, <2>4, LaidChanges
<1>12. Tree(w.ent, w.dirs, w.live, w.pend)
  <2>1. Tree(v.ent, v.dirs, v.live \ {n}, 0)
    BY <1>3, <1>8, TreeTakesBack
  <2> QED BY <1>6, <2>1
<1>13. Sizes(w.node, w.ent, w.dirs, w.late)
  <2>1. \A i \in v.dirs : w.node[i] = v.node[i]
    BY <1>3, <1>8, <1>9 DEF OnlyAt, Types
  <2> QED BY <1>6, <1>8, <2>1 DEF Sizes
<1>14. EmptyFiles(w.node, w.at, w.dirs, w.live)
  <2>1. \A i \in w.live : i \in v.live /\ w.node[i] = v.node[i]
    BY <1>6, <1>8, <1>9 DEF OnlyAt, Types
  <2> QED BY <1>6, <1>8, <2>1 DEF EmptyFiles
<1>15. Agrees(w, bm, dk.ents)
  BY <1>6, <1>8, <1>10, <1>11, <1>12, <1>13, <1>14 DEF Agrees
<1>16. Synced(w, dk, {})
  BY <1>3, <1>4, <1>9 DEF Synced, OnlyAt
<1>17. Sees(w, Idle, dk, bm, co2)
  <2>1. Idle.dir = 0 /\ Idle.ino = 0 /\ 0 \in Ino
    BY Ranges DEF Idle
  <2>2. \A j \in Ino : w.node[j] = IF j \in Seen(Idle) THEN co2[j] ELSE dk.inode[j]
    <3>1. v.node[0] = co[0]
      BY <1>1, <2>1 DEF Sees, Seen
    <3>2. w.node[0] = v.node[0]
      BY <1>3, <1>9, <2>1 DEF OnlyAt
    <3>3. Seen(Idle) = {0}
      BY <2>1 DEF Seen
    <3> QED BY <1>16, <3>1, <3>2, <3>3 DEF Synced
  <2> QED BY <1>1, <1>15, <2>1, <2>2 DEF Sees
<1>18. Resting(w, Idle, dk, im \ {n})
  BY <1>3, <1>6, <1>16 DEF Resting
<1> QED BY <1>17, <1>18 DEF Sound, Phase, n

PutSector(dk, dk2, b, sec, s, e) == dk2 = [dk EXCEPT !.ents[b] = [sec EXCEPT ![s] = e]]
LEMMA PutsSector ==
  ASSUME NEW dk \in Disk, NEW b \in Block, NEW sec \in Sector, NEW s \in Slot, NEW e \in Entry,
         NEW dk2, PutSector(dk, dk2, b, sec, s, e)
  PROVE  /\ dk2 \in Disk /\ dk2.ibits = dk.ibits /\ dk2.bbits = dk.bbits /\ dk2.inode = dk.inode
         /\ dk2.tab = dk.tab /\ dk2.ents[b] \in Sector
         /\ \A t \in Slot : dk2.ents[b][t] = IF t = s THEN e ELSE sec[t]
         /\ \A a \in Block : a # b => dk2.ents[a] = dk.ents[a]
<1>1. PICK g : g = [sec EXCEPT ![s] = e]
  OBVIOUS
<1>2. g \in Sector /\ \A t \in Slot : g[t] = IF t = s THEN e ELSE sec[t]
  BY <1>1 DEF Sector
<1>3. PICK e2 : e2 = [dk.ents EXCEPT ![b] = g]
  OBVIOUS
<1>4. /\ e2 \in [Block -> Sector] /\ e2[b] = g /\ \A a \in Block : a # b => e2[a] = dk.ents[a]
  BY <1>2, <1>3 DEF Disk
<1>5. dk2 = [dk EXCEPT !.ents = e2]
  BY <1>1, <1>3 DEF PutSector
<1> HIDE <1>1, <1>3
<1> QED BY <1>2, <1>4, <1>5 DEF Disk

AddSize(co, co2, d, z) == co2 = [co EXCEPT ![d].size = @ + z]
LEMMA AddsSize ==
  ASSUME NEW co \in [Ino -> Node], NEW d \in Ino, NEW z \in Int, NEW co2, AddSize(co, co2, d, z)
  PROVE  /\ co2 \in [Ino -> Node] /\ OnlyAt(co, co2, d) /\ co2[d] \in Node
         /\ co2[d].size = co[d].size + z /\ co2[d].sect = co[d].sect
<1>1. PICK nd0 \in Node : nd0 = co[d]
  OBVIOUS
<1>2. nd0.size + z \in Int
  BY DEF Node
<1>3. PICK nd : nd = [nd0 EXCEPT !.size = nd0.size + z]
  OBVIOUS
<1>4. nd \in Node /\ nd.size = nd0.size + z /\ nd.sect = nd0.sect
  BY <1>2, <1>3, SizeChanges
<1>5. co2 = [co EXCEPT ![d] = nd]
  BY <1>1, <1>3 DEF AddSize
<1> HIDE <1>3
<1> QED BY <1>1, <1>4, <1>5 DEF OnlyAt

\* An entry of directory d is put, or cleared.
OtherEntries(v, w) ==
    /\ w.tab = v.tab /\ w.live = v.live /\ w.dirs = v.dirs /\ w.at = v.at /\ w.hand = v.hand

LEMMA PutsSees ==
  ASSUME NEW v, NEW x, NEW dk, NEW bm, NEW co, Sees(v, x, dk, bm, co), x.dir \in v.dirs,
         NEW k \in Index, NEW s \in Slot, NEW e \in Entry, e.type = "unknown" => e = Free,
         x.lba = v.at[x.dir][k], x.lba # 0,
         NEW dk2, PutSector(dk, dk2, x.lba, dk.ents[x.lba], s, e),
         NEW z \in Int, NEW co2, AddSize(co, co2, x.dir, z),
         NEW w, OtherEntries(v, w), w.pend \in w.live, w.late = v.late,
         w.node = [v.node EXCEPT ![x.dir] = co2[x.dir]],
         w.ent \in [Ino -> [Index -> Sector]], EntryPut(v.ent, w.ent, x.dir, k, s, e),
         Tree(w.ent, w.dirs, w.live, w.pend),
         Cardinality(Filled(w.ent[x.dir])) = Cardinality(Filled(v.ent[x.dir])) + z
  PROVE  Sees(w, x, dk2, bm, co2)
<1> DEFINE d == x.dir
           c == x.lba
<1>1. /\ Agrees(v, bm, dk.ents) /\ dk \in Disk /\ d \in Ino /\ co \in [Ino -> Node]
      /\ co[d] = v.node[d]
  BY DEF Sees, Seen
<1>2. /\ Types(v) /\ Owned(v.at, v.hand, bm) /\ Laid(v.at, v.node, v.tab, v.live)
      /\ Shown(v.at, v.ent, v.dirs, dk.ents)
      /\ Sizes(v.node, v.ent, v.dirs, v.late) /\ EmptyFiles(v.node, v.at, v.dirs, v.live)
  BY <1>1 DEF Agrees
<1>3. /\ v.at \in [Ino -> [Where -> 0 .. Blocks]] /\ v.live \in SUBSET Ino /\ v.dirs \in SUBSET Ino
      /\ v.dirs \subseteq v.live /\ v.node \in [Ino -> Node] /\ v.ent \in [Ino -> [Index -> Sector]]
  BY <1>2 DEF Types
<1>4. k \in Where /\ c \in Block
  <2>1. k \in Where
    BY Ranges
  <2>2. v.at[d][k] \in 0 .. Blocks
    BY <1>1, <1>3, <2>1
  <2> QED BY <2>1, <2>2, Ranges
<1>5. PICK sec \in Sector : sec = dk.ents[c]
  BY <1>1, <1>4 DEF Disk
<1>6. /\ dk2 \in Disk /\ dk2.bbits = dk.bbits /\ dk2.inode = dk.inode
      /\ dk2.ents[c] \in Sector
      /\ \A t \in Slot : dk2.ents[c][t] = IF t = s THEN e ELSE dk.ents[c][t]
      /\ \A a \in Block : a # c => dk2.ents[a] = dk.ents[a]
  <2>1. PutSector(dk, dk2, c, sec, s, e) /\ dk \in Disk /\ c \in Block
    BY <1>1, <1>4, <1>5
  <2> HIDE DEF c, d
  <2>2. /\ dk2 \in Disk /\ dk2.bbits = dk.bbits /\ dk2.inode = dk.inode
        /\ dk2.ents[c] \in Sector
        /\ \A t \in Slot : dk2.ents[c][t] = IF t = s THEN e ELSE sec[t]
        /\ \A a \in Block : a # c => dk2.ents[a] = dk.ents[a]
    BY <2>1, PutsSector
  <2> QED BY <1>5, <2>2
<1>7. /\ co2 \in [Ino -> Node] /\ OnlyAt(co, co2, d) /\ co2[d] \in Node
      /\ co2[d].size = v.node[d].size + z /\ co2[d].sect = v.node[d].sect
  <2>1. co \in [Ino -> Node] /\ d \in Ino /\ AddSize(co, co2, d, z)
    BY <1>1
  <2>2. /\ co2 \in [Ino -> Node] /\ OnlyAt(co, co2, d) /\ co2[d] \in Node
        /\ co2[d].size = co[d].size + z /\ co2[d].sect = co[d].sect
    <3> HIDE DEF c, d
    <3> QED BY <2>1, AddsSize
  <2> QED BY <1>1, <2>2
<1> HIDE DEF d, c
<1>8. w.node \in [Ino -> Node] /\ OnlyAt(v.node, w.node, d) /\ w.node[d] = co2[d]
  BY <1>1, <1>3, <1>7 DEF OnlyAt, d
<1>9. Types(w)
  BY <1>2, <1>8 DEF Types, OtherEntries
<1>10. Owned(w.at, w.hand, bm)
  BY <1>2 DEF OtherEntries
<1>11. Laid(w.at, w.node, w.tab, w.live)
  <2>1. d \in v.live /\ Names(v.at[d], v.node[d], v.tab)
    BY <1>1, <1>2, <1>3 DEF Laid, d
  <2>2. Names(w.at[d], w.node[d], w.tab)
    <3>1. w.node[d].sect = v.node[d].sect /\ w.at = v.at /\ w.tab = v.tab
      BY <1>7, <1>8 DEF OtherEntries
    <3> QED BY <2>1, <3>1, Zenon DEF Names
  <2>3. OnlyAt(v.at, w.at, d) /\ OnlyIn(v.live, w.live, d) /\ d \in w.live
    BY <2>1 DEF OnlyAt, OnlyIn, OtherEntries
  <2>4. KeptTables(v.node, v.live, d, v.tab, w.tab)
    BY DEF KeptTables, OtherEntries
  <2> QED BY <1>1, <1>2, <1>8, <2>2, <2>3, <2>4, LaidChanges
<1>12. Shown(w.at, w.ent, w.dirs, dk2.ents)
  <2>a. \A i \in Ino, l \in Index, t \in Slot :
          w.ent[i][l][t] = IF i = d /\ l = k /\ t = s THEN e ELSE v.ent[i][l][t]
    BY DEF EntryPut, d
  <2>b. \A i \in Ino, l \in Index : v.ent[i][l] \in [Slot -> Entry] /\ w.ent[i][l] \in [Slot -> Entry]
    BY <1>3 DEF Sector
  <2>c. \A i \in Ino, l \in Index : i # d \/ l # k => w.ent[i][l] = v.ent[i][l]
    BY <2>a, <2>b
  <2>d. v.ent[d][k] = dk.ents[c] /\ d \in v.dirs
    BY <1>2 DEF Shown, d, c
  <2>e. w.ent[d][k] = dk2.ents[c]
    <3>1. dk2.ents[c] \in [Slot -> Entry] /\ w.ent[d][k] \in [Slot -> Entry]
      BY <1>1, <1>6, <2>b DEF Sector
    <3>2. \A t \in Slot : w.ent[d][k][t] = dk2.ents[c][t]
      BY <1>1, <1>6, <2>a, <2>d
    <3> QED BY <3>1, <3>2
  <2>f. OnlyAt(v.ent, w.ent, d)
    <3>1. ASSUME NEW i \in Ino \ {d} PROVE w.ent[i] = v.ent[i]
      <4>1. w.ent[i] \in [Index -> Sector] /\ v.ent[i] \in [Index -> Sector]
        BY <1>3
      <4> QED BY <2>c, <4>1
    <3> QED BY <3>1 DEF OnlyAt
  <2>g. v.at[d][k] = c
    BY DEF d, c
  <2>1. KeptSectors(v.at, v.dirs, d, dk.ents, dk2.ents)
    <3>1. ASSUME NEW i \in v.dirs \ {d}, NEW l \in Index, v.at[i][l] # 0
          PROVE  v.at[i][l] # c /\ v.at[i][l] \in Block
      <4>1. i \in Ino /\ l \in Where
        BY <1>3, Ranges
      <4>2. v.at[i][l] # v.at[d][k]
        BY <1>1, <1>2, <1>4, <3>1, <4>1 DEF Owned
      <4>3. v.at[i][l] \in 0 .. Blocks
        BY <1>3, <4>1
      <4> QED BY <2>g, <3>1, <4>2, <4>3, Ranges
    <3> QED BY <1>6, <3>1 DEF KeptSectors
  <2>2. ASSUME NEW l \in Index
        PROVE  w.ent[d][l] = IF w.at[d][l] = 0 THEN ZeroSector ELSE dk2.ents[w.at[d][l]]
    <3>1. CASE l = k
      BY <2>e, <2>g, <3>1, <1>4, Ranges DEF OtherEntries
    <3>2. CASE l # k
      <4>1. w.ent[d][l] = v.ent[d][l] /\ l \in Where
        BY <1>1, <2>c, <3>2, Ranges
      <4>2. v.at[d][l] # 0 => v.at[d][l] # c /\ v.at[d][l] \in Block
        <5>1. v.at[d][l] # 0 => v.at[d][l] # v.at[d][k]
          BY <1>1, <1>2, <1>4, <3>2, <4>1 DEF Owned
        <5>2. v.at[d][l] \in 0 .. Blocks
          BY <1>1, <1>3, <4>1
        <5> QED BY <2>g, <5>1, <5>2, Ranges
      <4>3. v.ent[d][l] = IF v.at[d][l] = 0 THEN ZeroSector ELSE dk.ents[v.at[d][l]]
        BY <1>2, <2>d DEF Shown
      <4> QED BY <1>6, <4>1, <4>2, <4>3 DEF OtherEntries
    <3> QED BY <3>1, <3>2
  <2>3. ShownIn(w.at, w.ent, w.dirs, dk2.ents, d)
    BY <2>2, <2>d DEF ShownIn, OtherEntries
  <2>4. /\ OnlyAt(v.at, w.at, d) /\ OnlyIn(v.dirs, w.dirs, d) /\ d \in Ino
        /\ w.dirs \in SUBSET Ino /\ v.dirs \in SUBSET Ino
    BY <1>1, <1>3 DEF OtherEntries, OnlyIn, OnlyAt
  <2> QED BY <1>2, <2>1, <2>3, <2>4, <2>f, ShownChanges
<1>13. Sizes(w.node, w.ent, w.dirs, w.late)
  <2>1. ASSUME NEW i \in v.dirs, i # d PROVE w.node[i] = v.node[i] /\ Filled(w.ent[i]) = Filled(v.ent[i])
    <3>1. i \in Ino
      BY <1>3
    <3>2. \A l \in Index, t \in Slot : w.ent[i][l][t] = v.ent[i][l][t]
      BY <2>1, <3>1 DEF EntryPut, d
    <3>3. Filled(w.ent[i]) = Filled(v.ent[i])
      BY <3>2, ZenonT(30) DEF Filled
    <3> QED BY <1>8, <2>1, <3>1, <3>3 DEF OnlyAt
  <2>2. w.node[d].size = Cardinality(Filled(w.ent[d])) + (IF d = w.late THEN 1 ELSE 0)
    <3>1. v.node[d].size = Cardinality(Filled(v.ent[d])) + (IF d = v.late THEN 1 ELSE 0)
      BY <1>2 DEF Sizes, d
    <3>2. Cardinality(Filled(w.ent[d])) = Cardinality(Filled(v.ent[d])) + z
      BY DEF d
    <3>3. Cardinality(Filled(v.ent[d])) \in Nat
      BY FilledFinite
    <3> QED BY <1>7, <1>8, <3>1, <3>2, <3>3
  <2>3. ASSUME NEW i \in w.dirs
        PROVE  w.node[i].size = Cardinality(Filled(w.ent[i])) + (IF i = w.late THEN 1 ELSE 0)
    <3>1. CASE i = d
      BY <2>2, <3>1
    <3>2. CASE i # d
      BY <1>2, <2>1, <3>2 DEF Sizes, OtherEntries
    <3> QED BY <3>1, <3>2
  <2> QED BY <2>3 DEF Sizes
<1>14. EmptyFiles(w.node, w.at, w.dirs, w.live)
  <2>1. \A i \in v.live \ v.dirs : w.node[i] = v.node[i]
    BY <1>3, <1>8 DEF OnlyAt, d
  <2> QED BY <1>2, <2>1 DEF EmptyFiles, OtherEntries
<1>15. Agrees(w, bm, dk2.ents)
  BY <1>9, <1>10, <1>11, <1>12, <1>13, <1>14 DEF Agrees
<1>16. \A b \in Block, t \in Slot : dk2.ents[b][t].type = "unknown" => dk2.ents[b][t] = Free
  <2>1. \A b \in Block, t \in Slot : dk.ents[b][t].type = "unknown" => dk.ents[b][t] = Free
    BY DEF Sees
  <2>2. \A b \in Block : b = c \/ dk2.ents[b] = dk.ents[b]
    BY <1>6
  <2>3. \A t \in Slot : dk2.ents[c][t] = e \/ dk2.ents[c][t] = dk.ents[c][t]
    BY <1>6
  <2> QED BY <1>4, <2>1, <2>2, <2>3
<1>17. \A j \in Ino : w.node[j] = IF j \in Seen(x) THEN co2[j] ELSE dk2.inode[j]
  <2>1. d \in Seen(x) /\ \A j \in Ino : v.node[j] = IF j \in Seen(x) THEN co[j] ELSE dk.inode[j]
    BY DEF Sees, Seen, d
  <2> QED BY <1>6, <1>7, <1>8, <2>1 DEF OnlyAt
<1>18. dk2.bbits = bm /\ DOMAIN x = DOMAIN Idle /\ x.dir \in Ino /\ x.ino \in Ino
  BY <1>6 DEF Sees
<1> QED BY <1>6, <1>7, <1>15, <1>16, <1>17, <1>18 DEF Sees

LEMMA EntryPuts ==
  ASSUME NEW ent \in [Ino -> [Index -> Sector]], NEW d \in Ino, NEW k \in Index, NEW s \in Slot,
         NEW e \in Entry
  PROVE  \E ent2 \in [Ino -> [Index -> Sector]] : EntryPut(ent, ent2, d, k, s, e)
<1>1. PICK ent2 : ent2 = [i \in Ino |-> [l \in Index |-> [t \in Slot |->
                             IF i = d /\ l = k /\ t = s THEN e ELSE ent[i][l][t]]]]
  OBVIOUS
<1>2. \A i \in Ino, l \in Index : ent[i][l] \in [Slot -> Entry]
  BY DEF Sector
<1>3. ent2 \in [Ino -> [Index -> [Slot -> Entry]]]
  BY <1>1, <1>2
<1>4. EntryPut(ent, ent2, d, k, s, e)
  BY <1>1 DEF EntryPut
<1> HIDE <1>1
<1> QED BY <1>3, <1>4 DEF Sector

\* The new entry is put.
LEMMA PutsEntry ==
  ASSUME NEW v, NEW x, NEW dk, NEW im, NEW bm, NEW co, Sound(v, x, dk, im, bm, co),
         Puts(v, x, dk, im), NEW y, Same(x, y), y.todo = Tail(x.todo),
         NEW dk2, PutSector(dk, dk2, x.lba, x.sec, x.slot, x.ent),
         NEW co2, AddSize(co, co2, x.dir, 1)
  PROVE  y.todo # <<>> /\ \E w : Sound(w, y, dk2, im, bm, co2)
<1> DEFINE d == x.dir
           n == x.ino
           k == x.idx
           s == x.slot
           e == x.ent
<1>1. /\ Sees(v, x, dk, bm, co) /\ d \in Ino /\ n \in Ino /\ Agrees(v, bm, dk.ents) /\ dk \in Disk
      /\ Types(v) /\ Shown(v.at, v.ent, v.dirs, dk.ents) /\ Tree(v.ent, v.dirs, v.live, v.pend)
  BY DEF Sound, Sees, Agrees
<1>2. /\ Searching(v, x, dk, im) /\ New(v, x, dk, im) /\ v.pend = n /\ Ready(v, x)
      /\ d \in v.dirs /\ n \in v.live \ {0} /\ d # n /\ e \in Entry /\ e.name \in Name /\ e.ino = n
      /\ e.type = (IF x.op = "mkdir" THEN "dir" ELSE "file") /\ v.late = -1
      /\ x.lba = v.at[d][k] /\ x.lba # 0 /\ s \in Slot /\ x.sec = dk.ents[x.lba] /\ x.sec[s] = Free
      /\ v.tab = dk.tab /\ v.hand = {}
  BY Zenon DEF Puts, Searching, New
<1>3. k \in Index
  <2>1. k \in 0 .. Last /\ k < Last
    BY <1>2, Zenon DEF Puts, Searching
  <2> QED BY <2>1, Ranges
<1>4. /\ v.ent \in [Ino -> [Index -> Sector]] /\ v.live \in SUBSET Ino /\ v.dirs \in SUBSET Ino
      /\ 0 \in v.dirs
  BY <1>1 DEF Types
<1>5. v.ent[d][k][s] = Free
  <2>1. v.ent[d][k] = dk.ents[x.lba]
    BY <1>1, <1>2, <1>3, ZenonT(30) DEF Shown
  <2> QED BY <1>2, <2>1, ZenonT(30)
<1>6. e # Free /\ e.type # "unknown"
  <2>1. e.type # "unknown" /\ Free.type = "unknown"
    BY <1>2 DEF Free
  <2> QED BY <2>1
<1>7. PICK ent2 \in [Ino -> [Index -> Sector]] : EntryPut(v.ent, ent2, d, k, s, e)
  BY <1>1, <1>2, <1>3, <1>4, EntryPuts
<1>8. PICK w : w = [node |-> [v.node EXCEPT ![x.dir] = co2[x.dir]], tab |-> v.tab,
                    live |-> v.live, dirs |-> v.dirs,
                    at |-> v.at, ent |-> ent2, hand |-> {}, pend |-> 0, late |-> -1]
  OBVIOUS
<1>9. /\ w.tab = v.tab /\ w.live = v.live /\ w.dirs = v.dirs /\ w.at = v.at /\ w.ent = ent2
      /\ w.hand = {} /\ w.pend = 0 /\ w.late = -1
  BY <1>8
<1>10. w.node = [v.node EXCEPT ![x.dir] = co2[x.dir]]
  BY <1>8
<1> HIDE <1>8
<1> HIDE DEF d, n, k, s, e
<1>11. Tree(ent2, v.dirs, v.live, 0)
  <2>1. IsEntry(v.ent, v.dirs, d, n, e)
    BY <1>2, <1>6 DEF IsEntry, Ready, d, n, e
  <2>2. Tree(v.ent, v.dirs, v.live, n)
    BY <1>1, <1>2
  <2> QED BY <1>2, <1>3, <1>4, <1>5, <1>7, <2>1, <2>2, TreeNames
<1>12. Cardinality(Filled(ent2[d])) = Cardinality(Filled(v.ent[d])) + 1
  <2>1. PICK ent \in [Ino -> [Index -> Sector]] : ent = v.ent
    BY <1>4
  <2>2. d \in Ino /\ s \in Slot /\ EntryPut(ent, ent2, d, k, s, e) /\ ent[d][k][s] = Free
    BY <1>1, <1>2, <1>5, <1>7, <2>1
  <2>3. Cardinality(Filled(ent2[d])) = Cardinality(Filled(ent[d])) + 1
    BY <1>3, <1>6, <2>2, FilledMore
  <2> QED BY <2>1, <2>3
<1>13. Sees(w, x, dk2, bm, co2)
  <2>1. /\ Sees(v, x, dk, bm, co) /\ x.dir \in v.dirs /\ k \in Index /\ s \in Slot /\ e \in Entry
        /\ (e.type = "unknown" => e = Free) /\ x.lba = v.at[x.dir][k] /\ x.lba # 0
    BY <1>1, <1>2, <1>3, <1>6 DEF d
  <2>2. PutSector(dk, dk2, x.lba, dk.ents[x.lba], s, e) /\ 1 \in Int /\ AddSize(co, co2, x.dir, 1)
    BY <1>2 DEF s, e
  <2>3. /\ OtherEntries(v, w) /\ w.pend \in w.live /\ w.late = v.late
        /\ w.node = [v.node EXCEPT ![x.dir] = co2[x.dir]]
        /\ w.ent \in [Ino -> [Index -> Sector]] /\ EntryPut(v.ent, w.ent, x.dir, k, s, e)
        /\ Tree(w.ent, w.dirs, w.live, w.pend)
        /\ Cardinality(Filled(w.ent[x.dir])) = Cardinality(Filled(v.ent[x.dir])) + 1
    BY <1>1, <1>2, <1>4, <1>7, <1>9, <1>10, <1>11, <1>12 DEF OtherEntries, d, Types
  <2> QED BY <2>1, <2>2, <2>3, PutsSees
<1>14. Sees(w, y, dk2, bm, co2)
  BY <1>13, SeesOn DEF Same
<1>15. dk2.inode = dk.inode /\ dk2.ibits = dk.ibits /\ dk2.tab = dk.tab
  BY DEF PutSector
<1>16. Synced(w, dk2, Behind(x) \cup {d})
  <2>1. Synced(v, dk, Behind(x) \cup {d})
    BY <1>2 DEF Searching, d
  <2> QED BY <1>10, <1>15, <2>1 DEF Synced, d
<1>17. New(w, y, dk2, im)
  <2>1. New(v, y, dk, im)
    BY <1>2, SameCall
  <2> QED BY <1>2, <1>9, <1>15, <2>1 DEF New
<1>18. y.todo = End(x) /\ End(x) # <<>>
  <2>1. End(x) \in Seq(Steps) /\ End(x) # <<>>
    BY <1>1, EndList DEF d, n
  <2>2. PICK t \in Seq(Steps) : t = End(x)
    BY <2>1
  <2>3. Tail(Cons(Step("put", 0), t)) = t
    BY StepKinds, Conses
  <2> QED BY <2>1, <2>2, <2>3 DEF Puts
<1>19. Entered(w, y, dk2, im)
  <2>1. CASE x.op = "mkdir"
    <3>1. y.todo = Load(x.dir, <<>>) /\ Synced(w, dk2, {x.dir})
      BY <1>16, <1>18, <2>1 DEF End, Behind, d
    <3>2. Syncs(w, y, dk2, y.dir, <<>>, {})
      BY <3>1 DEF Syncs, Same
    <3> QED BY <1>2, <1>9, <1>15, <1>17, <2>1, <3>2 DEF Entered, Same
  <2>2. CASE x.op # "mkdir"
    <3>1. x.op = "create"
      BY <1>2, <2>2 DEF New
    <3>2. PICK rest : rest = Cons(Step("ibits", 0), <<>>)
      OBVIOUS
    <3>3. y.todo = Load(x.dir, Load(x.ino, rest)) /\ Synced(w, dk2, {x.ino} \cup {x.dir})
      BY <1>16, <1>18, <2>2, <3>1, <3>2 DEF End, Behind, d
    <3>4. Syncs(w, y, dk2, y.dir, Load(y.ino, rest), {y.ino})
      BY <3>3 DEF Syncs, Same
    <3> QED BY <1>2, <1>9, <1>15, <1>17, <2>2, <3>2, <3>4 DEF Entered, Same
  <2> QED BY <2>1, <2>2
<1> QED BY <1>14, <1>18, <1>19 DEF Sound, Phase

\* The removed entry is cleared.
LEMMA ClearsEntry ==
  ASSUME NEW v, NEW x, NEW dk, NEW im, NEW bm, NEW co, Sound(v, x, dk, im, bm, co),
         Clears(v, x, dk, im), Head(x.todo).do = "put", NEW y, Same(x, y), y.todo = Tail(x.todo),
         NEW dk2, PutSector(dk, dk2, x.lba, x.sec, x.slot, x.ent),
         NEW co2, AddSize(co, co2, x.dir, -1)
  PROVE  y.todo # <<>> /\ \E w : Sound(w, y, dk2, im, bm, co2)
<1> DEFINE d == x.dir
           n == x.ino
           k == x.idx
           s == x.slot
<1>1. /\ Sees(v, x, dk, bm, co) /\ d \in Ino /\ n \in Ino /\ Agrees(v, bm, dk.ents) /\ dk \in Disk
      /\ Types(v) /\ Shown(v.at, v.ent, v.dirs, dk.ents) /\ Tree(v.ent, v.dirs, v.live, v.pend)
  BY DEF Sound, Sees, Agrees
<1>2. PICK t \in Seq(Steps) : t = End(x) /\ t # <<>>
  BY <1>1, EndList
<1>3. /\ Old(v, x, dk, im) /\ v.pend = 0 /\ v.hand = {} /\ v.tab = dk.tab /\ v.late = -1
      /\ Synced(v, dk, {}) /\ k \in Index /\ s \in Slot /\ Aims(v, x)
      /\ x.lba = v.at[d][k] /\ x.lba # 0 /\ x.todo = Cons(Step("put", 0), t)
      /\ x.sec = dk.ents[x.lba]
  <2>1. Head(Cons(Step("drop", 0), t)) = Step("drop", 0)
    BY StepKinds, Conses
  <2>2. Head(Cons(Step("drop", 0), t)).do = "drop"
    BY <2>1, StepKinds
  <2> QED BY <1>2, <2>2 DEF Clears
<1>4. /\ x.op \in {"unlink", "rmdir"} /\ d \in v.dirs /\ n \in v.live \ {0} /\ x.ent = Free
      /\ NoNames(v.ent, n) /\ IsName(v.ent, d, k, s) /\ v.ent[d][k][s].ino = n
      /\ v.ent[d][k][s] # Free
  BY <1>3, Zenon DEF Old, Aims, IsName
<1>5. /\ v.ent \in [Ino -> [Index -> Sector]] /\ v.live \in SUBSET Ino /\ v.dirs \in SUBSET Ino
  BY <1>1 DEF Types
<1>7. PICK ent2 \in [Ino -> [Index -> Sector]] : EntryPut(v.ent, ent2, d, k, s, Free)
  BY <1>1, <1>3, <1>5, Zeros, EntryPuts
<1>8. PICK w : w = [node |-> [v.node EXCEPT ![x.dir] = co2[x.dir]], tab |-> v.tab,
                    live |-> v.live, dirs |-> v.dirs,
                    at |-> v.at, ent |-> ent2, hand |-> {}, pend |-> n, late |-> -1]
  OBVIOUS
<1>9. /\ w.tab = v.tab /\ w.live = v.live /\ w.dirs = v.dirs /\ w.at = v.at /\ w.ent = ent2
      /\ w.hand = {} /\ w.pend = n /\ w.late = -1
  BY <1>8
<1>10. w.node = [v.node EXCEPT ![x.dir] = co2[x.dir]]
  BY <1>8
<1> HIDE <1>8
<1> HIDE DEF d, n, k, s
<1>11. Tree(ent2, v.dirs, v.live, n)
  <2>1. Tree(v.ent, v.dirs, v.live, 0)
    BY <1>1, <1>3
  <2> QED BY <1>1, <1>3, <1>4, <1>5, <1>7, <2>1, TreeUnnames
<1>12. Cardinality(Filled(ent2[d])) = Cardinality(Filled(v.ent[d])) + (-1)
  <2>1. Cardinality(Filled(ent2[d])) = Cardinality(Filled(v.ent[d])) - 1
    <3>1. PICK ent \in [Ino -> [Index -> Sector]] : ent = v.ent
      BY <1>5
    <3>2. d \in Ino /\ s \in Slot /\ EntryPut(ent, ent2, d, k, s, Free) /\ ent[d][k][s] # Free
      BY <1>1, <1>3, <1>4, <1>7, <3>1
    <3>3. Cardinality(Filled(ent2[d])) = Cardinality(Filled(ent[d])) - 1
      BY <1>3, <3>2, FilledLess
    <3> QED BY <3>1, <3>3
  <2>2. Cardinality(Filled(v.ent[d])) \in Nat
    BY FilledFinite
  <2> QED BY <2>1, <2>2
<1>13. Sees(w, x, dk2, bm, co2)
  <2>1. /\ Sees(v, x, dk, bm, co) /\ x.dir \in v.dirs /\ k \in Index /\ s \in Slot /\ Free \in Entry
        /\ (Free.type = "unknown" => Free = Free) /\ x.lba = v.at[x.dir][k] /\ x.lba # 0
    BY <1>1, <1>3, <1>4, Zeros DEF d
  <2>2. PutSector(dk, dk2, x.lba, dk.ents[x.lba], s, Free) /\ -1 \in Int /\ AddSize(co, co2, x.dir, -1)
    BY <1>3, <1>4 DEF s
  <2>3. /\ OtherEntries(v, w) /\ w.pend \in w.live /\ w.late = v.late
        /\ w.node = [v.node EXCEPT ![x.dir] = co2[x.dir]]
        /\ w.ent \in [Ino -> [Index -> Sector]] /\ EntryPut(v.ent, w.ent, x.dir, k, s, Free)
        /\ Tree(w.ent, w.dirs, w.live, w.pend)
        /\ Cardinality(Filled(w.ent[x.dir])) = Cardinality(Filled(v.ent[x.dir])) + (-1)
    BY <1>3, <1>4, <1>7, <1>9, <1>10, <1>11, <1>12 DEF OtherEntries, d
  <2> HIDE DEF OtherEntries
  <2> QED BY <2>1, <2>2, <2>3, PutsSees
<1>14. Sees(w, y, dk2, bm, co2)
  BY <1>13, SeesOn DEF Same
<1>15. dk2.inode = dk.inode /\ dk2.ibits = dk.ibits /\ dk2.tab = dk.tab
  BY DEF PutSector
<1>16. Synced(w, dk2, {} \cup {d})
  BY <1>3, <1>10, <1>15 DEF Synced, d
<1>17. Old(w, y, dk2, im)
  <2>1. Old(v, y, dk, im) /\ y.dir = x.dir /\ y.ino = x.ino
    BY <1>3, SameCall DEF Same
  <2>2. NoNames(ent2, n)
    <3>1. d # n
      BY <1>3 DEF Old, d, n
    <3>2. n \in Ino /\ \A l \in Index, u \in Slot : ent2[n][l][u] = v.ent[n][l][u]
      BY <1>1, <1>7, <3>1 DEF EntryPut, n
    <3>3. \A l \in Index, u \in Slot : ~IsName(v.ent, n, l, u)
      BY <1>4 DEF NoNames
    <3>4. ASSUME NEW l \in Index, NEW u \in Slot PROVE ~IsName(ent2, n, l, u)
      BY <3>2, <3>3 DEF IsName
    <3> QED BY <3>4 DEF NoNames
  <2>3. Parent(ent2, d) = Parent(v.ent, d)
    <3>1. <<k, s>> \notin DotPlaces
      BY <1>4 DEF IsName
    <3>2. k # 0 \/ s # 2
      BY <3>1 DEF DotPlaces
    <3> QED BY <1>1, <1>7, <3>2, Ranges DEF Parent, EntryPut
  <2> QED BY <1>9, <1>15, <2>1, <2>2, <2>3 DEF Old, d, n
<1>18. y.todo = t
  <2>1. Tail(Cons(Step("put", 0), t)) = t
    BY StepKinds, Conses
  <2> QED BY <1>3, <2>1
<1>19. Removed(w, y, dk2, im)
  <2>1. y.todo = Load(y.dir, Cons(Step("release", 0), <<>>))
    BY <1>2, <1>4, <1>18 DEF End, Same
  <2>2. Syncs(w, y, dk2, y.dir, Cons(Step("release", 0), <<>>), {})
    BY <1>16, <2>1 DEF Syncs, Same, d
  <2> QED BY <1>3, <1>9, <1>15, <1>17, <2>2 DEF Removed, Same, n
<1> QED BY <1>2, <1>14, <1>18, <1>19 DEF Sound, Phase

-----------------------------------------------------------------------------
\* A block in hand is given back.
OtherHand(v, w) ==
    /\ w.node = v.node /\ w.tab = v.tab /\ w.live = v.live /\ w.dirs = v.dirs /\ w.at = v.at
    /\ w.ent = v.ent /\ w.pend = v.pend /\ w.late = v.late

LEMMA HandFreed ==
  ASSUME NEW v, NEW bm, NEW e, Agrees(v, bm, e), NEW c \in v.hand,
         NEW w, OtherHand(v, w), w.hand = v.hand \ {c}
  PROVE  Agrees(w, bm \ {c - 1}, e)
<1>1. Types(v) /\ Owned(v.at, v.hand, bm)
  BY DEF Agrees
<1>2. Types(w)
  BY <1>1 DEF Types, OtherHand
<1>3. Owned(w.at, w.hand, bm \ {c - 1})
  <2>1. PICK hand \in SUBSET Block : hand = v.hand
    BY <1>1 DEF Types
  <2>2. v.at \in [Ino -> [Where -> 0 .. Blocks]] /\ Owned(v.at, hand, bm) /\ c \in hand
    BY <1>1, <2>1 DEF Types
  <2>3. Owned(v.at, hand \ {c}, bm \ {c - 1})
    BY <2>2, OwnedFrees
  <2>4. w.at = v.at /\ w.hand = hand \ {c}
    BY <2>1 DEF OtherHand
  <2> QED BY <2>3, <2>4
<1> QED BY <1>2, <1>3 DEF Agrees, OtherHand

LEMMA SeesFreed ==
  ASSUME NEW v, NEW x, NEW dk, NEW bm, NEW co, Sees(v, x, dk, bm, co), NEW c \in v.hand,
         NEW w, OtherHand(v, w), w.hand = v.hand \ {c},
         NEW dk2 \in Disk, dk2.inode = dk.inode, dk2.ents = dk.ents, dk2.bbits = bm \ {c - 1}
  PROVE  Sees(w, x, dk2, bm \ {c - 1}, co)
<1>1. Agrees(w, bm \ {c - 1}, dk.ents)
  <2>1. Agrees(v, bm, dk.ents)
    BY DEF Sees
  <2> QED BY <2>1, HandFreed
<1> QED BY <1>1 DEF Sees, OtherHand

\* An entry leaves with its block, which is in hand then.
Single(g, k, s) == \A t \in Slot \ {s} : g[k][t] = Free
Counts(node, node2, d, late) ==
    node2[d].size = IF late = d THEN node[d].size ELSE node[d].size - 1

LEMMA Leaves ==
  ASSUME NEW v, NEW bm, NEW e, Agrees(v, bm, e), v.hand = {}, v.late = -1, v.pend = 0,
         NEW d \in v.dirs, NEW k \in Index, NEW s \in Slot, NEW n \in v.live \ {0},
         IsName(v.ent, d, k, s), v.ent[d][k][s].ino = n, NoNames(v.ent, n),
         Single(v.ent[d], k, s), v.at[d][k] # 0,
         NEW w, w.live = v.live, w.dirs = v.dirs, w.hand = {v.at[d][k]}, w.pend = n,
         w.late \in {-1, d},
         w.at \in [Ino -> [Where -> 0 .. Blocks]], Placed(v.at, w.at, d, k, 0),
         w.ent \in [Ino -> [Index -> Sector]], EntryPut(v.ent, w.ent, d, k, s, Free),
         w.node \in [Ino -> Node], OnlyAt(v.node, w.node, d),
         Counts(v.node, w.node, d, w.late),
         w.tab \in [Block -> Table], KeptTables(v.node, v.live, d, v.tab, w.tab),
         Names(w.at[d], w.node[d], w.tab)
  PROVE  Agrees(w, bm, e)
<1>1. /\ Types(v) /\ Owned(v.at, {}, bm) /\ Laid(v.at, v.node, v.tab, v.live)
      /\ Shown(v.at, v.ent, v.dirs, e) /\ Tree(v.ent, v.dirs, v.live, 0)
      /\ Sizes(v.node, v.ent, v.dirs, -1) /\ EmptyFiles(v.node, v.at, v.dirs, v.live)
  BY DEF Agrees
<1>2. /\ v.at \in [Ino -> [Where -> 0 .. Blocks]] /\ v.live \in SUBSET Ino /\ v.dirs \in SUBSET Ino
      /\ v.dirs \subseteq v.live /\ v.node \in [Ino -> Node] /\ v.ent \in [Ino -> [Index -> Sector]]
      /\ 0 \in v.dirs /\ d \in Ino
  BY <1>1 DEF Types
<1>3. k \in Where /\ v.at[d][k] \in Block
  <2>1. k \in Where
    BY Ranges
  <2>2. v.at[d][k] \in 0 .. Blocks
    BY <1>2, <2>1
  <2> QED BY <2>1, <2>2, Ranges
<1>4. Types(w)
  BY <1>1, <1>2, <1>3 DEF Types
<1>5. Owned(w.at, w.hand, bm)
  <2>1. Owned(w.at, {v.at[d][k]}, bm)
    BY <1>1, <1>2, <1>3, OwnedLeaves
  <2> QED BY <2>1
<1>6. OnlyAt(v.at, w.at, d)
  <2>1. ASSUME NEW i \in Ino \ {d} PROVE w.at[i] = v.at[i]
    <3>1. \A l \in Where : w.at[i][l] = v.at[i][l]
      BY <2>1 DEF Placed
    <3>2. w.at[i] \in [Where -> 0 .. Blocks] /\ v.at[i] \in [Where -> 0 .. Blocks]
      BY <1>2
    <3> QED BY <3>1, <3>2
  <2> QED BY <2>1 DEF OnlyAt
<1>7. Laid(w.at, w.node, w.tab, w.live)
  <2>1. d \in w.live /\ OnlyIn(v.live, w.live, d)
    BY <1>2 DEF OnlyIn
  <2> QED BY <1>1, <1>2, <1>6, <2>1, LaidChanges
<1>8. \A i \in Ino, l \in Index, t \in Slot :
         w.ent[i][l][t] = IF i = d /\ l = k /\ t = s THEN Free ELSE v.ent[i][l][t]
  BY DEF EntryPut
<1>9. \A i \in Ino, l \in Index : v.ent[i][l] \in [Slot -> Entry] /\ w.ent[i][l] \in [Slot -> Entry]
  BY <1>2 DEF Sector
<1>10. \A i \in Ino, l \in Index : i # d \/ l # k => w.ent[i][l] = v.ent[i][l]
  BY <1>8, <1>9
<1>11. w.ent[d][k] = ZeroSector
  <2>1. \A t \in Slot : w.ent[d][k][t] = ZeroSector[t]
    <3>1. ASSUME NEW t \in Slot PROVE w.ent[d][k][t] = Free
      <4>1. CASE t = s
        BY <1>2, <1>8, <4>1
      <4>2. CASE t # s
        <5>1. w.ent[d][k][t] = v.ent[d][k][t]
          BY <1>2, <1>8, <4>2
        <5>2. t \in Slot \ {s}
          BY <4>2
        <5> QED BY <5>1, <5>2 DEF Single
      <4> QED BY <4>1, <4>2
    <3> QED BY <3>1, Zeros
  <2>2. ZeroSector \in [Slot -> Entry]
    BY Zeros DEF Sector
  <2> QED BY <1>2, <1>9, <2>1, <2>2
<1>12. OnlyAt(v.ent, w.ent, d)
  <2>1. ASSUME NEW i \in Ino \ {d} PROVE w.ent[i] = v.ent[i]
    <3>1. w.ent[i] \in [Index -> Sector] /\ v.ent[i] \in [Index -> Sector]
      BY <1>2
    <3> QED BY <1>10, <3>1
  <2> QED BY <2>1 DEF OnlyAt
<1>13. Shown(w.at, w.ent, w.dirs, e)
  <2>1. ASSUME NEW l \in Index
        PROVE  w.ent[d][l] = IF w.at[d][l] = 0 THEN ZeroSector ELSE e[w.at[d][l]]
    <3>1. l \in Where /\ w.at[d][l] = IF l = k THEN 0 ELSE v.at[d][l]
      BY <1>2, Ranges DEF Placed
    <3>2. v.ent[d][l] = IF v.at[d][l] = 0 THEN ZeroSector ELSE e[v.at[d][l]]
      BY <1>1 DEF Shown
    <3> QED BY <1>2, <1>10, <1>11, <3>1, <3>2
  <2>2. ShownIn(w.at, w.ent, w.dirs, e, d)
    BY <2>1 DEF ShownIn
  <2>3. KeptSectors(v.at, v.dirs, d, e, e) /\ OnlyIn(v.dirs, w.dirs, d) /\ w.dirs \in SUBSET Ino
    BY <1>2 DEF KeptSectors, OnlyIn
  <2> QED BY <1>1, <1>2, <1>6, <1>12, <2>2, <2>3, ShownChanges
<1>14. Tree(w.ent, w.dirs, w.live, w.pend)
  <2>1. Tree(w.ent, v.dirs, v.live, n)
    BY <1>1, <1>2, TreeUnnames
  <2> QED BY <2>1
<1>15. Sizes(w.node, w.ent, w.dirs, w.late)
  <2>1. w.node[d].size = Cardinality(Filled(w.ent[d])) + (IF d = w.late THEN 1 ELSE 0)
    <3>1. PICK ent \in [Ino -> [Index -> Sector]], ent2 \in [Ino -> [Index -> Sector]] :
             ent = v.ent /\ ent2 = w.ent
      BY <1>2
    <3>2. EntryPut(ent, ent2, d, k, s, Free) /\ ent[d][k][s] # Free
      BY <3>1 DEF IsName
    <3>3. Cardinality(Filled(ent2[d])) = Cardinality(Filled(ent[d])) - 1
      BY <1>2, <3>2, FilledLess
    <3>4. Cardinality(Filled(ent[d])) \in Nat
      BY FilledFinite
    <3>5. v.node[d].size = Cardinality(Filled(ent[d]))
      <4>1. d # -1 /\ v.node[d].size = Cardinality(Filled(v.ent[d])) + (IF d = -1 THEN 1 ELSE 0)
        BY <1>1, <1>2, Ranges DEF Sizes
      <4>2. v.node[d].size = Cardinality(Filled(ent[d])) + 0
        BY <3>1, <4>1
      <4> QED BY <3>4, <4>2
    <3>6. w.late = d \/ w.late # d
      OBVIOUS
    <3>7. CASE w.late = d
      <4>1. w.node[d].size = v.node[d].size
        BY <3>7 DEF Counts
      <4> QED BY <3>1, <3>3, <3>4, <3>5, <3>7, <4>1
    <3>8. CASE w.late # d
      <4>1. w.node[d].size = v.node[d].size - 1
        BY <3>8 DEF Counts
      <4> QED BY <3>1, <3>3, <3>4, <3>5, <3>8, <4>1
    <3> QED BY <3>7, <3>8
  <2>2. ASSUME NEW i \in v.dirs, i # d
        PROVE  w.node[i].size = Cardinality(Filled(w.ent[i])) + (IF i = w.late THEN 1 ELSE 0)
    <3>1. i \in Ino /\ w.node[i] = v.node[i] /\ w.ent[i] = v.ent[i] /\ i # -1 /\ i # w.late
      <4>1. i \in Ino /\ i \in Ino \ {d}
        BY <1>2, <2>2
      <4>2. w.late = -1 \/ w.late = d
        OBVIOUS
      <4>3. i # -1
        BY <4>1, Ranges
      <4> QED BY <1>12, <2>2, <4>1, <4>2, <4>3 DEF OnlyAt
    <3>2. v.node[i].size = Cardinality(Filled(v.ent[i])) + (IF i = -1 THEN 1 ELSE 0)
      BY <1>1 DEF Sizes
    <3> QED BY <3>1, <3>2
  <2>3. ASSUME NEW i \in w.dirs
        PROVE  w.node[i].size = Cardinality(Filled(w.ent[i])) + (IF i = w.late THEN 1 ELSE 0)
    <3>1. CASE i = d
      BY <2>1, <3>1
    <3>2. CASE i # d
      BY <2>2, <3>2
    <3> QED BY <3>1, <3>2
  <2> QED BY <2>3 DEF Sizes
<1>16. EmptyFiles(w.node, w.at, w.dirs, w.live)
  <2>1. \A i \in v.live \ v.dirs : w.node[i] = v.node[i] /\ w.at[i] = v.at[i]
    BY <1>2, <1>6 DEF OnlyAt
  <2> QED BY <1>1, <2>1 DEF EmptyFiles
<1> QED BY <1>4, <1>5, <1>7, <1>13, <1>14, <1>15, <1>16 DEF Agrees

\* The entry to be removed is found,
LEMMA Deleting ==
  ASSUME NEW v, NEW x, NEW dk, NEW im, NEW bm, NEW co, Sound(v, x, dk, im, bm, co),
         x.todo # <<>>, Head(x.todo).do = "delete", NEW k \in Index, NEW s \in Slot,
         IsName(v.ent, x.dir, k, s), v.ent[x.dir][k][s].ino = x.ino
  PROVE  /\ Sees(v, x, dk, bm, co) /\ Deletes(v, x, dk, im) /\ Agrees(v, bm, dk.ents)
         /\ Old(v, x, dk, im) /\ Tail(x.todo) = End(x) /\ End(x) \in Seq(Steps) /\ End(x) # <<>>
         /\ x.dir \in Ino /\ x.ino \in Ino /\ x.dir \in v.dirs /\ x.dir \in v.live
         /\ co[x.dir] = v.node[x.dir] /\ Names(v.at[x.dir], v.node[x.dir], v.tab)
         /\ v.at[x.dir][k] # 0 /\ v.at[x.dir][k] \in Block
<1>1. /\ Sees(v, x, dk, bm, co) /\ Phase(v, x, dk, im) /\ x.dir \in Ino /\ x.ino \in Ino
      /\ Agrees(v, bm, dk.ents) /\ co[x.dir] = v.node[x.dir]
  BY DEF Sound, Sees, Seen
<1>2. Deletes(v, x, dk, im) /\ Old(v, x, dk, im) /\ x.dir \in v.dirs
  <2>1. Deletes(v, x, dk, im)
    BY <1>1, Heads
  <2> QED BY <2>1 DEF Deletes, Old
<1>3. End(x) \in Seq(Steps) /\ End(x) # <<>> /\ Tail(x.todo) = End(x)
  <2>1. End(x) \in Seq(Steps) /\ End(x) # <<>>
    BY <1>1, EndList
  <2>2. PICK t \in Seq(Steps) : t = End(x)
    BY <2>1
  <2>3. Tail(Cons(Step("delete", 0), t)) = t
    BY StepKinds, Conses
  <2> QED BY <1>2, <2>1, <2>2, <2>3 DEF Deletes
<1>4. x.dir \in v.live /\ Names(v.at[x.dir], v.node[x.dir], v.tab)
  BY <1>1, <1>2 DEF Agrees, Types, Laid
<1>5. v.at[x.dir][k] # 0 /\ v.at[x.dir][k] \in Block
  <2>1. v.ent[x.dir][k] = IF v.at[x.dir][k] = 0 THEN ZeroSector ELSE dk.ents[v.at[x.dir][k]]
    BY <1>1, <1>2 DEF Agrees, Shown
  <2>2. v.ent[x.dir][k][s] # ZeroSector[s]
    BY Zeros DEF IsName
  <2>3. v.at[x.dir][k] \in 0 .. Blocks
    BY <1>1, Ranges DEF Agrees, Types
  <2> QED BY <2>1, <2>2, <2>3, Ranges
<1> QED BY <1>1, <1>2, <1>3, <1>4, <1>5

\* in a block with others,
LEMMA DeletesOne ==
  ASSUME NEW v, NEW x, NEW dk, NEW im, NEW bm, NEW co, Sound(v, x, dk, im, bm, co),
         x.todo # <<>>, Head(x.todo).do = "delete", NEW k \in Index, NEW s \in Slot,
         IsName(v.ent, x.dir, k, s), v.ent[x.dir][k][s].ino = x.ino,
         NEW y, Like(x, y), y.idx = k, y.slot = s, y.lba = v.at[x.dir][k], y.sec = dk.ents[y.lba],
         y.todo = Cons(Step("put", 0), Tail(x.todo))
  PROVE  y.todo # <<>> /\ Sound(v, y, dk, im, bm, co)
<1>1. /\ Sees(v, x, dk, bm, co) /\ Deletes(v, x, dk, im) /\ Old(v, x, dk, im)
      /\ Tail(x.todo) = End(x) /\ End(x) \in Seq(Steps) /\ v.at[x.dir][k] # 0
  BY Deleting
<1>2. Sees(v, y, dk, bm, co)
  BY <1>1, SeesOn DEF Like
<1>3. Old(v, y, dk, im) /\ End(y) = End(x)
  BY <1>1, LikeCall
<1>4. y.todo = Cons(Step("put", 0), End(y)) /\ y.todo # <<>>
  <2>1. PICK t \in Seq(Steps) : t = End(x)
    BY <1>1
  <2>2. Cons(Step("put", 0), t) # <<>>
    BY StepKinds, Conses
  <2> QED BY <1>1, <1>3, <2>1, <2>2
<1>5. Aims(v, y)
  BY DEF Aims, Like
<1>6. Clears(v, y, dk, im)
  BY <1>1, <1>3, <1>4, <1>5 DEF Clears, Deletes, Like
<1> QED BY <1>2, <1>4, <1>6 DEF Sound, Phase

\* alone in a block that the inode names,
LEMMA DeletesLast ==
  ASSUME NEW v, NEW x, NEW dk, NEW im, NEW bm, NEW co, Sound(v, x, dk, im, bm, co),
         x.todo # <<>>, Head(x.todo).do = "delete", NEW k \in Index, NEW s \in Slot,
         IsName(v.ent, x.dir, k, s), v.ent[x.dir][k][s].ino = x.ino,
         k < Direct, Single(v.ent[x.dir], k, s),
         NEW y, Like(x, y), y.idx = k, y.slot = s, y.lba = v.at[x.dir][k],
         y.todo = Cons(Step("drop", 0), Tail(x.todo))
  PROVE  y.todo # <<>> /\ Sound(v, y, dk, im, bm, co)
<1>1. /\ Sees(v, x, dk, bm, co) /\ Deletes(v, x, dk, im) /\ Old(v, x, dk, im)
      /\ Tail(x.todo) = End(x) /\ End(x) \in Seq(Steps) /\ v.at[x.dir][k] # 0
  BY Deleting
<1>2. Sees(v, y, dk, bm, co)
  BY <1>1, SeesOn DEF Like
<1>3. Old(v, y, dk, im) /\ End(y) = End(x)
  BY <1>1, LikeCall
<1>4. y.todo = Cons(Step("drop", 0), End(y)) /\ y.todo # <<>>
  <2>1. PICK t \in Seq(Steps) : t = End(x)
    BY <1>1
  <2>2. Cons(Step("drop", 0), t) # <<>>
    BY StepKinds, Conses
  <2> QED BY <1>1, <1>3, <2>1, <2>2
<1>5. Aims(v, y)
  BY DEF Aims, Like
<1>6. \A t \in Slot \ {y.slot} : v.ent[y.dir][y.idx][t] = Free
  BY DEF Like, Single
<1>7. Clears(v, y, dk, im)
  BY <1>1, <1>3, <1>4, <1>5, <1>6 DEF Clears, Deletes, Like
<1> QED BY <1>2, <1>4, <1>7 DEF Sound, Phase

\* or alone in a block that the table of indirect blocks names.
Omits(tier, old, k) == tier = [old EXCEPT ![k - Direct + 1] = 0]
TableOf(v, d) == v.node[d].sect[Direct]
Without(v, w, d, k, n, tier) ==
    /\ w.node = v.node /\ w.live = v.live /\ w.dirs = v.dirs /\ w.hand = {v.at[d][k]}
    /\ w.pend = n /\ w.late = d /\ NoNames(w.ent, n) /\ Parent(w.ent, d) = Parent(v.ent, d)
    /\ TableOf(v, d) # 0 /\ w.tab[TableOf(v, d)] = tier
    /\ \A b \in Block : b # TableOf(v, d) => w.tab[b] = v.tab[b]

LEMMA IndirectLeaves ==
  ASSUME NEW v, NEW bm, NEW e, Agrees(v, bm, e), v.hand = {}, v.late = -1, v.pend = 0,
         NEW d \in v.dirs, NEW k \in Direct .. Last - 1, NEW s \in Slot, NEW n \in v.live \ {0},
         IsName(v.ent, d, k, s), v.ent[d][k][s].ino = n, NoNames(v.ent, n),
         Single(v.ent[d], k, s), v.at[d][k] # 0,
         NEW tier, Omits(tier, v.tab[TableOf(v, d)], k)
  PROVE  \E w : Agrees(w, bm, e) /\ Without(v, w, d, k, n, tier)
<1>3. k \in Where /\ k # -1 /\ k \in Index
  <2>1. Last \in Nat /\ Direct \in Nat
    BY Ranges, DiskConstants
  <2> QED BY <2>1, Ranges
<1>4. /\ Types(v) /\ Owned(v.at, v.hand, bm) /\ Laid(v.at, v.node, v.tab, v.live)
      /\ v.at \in [Ino -> [Where -> 0 .. Blocks]] /\ v.node \in [Ino -> Node]
      /\ v.ent \in [Ino -> [Index -> Sector]] /\ v.live \in SUBSET Ino
      /\ v.tab \in [Block -> Table] /\ d \in Ino /\ d \in v.live /\ n \in Ino
  BY DEF Agrees, Types
<1>5. PICK bt : bt = v.node[d].sect[Direct]
  OBVIOUS
<1>b. Names(v.at[d], v.node[d], v.tab)
  BY <1>4 DEF Laid
<1>6. bt # 0 /\ v.at[d][k] = v.tab[bt][k - Direct + 1]
  BY <1>b, <1>3, <1>5 DEF Names
<1>a. ASSUME NEW i \in v.live, v.node[i].sect[Direct] # 0
      PROVE  /\ v.node[i].sect[Direct] \in Block
             /\ i # d => v.node[i].sect[Direct] # bt
  <2>1. /\ v.node[i].sect[Direct] \in Block /\ v.node[i].sect[Direct] \notin v.hand
        /\ \A j \in v.live : j # i => v.node[j].sect[Direct] # v.node[i].sect[Direct]
    BY <1>4, <1>a, TablesApart
  <2> QED BY <1>4, <1>5, <2>1
<1>7. bt \in Block
  BY <1>4, <1>5, <1>6, <1>a
<1>8. /\ tier \in Table /\ tier[k - Direct + 1] = 0
      /\ \A l \in Direct .. Last - 1 : l # k => tier[l - Direct + 1] = v.tab[bt][l - Direct + 1]
  <2>1. v.tab[bt] \in Table
    BY <1>4, <1>7
  <2>2. PICK z : z = k - Direct + 1 /\ z \in 1 .. Indirect
    BY <1>3, DiskConstants DEF Last
  <2>3. \A l \in Direct .. Last - 1 : l - Direct + 1 \in 1 .. Indirect /\ (l # k => l - Direct + 1 # z)
    BY <2>2, <1>3, DiskConstants DEF Last
  <2>4. tier = [v.tab[bt] EXCEPT ![z] = 0]
    BY <1>5, <2>2 DEF Omits, TableOf
  <2>5. 0 \in 0 .. Blocks
    BY DiskConstants
  <2>6. tier \in Table /\ tier[z] = 0 /\ \A a \in 1 .. Indirect : a # z => tier[a] = v.tab[bt][a]
    BY <2>1, <2>2, <2>4, <2>5 DEF Table
  <2> QED BY <2>2, <2>3, <2>6
<1>9. PICK ent2 \in [Ino -> [Index -> Sector]] : EntryPut(v.ent, ent2, d, k, s, Free)
  BY <1>3, <1>4, Zeros, EntryPuts
<1>10. PICK w : w = [node |-> v.node, tab |-> [v.tab EXCEPT ![bt] = tier],
                    live |-> v.live, dirs |-> v.dirs,
                    at |-> [j \in Ino |-> [l \in Where |-> IF j = d /\ l = k THEN 0 ELSE v.at[j][l]]],
                    ent |-> ent2, hand |-> {v.at[d][k]}, pend |-> n, late |-> d]
  OBVIOUS
<1>11. /\ w.node = v.node /\ w.live = v.live /\ w.dirs = v.dirs /\ w.hand = {v.at[d][k]}
       /\ w.ent = ent2 /\ w.pend = n /\ w.late = d
  BY <1>10
<1>12. /\ w.tab = [v.tab EXCEPT ![bt] = tier]
       /\ w.at = [j \in Ino |-> [l \in Where |-> IF j = d /\ l = k THEN 0 ELSE v.at[j][l]]]
  BY <1>10
<1> HIDE <1>10
<1>13. /\ w.at \in [Ino -> [Where -> 0 .. Blocks]] /\ Placed(v.at, w.at, d, k, 0)
       /\ \A l \in Where : w.at[d][l] = IF l = k THEN 0 ELSE v.at[d][l]
  <2>1. 0 \in 0 .. Blocks
    BY DiskConstants
  <2>2. w.at \in [Ino -> [Where -> 0 .. Blocks]]
    BY <1>4, <1>12, <2>1
  <2>3. \A j \in Ino, l \in Where : w.at[j][l] = IF j = d /\ l = k THEN 0 ELSE v.at[j][l]
    BY <1>12
  <2> QED BY <1>4, <2>2, <2>3 DEF Placed
<1>14. /\ w.tab \in [Block -> Table] /\ w.tab[bt] = tier
       /\ \A b \in Block : b # bt => w.tab[b] = v.tab[b]
  BY <1>4, <1>7, <1>8, <1>12
<1>15. KeptTables(v.node, v.live, d, v.tab, w.tab)
  <2>1. ASSUME NEW i \in v.live \ {d}, v.node[i].sect[Direct] # 0
        PROVE  w.tab[v.node[i].sect[Direct]] = v.tab[v.node[i].sect[Direct]]
    <3>1. v.node[i].sect[Direct] \in Block /\ v.node[i].sect[Direct] # bt
      BY <1>a, <2>1
    <3> QED BY <1>14, <3>1
  <2> QED BY <2>1 DEF KeptTables
<1>16. Names(w.at[d], w.node[d], w.tab)
  <2>1. \A l \in 0 .. Direct - 1 : l \in Where /\ l # k
    BY <1>3, DiskConstants DEF Where, Last
  <2>2. \A l \in Direct .. Last - 1 : l \in Where
    BY DiskConstants DEF Where, Last
  <2>3. w.at[d][-1] = bt
    BY <1>b, <1>3, <1>5, <1>13, Ranges DEF Names
  <2>4. \A l \in 0 .. Direct - 1 : w.at[d][l] = v.node[d].sect[l]
    BY <1>b, <1>13, <2>1 DEF Names
  <2>5. \A l \in Direct .. Last - 1 : w.at[d][l] = tier[l - Direct + 1]
    <3>1. ASSUME NEW l \in Direct .. Last - 1
          PROVE  v.at[d][l] = v.tab[bt][l - Direct + 1]
      BY <1>b, <1>5, <1>6 DEF Names
    <3> QED BY <1>8, <1>13, <2>2, <3>1
  <2>6. w.node[d].sect[Direct] = bt /\ bt # 0 /\ w.node = v.node
    <3>1. w.node = v.node
      BY <1>11
    <3> QED BY <1>5, <1>6, <3>1
  <2>7. w.tab[bt] = tier
    BY <1>14
  <2>8. /\ w.at[d][-1] = w.node[d].sect[Direct]
        /\ \A l \in 0 .. Direct - 1 : w.at[d][l] = w.node[d].sect[l]
    BY <2>3, <2>4, <2>6
  <2>9. \A l \in Direct .. Last - 1 : w.at[d][l] = w.tab[w.node[d].sect[Direct]][l - Direct + 1]
    BY <2>5, <2>6, <2>7
  <2> QED BY <2>6, <2>8, <2>9 DEF Names
<1>17. Agrees(w, bm, e)
  <2>3. /\ w.live = v.live /\ w.dirs = v.dirs /\ w.hand = {v.at[d][k]} /\ w.pend = n
        /\ w.late \in {-1, d} /\ w.ent \in [Ino -> [Index -> Sector]]
        /\ EntryPut(v.ent, w.ent, d, k, s, Free)
        /\ w.node \in [Ino -> Node] /\ OnlyAt(v.node, w.node, d)
    BY <1>4, <1>9, <1>11 DEF OnlyAt
  <2>4. Counts(v.node, w.node, d, w.late)
    BY <1>11 DEF Counts
  <2>5. /\ w.at \in [Ino -> [Where -> 0 .. Blocks]] /\ Placed(v.at, w.at, d, k, 0)
        /\ w.tab \in [Block -> Table] /\ KeptTables(v.node, v.live, d, v.tab, w.tab)
        /\ Names(w.at[d], w.node[d], w.tab)
    BY <1>13, <1>14, <1>15, <1>16
  <2> QED BY <1>3, <2>3, <2>4, <2>5, Leaves
<1>18. NoNames(w.ent, n) /\ Parent(w.ent, d) = Parent(v.ent, d)
  <2>2. NoNames(ent2, n)
    <3>0. d # n
      BY <1>3 DEF NoNames
    <3>1. \A l \in Index, u \in Slot : ent2[n][l][u] = v.ent[n][l][u]
      BY <1>4, <1>9, <3>0 DEF EntryPut
    <3>2. \A l \in Index, u \in Slot : ~IsName(v.ent, n, l, u)
      BY DEF NoNames
    <3>3. ASSUME NEW l \in Index, NEW u \in Slot PROVE ~IsName(ent2, n, l, u)
      BY <3>1, <3>2 DEF IsName
    <3> QED BY <3>3 DEF NoNames
  <2>3. Parent(ent2, d) = Parent(v.ent, d)
    <3>1. k # 0
      BY <1>3, DiskConstants
    <3>2. 0 \in Index /\ 2 \in Slot
      BY Ranges
    <3>3. ent2[d][0][2] = v.ent[d][0][2]
      BY <1>4, <1>9, <3>1, <3>2 DEF EntryPut
    <3> QED BY <3>3 DEF Parent
  <2> QED BY <1>11, <2>2, <2>3
<1>19. Without(v, w, d, k, n, tier)
  BY <1>5, <1>6, <1>11, <1>14, <1>18, Zenon DEF Without, TableOf
<1> QED BY <1>17, <1>19

LEMMA DeletesIndirect ==
  ASSUME NEW v, NEW x, NEW dk, NEW im, NEW bm, NEW co, Sound(v, x, dk, im, bm, co),
         x.todo # <<>>, Head(x.todo).do = "delete", NEW k \in Index, NEW s \in Slot,
         IsName(v.ent, x.dir, k, s), v.ent[x.dir][k][s].ino = x.ino,
         k >= Direct, Single(v.ent[x.dir], k, s),
         NEW y, Like(x, y), y.idx = k, y.lba = v.at[x.dir][k],
         Omits(y.tier, dk.tab[TableOf(v, x.dir)], k),
         y.todo = Cons(Step("drop", 0), Ending(y))
  PROVE  y.todo # <<>> /\ \E w : Sound(w, y, dk, im, bm, co)
<1>1. /\ Sees(v, x, dk, bm, co) /\ Deletes(v, x, dk, im) /\ Old(v, x, dk, im)
      /\ Agrees(v, bm, dk.ents) /\ x.dir \in Ino /\ x.ino \in Ino
      /\ x.dir \in v.dirs /\ x.dir \in v.live /\ co[x.dir] = v.node[x.dir]
      /\ v.at[x.dir][k] # 0
  BY Deleting
<1>2. /\ v.pend = 0 /\ v.hand = {} /\ v.tab = dk.tab /\ v.late = -1 /\ Synced(v, dk, {})
      /\ x.ino \in v.live \ {0} /\ NoNames(v.ent, x.ino)
  BY <1>1 DEF Deletes, Old
<1>3. k \in Direct .. Last - 1
  <2>1. k \in 0 .. Last - 1 /\ Last \in Nat /\ Direct \in Nat
    BY Ranges, DiskConstants
  <2> QED BY <2>1
<1>4. PICK w : Agrees(w, bm, dk.ents) /\ Without(v, w, x.dir, k, x.ino, y.tier)
  <2>1. Omits(y.tier, v.tab[TableOf(v, x.dir)], k)
    BY <1>2
  <2> QED BY <1>1, <1>2, <1>3, <2>1, IndirectLeaves
<1>5. /\ w.node = v.node /\ w.live = v.live /\ w.dirs = v.dirs /\ w.hand = {v.at[x.dir][k]}
      /\ w.pend = x.ino /\ w.late = x.dir
      /\ NoNames(w.ent, x.ino) /\ Parent(w.ent, x.dir) = Parent(v.ent, x.dir)
      /\ TableOf(v, x.dir) # 0 /\ w.tab[TableOf(v, x.dir)] = y.tier
      /\ \A b \in Block : b # TableOf(v, x.dir) => w.tab[b] = v.tab[b]
  BY <1>4 DEF Without
<1>6. Sees(w, y, dk, bm, co)
  <2>1. \A j \in Ino : w.node[j] = IF j \in Seen(y) THEN co[j] ELSE dk.inode[j]
    BY <1>1, <1>5 DEF Sees, Seen, Like
  <2> QED BY <1>1, <1>4, <2>1 DEF Sees, Like
<1>7. Old(w, y, dk, im)
  <2>1. Old(v, y, dk, im) /\ y.dir = x.dir /\ y.ino = x.ino
    BY <1>1, LikeCall DEF Like
  <2> QED BY <1>5, <2>1 DEF Old
<1>8. InHand(w, y, dk)
  <2>1. y.dir = x.dir /\ v.tab = dk.tab
    BY <1>2 DEF Like
  <2> QED BY <1>5, <2>1, Zenon DEF InHand, TableOf
<1>9. DropsIndirect(w, y, dk, im)
  <2>1. y.dir = x.dir /\ y.ino = x.ino
    BY DEF Like
  <2>2. Synced(w, dk, {})
    BY <1>2, <1>5 DEF Synced
  <2> QED BY <1>3, <1>5, <1>7, <1>8, <2>1, <2>2 DEF DropsIndirect
<1>10. y.todo # <<>>
  <2>1. PICK t \in Seq(Steps) : t = Ending(y)
    <3>1. y.dir \in Ino /\ y.ino \in Ino
      BY <1>1 DEF Like
    <3> QED BY <3>1, EndList
  <2>2. Cons(Step("drop", 0), t) # <<>>
    BY StepKinds, Conses
  <2> QED BY <2>1, <2>2
<1> QED BY <1>6, <1>9, <1>10 DEF Sound, Phase

-----------------------------------------------------------------------------
\* The entry is gone from directory d, and from its size; inode n has no name.
Gone(v, w, d, n, nd, tab) ==
    /\ w.node \in [Ino -> Node] /\ OnlyAt(v.node, w.node, d) /\ w.node[d] = nd
    /\ w.live = v.live /\ w.dirs = v.dirs /\ w.hand = {} /\ w.pend = n /\ w.late = -1 /\ w.tab = tab
    /\ NoNames(w.ent, n) /\ Parent(w.ent, d) = Parent(v.ent, d)

LEMMA NowRemoved ==
  ASSUME NEW v, NEW x, NEW dk, NEW im, Old(v, x, dk, im), Synced(v, dk, {}),
         x.dir \in Ino, x.ino \in Ino, NEW w, NEW nd, NEW dk2, Gone(v, w, x.dir, x.ino, nd, dk2.tab),
         NEW y, Same(x, y), y.todo = End(x),
         dk2.inode = dk.inode, dk2.ibits = dk.ibits
  PROVE  y.todo # <<>> /\ Removed(w, y, dk2, im)
<1>1. Old(w, y, dk2, im)
  <2>1. Old(v, y, dk, im) /\ y.dir = x.dir /\ y.ino = x.ino
    BY SameCall DEF Same
  <2> QED BY <2>1 DEF Old, Gone
<1>2. Synced(w, dk2, {} \cup {x.dir})
  BY DEF Synced, Gone, OnlyAt
<1>3. End(x) # <<>> /\ x.op \in {"unlink", "rmdir"}
  BY EndList DEF Old
<1>4. y.todo = Load(y.dir, Cons(Step("release", 0), <<>>)) /\ y.dir = x.dir /\ y.ino = x.ino
  BY <1>3 DEF End, Same
<1>5. Syncs(w, y, dk2, y.dir, Cons(Step("release", 0), <<>>), {})
  BY <1>2, <1>4 DEF Syncs
<1> QED BY <1>1, <1>3, <1>4, <1>5 DEF Removed, Gone

LEMMA GoneSees ==
  ASSUME NEW v, NEW x, NEW dk, NEW bm, NEW co, Sees(v, x, dk, bm, co), NEW w,
         NEW co2 \in [Ino -> Node], OnlyAt(co, co2, x.dir),
         NEW tab, Gone(v, w, x.dir, x.ino, co2[x.dir], tab),
         NEW bm2, Agrees(w, bm2, dk.ents),
         NEW dk2 \in Disk, dk2.inode = dk.inode, dk2.ents = dk.ents, dk2.bbits = bm2,
         NEW y, Same(x, y)
  PROVE  Sees(w, y, dk2, bm2, co2)
<1>1. ASSUME NEW j \in Ino PROVE w.node[j] = IF j \in Seen(x) THEN co2[j] ELSE dk2.inode[j]
  <2>1. CASE j = x.dir
    BY <2>1 DEF Gone, Seen
  <2>2. CASE j # x.dir
    <3>1. w.node[j] = v.node[j] /\ co2[j] = co[j]
      BY <2>2 DEF Gone, OnlyAt
    <3> QED BY <3>1 DEF Sees
  <2> QED BY <2>1, <2>2
<1>2. Sees(w, x, dk2, bm2, co2)
  BY <1>1 DEF Sees
<1> QED BY <1>2, SeesOn DEF Same

\* Place k of an inode is empty, and its size is one less; block c is free.
Near == 0 .. Direct - 1
TablesBut(tab, tab2, bt) == \A b \in Block : b # bt => tab2[b] = tab[b]
Shrunk(nd, nd0, k) == NodeIs(nd, nd0, nd0.size - 1, k, 0)
Freed(bm, bm2, c) == bm2 = bm \ {c - 1}

\* The name of inode n is alone in the block at place k of directory d.
LastOf(v, bm, e, d, k, s, n) ==
    /\ Agrees(v, bm, e) /\ v.hand = {} /\ v.late = -1 /\ v.pend = 0 /\ v.at[d][k] # 0
    /\ d \in v.dirs /\ k \in Index /\ s \in Slot /\ n \in v.live \ {0}
    /\ IsName(v.ent, d, k, s) /\ v.ent[d][k][s].ino = n /\ NoNames(v.ent, n)
    /\ Single(v.ent[d], k, s)

\* The block is given back that held the entry alone and that the inode names.
LEMMA DirectLeaves ==
  ASSUME NEW v, NEW bm, NEW e, NEW d, NEW k \in Near, NEW s, NEW n,
         LastOf(v, bm, e, d, k, s, n),
         NEW nd, Shrunk(nd, v.node[d], k), NEW bm2, Freed(bm, bm2, v.at[d][k])
  PROVE  \E w : Agrees(w, bm2, e) /\ Gone(v, w, d, n, nd, v.tab)
<1>1. /\ Agrees(v, bm, e) /\ v.hand = {} /\ v.late = -1 /\ v.pend = 0 /\ v.at[d][k] # 0
      /\ d \in v.dirs /\ k \in Index /\ s \in Slot /\ n \in v.live \ {0}
      /\ IsName(v.ent, d, k, s) /\ v.ent[d][k][s].ino = n /\ NoNames(v.ent, n)
      /\ Single(v.ent[d], k, s)
  BY DEF LastOf
<1>2. k \in 0 .. Direct - 1
  BY DEF Near
<1>3. k \in Where /\ k # -1 /\ k \in Index /\ k \in 0 .. Direct /\ k # Direct
  <2>1. Last \in Nat /\ Direct \in Nat /\ Direct <= Last
    BY Ranges, DiskConstants DEF Last
  <2> QED BY <1>2, <2>1, Ranges
<1>4. /\ Types(v) /\ Owned(v.at, v.hand, bm) /\ Laid(v.at, v.node, v.tab, v.live)
      /\ v.at \in [Ino -> [Where -> 0 .. Blocks]] /\ v.node \in [Ino -> Node]
      /\ v.ent \in [Ino -> [Index -> Sector]] /\ v.live \in SUBSET Ino
      /\ v.tab \in [Block -> Table] /\ d \in Ino /\ d \in v.live /\ n \in Ino
  BY <1>1 DEF Agrees, Types
<1>5. Names(v.at[d], v.node[d], v.tab)
  BY <1>4 DEF Laid
<1>6. /\ nd \in Node /\ nd.size = v.node[d].size - 1
      /\ \A l \in 0 .. Direct : nd.sect[l] = IF l = k THEN 0 ELSE v.node[d].sect[l]
  BY DEF NodeIs, Shrunk
<1>9. PICK ent2 \in [Ino -> [Index -> Sector]] : EntryPut(v.ent, ent2, d, k, s, Free)
  BY <1>1, <1>3, <1>4, Zeros, EntryPuts
<1>10. PICK u : u = [node |-> [v.node EXCEPT ![d] = nd], tab |-> v.tab,
                    live |-> v.live, dirs |-> v.dirs,
                    at |-> [j \in Ino |-> [l \in Where |-> IF j = d /\ l = k THEN 0 ELSE v.at[j][l]]],
                    ent |-> ent2, hand |-> {v.at[d][k]}, pend |-> n, late |-> -1]
  OBVIOUS
<1>11. /\ u.tab = v.tab /\ u.live = v.live /\ u.dirs = v.dirs /\ u.hand = {v.at[d][k]}
       /\ u.ent = ent2 /\ u.pend = n /\ u.late = -1
  BY <1>10
<1>12. /\ u.node = [v.node EXCEPT ![d] = nd]
       /\ u.at = [j \in Ino |-> [l \in Where |-> IF j = d /\ l = k THEN 0 ELSE v.at[j][l]]]
  BY <1>10
<1> HIDE <1>10
<1>13. /\ u.at \in [Ino -> [Where -> 0 .. Blocks]] /\ Placed(v.at, u.at, d, k, 0)
       /\ \A l \in Where : u.at[d][l] = IF l = k THEN 0 ELSE v.at[d][l]
  <2>1. 0 \in 0 .. Blocks
    BY DiskConstants
  <2>2. u.at \in [Ino -> [Where -> 0 .. Blocks]]
    BY <1>4, <1>12, <2>1
  <2>3. \A j \in Ino, l \in Where : u.at[j][l] = IF j = d /\ l = k THEN 0 ELSE v.at[j][l]
    BY <1>12
  <2> QED BY <1>4, <2>2, <2>3 DEF Placed
<1>14. u.node \in [Ino -> Node] /\ OnlyAt(v.node, u.node, d) /\ u.node[d] = nd
  <2>1. u.node = [v.node EXCEPT ![d] = nd]
    BY <1>12
  <2> QED BY <1>4, <1>6, <2>1 DEF OnlyAt
<1>15. KeptTables(v.node, v.live, d, v.tab, u.tab)
  BY <1>11 DEF KeptTables
<1>16. Names(u.at[d], u.node[d], u.tab)
  <2>1. \A l \in 0 .. Direct - 1 : l \in Where /\ l \in 0 .. Direct
    BY DiskConstants DEF Where, Last
  <2>2. \A l \in Direct .. Last - 1 : l \in Where /\ l # k
    BY <1>2, DiskConstants DEF Where, Last
  <2>3. u.at[d][-1] = nd.sect[Direct] /\ nd.sect[Direct] = v.node[d].sect[Direct]
    BY <1>3, <1>5, <1>6, <1>13, Ranges DEF Names
  <2>4. \A l \in 0 .. Direct - 1 : u.at[d][l] = nd.sect[l]
    BY <1>5, <1>6, <1>13, <2>1 DEF Names
  <2>5. \A l \in Direct .. Last - 1 : u.at[d][l] = v.at[d][l]
    BY <1>13, <2>2
  <2>6. \A l \in Direct .. Last - 1 :
           u.at[d][l] = IF nd.sect[Direct] = 0 THEN 0 ELSE v.tab[nd.sect[Direct]][l - Direct + 1]
    BY <1>5, <2>3, <2>5 DEF Names
  <2>7. u.node[d] = nd /\ u.tab = v.tab
    BY <1>11, <1>14
  <2> QED BY <2>3, <2>4, <2>6, <2>7 DEF Names
<1>17. Agrees(u, bm, e)
  <2>3. /\ u.live = v.live /\ u.dirs = v.dirs /\ u.hand = {v.at[d][k]} /\ u.pend = n
        /\ u.late \in {-1, d} /\ u.ent \in [Ino -> [Index -> Sector]]
        /\ EntryPut(v.ent, u.ent, d, k, s, Free)
        /\ u.node \in [Ino -> Node] /\ OnlyAt(v.node, u.node, d)
    BY <1>9, <1>11, <1>14
  <2>4. Counts(v.node, u.node, d, u.late)
    <3>1. u.late # d /\ u.node[d].size = v.node[d].size - 1
      BY <1>4, <1>6, <1>11, <1>14, Ranges
    <3> QED BY <3>1 DEF Counts
  <2>5. /\ u.at \in [Ino -> [Where -> 0 .. Blocks]] /\ Placed(v.at, u.at, d, k, 0)
        /\ u.tab \in [Block -> Table] /\ KeptTables(v.node, v.live, d, v.tab, u.tab)
        /\ Names(u.at[d], u.node[d], u.tab)
    BY <1>4, <1>11, <1>13, <1>15, <1>16
  <2> QED BY <1>1, <1>3, <2>3, <2>4, <2>5, Leaves
<1>18. NoNames(ent2, n) /\ Parent(ent2, d) = Parent(v.ent, d)
  <2>2. NoNames(ent2, n)
    <3>0. d # n
      BY <1>1 DEF NoNames
    <3>1. \A l \in Index, t \in Slot : ent2[n][l][t] = v.ent[n][l][t]
      BY <1>4, <1>9, <3>0 DEF EntryPut
    <3>2. \A l \in Index, t \in Slot : ~IsName(v.ent, n, l, t)
      BY <1>1 DEF NoNames
    <3>3. ASSUME NEW l \in Index, NEW t \in Slot PROVE ~IsName(ent2, n, l, t)
      BY <3>1, <3>2 DEF IsName
    <3> QED BY <3>3 DEF NoNames
  <2>3. Parent(ent2, d) = Parent(v.ent, d)
    <3>1. k # 0 \/ s # 2
      BY <1>1 DEF IsName, DotPlaces
    <3>2. 0 \in Index /\ 2 \in Slot
      BY Ranges
    <3>3. ent2[d][0][2] = v.ent[d][0][2]
      BY <1>4, <1>9, <3>1, <3>2 DEF EntryPut
    <3> QED BY <3>3 DEF Parent
  <2> QED BY <2>2, <2>3
<1>19. PICK w : w = [node |-> u.node, tab |-> u.tab, live |-> u.live, dirs |-> u.dirs,
                    at |-> u.at, ent |-> u.ent, hand |-> {}, pend |-> u.pend, late |-> u.late]
  OBVIOUS
<1>20. OtherHand(u, w) /\ w.hand = {}
  BY <1>19 DEF OtherHand
<1> HIDE <1>19
<1>21. Agrees(w, bm2, e)
  <2>1. PICK c : c = v.at[d][k]
    OBVIOUS
  <2>2. c \in u.hand /\ w.hand = u.hand \ {c}
    BY <1>11, <1>20, <2>1
  <2>3. Agrees(w, bm \ {c - 1}, e)
    BY <1>17, <1>20, <2>2, HandFreed
  <2> QED BY <2>1, <2>3 DEF Freed
<1>22. Gone(v, w, d, n, nd, v.tab)
  BY <1>11, <1>14, <1>18, <1>20 DEF Gone, OtherHand
<1> QED BY <1>21, <1>22

\* The size of directory d counts the entry that is gone no more.
Counted(v, w, d) ==
    /\ w.live = v.live /\ w.dirs = v.dirs /\ w.ent = v.ent /\ w.pend = v.pend
    /\ w.hand \in SUBSET Block /\ w.late = -1
    /\ w.node \in [Ino -> Node] /\ OnlyAt(v.node, w.node, d)
    /\ w.node[d].size = v.node[d].size - 1
    /\ w.at \in [Ino -> [Where -> 0 .. Blocks]] /\ OnlyAt(v.at, w.at, d)
    /\ \A k \in Index : w.at[d][k] = v.at[d][k]
    /\ w.tab \in [Block -> Table] /\ KeptTables(v.node, v.live, d, v.tab, w.tab)
    /\ Names(w.at[d], w.node[d], w.tab)

LEMMA LateEnds ==
  ASSUME NEW v, NEW bm, NEW e, Agrees(v, bm, e), NEW d, d \in v.dirs, v.late = d,
         NEW w, Counted(v, w, d), NEW bm2, Owned(w.at, w.hand, bm2)
  PROVE  Agrees(w, bm2, e)
<1> USE DEF Counted
<1>1. /\ Types(v) /\ Laid(v.at, v.node, v.tab, v.live) /\ Shown(v.at, v.ent, v.dirs, e)
      /\ Tree(v.ent, v.dirs, v.live, v.pend) /\ Sizes(v.node, v.ent, v.dirs, v.late)
      /\ EmptyFiles(v.node, v.at, v.dirs, v.live) /\ d \in Ino /\ d \in v.live
      /\ v.live \in SUBSET Ino /\ v.dirs \in SUBSET Ino /\ v.dirs \subseteq v.live
      /\ v.node \in [Ino -> Node] /\ v.ent \in [Ino -> [Index -> Sector]]
  BY DEF Agrees, Types
<1>2. Types(w)
  BY <1>1 DEF Types
<1>3. Laid(w.at, w.node, w.tab, w.live)
  <2>1. d \in w.live /\ OnlyIn(v.live, w.live, d)
    BY <1>1 DEF OnlyIn
  <2> QED BY <1>1, <2>1, LaidChanges
<1>4. Shown(w.at, w.ent, w.dirs, e)
  <2>1. ShownIn(w.at, w.ent, w.dirs, e, d)
    BY <1>1 DEF Shown, ShownIn
  <2>2. /\ OnlyAt(v.ent, w.ent, d) /\ OnlyIn(v.dirs, w.dirs, d) /\ w.dirs \in SUBSET Ino
        /\ KeptSectors(v.at, v.dirs, d, e, e)
    BY <1>1 DEF OnlyAt, OnlyIn, KeptSectors
  <2> QED BY <1>1, <2>1, <2>2, ShownChanges
<1>5. Sizes(w.node, w.ent, w.dirs, w.late)
  <2>1. ASSUME NEW i \in v.dirs
        PROVE  w.node[i].size = Cardinality(Filled(w.ent[i])) + (IF i = w.late THEN 1 ELSE 0)
    <3>1. i \in Ino /\ i # -1
      BY <1>1, Ranges
    <3>2. Cardinality(Filled(v.ent[i])) \in Nat
      <4>1. PICK ent \in [Ino -> [Index -> Sector]] : ent = v.ent
        BY <1>1
      <4>2. Cardinality(Filled(ent[i])) \in Nat
        BY FilledFinite
      <4> QED BY <4>1, <4>2
    <3>3. v.node[i].size = Cardinality(Filled(v.ent[i])) + (IF i = d THEN 1 ELSE 0)
      BY <1>1 DEF Sizes
    <3>4. w.node[i].size = Cardinality(Filled(v.ent[i]))
      <4>1. CASE i = d
        <5>1. w.node[i].size = v.node[i].size - 1 /\ v.node[i].size = Cardinality(Filled(v.ent[i])) + 1
          BY <3>3, <4>1
        <5> QED BY <3>2, <5>1
      <4>2. CASE i # d
        <5>1. w.node[i] = v.node[i] /\ v.node[i].size = Cardinality(Filled(v.ent[i])) + 0
          BY <3>1, <3>3, <4>2 DEF OnlyAt
        <5> QED BY <3>2, <5>1
      <4> QED BY <4>1, <4>2
    <3>5. w.node[i].size = Cardinality(Filled(v.ent[i])) + 0
      BY <3>2, <3>4
    <3> QED BY <3>1, <3>5
  <2> QED BY <2>1 DEF Sizes
<1>6. EmptyFiles(w.node, w.at, w.dirs, w.live)
  <2>1. \A i \in v.live \ v.dirs : w.node[i] = v.node[i] /\ w.at[i] = v.at[i]
    BY <1>1 DEF OnlyAt
  <2> QED BY <1>1, <2>1 DEF EmptyFiles
<1> QED BY <1>1, <1>2, <1>3, <1>4, <1>5, <1>6 DEF Agrees

LEMMA LateCounted ==
  ASSUME NEW v, NEW bm, NEW e, Agrees(v, bm, e), NEW d \in v.dirs, v.late = d, v.hand = {},
         NoNames(v.ent, v.pend), NEW nd \in Node, nd.size = v.node[d].size - 1,
         nd.sect = v.node[d].sect
  PROVE  \E w : Agrees(w, bm, e) /\ Gone(v, w, d, v.pend, nd, v.tab)
<1>1. /\ Types(v) /\ Owned(v.at, v.hand, bm) /\ Laid(v.at, v.node, v.tab, v.live)
      /\ v.at \in [Ino -> [Where -> 0 .. Blocks]] /\ v.node \in [Ino -> Node]
      /\ v.tab \in [Block -> Table] /\ d \in Ino /\ d \in v.live
  BY DEF Agrees, Types
<1>2. PICK w : w = [node |-> [v.node EXCEPT ![d] = nd], tab |-> v.tab, live |-> v.live,
                    dirs |-> v.dirs, at |-> v.at, ent |-> v.ent, hand |-> {},
                    pend |-> v.pend, late |-> -1]
  OBVIOUS
<1>3. /\ w.tab = v.tab /\ w.live = v.live /\ w.dirs = v.dirs /\ w.at = v.at /\ w.ent = v.ent
      /\ w.hand = {} /\ w.pend = v.pend /\ w.late = -1
  BY <1>2
<1>4. w.node = [v.node EXCEPT ![d] = nd]
  BY <1>2
<1> HIDE <1>2
<1>5. w.node \in [Ino -> Node] /\ OnlyAt(v.node, w.node, d) /\ w.node[d] = nd
  BY <1>1, <1>4 DEF OnlyAt
<1>6. Names(w.at[d], w.node[d], w.tab)
  <2>1. Names(v.at[d], v.node[d], v.tab)
    BY <1>1 DEF Laid
  <2> QED BY <1>3, <1>5, <2>1 DEF Names
<1>7. Agrees(w, bm, e)
  <2>1. /\ OnlyAt(v.at, w.at, d) /\ \A k \in Index : w.at[d][k] = v.at[d][k]
        /\ KeptTables(v.node, v.live, d, v.tab, w.tab) /\ w.hand \in SUBSET Block
    BY <1>3 DEF OnlyAt, KeptTables
  <2>2. w.node[d].size = v.node[d].size - 1
    BY <1>5
  <2>3. /\ w.at \in [Ino -> [Where -> 0 .. Blocks]] /\ w.tab \in [Block -> Table]
        /\ Owned(w.at, w.hand, bm)
    BY <1>1, <1>3
  <2>4. Counted(v, w, d)
    BY <1>3, <1>5, <1>6, <2>1, <2>2, <2>3 DEF Counted
  <2> QED BY <2>3, <2>4, LateEnds
<1> QED BY <1>3, <1>5, <1>7 DEF Gone

LEMMA TableGoes ==
  ASSUME NEW v, NEW bm, NEW e, Agrees(v, bm, e), NEW d \in v.dirs, v.late = d, v.hand = {},
         NoNames(v.ent, v.pend), NEW bt, bt = TableOf(v, d), bt # 0, v.tab[bt] = ZeroTable,
         NEW nd, Shrunk(nd, v.node[d], Direct), NEW bm2, Freed(bm, bm2, bt),
         NEW tab2 \in [Block -> Table], TablesBut(v.tab, tab2, bt)
  PROVE  \E w : Agrees(w, bm2, e) /\ Gone(v, w, d, v.pend, nd, tab2)
<1>1. /\ Types(v) /\ Owned(v.at, v.hand, bm) /\ Laid(v.at, v.node, v.tab, v.live)
      /\ v.at \in [Ino -> [Where -> 0 .. Blocks]] /\ v.node \in [Ino -> Node]
      /\ v.tab \in [Block -> Table] /\ d \in Ino /\ d \in v.live /\ -1 \in Where
  BY Ranges DEF Agrees, Types
<1>2. Names(v.at[d], v.node[d], v.tab) /\ bt = v.node[d].sect[Direct]
  BY <1>1 DEF Laid, TableOf
<1>3. v.at[d][-1] = bt /\ bt \in Block
  <2>1. v.at[d][-1] = bt
    BY <1>2 DEF Names
  <2>2. v.at[d][-1] \in 0 .. Blocks
    BY <1>1
  <2> QED BY <2>1, <2>2, Ranges
<1>4. ASSUME NEW i \in v.live \ {d}, v.node[i].sect[Direct] # 0
      PROVE  v.node[i].sect[Direct] \in Block /\ v.node[i].sect[Direct] # bt
  <2>1. /\ v.node[i].sect[Direct] \in Block /\ v.node[i].sect[Direct] \notin v.hand
        /\ \A j \in v.live : j # i => v.node[j].sect[Direct] # v.node[i].sect[Direct]
    BY <1>1, <1>4, TablesApart
  <2> QED BY <1>1, <1>2, <2>1
<1>5. /\ nd \in Node /\ nd.size = v.node[d].size - 1 /\ nd.sect[Direct] = 0
      /\ \A l \in 0 .. Direct - 1 : nd.sect[l] = v.node[d].sect[l]
  <2>1. \A l \in 0 .. Direct - 1 : l # Direct /\ l \in 0 .. Direct
    BY DiskConstants
  <2> QED BY <2>1, Ranges DEF NodeIs, Shrunk
<1>6. \A l \in Direct .. Last - 1 : v.at[d][l] = 0
  <2>1. ASSUME NEW l \in Direct .. Last - 1 PROVE v.at[d][l] = 0
    <3>1. v.at[d][l] = v.tab[bt][l - Direct + 1]
      BY <1>2 DEF Names
    <3>2. l - Direct + 1 \in 1 .. Indirect
      BY DiskConstants DEF Last
    <3> QED BY <3>1, <3>2 DEF ZeroTable
  <2> QED BY <2>1
<1>10. PICK w : w = [node |-> [v.node EXCEPT ![d] = nd], tab |-> tab2,
                    live |-> v.live, dirs |-> v.dirs,
                    at |-> [j \in Ino |-> [l \in Where |-> IF j = d /\ l = -1 THEN 0 ELSE v.at[j][l]]],
                    ent |-> v.ent, hand |-> {}, pend |-> v.pend, late |-> -1]
  OBVIOUS
<1>11. /\ w.tab = tab2 /\ w.live = v.live /\ w.dirs = v.dirs /\ w.hand = {}
       /\ w.ent = v.ent /\ w.pend = v.pend /\ w.late = -1
  BY <1>10
<1>12. /\ w.node = [v.node EXCEPT ![d] = nd]
       /\ w.at = [j \in Ino |-> [l \in Where |-> IF j = d /\ l = -1 THEN 0 ELSE v.at[j][l]]]
  BY <1>10
<1> HIDE <1>10
<1>13. /\ w.at \in [Ino -> [Where -> 0 .. Blocks]] /\ Placed(v.at, w.at, d, -1, 0)
       /\ \A l \in Where : w.at[d][l] = IF l = -1 THEN 0 ELSE v.at[d][l]
  <2>1. 0 \in 0 .. Blocks
    BY DiskConstants
  <2>2. w.at \in [Ino -> [Where -> 0 .. Blocks]]
    BY <1>1, <1>12, <2>1
  <2>3. \A j \in Ino, l \in Where : w.at[j][l] = IF j = d /\ l = -1 THEN 0 ELSE v.at[j][l]
    BY <1>12
  <2> QED BY <1>1, <2>2, <2>3 DEF Placed
<1>14. w.node \in [Ino -> Node] /\ OnlyAt(v.node, w.node, d) /\ w.node[d] = nd
  <2>1. w.node = [v.node EXCEPT ![d] = nd]
    BY <1>12
  <2> QED BY <1>1, <1>5, <2>1 DEF OnlyAt
<1>15. OnlyAt(v.at, w.at, d)
  <2>1. ASSUME NEW i \in Ino \ {d} PROVE w.at[i] = v.at[i]
    <3>1. \A l \in Where : w.at[i][l] = v.at[i][l]
      BY <1>13, <2>1 DEF Placed
    <3>2. w.at[i] \in [Where -> 0 .. Blocks] /\ v.at[i] \in [Where -> 0 .. Blocks]
      BY <1>1, <1>13
    <3> QED BY <3>1, <3>2
  <2> QED BY <2>1 DEF OnlyAt
<1>16. KeptTables(v.node, v.live, d, v.tab, w.tab)
  BY <1>4, <1>11 DEF KeptTables, TablesBut
<1>17. Owned(w.at, {}, bm \ {bt - 1})
  <2>1. Owned(v.at, {}, bm) /\ v.at[d][-1] # 0
    BY <1>1, <1>3
  <2>2. Owned(w.at, {v.at[d][-1]}, bm)
    BY <1>1, <1>13, <2>1, OwnedLeaves
  <2>3. {bt} \in SUBSET Block /\ Owned(w.at, {bt}, bm) /\ bt \in {bt}
    BY <1>3, <2>2
  <2>4. Owned(w.at, {bt} \ {bt}, bm \ {bt - 1})
    BY <1>13, <2>3, OwnedFrees
  <2>5. {bt} \ {bt} = {}
    OBVIOUS
  <2> QED BY <2>4, <2>5
<1>18. Names(w.at[d], w.node[d], w.tab)
  <2>1. \A l \in 0 .. Direct - 1 : l \in Where /\ l # -1
    BY DiskConstants DEF Where, Last
  <2>2. \A l \in Direct .. Last - 1 : l \in Where /\ l # -1
    BY DiskConstants DEF Where, Last
  <2>3. w.at[d][-1] = 0
    BY <1>1, <1>13
  <2>4. \A l \in 0 .. Direct - 1 : w.at[d][l] = nd.sect[l]
    BY <1>2, <1>5, <1>13, <2>1 DEF Names
  <2>5. \A l \in Direct .. Last - 1 : w.at[d][l] = 0
    BY <1>6, <1>13, <2>2
  <2>6. w.node[d] = nd
    BY <1>14
  <2> QED BY <1>5, <2>3, <2>4, <2>5, <2>6 DEF Names
<1>19. Agrees(w, bm2, e)
  <2>1. \A k \in Index : w.at[d][k] = v.at[d][k]
    <3>1. \A k \in Index : k \in Where /\ k # -1
      BY Ranges
    <3> QED BY <1>13, <3>1
  <2>2. w.node[d].size = v.node[d].size - 1 /\ w.hand \in SUBSET Block /\ w.tab \in [Block -> Table]
    BY <1>5, <1>11, <1>14
  <2>4. Owned(w.at, w.hand, bm2)
    BY <1>11, <1>17 DEF Freed
  <2>5. Counted(v, w, d)
    BY <1>11, <1>13, <1>14, <1>15, <1>16, <1>18, <2>1, <2>2 DEF Counted
  <2> QED BY <2>4, <2>5, LateEnds
<1> QED BY <1>11, <1>14, <1>19 DEF Gone

\* Place k of a directory's inode is emptied, and its size is one less.
DropSect(co, co2, d, k) ==
    co2 = [co EXCEPT ![d] = [co[d] EXCEPT !.sect[k] = 0, !.size = co[d].size - 1]]

LEMMA DropsSect ==
  ASSUME NEW co \in [Ino -> Node], NEW d \in Ino, NEW k \in 0 .. Direct, NEW co2,
         DropSect(co, co2, d, k)
  PROVE  /\ co2 \in [Ino -> Node] /\ OnlyAt(co, co2, d)
         /\ Shrunk(co2[d], co[d], k)
<1>1. PICK nd0 \in Node : nd0 = co[d]
  OBVIOUS
<1>2. nd0.size \in Int /\ nd0.sect \in [0 .. Direct -> 0 .. Blocks]
  BY DEF Node
<1>3. PICK z \in Int : z = nd0.size - 1
  BY <1>2
<1>4. PICK nd : nd = [nd0 EXCEPT !.size = z, !.sect[k] = 0]
  OBVIOUS
<1>5. NodeIs(nd, nd0, z, k, 0)
  <2>1. 0 \in 0 .. Blocks
    BY DiskConstants
  <2> QED BY <1>4, <2>1, NodeChanges
<1>6. co2 = [co EXCEPT ![d] = nd]
  <2>1. co2 = [co EXCEPT ![d] = [nd0 EXCEPT !.sect[k] = 0, !.size = nd0.size - 1]]
    BY <1>1 DEF DropSect
  <2>2. [nd0 EXCEPT !.sect[k] = 0, !.size = nd0.size - 1] = [nd0 EXCEPT !.size = z, !.sect[k] = 0]
    <3>1. PICK a \in Int, f \in [0 .. Direct -> 0 .. Blocks] : nd0 = [size |-> a, sect |-> f]
      BY DEF Node
    <3>2. nd0.size = a /\ nd0.sect = f
      BY <3>1
    <3> QED BY <1>3, <3>1, <3>2
  <2> QED BY <1>4, <2>1, <2>2
<1> HIDE <1>4
<1>7. nd \in Node
  BY <1>5 DEF NodeIs
<1>8. co2 \in [Ino -> Node] /\ OnlyAt(co, co2, d) /\ co2[d] = nd
  BY <1>6, <1>7 DEF OnlyAt
<1> QED BY <1>1, <1>3, <1>5, <1>8 DEF Shrunk

\* What DropBlock starts from
LEMMA Dropping ==
  ASSUME NEW v, NEW x, NEW dk, NEW im, NEW bm, NEW co, Sound(v, x, dk, im, bm, co),
         x.todo # <<>>, Head(x.todo).do = "drop"
  PROVE  \/ /\ x.idx < Direct /\ Clears(v, x, dk, im) /\ x.todo = Cons(Step("drop", 0), End(x))
            /\ Single(v.ent[x.dir], x.idx, x.slot)
         \/ /\ ~(x.idx < Direct) /\ DropsIndirect(v, x, dk, im) /\ v.hand = {x.lba}
            /\ x.todo = Cons(Step("drop", 0), Ending(x))
<1>1. Phase(v, x, dk, im) /\ x.dir \in Ino /\ x.ino \in Ino
  BY DEF Sound, Sees
<1>2. End(x) \in Seq(Steps) /\ Ending(x) \in Seq(Steps)
  BY <1>1, EndList
<1>3. PICK t \in Seq(Steps) : t = End(x)
  BY <1>2
<1>4. /\ Head(Cons(Step("put", 0), t)).do = "put" /\ Head(Cons(Step("tier", 0), t)).do = "tier"
      /\ Head(Cons(Step("droptier", 0), t)).do = "droptier"
  BY StepKinds, Conses, Zenon
<1>5. Clears(v, x, dk, im) \/ DropsIndirect(v, x, dk, im)
  BY <1>1, Heads
<1>6. CASE Clears(v, x, dk, im)
  BY <1>3, <1>4, <1>6 DEF Clears, Single
<1>7. CASE DropsIndirect(v, x, dk, im)
  <2>1. x.todo # Ending(x)
    BY <1>3, <1>4 DEF Ending
  <2>2. x.idx \in Direct .. Last - 1
    BY <1>7 DEF DropsIndirect
  <2>3. ~(x.idx < Direct)
    <3>1. Last \in Nat /\ Direct \in Nat
      BY Ranges, DiskConstants
    <3> QED BY <2>2, <3>1
  <2> QED BY <1>7, <2>1, <2>3 DEF DropsIndirect
<1> QED BY <1>5, <1>6, <1>7

LEMMA DropsDirect ==
  ASSUME NEW v, NEW x, NEW dk, NEW im, NEW bm, NEW co, Sound(v, x, dk, im, bm, co),
         x.todo # <<>>, Head(x.todo).do = "drop", x.idx < Direct,
         NEW y, Same(x, y), y.todo = Tail(x.todo), NEW co2, DropSect(co, co2, x.dir, x.idx),
         NEW dk2 \in Disk, dk2.inode = dk.inode, dk2.ibits = dk.ibits, dk2.ents = dk.ents,
         dk2.tab = dk.tab, dk2.bbits = bm \ {x.lba - 1}
  PROVE  y.todo # <<>> /\ \E w : Sound(w, y, dk2, im, bm \ {x.lba - 1}, co2)
<1>1. /\ Sees(v, x, dk, bm, co) /\ x.dir \in Ino /\ x.ino \in Ino /\ Agrees(v, bm, dk.ents)
      /\ co \in [Ino -> Node] /\ co[x.dir] = v.node[x.dir]
  BY DEF Sound, Sees, Seen
<1>2. /\ Clears(v, x, dk, im) /\ x.todo = Cons(Step("drop", 0), End(x))
      /\ Single(v.ent[x.dir], x.idx, x.slot)
  BY Dropping
<1>3. /\ Old(v, x, dk, im) /\ v.pend = 0 /\ v.hand = {} /\ v.tab = dk.tab /\ v.late = -1
      /\ Synced(v, dk, {}) /\ x.idx \in Index /\ x.slot \in Slot /\ Aims(v, x)
      /\ x.lba = v.at[x.dir][x.idx] /\ x.lba # 0
  BY <1>2 DEF Clears
<1>4. /\ x.dir \in v.dirs /\ x.ino \in v.live \ {0} /\ NoNames(v.ent, x.ino)
      /\ IsName(v.ent, x.dir, x.idx, x.slot) /\ v.ent[x.dir][x.idx][x.slot].ino = x.ino
  BY <1>3 DEF Old, Aims
<1>5. x.idx \in 0 .. Direct - 1 /\ x.idx \in 0 .. Direct
  <2>1. x.idx \in Nat /\ Direct \in Nat
    BY <1>3, Ranges, DiskConstants
  <2> QED BY <2>1
<1>6. /\ co2 \in [Ino -> Node] /\ OnlyAt(co, co2, x.dir)
      /\ Shrunk(co2[x.dir], v.node[x.dir], x.idx)
  <2>1. /\ co2 \in [Ino -> Node] /\ OnlyAt(co, co2, x.dir)
        /\ Shrunk(co2[x.dir], co[x.dir], x.idx)
    BY <1>1, <1>5, DropsSect
  <2> QED BY <1>1, <2>1
<1>7. PICK bm2 : bm2 = bm \ {x.lba - 1}
  OBVIOUS
<1>8. PICK w : /\ Agrees(w, bm2, dk.ents) /\ Gone(v, w, x.dir, x.ino, co2[x.dir], v.tab)
  <2>1. LastOf(v, bm, dk.ents, x.dir, x.idx, x.slot, x.ino)
    BY <1>1, <1>2, <1>3, <1>4 DEF LastOf
  <2>2. x.idx \in Near
    BY <1>5 DEF Near
  <2>3. Shrunk(co2[x.dir], v.node[x.dir], x.idx) /\ Freed(bm, bm2, v.at[x.dir][x.idx])
    BY <1>3, <1>6, <1>7 DEF Freed
  <2> QED BY <2>1, <2>2, <2>3, DirectLeaves
<1>9. Sees(w, y, dk2, bm2, co2)
  <2>1. dk2.bbits = bm2
    BY <1>7
  <2> QED BY <1>1, <1>6, <1>8, <2>1, GoneSees
<1>10. y.todo # <<>> /\ Removed(w, y, dk2, im)
  <2>1. y.todo = End(x)
    <3>1. PICK t \in Seq(Steps) : t = End(x)
      BY <1>1, EndList
    <3>2. Tail(Cons(Step("drop", 0), t)) = t
      BY StepKinds, Conses
    <3> QED BY <1>2, <3>1, <3>2
  <2>2. Gone(v, w, x.dir, x.ino, co2[x.dir], dk2.tab)
    BY <1>3, <1>8
  <2> QED BY <1>1, <1>3, <2>1, <2>2, NowRemoved
<1> QED BY <1>7, <1>9, <1>10 DEF Sound, Phase

LEMMA DropsFar ==
  ASSUME NEW v, NEW x, NEW dk, NEW im, NEW bm, NEW co, Sound(v, x, dk, im, bm, co),
         x.todo # <<>>, Head(x.todo).do = "drop", ~(x.idx < Direct),
         NEW y, Same(x, y), y.todo = Tail(x.todo),
         NEW dk2 \in Disk, dk2.inode = dk.inode, dk2.ibits = dk.ibits, dk2.ents = dk.ents,
         dk2.tab = dk.tab, dk2.bbits = bm \ {x.lba - 1}
  PROVE  y.todo # <<>> /\ \E w : Sound(w, y, dk2, im, bm \ {x.lba - 1}, co)
<1>1. Sees(v, x, dk, bm, co) /\ x.dir \in Ino /\ x.ino \in Ino
  BY DEF Sound, Sees
<1>2. /\ DropsIndirect(v, x, dk, im) /\ v.hand = {x.lba}
      /\ x.todo = Cons(Step("drop", 0), Ending(x))
  BY Dropping
<1>3. PICK w : w = [node |-> v.node, tab |-> v.tab, live |-> v.live, dirs |-> v.dirs,
                    at |-> v.at, ent |-> v.ent, hand |-> {}, pend |-> v.pend, late |-> v.late]
  OBVIOUS
<1>4. OtherHand(v, w) /\ w.hand = {}
  BY <1>3 DEF OtherHand
<1> HIDE <1>3
<1>5. Sees(w, y, dk2, bm \ {x.lba - 1}, co)
  <2>1. PICK c : c = x.lba
    OBVIOUS
  <2>2. c \in v.hand /\ w.hand = v.hand \ {c} /\ dk2.bbits = bm \ {c - 1}
    BY <1>2, <1>4, <2>1
  <2>3. Sees(w, x, dk2, bm \ {c - 1}, co)
    BY <1>1, <1>4, <2>2, SeesFreed
  <2>4. DOMAIN y = DOMAIN Idle /\ y.dir = x.dir /\ y.ino = x.ino
    BY DEF Same
  <2>5. Sees(w, y, dk2, bm \ {c - 1}, co)
    BY <2>3, <2>4, SeesOn
  <2> QED BY <2>1, <2>5
<1>6. y.todo = Ending(y) /\ y.todo # <<>>
  <2>1. Ending(y) = Ending(x)
    BY SameLists DEF Ending, Same
  <2>2. PICK t \in Seq(Steps) : t = Ending(x)
    BY <1>1, EndList
  <2>3. Tail(Cons(Step("drop", 0), t)) = t
    BY StepKinds, Conses
  <2>4. Ending(x) # <<>>
    <3>1. PICK u \in Seq(Steps) : u = End(x)
      BY <1>1, EndList
    <3>2. Cons(Step("tier", 0), u) # <<>> /\ Cons(Step("droptier", 0), u) # <<>>
      BY StepKinds, Conses
    <3> QED BY <3>1, <3>2 DEF Ending
  <2> QED BY <1>2, <2>1, <2>2, <2>3, <2>4
<1>7. Old(w, y, dk2, im)
  <2>1. Old(v, y, dk, im)
    BY <1>2, SameCall DEF DropsIndirect
  <2> QED BY <1>4, <2>1 DEF Old, OtherHand
<1>8. DropsIndirect(w, y, dk2, im)
  <2>1. InHand(w, y, dk2) /\ Synced(w, dk2, {})
    BY <1>2, <1>4 DEF DropsIndirect, InHand, Synced, OtherHand, Same
  <2> QED BY <1>2, <1>4, <1>6, <1>7, <2>1 DEF DropsIndirect, OtherHand, Same
<1> QED BY <1>5, <1>6, <1>8 DEF Sound, Phase

\* The table without the block is written back,
LEMMA TableCounted ==
  ASSUME NEW v, NEW x, NEW dk, NEW im, NEW bm, NEW co, Sound(v, x, dk, im, bm, co),
         x.todo # <<>>, Head(x.todo).do = "tier", DropsIndirect(v, x, dk, im),
         NEW y, Same(x, y), y.todo = Tail(x.todo), NEW co2, AddSize(co, co2, x.dir, -1),
         NEW dk2 \in Disk, TableWritten(x, dk, dk2, co)
  PROVE  y.todo # <<>> /\ \E w : Sound(w, y, dk2, im, bm, co2)
<1> USE DEF TableWritten
<1>1. /\ Sees(v, x, dk, bm, co) /\ x.dir \in Ino /\ x.ino \in Ino /\ Agrees(v, bm, dk.ents)
      /\ co \in [Ino -> Node] /\ co[x.dir] = v.node[x.dir] /\ dk.bbits = bm
      /\ v.tab \in [Block -> Table] /\ dk.tab \in [Block -> Table]
  BY DEF Sound, Sees, Seen, Agrees, Types, Disk
<1>2. /\ Old(v, x, dk, im) /\ v.pend = x.ino /\ v.late = x.dir /\ Synced(v, dk, {})
      /\ InHand(v, x, dk)
  BY DEF DropsIndirect
<1>3. PICK t \in Seq(Steps) : t = End(x)
  BY <1>1, EndList
<1>4. x.todo = Cons(Step("tier", 0), t) /\ v.hand = {}
  <2>1. /\ Head(Cons(Step("drop", 0), Ending(x))).do = "drop"
        /\ Head(Cons(Step("droptier", 0), t)).do = "droptier"
    <3>1. PICK u \in Seq(Steps) : u = Ending(x)
      BY <1>1, EndList
    <3>2. /\ Head(Cons(Step("drop", 0), u)) = Step("drop", 0)
          /\ Head(Cons(Step("droptier", 0), t)) = Step("droptier", 0)
      BY StepKinds, Conses
    <3> QED BY <3>1, <3>2, StepKinds
  <2> QED BY <1>3, <2>1 DEF DropsIndirect, Ending
<1>5. y.todo = End(x)
  <2>1. Tail(Cons(Step("tier", 0), t)) = t
    BY StepKinds, Conses
  <2> QED BY <1>3, <1>4, <2>1
<1>6. dk2.tab = v.tab
  <2>1. PICK bt : bt = v.node[x.dir].sect[Direct]
    OBVIOUS
  <2>2. x.tier = v.tab[bt] /\ \A b \in Block : b # bt => v.tab[b] = dk.tab[b]
    BY <1>2, <2>1 DEF InHand
  <2>3. dk2.tab = [dk.tab EXCEPT ![bt] = v.tab[bt]]
    BY <1>1, <2>1, <2>2
  <2> QED BY <1>1, <2>2, <2>3
<1>7. /\ co2 \in [Ino -> Node] /\ OnlyAt(co, co2, x.dir) /\ co2[x.dir] \in Node
      /\ co2[x.dir].size = v.node[x.dir].size - 1 /\ co2[x.dir].sect = v.node[x.dir].sect
  <2>1. /\ co2 \in [Ino -> Node] /\ OnlyAt(co, co2, x.dir) /\ co2[x.dir] \in Node
        /\ co2[x.dir].size = co[x.dir].size + (-1) /\ co2[x.dir].sect = co[x.dir].sect
    BY <1>1, AddsSize
  <2>2. co[x.dir].size \in Int
    BY <1>1 DEF Node
  <2> QED BY <1>1, <2>1, <2>2
<1>8. PICK w : Agrees(w, bm, dk.ents) /\ Gone(v, w, x.dir, v.pend, co2[x.dir], v.tab)
  <2>1. x.dir \in v.dirs /\ NoNames(v.ent, v.pend)
    BY <1>2 DEF Old
  <2> QED BY <1>1, <1>2, <1>4, <1>7, <2>1, LateCounted
<1>9. Gone(v, w, x.dir, x.ino, co2[x.dir], dk2.tab) /\ dk2.bbits = bm
  BY <1>1, <1>2, <1>6, <1>8
<1>10. Sees(w, y, dk2, bm, co2)
  BY <1>1, <1>7, <1>8, <1>9, GoneSees
<1>11. y.todo # <<>> /\ Removed(w, y, dk2, im)
  BY <1>1, <1>2, <1>5, <1>9, NowRemoved
<1> QED BY <1>10, <1>11 DEF Sound, Phase

\* or, when it names no block any more, given back.
LEMMA DropsTable ==
  ASSUME NEW v, NEW x, NEW dk, NEW im, NEW bm, NEW co, Sound(v, x, dk, im, bm, co),
         x.todo # <<>>, Head(x.todo).do = "droptier",
         NEW y, Same(x, y), y.todo = Tail(x.todo), NEW co2, DropSect(co, co2, x.dir, Direct),
         NEW bt, bt = co[x.dir].sect[Direct],
         NEW dk2 \in Disk, dk2.inode = dk.inode, dk2.ibits = dk.ibits, dk2.ents = dk.ents,
         dk2.tab = dk.tab, dk2.bbits = bm \ {bt - 1}
  PROVE  y.todo # <<>> /\ \E w : Sound(w, y, dk2, im, bm \ {bt - 1}, co2)
<1>1. /\ Sees(v, x, dk, bm, co) /\ x.dir \in Ino /\ x.ino \in Ino /\ Agrees(v, bm, dk.ents)
      /\ co \in [Ino -> Node] /\ co[x.dir] = v.node[x.dir] /\ Phase(v, x, dk, im)
      /\ v.tab \in [Block -> Table] /\ dk.tab \in [Block -> Table]
  BY DEF Sound, Sees, Seen, Agrees, Types, Disk
<1>a. DropsIndirect(v, x, dk, im)
  BY <1>1, Heads
<1>2. /\ Old(v, x, dk, im) /\ v.pend = x.ino /\ v.late = x.dir /\ Synced(v, dk, {})
      /\ InHand(v, x, dk)
  BY <1>a DEF DropsIndirect
<1>3. PICK t \in Seq(Steps) : t = End(x)
  BY <1>1, EndList
<1>4. x.todo = Cons(Step("droptier", 0), t) /\ v.hand = {} /\ x.tier = ZeroTable
  <2>1. /\ Head(Cons(Step("drop", 0), Ending(x))).do = "drop"
        /\ Head(Cons(Step("tier", 0), t)).do = "tier"
    <3>1. PICK u \in Seq(Steps) : u = Ending(x)
      BY <1>1, EndList
    <3>2. /\ Head(Cons(Step("drop", 0), u)) = Step("drop", 0)
          /\ Head(Cons(Step("tier", 0), t)) = Step("tier", 0)
      BY StepKinds, Conses
    <3> QED BY <3>1, <3>2, StepKinds
  <2> QED BY <1>3, <1>a, <2>1 DEF DropsIndirect, Ending
<1>5. y.todo = End(x)
  <2>1. Tail(Cons(Step("droptier", 0), t)) = t
    BY StepKinds, Conses
  <2> QED BY <1>3, <1>4, <2>1
<1>6. /\ bt = TableOf(v, x.dir) /\ bt # 0 /\ v.tab[bt] = ZeroTable
      /\ \A b \in Block : b # bt => dk.tab[b] = v.tab[b]
  BY <1>1, <1>2, <1>4 DEF InHand, TableOf
<1>7. /\ co2 \in [Ino -> Node] /\ OnlyAt(co, co2, x.dir)
      /\ Shrunk(co2[x.dir], v.node[x.dir], Direct)
  <2>1. /\ co2 \in [Ino -> Node] /\ OnlyAt(co, co2, x.dir)
        /\ Shrunk(co2[x.dir], co[x.dir], Direct)
    BY <1>1, Ranges, DropsSect
  <2> QED BY <1>1, <2>1
<1>8. PICK bm2 : bm2 = bm \ {bt - 1}
  OBVIOUS
<1>9. PICK w : /\ Agrees(w, bm2, dk.ents) /\ Gone(v, w, x.dir, v.pend, co2[x.dir], dk.tab)
  <2>1. x.dir \in v.dirs /\ NoNames(v.ent, v.pend)
    BY <1>2 DEF Old
  <2>2. PICK d \in v.dirs, tab2 \in [Block -> Table] : d = x.dir /\ tab2 = dk.tab
    BY <1>1, <2>1
  <2>3. PICK nd : nd = co2[x.dir]
    OBVIOUS
  <2>4. /\ Agrees(v, bm, dk.ents) /\ v.late = d /\ v.hand = {} /\ NoNames(v.ent, v.pend)
        /\ bt = TableOf(v, d) /\ bt # 0 /\ v.tab[bt] = ZeroTable /\ Shrunk(nd, v.node[d], Direct)
        /\ TablesBut(v.tab, tab2, bt)
    BY <1>1, <1>2, <1>4, <1>6, <1>7, <2>1, <2>2, <2>3 DEF TablesBut
  <2>5. Freed(bm, bm2, bt)
    BY <1>8 DEF Freed
  <2>6. \E w : Agrees(w, bm2, dk.ents) /\ Gone(v, w, d, v.pend, nd, tab2)
    BY <2>4, <2>5, TableGoes
  <2> QED BY <2>2, <2>3, <2>6
<1>10. Gone(v, w, x.dir, x.ino, co2[x.dir], dk2.tab) /\ dk2.bbits = bm2
  BY <1>2, <1>8, <1>9
<1>11. Sees(w, y, dk2, bm2, co2)
  BY <1>1, <1>7, <1>9, <1>10, GoneSees
<1>12. y.todo # <<>> /\ Removed(w, y, dk2, im)
  BY <1>1, <1>2, <1>5, <1>10, NowRemoved
<1> QED BY <1>8, <1>11, <1>12 DEF Sound, Phase

-----------------------------------------------------------------------------
\* inode_release as a list
Frees(t, f) == t = [k \in 1 .. Last + 2 |-> IF k < Last + 2 THEN Step("free", f[k - 2])
                                           ELSE Step("ifree", 0)]

LEMMA FreesAll ==
  ASSUME NEW f \in [Where -> 0 .. Blocks], \A k, l \in Where : f[k] # 0 /\ f[k] = f[l] => k = l,
         NEW t, Frees(t, f)
  PROVE  Freeing(t, {f[k] : k \in Where} \ {0})
<1>1. PICK m \in Nat : m = Last + 2 /\ m > 2
  BY Ranges
<1>2. t = [k \in 1 .. m |-> IF k < m THEN Step("free", f[k - 2]) ELSE Step("ifree", 0)]
  BY <1>1 DEF Frees
<1>3. \A k \in 1 .. m - 1 : k - 2 \in Where /\ f[k - 2] \in Nat
  <2>1. \A k \in 1 .. m - 1 : k - 2 \in Where
    BY <1>1, Ranges DEF Where
  <2> QED BY <2>1, DiskConstants
<1>4. \A k \in 1 .. m - 1 : t[k] = Step("free", f[k - 2])
  BY <1>2, <1>1
<1>5. t[m] = Step("ifree", 0)
  BY <1>2, <1>1
<1>6. \A b \in Nat : Step("free", b) \in Steps /\ Step("free", b).do = "free" /\ Step("free", b).on = b
  BY DEF Step, Steps, Doings
<1>7. Step("ifree", 0) \in Steps /\ Step("ifree", 0).do = "ifree"
  BY DEF Step, Steps, Doings
<1>8. t \in [1 .. m -> Steps]
  <2>1. \A k \in 1 .. m : (IF k < m THEN Step("free", f[k - 2]) ELSE Step("ifree", 0)) \in Steps
    <3>1. ASSUME NEW k \in 1 .. m PROVE (IF k < m THEN Step("free", f[k - 2]) ELSE Step("ifree", 0)) \in Steps
      <4>1. k < m => k \in 1 .. m - 1
        BY <1>1
      <4> QED BY <1>3, <1>6, <1>7, <4>1
    <3> QED BY <3>1
  <2> QED BY <1>2, <2>1
<1>9. t \in Seq(Steps) /\ Len(t) = m /\ DOMAIN t = 1 .. m /\ t # <<>>
  BY <1>8, <1>1
<1>10. \A j \in DOMAIN t : t[j].do = IF j = Len(t) THEN "ifree" ELSE "free"
  <2>1. ASSUME NEW j \in 1 .. m PROVE t[j].do = IF j = m THEN "ifree" ELSE "free"
    <3>1. j # m => j \in 1 .. m - 1
      BY <1>1
    <3> QED BY <1>3, <1>4, <1>5, <1>6, <1>7, <3>1
  <2> QED BY <1>9, <2>1
<1>11. \A j \in 1 .. m - 1 : t[j].on = f[j - 2]
  BY <1>3, <1>4, <1>6
<1>12. \A j, l \in 1 .. Len(t) - 1 : t[j].on = t[l].on /\ j # l => t[j].on = 0
  <2>1. ASSUME NEW j \in 1 .. m - 1, NEW l \in 1 .. m - 1, f[j - 2] = f[l - 2], f[j - 2] # 0
        PROVE  j = l
    <3>1. j - 2 = l - 2
      BY <1>3, <2>1
    <3> QED BY <1>1, <3>1
  <2> QED BY <1>9, <1>11, <2>1
<1>13. {f[k] : k \in Where} \ {0} = {t[j].on : j \in 1 .. Len(t) - 1} \ {0}
  <2>1. ASSUME NEW k \in Where PROVE \E j \in 1 .. m - 1 : f[k] = t[j].on
    <3>1. k + 2 \in 1 .. m - 1 /\ (k + 2) - 2 = k
      BY <1>1, Ranges DEF Where
    <3> QED BY <1>11, <3>1
  <2>2. ASSUME NEW j \in 1 .. m - 1 PROVE \E k \in Where : t[j].on = f[k]
    BY <1>3, <1>11
  <2>3. {f[k] : k \in Where} = {t[j].on : j \in 1 .. m - 1}
    BY <2>1, <2>2
  <2>4. Len(t) - 1 = m - 1
    BY <1>9
  <2> QED BY <2>3, <2>4
<1> QED BY <1>9, <1>10, <1>12, <1>13 DEF Freeing

\* One block of the list is given back,
LEMMA FreesOne ==
  ASSUME NEW t, NEW hand, Freeing(t, hand), Head(t).do = "free", NEW b, b = Head(t).on
  PROVE  /\ b # 0 => b \in hand
         /\ Freeing(Tail(t), IF b = 0 THEN hand ELSE hand \ {b})
<1>1. /\ t # <<>> /\ t \in Seq(Steps) /\ Head(t) = t[1] /\ Len(t) \in Nat /\ DOMAIN t = 1 .. Len(t)
      /\ Len(t) >= 1
  BY DEF Freeing
<1>2. /\ \A j \in 1 .. Len(t) : t[j].do = IF j = Len(t) THEN "ifree" ELSE "free"
      /\ \A j, l \in 1 .. Len(t) - 1 : t[j].on = t[l].on /\ j # l => t[j].on = 0
      /\ hand = {t[j].on : j \in 1 .. Len(t) - 1} \ {0}
  BY <1>1 DEF Freeing
<1>3. PICK m \in Nat : m = Len(t) /\ m >= 2
  <2>1. 1 \in 1 .. Len(t)
    BY <1>1
  <2>2. t[1].do = IF 1 = Len(t) THEN "ifree" ELSE "free"
    BY <1>2, <2>1
  <2>3. 1 # Len(t)
    BY <1>1, <2>2
  <2>4. Len(t) >= 2
    BY <1>1, <2>3
  <2> QED BY <1>1, <2>4
<1>4. /\ Tail(t) \in Seq(Steps) /\ Len(Tail(t)) = m - 1 /\ DOMAIN Tail(t) = 1 .. m - 1
      /\ \A j \in 1 .. m - 1 : Tail(t)[j] = t[j + 1]
  BY <1>1, <1>3
<1>5. PICK u \in Seq(Steps) : u = Tail(t)
  BY <1>4
<1>6. u # <<>> /\ Len(u) = m - 1 /\ DOMAIN u = 1 .. m - 1 /\ \A j \in 1 .. m - 1 : u[j] = t[j + 1]
  <2>1. Len(u) = m - 1 /\ DOMAIN u = 1 .. m - 1 /\ \A j \in 1 .. m - 1 : u[j] = t[j + 1]
    BY <1>4, <1>5
  <2>2. u # <<>>
    BY <1>3, <2>1
  <2> QED BY <2>1, <2>2
<1>7. \A j \in DOMAIN u : u[j].do = IF j = Len(u) THEN "ifree" ELSE "free"
  <2>1. ASSUME NEW j \in 1 .. m - 1 PROVE u[j].do = IF j = m - 1 THEN "ifree" ELSE "free"
    <3>1. j + 1 \in 1 .. m /\ (j + 1 = m <=> j = m - 1)
      BY <1>3
    <3>2. u[j].do = IF j + 1 = m THEN "ifree" ELSE "free"
      BY <1>2, <1>3, <1>6, <3>1
    <3> QED BY <3>1, <3>2
  <2> QED BY <1>6, <2>1
<1>8. \A j, l \in 1 .. Len(u) - 1 : u[j].on = u[l].on /\ j # l => u[j].on = 0
  <2>1. ASSUME NEW j \in 1 .. m - 2, NEW l \in 1 .. m - 2, u[j].on = u[l].on, j # l
        PROVE  u[j].on = 0
    <3>1. /\ j + 1 \in 1 .. m - 1 /\ l + 1 \in 1 .. m - 1 /\ j + 1 # l + 1
          /\ j \in 1 .. m - 1 /\ l \in 1 .. m - 1
      BY <1>3, <2>1
    <3>2. u[j] = t[j + 1] /\ u[l] = t[l + 1]
      BY <1>6, <3>1
    <3> QED BY <1>2, <1>3, <2>1, <3>1, <3>2
  <2>2. Len(u) - 1 = m - 2
    BY <1>3, <1>6
  <2> QED BY <2>1, <2>2
<1>9. b = t[1].on /\ 1 \in 1 .. m - 1
  BY <1>1, <1>3
<1>10. (IF b = 0 THEN hand ELSE hand \ {b}) = {u[j].on : j \in 1 .. Len(u) - 1} \ {0}
  <2>1. Len(u) - 1 = m - 2
    BY <1>3, <1>6
  <2>2. ASSUME NEW c, c \in hand, c # b PROVE c \in {u[j].on : j \in 1 .. m - 2} \ {0}
    <3>1. PICK j \in 1 .. m - 1 : c = t[j].on /\ c # 0
      BY <1>2, <1>3, <2>2
    <3>2. j # 1
      BY <1>9, <2>2, <3>1
    <3>3. j - 1 \in 1 .. m - 2 /\ j - 1 \in 1 .. m - 1 /\ (j - 1) + 1 = j
      BY <1>3, <3>2
    <3>4. u[j - 1] = t[j]
      BY <1>6, <3>3
    <3> QED BY <3>1, <3>3, <3>4
  <2>3. ASSUME NEW j \in 1 .. m - 2, u[j].on # 0 PROVE u[j].on \in hand /\ u[j].on # b
    <3>1. j + 1 \in 1 .. m - 1 /\ j \in 1 .. m - 1 /\ j + 1 # 1
      BY <1>3
    <3>2. u[j].on = t[j + 1].on
      BY <1>6, <3>1
    <3> QED BY <1>2, <1>3, <1>9, <2>3, <3>1, <3>2
  <2>4. b = 0 => b \notin hand
    BY <1>2
  <2> QED BY <2>1, <2>2, <2>3, <2>4
<1>11. b # 0 => b \in hand
  BY <1>2, <1>3, <1>9
<1>12. Freeing(u, IF b = 0 THEN hand ELSE hand \ {b})
  BY <1>6, <1>7, <1>8, <1>10 DEF Freeing
<1> QED BY <1>5, <1>11, <1>12

\* the inode last.
LEMMA FreesLast ==
  ASSUME NEW t, NEW hand, Freeing(t, hand), Head(t).do = "ifree"
  PROVE  hand = {} /\ Tail(t) = <<>>
<1>1. /\ t # <<>> /\ t \in Seq(Steps) /\ Head(t) = t[1] /\ Len(t) \in Nat /\ DOMAIN t = 1 .. Len(t)
      /\ Len(t) >= 1
  BY DEF Freeing
<1>2. Len(t) = 1
  BY <1>1 DEF Freeing
<1>3. 1 .. Len(t) - 1 = {}
  BY <1>2
<1>4. Tail(t) = <<>>
  <2>0. Tail(t) \in Seq(Steps) /\ Len(Tail(t)) = Len(t) - 1
    BY <1>1
  <2>1. Len(t) - 1 = 0
    BY <1>2
  <2>2. PICK u \in Seq(Steps) : u = Tail(t)
    BY <2>0
  <2>3. Len(u) = 0
    BY <2>0, <2>1, <2>2
  <2>4. u = <<>>
    BY <2>3
  <2> QED BY <2>2, <2>4
<1> QED BY <1>3, <1>4 DEF Freeing

-----------------------------------------------------------------------------
\* ReleaseBlock and ReleaseInode
BlockFreed(dk, dk2, bm, bm2, b) ==
    /\ bm2 = IF b = 0 THEN bm ELSE bm \ {b - 1}
    /\ dk2 \in Disk /\ dk2.inode = dk.inode /\ dk2.ibits = dk.ibits /\ dk2.ents = dk.ents
    /\ dk2.tab = dk.tab /\ dk2.bbits = bm2
NumberFreed(dk, dk2, im, im2, i) ==
    /\ im2 = im \ {i}
    /\ dk2 \in Disk /\ dk2.inode = dk.inode /\ dk2.ibits = im2 /\ dk2.ents = dk.ents
    /\ dk2.tab = dk.tab /\ dk2.bbits = dk.bbits
LEMMA ReleasesBlock ==
  ASSUME NEW v, NEW x, NEW dk, NEW im, NEW bm, NEW co, Sound(v, x, dk, im, bm, co),
         x.todo # <<>>, Head(x.todo).do = "free", NEW b, b = Head(x.todo).on,
         NEW y, Same(x, y), y.todo = Tail(x.todo),
         NEW bm2, NEW dk2, BlockFreed(dk, dk2, bm, bm2, b)
  PROVE  SoundOn(y, dk2, im, bm2, co)
<1> USE DEF BlockFreed, SoundOn
<1>1. Sees(v, x, dk, bm, co) /\ x.dir \in Ino /\ x.ino \in Ino /\ dk.bbits = bm /\ Phase(v, x, dk, im)
  BY DEF Sound, Sees
<1>2. Releases(v, x, dk, im)
  BY <1>1, Heads
<1>3. PICK hand : hand = IF b = 0 THEN v.hand ELSE v.hand \ {b}
  OBVIOUS
<1>4. (b # 0 => b \in v.hand) /\ Freeing(y.todo, hand)
  <2>1. Freeing(x.todo, v.hand)
    BY <1>2 DEF Releases
  <2>2. /\ b # 0 => b \in v.hand
        /\ Freeing(Tail(x.todo), IF b = 0 THEN v.hand ELSE v.hand \ {b})
    BY <2>1, FreesOne
  <2> QED BY <1>3, <2>2
<1>5. PICK w : w = [node |-> v.node, tab |-> v.tab, live |-> v.live, dirs |-> v.dirs,
                    at |-> v.at, ent |-> v.ent, hand |-> hand, pend |-> v.pend, late |-> v.late]
  OBVIOUS
<1>6. OtherHand(v, w) /\ w.hand = hand
  BY <1>5 DEF OtherHand
<1> HIDE <1>5
<1>7. Sees(w, x, dk2, bm2, co)
  <2>1. CASE b = 0
    <3>1. bm2 = bm /\ w.hand = v.hand
      BY <1>3, <1>6, <2>1
    <3>2. Sees(v, x, dk2, bm, co)
      BY <1>1, <3>1, SeesDisk
    <3>3. Agrees(w, bm, dk2.ents)
      BY <1>6, <3>1, <3>2 DEF Sees, Agrees, Types, OtherHand
    <3> QED BY <1>6, <3>1, <3>2, <3>3 DEF Sees, OtherHand
  <2>2. CASE b # 0
    <3>1. b \in v.hand /\ w.hand = v.hand \ {b} /\ bm2 = bm \ {b - 1}
      BY <1>3, <1>4, <1>6, <2>2
    <3>2. dk2.bbits = bm \ {b - 1}
      BY <3>1
    <3>3. Sees(w, x, dk2, bm \ {b - 1}, co)
      BY <1>1, <1>6, <3>1, <3>2, SeesFreed
    <3> QED BY <3>1, <3>3
  <2> QED BY <2>1, <2>2
<1>8. Sees(w, y, dk2, bm2, co)
  BY <1>7, SeesOn DEF Same
<1>9. Releases(w, y, dk2, im)
  BY <1>2, <1>4, <1>6 DEF Releases, OtherHand, Same, Synced
<1>10. y.todo # <<>>
  BY <1>4 DEF Freeing
<1> QED BY <1>8, <1>9, <1>10 DEF Sound, Phase

LEMMA ReleasesInode ==
  ASSUME NEW v, NEW x, NEW dk, NEW im, NEW bm, NEW co, Sound(v, x, dk, im, bm, co),
         x.todo # <<>>, Head(x.todo).do = "ifree", NEW co2 \in [Ino -> Node], co2[0] = co[0],
         NEW im2, NEW dk2, NumberFreed(dk, dk2, im, im2, x.ino)
  PROVE  Tail(x.todo) = <<>> /\ SoundOn(Idle, dk2, im2, bm, co2)
<1> USE DEF NumberFreed, SoundOn
<1>1. Sees(v, x, dk, bm, co) /\ x.dir \in Ino /\ x.ino \in Ino /\ Phase(v, x, dk, im)
  BY DEF Sound, Sees
<1>2. Releases(v, x, dk, im)
  BY <1>1, Heads
<1>3. v.hand = {} /\ Tail(x.todo) = <<>>
  BY <1>2, FreesLast DEF Releases
<1>4. Sees(v, x, dk2, bm, co) /\ Synced(v, dk2, {})
  BY <1>1, <1>2, SeesDisk DEF Releases, Synced
<1>5. Sees(v, Idle, dk2, bm, co2)
  BY <1>4, SeesEnd
<1>6. Resting(v, Idle, dk2, im2)
  BY <1>2, <1>3, <1>4 DEF Releases, Resting
<1> QED BY <1>3, <1>5, <1>6 DEF Sound, Phase

\* inode_release starts: the inode leaves the tree with its blocks in hand.
Left(v, w, n) ==
    /\ w.node = v.node /\ w.tab = v.tab /\ w.live = v.live \ {n} /\ w.pend = 0 /\ w.late = -1
    /\ w.hand = {v.at[n][k] : k \in Where} \ {0}

LEMMA InodeLeaves ==
  ASSUME NEW v, NEW bm, NEW e, Agrees(v, bm, e), NEW n \in v.live \ {0}, v.pend = n,
         v.hand = {}, v.late = -1, NoNames(v.ent, n)
  PROVE  \E w : Agrees(w, bm, e) /\ Left(v, w, n)
<1>1. /\ Types(v) /\ Owned(v.at, {}, bm) /\ Laid(v.at, v.node, v.tab, v.live)
      /\ Shown(v.at, v.ent, v.dirs, e) /\ Tree(v.ent, v.dirs, v.live, n)
      /\ Sizes(v.node, v.ent, v.dirs, -1) /\ EmptyFiles(v.node, v.at, v.dirs, v.live)
  BY DEF Agrees
<1>2. /\ v.at \in [Ino -> [Where -> 0 .. Blocks]] /\ v.live \in SUBSET Ino /\ v.dirs \in SUBSET Ino
      /\ v.dirs \subseteq v.live /\ v.node \in [Ino -> Node] /\ v.ent \in [Ino -> [Index -> Sector]]
      /\ 0 \in v.dirs /\ n \in Ino /\ 0 \in Ino /\ v.tab \in [Block -> Table]
  BY <1>1, Ranges DEF Types
<1>3. PICK w : w = [node |-> v.node, tab |-> v.tab, live |-> v.live \ {n}, dirs |-> v.dirs \ {n},
                    at |-> [j \in Ino |-> IF j = n THEN Blank ELSE v.at[j]],
                    ent |-> [j \in Ino |-> IF j = n THEN Empty ELSE v.ent[j]],
                    hand |-> {v.at[n][k] : k \in Where} \ {0}, pend |-> 0, late |-> -1]
  OBVIOUS
<1>4. /\ w.node = v.node /\ w.tab = v.tab /\ w.live = v.live \ {n} /\ w.dirs = v.dirs \ {n}
      /\ w.pend = 0 /\ w.late = -1
  BY <1>3
<1>5. w.hand = {v.at[n][k] : k \in Where} \ {0}
  BY <1>3
<1>6. w.at = [j \in Ino |-> IF j = n THEN Blank ELSE v.at[j]]
  BY <1>3
<1>7. w.ent = [j \in Ino |-> IF j = n THEN Empty ELSE v.ent[j]]
  BY <1>3
<1> HIDE <1>3
<1>8. w.at \in [Ino -> [Where -> 0 .. Blocks]] /\ w.at[n] = Blank /\ OnlyAt(v.at, w.at, n)
  <2>1. Blank \in [Where -> 0 .. Blocks]
    BY Zeros
  <2> QED BY <1>2, <1>6, <2>1 DEF OnlyAt
<1>9. w.ent \in [Ino -> [Index -> Sector]] /\ w.ent[n] = Empty /\ OnlyAt(v.ent, w.ent, n)
  <2>1. Empty \in [Index -> Sector]
    BY Zeros
  <2> QED BY <1>2, <1>7, <2>1 DEF OnlyAt
<1>10. w.hand \in SUBSET Block
  <2>1. ASSUME NEW k \in Where, v.at[n][k] # 0 PROVE v.at[n][k] \in Block
    <3>1. v.at[n][k] \in 0 .. Blocks
      BY <1>2
    <3> QED BY <2>1, <3>1, Ranges
  <2> QED BY <1>5, <2>1
<1>11. Types(w)
  BY <1>2, <1>4, <1>8, <1>9, <1>10 DEF Types
<1>12. Owned(w.at, w.hand, bm)
  <2>1. Emptied(v.at, w.at, n)
    <3>1. ASSUME NEW j \in Ino, NEW l \in Where PROVE w.at[j][l] = IF j = n THEN 0 ELSE v.at[j][l]
      <4>1. CASE j = n
        BY <1>8, <4>1, Zeros
      <4>2. CASE j # n
        BY <1>8, <4>2 DEF OnlyAt
      <4> QED BY <4>1, <4>2
    <3> QED BY <3>1 DEF Emptied
  <2>2. Owned(w.at, {v.at[n][k] : k \in Where} \ {0}, bm)
    BY <1>1, <1>2, <1>8, <2>1, OwnedReleases
  <2> QED BY <1>5, <2>2
<1>13. Laid(w.at, w.node, w.tab, w.live)
  <2>1. n \notin w.live /\ OnlyIn(v.live, w.live, n) /\ OnlyAt(v.node, w.node, n)
    BY <1>4 DEF OnlyIn, OnlyAt
  <2>2. KeptTables(v.node, v.live, n, v.tab, w.tab)
    BY <1>4 DEF KeptTables
  <2> QED BY <1>1, <1>2, <1>8, <2>1, <2>2, LaidChanges
<1>14. Shown(w.at, w.ent, w.dirs, e)
  <2>1. ShownIn(w.at, w.ent, w.dirs, e, n)
    BY <1>4, <1>9 DEF ShownIn
  <2>2. /\ OnlyIn(v.dirs, w.dirs, n) /\ w.dirs \in SUBSET Ino /\ KeptSectors(v.at, v.dirs, n, e, e)
    BY <1>2, <1>4 DEF OnlyIn, KeptSectors
  <2> QED BY <1>1, <1>2, <1>8, <1>9, <2>1, <2>2, ShownChanges
<1>15. Tree(w.ent, w.dirs, w.live, w.pend)
  <2>1. Tree(w.ent, v.dirs \ {n}, v.live \ {n}, 0)
    BY <1>1, <1>2, <1>9, TreeReleases
  <2> QED BY <1>4, <2>1
<1>16. Sizes(w.node, w.ent, w.dirs, w.late)
  <2>1. \A i \in w.dirs : i \in v.dirs /\ w.ent[i] = v.ent[i] /\ w.node[i] = v.node[i]
    BY <1>2, <1>4, <1>9 DEF OnlyAt
  <2> QED BY <1>1, <1>4, <2>1 DEF Sizes
<1>17. EmptyFiles(w.node, w.at, w.dirs, w.live)
  <2>1. \A i \in w.live \ w.dirs : i \in v.live \ v.dirs /\ w.at[i] = v.at[i] /\ w.node[i] = v.node[i]
    BY <1>2, <1>4, <1>8 DEF OnlyAt
  <2> QED BY <1>1, <2>1 DEF EmptyFiles
<1>18. Agrees(w, bm, e)
  BY <1>11, <1>12, <1>13, <1>14, <1>15, <1>16, <1>17 DEF Agrees
<1>19. Left(v, w, n)
  BY <1>4, <1>5 DEF Left
<1> QED BY <1>18, <1>19

\* What Release starts from
LEMMA Releasing ==
  ASSUME NEW v, NEW x, NEW dk, NEW im, NEW bm, NEW co, Sound(v, x, dk, im, bm, co),
         x.todo # <<>>, Head(x.todo).do = "release"
  PROVE  /\ Agrees(v, bm, dk.ents) /\ Old(v, x, dk, im) /\ v.pend = x.ino /\ v.hand = {}
         /\ v.late = -1 /\ v.tab = dk.tab /\ Synced(v, dk, {}) /\ x.ino \in Ino /\ x.dir \in Ino
         /\ x.ino \in v.live /\ co[x.ino] = v.node[x.ino]
<1>1. /\ Sees(v, x, dk, bm, co) /\ Phase(v, x, dk, im) /\ Agrees(v, bm, dk.ents)
      /\ x.ino \in Ino /\ x.dir \in Ino /\ co[x.ino] = v.node[x.ino]
  BY DEF Sound, Sees, Seen
<1>2. Removed(v, x, dk, im)
  BY <1>1, Heads
<1>3. PICK t \in Seq(Steps) : t = Cons(Step("release", 0), <<>>)
  BY StepKinds, Conses
<1>4. x.dir \in Nat
  BY <1>1, EndList
<1>5. /\ Head(Load(x.dir, t)) = Step("load", x.dir)
      /\ Head(Store(x.dir, t)) = Step("store", x.dir)
  BY <1>3, <1>4, LoadList
<1>6. Head(Load(x.dir, t)).do # "release" /\ Head(Store(x.dir, t)).do # "release"
  BY <1>4, <1>5, StepKinds
<1>7. Synced(v, dk, {})
  BY <1>2, <1>3, <1>6 DEF Removed, Syncs
<1>8. /\ Old(v, x, dk, im) /\ v.pend = x.ino /\ v.hand = {} /\ v.late = -1 /\ v.tab = dk.tab
  BY <1>2 DEF Removed
<1>9. x.ino \in v.live
  BY <1>8 DEF Old
<1> QED BY <1>1, <1>7, <1>8, <1>9

LEMMA StartsRelease ==
  ASSUME NEW v, NEW x, NEW dk, NEW im, NEW bm, NEW co, Sound(v, x, dk, im, bm, co),
         x.todo # <<>>, Head(x.todo).do = "release",
         NEW y, Same(x, y), Frees(y.todo, v.at[x.ino])
  PROVE  y.todo # <<>> /\ \E w : Sound(w, y, dk, im, bm, co)
<1>1. /\ Agrees(v, bm, dk.ents) /\ Old(v, x, dk, im) /\ v.pend = x.ino /\ v.hand = {}
      /\ v.late = -1 /\ v.tab = dk.tab /\ Synced(v, dk, {}) /\ x.ino \in Ino
  BY Releasing
<1>2. x.ino \in v.live \ {0} /\ NoNames(v.ent, x.ino) /\ v.live = im /\ dk.ibits = im
  BY <1>1 DEF Old
<1>3. PICK w : Agrees(w, bm, dk.ents) /\ Left(v, w, x.ino)
  BY <1>1, <1>2, InodeLeaves
<1>4. Freeing(y.todo, {v.at[x.ino][k] : k \in Where} \ {0})
  <2>1. v.at \in [Ino -> [Where -> 0 .. Blocks]] /\ Owned(v.at, v.hand, bm)
    BY <1>1 DEF Agrees, Types
  <2>2. v.at[x.ino] \in [Where -> 0 .. Blocks]
    BY <1>1, <2>1
  <2>3. \A k, l \in Where : v.at[x.ino][k] # 0 /\ v.at[x.ino][k] = v.at[x.ino][l] => k = l
    BY <1>1, <2>1 DEF Owned
  <2>4. PICK f \in [Where -> 0 .. Blocks] : f = v.at[x.ino]
    BY <2>2
  <2>5. (\A k, l \in Where : f[k] # 0 /\ f[k] = f[l] => k = l) /\ Frees(y.todo, f)
    BY <2>3, <2>4
  <2>6. Freeing(y.todo, {f[k] : k \in Where} \ {0})
    BY <2>5, FreesAll
  <2> QED BY <2>4, <2>6
<1>5. Sees(w, y, dk, bm, co)
  <2>1. Sees(v, x, dk, bm, co) /\ w.node = v.node
    BY <1>3 DEF Sound, Left
  <2>2. Sees(w, x, dk, bm, co)
    BY <1>3, <2>1 DEF Sees
  <2> QED BY <2>2, SeesOn DEF Same
<1>6. Releases(w, y, dk, im)
  <2>1. Freeing(y.todo, w.hand)
    BY <1>3, <1>4 DEF Left
  <2>2. Synced(w, dk, {})
    BY <1>1, <1>3 DEF Left, Synced
  <2> QED BY <1>1, <1>2, <1>3, <2>1, <2>2 DEF Releases, Left, Same
<1>7. y.todo # <<>>
  BY <1>4 DEF Freeing
<1> QED BY <1>5, <1>6, <1>7 DEF Sound, Phase

-----------------------------------------------------------------------------
\* A call begins: what is open for it is in memory.
Brought(dk, co, co2, d) == co2[0] = co[0] /\ \A j \in {d} \ {0} : co2[j] = dk.inode[j]

\* The call y makes a name for inode i in directory d.
Naming(y, d, i) ==
    /\ DOMAIN y = DOMAIN Idle /\ y.op \in {"create", "mkdir"} /\ y.dir = d /\ y.ino = i
    /\ y.ent \in Entry /\ y.ent.name \in Name /\ y.ent.ino = i
    /\ y.ent.type = IF y.op = "mkdir" THEN "dir" ELSE "file"
    /\ y.idx = 0 /\ y.tier = <<>>
    /\ y.todo = IF y.op = "mkdir" THEN mkdir_steps(d, i) ELSE file_create_steps(d, i)

\* Inode i is taken, and the bitmap on the disk is written by sys_mkdir alone.
Numbered(y, im, im2, dk, dk2, i) ==
    /\ im2 = im \cup {i} /\ dk2 \in Disk
    /\ dk2.ibits = IF y.op = "mkdir" THEN im2 ELSE dk.ibits
    /\ dk2.bbits = dk.bbits /\ dk2.inode = dk.inode /\ dk2.ents = dk.ents /\ dk2.tab = dk.tab

Rested(v, dk, im, bm, co) ==
    /\ Sees(v, Idle, dk, bm, co) /\ Agrees(v, bm, dk.ents) /\ dk \in Disk
    /\ v.pend = 0 /\ v.hand = {} /\ v.late = -1 /\ v.live = im
    /\ v.tab = dk.tab /\ Synced(v, dk, {}) /\ dk.ibits = im /\ co[0] = v.node[0]

LEMMA AtRest ==
  ASSUME NEW v, NEW dk, NEW im, NEW bm, NEW co, Sound(v, Idle, dk, im, bm, co)
  PROVE  Rested(v, dk, im, bm, co)
<1>1. Sees(v, Idle, dk, bm, co) /\ Phase(v, Idle, dk, im) /\ Idle.dir \in Ino /\ Idle.ino \in Ino
  BY DEF Sound, Sees
<1>2. Idle.todo = <<>>
  BY DEF Idle
<1>3. Resting(v, Idle, dk, im)
  BY <1>1, <1>2, Heads
<1>4. co[0] = v.node[0]
  BY <1>1, Ranges DEF Sees, Seen
<1> QED BY <1>1, <1>3, <1>4 DEF Rested, Resting, Sees

\* The view in which inode i is taken
LEMMA InodeTaken ==
  ASSUME NEW v, NEW bm, NEW e, Agrees(v, bm, e), v.pend = 0, NEW i \in Ino \ v.live, v.hand = {}
  PROVE  \E w : /\ Agrees(w, bm, e) /\ w.pend = i /\ w.live = v.live \cup {i} /\ w.dirs = v.dirs
                /\ w.hand = {} /\ w.late = v.late /\ w.tab = v.tab /\ w.ent = v.ent
                /\ OnlyAt(v.node, w.node, i) /\ w.node[i] = inode_init /\ i \notin v.dirs /\ i # 0
<1>1. /\ Types(v) /\ Owned(v.at, {}, bm) /\ Laid(v.at, v.node, v.tab, v.live)
      /\ Shown(v.at, v.ent, v.dirs, e) /\ Tree(v.ent, v.dirs, v.live, 0)
      /\ Sizes(v.node, v.ent, v.dirs, v.late) /\ EmptyFiles(v.node, v.at, v.dirs, v.live)
  BY DEF Agrees
<1>2. /\ v.live \in SUBSET Ino /\ v.dirs \in SUBSET Ino /\ v.dirs \subseteq v.live
      /\ v.node \in [Ino -> Node] /\ 0 \in v.dirs /\ i \notin v.dirs /\ i # 0 /\ v.pend \in v.live
  BY <1>1 DEF Types
<1>3. PICK w : w = [node |-> [v.node EXCEPT ![i] = inode_init], tab |-> v.tab,
                    live |-> v.live \cup {i}, dirs |-> v.dirs, at |-> v.at, ent |-> v.ent,
                    hand |-> {}, pend |-> i, late |-> v.late]
  OBVIOUS
<1>4. /\ w.tab = v.tab /\ w.live = v.live \cup {i} /\ w.dirs = v.dirs /\ w.at = v.at
      /\ w.ent = v.ent /\ w.hand = {} /\ w.pend = i /\ w.late = v.late
  BY <1>3
<1>5. w.node = [v.node EXCEPT ![i] = inode_init]
  BY <1>3
<1> HIDE <1>3
<1>6. w.node \in [Ino -> Node] /\ OnlyAt(v.node, w.node, i) /\ w.node[i] = inode_init
  <2>1. inode_init \in Node
    BY NothingBelongs
  <2> QED BY <1>2, <1>5, <2>1 DEF OnlyAt
<1>7. Types(w)
  BY <1>1, <1>2, <1>4, <1>6 DEF Types
<1>8. v.at[i] = Blank
  BY <1>1 DEF Laid
<1>9. Laid(w.at, w.node, w.tab, w.live)
  <2>1. Names(w.at[i], w.node[i], w.tab)
    <3>1. \A k \in 0 .. Direct : inode_init.sect[k] = 0
      BY DEF inode_init
    <3>2. w.at[i] = Blank /\ \A k \in Where : Blank[k] = 0
      BY <1>4, <1>8, Zeros
    <3>3. Direct \in 0 .. Direct /\ -1 \in Where
          /\ (\A k \in 0 .. Direct - 1 : k \in Where /\ k \in 0 .. Direct)
          /\ \A k \in Direct .. Last - 1 : k \in Where
      BY DiskConstants DEF Where, Last
    <3> QED BY <1>6, <3>1, <3>2, <3>3 DEF Names
  <2>2. OnlyAt(v.at, w.at, i) /\ OnlyIn(v.live, w.live, i) /\ i \in w.live
    BY <1>4 DEF OnlyAt, OnlyIn
  <2>3. KeptTables(v.node, v.live, i, v.tab, w.tab)
    BY <1>4 DEF KeptTables
  <2> QED BY <1>1, <1>6, <2>1, <2>2, <2>3, LaidChanges
<1>10. Tree(w.ent, w.dirs, w.live, w.pend)
  <2>1. Tree(v.ent, v.dirs, v.live \cup {i}, i)
    BY <1>1, <1>2, TreeTakes
  <2> QED BY <1>4, <2>1
<1>11. Sizes(w.node, w.ent, w.dirs, w.late)
  <2>1. \A j \in v.dirs : w.node[j] = v.node[j]
    BY <1>2, <1>6 DEF OnlyAt
  <2> QED BY <1>1, <1>4, <2>1 DEF Sizes
<1>12. EmptyFiles(w.node, w.at, w.dirs, w.live)
  <2>1. \A j \in v.live : w.node[j] = v.node[j]
    BY <1>2, <1>6 DEF OnlyAt
  <2> QED BY <1>1, <1>4, <1>8, <2>1 DEF EmptyFiles
<1>13. Agrees(w, bm, e)
  BY <1>1, <1>4, <1>7, <1>9, <1>10, <1>11, <1>12 DEF Agrees
<1> QED BY <1>2, <1>4, <1>6, <1>13

LEMMA StartsName ==
  ASSUME NEW v, NEW dk, NEW im, NEW bm, NEW co, Sound(v, Idle, dk, im, bm, co),
         NEW i \in Ino \ im, NEW d \in v.dirs, NEW y, Naming(y, d, i),
         NEW im2, NEW dk2, Numbered(y, im, im2, dk, dk2, i),
         NEW co2 \in [Ino -> Node], Brought(dk, co, co2, d), co2[i] = inode_init
  PROVE  \E w : Sound(w, y, dk2, im2, bm, co2)
<1>1. Rested(v, dk, im, bm, co)
  BY AtRest
<1>2. /\ Agrees(v, bm, dk.ents) /\ dk \in Disk /\ v.pend = 0 /\ v.hand = {} /\ v.late = -1
      /\ v.live = im /\ v.tab = dk.tab /\ Synced(v, dk, {}) /\ dk.ibits = im /\ co[0] = v.node[0]
  BY <1>1 DEF Rested
<1>3. PICK w : /\ Agrees(w, bm, dk.ents) /\ w.pend = i /\ w.live = v.live \cup {i} /\ w.dirs = v.dirs
               /\ w.hand = {} /\ w.late = v.late /\ w.tab = v.tab /\ w.ent = v.ent
               /\ OnlyAt(v.node, w.node, i) /\ w.node[i] = inode_init /\ i \notin v.dirs /\ i # 0
  BY <1>2, InodeTaken
<1>4. /\ y.dir = d /\ y.ino = i /\ DOMAIN y = DOMAIN Idle /\ d \in Ino /\ d # i
      /\ y.idx = 0 /\ y.tier = <<>> /\ y.op \in {"create", "mkdir"}
  BY <1>2, <1>3 DEF Naming, Agrees, Types
<1>5. dk2.bbits = dk.bbits /\ dk2.inode = dk.inode /\ dk2.ents = dk.ents /\ dk2.tab = dk.tab /\ dk2 \in Disk
  BY DEF Numbered
<1>6. \A j \in Ino \ {i} : w.node[j] = dk.inode[j]
  BY <1>2, <1>3 DEF OnlyAt, Synced
<1>7. Sees(w, y, dk2, bm, co2)
  <2>1. \A j \in Ino : w.node[j] = IF j \in Seen(y) THEN co2[j] ELSE dk2.inode[j]
    <3>1. ASSUME NEW j \in Ino PROVE w.node[j] = IF j \in Seen(y) THEN co2[j] ELSE dk2.inode[j]
      <4>0. j \in Seen(y) <=> j \in {0, d, i}
        BY <1>4 DEF Seen
      <4>1. CASE j = i
        BY <1>3, <4>0, <4>1
      <4>2. CASE j = 0 /\ j # i
        <5>1. w.node[j] = co2[j]
          BY <1>2, <1>3, <4>2 DEF OnlyAt, Brought
        <5> QED BY <4>0, <4>2, <5>1
      <4>3. CASE j # 0 /\ j # i
        <5>1. w.node[j] = dk2.inode[j] /\ (j = d => co2[j] = dk.inode[j])
          BY <1>5, <1>6, <4>3 DEF Brought
        <5> QED BY <1>5, <4>0, <4>3, <5>1
      <4> QED BY <4>1, <4>2, <4>3
    <3> QED BY <3>1
  <2>2. /\ dk2.bbits = bm
        /\ \A b \in Block, s \in Slot : dk.ents[b][s].type = "unknown" => dk.ents[b][s] = Free
    BY <1>1, <1>5 DEF Rested, Sees
  <2> QED BY <1>3, <1>4, <1>5, <2>1, <2>2 DEF Sees
<1>8. New(w, y, dk2, im2)
  <2>1. /\ y.ent \in Entry /\ y.ent.name \in Name /\ y.ent.ino = y.ino
        /\ y.ent.type = IF y.op = "mkdir" THEN "dir" ELSE "file"
    BY <1>4 DEF Naming
  <2>2. im2 = im \cup {i} /\ dk2.ibits = IF y.op = "mkdir" THEN im2 ELSE im
    BY <1>2 DEF Numbered
  <2>3. im = im2 \ {i}
    BY <2>2
  <2> QED BY <1>2, <1>3, <1>4, <2>1, <2>2, <2>3 DEF New
<1>9. CASE y.op = "mkdir"
  <2>1. y.todo = Cons(Step("alloc", 0), Cons(Step("dots", 0), Load(y.ino, Seek(y))))
    BY <1>4, <1>9, MkdirList DEF Naming
  <2>2. Synced(w, dk2, {y.ino})
    BY <1>4, <1>5, <1>6 DEF Synced
  <2>3. MakingDir(w, y, dk2, im2)
    BY <1>2, <1>3, <1>4, <1>5, <1>8, <1>9, <2>1, <2>2 DEF MakingDir
  <2> QED BY <1>7, <2>3 DEF Sound, Phase
<1>10. CASE y.op # "mkdir"
  <2>1. y.todo = Seek(y)
    BY <1>4, <1>10, CreateList DEF Naming
  <2>2. Synced(w, dk2, Behind(y) \cup {y.dir})
    BY <1>4, <1>5, <1>6, <1>10 DEF Synced, Behind
  <2>3. Searching(w, y, dk2, im2)
    <3>1. y.idx \in 0 .. Last
      BY <1>4, Ranges
    <3>2. Ready(w, y)
      BY <1>3, <1>4, <1>10 DEF Ready
    <3> QED BY <1>3, <1>4, <1>8, <2>2, <3>1, <3>2 DEF Searching
  <2>4. Untouched(w, y, dk2)
    BY <1>4, <1>5, <1>6 DEF Untouched
  <2>5. Finds(w, y, dk2, im2)
    BY <1>2, <1>3, <1>5, <2>1, <2>3, <2>4 DEF Finds
  <2> QED BY <1>7, <2>5 DEF Sound, Phase
<1> QED BY <1>9, <1>10

\* A file without a block is written.
Appending(y, i) ==
    /\ DOMAIN y = DOMAIN Idle /\ y.op = "append" /\ y.dir = 0 /\ y.ino = i
    /\ y.todo = <<Step("alloc", 0), Step("data", 0)>> \o inode_sync(i)

LEMMA StartsAppend ==
  ASSUME NEW v, NEW dk, NEW im, NEW bm, NEW co, Sound(v, Idle, dk, im, bm, co),
         NEW i \in v.live \ v.dirs, dk.inode[i].size = 0, NEW y, Appending(y, i),
         NEW co2 \in [Ino -> Node], Brought(dk, co, co2, i)
  PROVE  Sound(v, y, dk, im, bm, co2)
<1>1. Rested(v, dk, im, bm, co)
  BY AtRest
<1>2. /\ Agrees(v, bm, dk.ents) /\ dk \in Disk /\ v.pend = 0 /\ v.hand = {} /\ v.late = -1
      /\ v.live = im /\ v.tab = dk.tab /\ Synced(v, dk, {}) /\ dk.ibits = im /\ co[0] = v.node[0]
  BY <1>1 DEF Rested
<1>3. i \in Ino /\ i \in Nat /\ 0 \in Ino /\ i # 0 /\ Types(v)
  <2>1. Types(v)
    BY <1>2 DEF Agrees
  <2>2. i \in Ino /\ 0 \in v.dirs
    BY <2>1 DEF Types
  <2> QED BY <2>1, <2>2, Ranges DEF Ino
<1>4. DOMAIN y = DOMAIN Idle /\ y.op = "append" /\ y.dir = 0 /\ y.ino = i
  BY DEF Appending
<1>5. \A j \in Ino : v.node[j] = dk.inode[j]
  BY <1>2 DEF Synced
<1>6. v.at[i] = Blank
  <2>1. v.node[i].size = 0 /\ EmptyFiles(v.node, v.at, v.dirs, v.live)
    BY <1>2, <1>3, <1>5 DEF Agrees
  <2> QED BY <2>1 DEF EmptyFiles
<1>7. Sees(v, y, dk, bm, co2)
  <2>1. ASSUME NEW j \in Ino PROVE v.node[j] = IF j \in Seen(y) THEN co2[j] ELSE dk.inode[j]
    BY <1>2, <1>3, <1>4, <1>5 DEF Seen, Brought
  <2>2. /\ dk.bbits = bm
        /\ \A b \in Block, s \in Slot : dk.ents[b][s].type = "unknown" => dk.ents[b][s] = Free
    BY <1>1 DEF Rested, Sees
  <2> QED BY <1>2, <1>3, <1>4, <2>1, <2>2 DEF Sees
<1>8. y.todo = Cons(Step("alloc", 0), Cons(Step("data", 0), Load(y.ino, <<>>)))
  BY <1>3, <1>4, AppendList DEF Appending
<1>9. Appends(v, y, dk, im)
  BY <1>2, <1>3, <1>4, <1>6, <1>8 DEF Appends
<1> QED BY <1>7, <1>9 DEF Sound, Phase

\* A name is removed, of an empty directory or of a file.
Removing(y, d, i) ==
    /\ DOMAIN y = DOMAIN Idle /\ y.op \in {"unlink", "rmdir"} /\ y.dir = d /\ y.ino = i /\ y.ent = Free
    /\ y.todo = (<<Step("delete", 0)>> \o inode_sync(d)) \o <<Step("release", 0)>>
Names1(v, d, i, e) ==
    \E k \in Index, s \in Slot : IsName(v.ent, d, k, s) /\ v.ent[d][k][s] = e /\ e.ino = i
Removable(dk, i, e) == e.type = "file" \/ (e.type = "dir" /\ dk.inode[i].size = 2)

LEMMA NothingBelow ==
  ASSUME NEW v, NEW m, NEW e, Agrees(v, m, e), v.pend = 0, v.late = -1,
         NEW d \in v.dirs, NEW i, NEW f, Names1(v, d, i, f),
         f.type = "file" \/ (f.type = "dir" /\ v.node[i].size = 2)
  PROVE  i \in v.live \ {0} /\ NoNames(v.ent, i) /\ d # i /\ Parent(v.ent, d) # i
<1>1. /\ Types(v) /\ Shown(v.at, v.ent, v.dirs, e) /\ Dotted(v.ent, v.dirs)
      /\ NamesLive(v.ent, v.dirs, v.live, 0) /\ Sizes(v.node, v.ent, v.dirs, -1)
      /\ \A n \in v.live \ {0} : HasName(v.ent, n)
  BY DEF Agrees, Tree
<1>2. v.live \in SUBSET Ino /\ v.dirs \in SUBSET Ino /\ v.dirs \subseteq v.live /\ 0 \in v.dirs
  BY <1>1 DEF Types
<1>3. PICK k \in Index, s \in Slot : IsName(v.ent, d, k, s) /\ v.ent[d][k][s] = f /\ f.ino = i
  BY DEF Names1
<1>4. /\ i \in v.live \ {0}
      /\ (f.type = "dir" /\ i \in v.dirs) \/ (f.type = "file" /\ i \notin v.dirs)
  BY <1>1, <1>2, <1>3 DEF NamesLive
<1>5. NoNames(v.ent, i)
  <2>1. CASE i \notin v.dirs
    <3>1. v.ent[i] = Empty
      BY <1>1, <1>2, <1>4, <2>1 DEF Shown
    <3>2. \A l \in Index, t \in Slot : v.ent[i][l][t] = Free
      BY <3>1, Zeros
    <3> QED BY <3>2 DEF NoNames, IsName
  <2>2. CASE i \in v.dirs
    <3>1. v.node[i].size = 2 /\ i # -1
      BY <1>2, <1>4, <2>2, Ranges
    <3>2. Cardinality(Filled(v.ent[i])) = 2
      <4>1. v.node[i].size = Cardinality(Filled(v.ent[i])) + 0
        BY <1>1, <2>2, <3>1 DEF Sizes
      <4>2. Cardinality(Filled(v.ent[i])) \in Nat
        BY FilledFinite
      <4> QED BY <3>1, <4>1, <4>2
    <3> QED BY <1>1, <2>2, <3>2, OnlyDots
  <2> QED BY <2>1, <2>2
<1>6. \A l \in Index, t \in Slot : ~IsName(v.ent, i, l, t)
  BY <1>5 DEF NoNames
<1>7. d # i
  BY <1>3, <1>6
<1>8. Parent(v.ent, d) # i
  <2>1. CASE d = 0
    BY <1>1, <1>4, <2>1 DEF Dotted, Parent
  <2>2. CASE d # 0
    <3>1. PICK j \in Ino, l \in Index, t \in Slot : IsName(v.ent, j, l, t) /\ v.ent[j][l][t].ino = d
      BY <1>1, <1>2, <2>2 DEF HasName
    <3>2. v.ent[d][0][2].ino = j
      BY <1>1, <3>1 DEF NamesLive
    <3>3. j # i
      BY <1>6, <3>1
    <3> QED BY <3>2, <3>3 DEF Parent
  <2> QED BY <2>1, <2>2
<1> QED BY <1>4, <1>5, <1>7, <1>8

LEMMA StartsRemove ==
  ASSUME NEW v, NEW dk, NEW im, NEW bm, NEW co, Sound(v, Idle, dk, im, bm, co),
         NEW d \in v.dirs, NEW i, NEW f, Names1(v, d, i, f), Removable(dk, i, f),
         NEW y, Removing(y, d, i),
         NEW co2 \in [Ino -> Node], Brought(dk, co, co2, d), Brought(dk, co, co2, i)
  PROVE  Sound(v, y, dk, im, bm, co2)
<1>1. Rested(v, dk, im, bm, co)
  BY AtRest
<1>2. /\ Agrees(v, bm, dk.ents) /\ dk \in Disk /\ v.pend = 0 /\ v.hand = {} /\ v.late = -1
      /\ v.live = im /\ v.tab = dk.tab /\ Synced(v, dk, {}) /\ dk.ibits = im /\ co[0] = v.node[0]
  BY <1>1 DEF Rested
<1>3. \A j \in Ino : v.node[j] = dk.inode[j]
  BY <1>2 DEF Synced
<1>4. i \in v.live /\ v.live \in SUBSET Ino /\ v.dirs \in SUBSET Ino
  <2>1. Types(v) /\ NamesLive(v.ent, v.dirs, v.live, v.pend)
    BY <1>2 DEF Agrees, Tree
  <2> QED BY <2>1 DEF Types, NamesLive, Names1
<1>5. i \in v.live \ {0} /\ NoNames(v.ent, i) /\ d # i /\ Parent(v.ent, d) # i
  <2>1. f.type = "file" \/ (f.type = "dir" /\ v.node[i].size = 2)
    BY <1>3, <1>4 DEF Removable
  <2> QED BY <1>2, <2>1, NothingBelow
<1>6. /\ DOMAIN y = DOMAIN Idle /\ y.op \in {"unlink", "rmdir"} /\ y.dir = d /\ y.ino = i
      /\ y.ent = Free /\ d \in Ino /\ i \in Ino
  BY <1>4 DEF Removing
<1>7. Sees(v, y, dk, bm, co2)
  <2>1. ASSUME NEW j \in Ino PROVE v.node[j] = IF j \in Seen(y) THEN co2[j] ELSE dk.inode[j]
    <3>1. j \in Seen(y) => co2[j] = v.node[j]
      BY <1>2, <1>3, <1>6 DEF Seen, Brought
    <3> QED BY <1>3, <3>1
  <2>2. /\ dk.bbits = bm
        /\ \A b \in Block, s \in Slot : dk.ents[b][s].type = "unknown" => dk.ents[b][s] = Free
    BY <1>1 DEF Rested, Sees
  <2> QED BY <1>2, <1>6, <2>1, <2>2 DEF Sees
<1>8. y.todo = Cons(Step("delete", 0), End(y))
  BY <1>6, RemoveList DEF Removing
<1>9. Old(v, y, dk, im)
  BY <1>2, <1>5, <1>6 DEF Old
<1>10. \E k \in Index, s \in Slot : IsName(v.ent, y.dir, k, s) /\ v.ent[y.dir][k][s].ino = y.ino
  BY <1>6 DEF Names1
<1>11. Deletes(v, y, dk, im)
  BY <1>2, <1>8, <1>9, <1>10 DEF Deletes
<1> QED BY <1>7, <1>11 DEF Sound, Phase
=============================================================================
