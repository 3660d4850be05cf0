---------------------------- MODULE FsDiskProofs ----------------------------
(***************************************************************************)
(* Directories on the disk.  First: what processes that create files and   *)
(* directories at the same time take is taken once, for any number of      *)
(* them, any partition and any number of power failures.  Then: between    *)
(* the calls of one process the blocks, the names and the sizes of         *)
(* directories are exact, for any partition and any calls.                 *)
(***************************************************************************)
EXTENDS FsTreeProofs

\* The calls that take: what can be to do, and in which order
Kinds == {"find", "load", "store", "alloc", "dots", "zero", "tier", "put", "ibits"}
Todo(t) ==
    /\ t \in Seq([do : Kinds, on : Ino])
    /\ \A j \in DOMAIN t :
          /\ t[j].do = "load" => /\ j < Len(t) /\ t[j + 1].do = "store"
                                 /\ t[j + 1].on = t[j].on
          /\ t[j].do = "store" => j = 1 \/ t[j - 1].do = "load"
          /\ t[j].do = "alloc" => j = 1 /\ Len(t) > 1 /\ t[2].do \in {"dots", "zero"}
          /\ t[j].do \in {"dots", "zero"} => j = 1 \/ (j = 2 /\ t[1].do = "alloc")
          /\ t[j].do = "tier" => j = 1 \/ t[j - 1].do = "zero"

\* The place a block is taken for
Dest(x) == CASE Head(x.todo).do = "dots" -> <<x.ino, 0>>
             [] Head(x.todo).do = "zero" /\ x.idx >= Direct /\ x.tier = <<>> -> <<x.dir, -1>>
             [] OTHER -> <<x.dir, x.idx>>

Under(o, m, x) ==
    /\ DOMAIN x = DOMAIN Idle /\ Todo(x.todo)
    /\ x.dir \in Ino /\ x.ino \in Ino /\ x.idx \in 0 .. Direct + Indirect
    /\ x.tier \in {<<>>} \cup Table
    /\ x.tier # <<>> => x.tier \in Table /\ TableBelongs(o, m, x.dir, x.tier)
    /\ \A j \in DOMAIN x.todo : /\ x.todo[j].do = "zero" => x.idx < Direct + Indirect
                                /\ x.todo[j].do = "tier" => x.tier # <<>>

\* What the next step of a call is about to write
Writes(o, m, f, x) == x.todo # <<>> =>
    /\ Head(x.todo).do = "store" =>
          /\ x.snap \in Node /\ NodeBelongs(o, m, Head(x.todo).on, x.snap)
          /\ x.table \in [Ino -> Node] /\ \A i \in Ino : NodeBelongs(o, m, i, x.table[i])
    /\ Head(x.todo).do \in {"dots", "zero"} /\ ~f =>
          x.lba \in Block /\ x.lba - 1 \in m /\ o[x.lba] = Dest(x)

OnDisk(o) ==
    /\ DOMAIN disk = {"ibits", "bbits", "inode", "ents", "tab"}
    /\ disk.inode \in [Ino -> Node] /\ disk.tab \in [Block -> Table]
    /\ disk.ibits \in SUBSET Nat /\ imem \in SUBSET Nat /\ bmem \in SUBSET Nat
    /\ disk.bbits = bmem /\ core \in [Ino -> Node] /\ fault \in BOOLEAN
    /\ \A i \in Ino : NodeBelongs(o, bmem, i, disk.inode[i]) /\ NodeBelongs(o, bmem, i, core[i])
    /\ \A b \in Block : /\ o[b][2] = -1 => TableBelongs(o, bmem, o[b][1], disk.tab[b])
                        /\ b - 1 \notin bmem => disk.tab[b] = ZeroTable

Numbers ==
    /\ \A p \in Proc : r[p] # Idle => r[p].ino \in imem
    /\ \A p, q \in Proc : p # q /\ r[p] # Idle /\ r[q] # Idle => r[p].ino # r[q].ino

TakenBy(o) == /\ o \in [Block -> Place] /\ OnDisk(o)
              /\ r = [p \in Proc |-> r[p]] /\ Numbers
              /\ \A p \in Proc : Under(o, bmem, r[p]) /\ Writes(o, bmem, fault, r[p])

TakeInv == /\ setup \in Setups /\ r = [p \in Proc |-> r[p]]
           /\ \A p \in Proc \ setup.users : r[p] = Idle
           /\ setup.ops \subseteq {"create", "mkdir"} => \E o \in [Block -> Place] : TakenBy(o)

\* A set of naturals has a least element: the intervals 0 .. j are well-founded.
LEMMA LeastOf ==
  ASSUME NEW S, S \subseteq Nat, S # {}
  PROVE  Least(S) \in S /\ \A j \in S : Least(S) =< j
<1> DEFINE R == StrictSubsetOrdering(Nat)
           T == {0 .. j : j \in S}
<1>1. IsWellFoundedOn(R, FiniteSubsetsOf(Nat))
  BY FS_StrictSubsetOrderingWellFounded
<1>2. T \subseteq FiniteSubsetsOf(Nat) /\ T # {}
  <2>1. ASSUME NEW j \in S PROVE 0 .. j \in FiniteSubsetsOf(Nat)
    <3>1. j \in Int /\ 0 \in Int /\ 0 .. j \in SUBSET Nat
      OBVIOUS
    <3>2. IsFiniteSet(0 .. j)
      BY <3>1, FS_Interval
    <3> QED BY <3>1, <3>2 DEF FiniteSubsetsOf
  <2> QED BY <2>1
<1>3. PICK X \in T : \A Y \in T : ~(<<Y, X>> \in R)
  <2> HIDE DEF R, T
  <2> QED BY <1>1, <1>2, WFMin
<1>4. PICK x \in S : X = 0 .. x
  OBVIOUS
<1>5. ASSUME NEW y \in S PROVE x =< y
  <2>1. SUFFICES ASSUME y < x PROVE FALSE
    OBVIOUS
  <2>2. 0 .. y \subseteq 0 .. x /\ 0 .. y # 0 .. x
    <3>1. x \in 0 .. x /\ x \notin 0 .. y
      BY <2>1
    <3> QED BY <2>1, <3>1
  <2>3. 0 .. y \in SUBSET Nat /\ 0 .. x \in SUBSET Nat
    OBVIOUS
  <2>4. <<0 .. y, X>> \in R
    BY <1>4, <2>2, <2>3, Zenon DEF StrictSubsetOrdering
  <2> QED BY <1>3, <2>4
<1> QED BY <1>5 DEF Least


-----------------------------------------------------------------------------
\* bitmap_scan for one bit finds one that is clear.
LEMMA ScanOne ==
  ASSUME NEW m, NEW n \in Nat, bitmap_scan(m, n, 1) # -1
  PROVE  bitmap_scan(m, n, 1) \in 0 .. n - 1 /\ bitmap_scan(m, n, 1) \notin m
<1> DEFINE hits == {i \in 0 .. n - 1 : i \notin m}
<1>1. ScanHits(m, n, 1) = hits
  BY DEF ScanHits
<1>2. hits # {} /\ bitmap_scan(m, n, 1) = Least(hits)
  BY <1>1 DEF bitmap_scan
<1>3. Least(hits) \in hits
  <2>1. hits \subseteq Nat
    OBVIOUS
  <2> HIDE DEF hits
  <2> QED BY <1>2, <2>1, LeastOf
<1> QED BY <1>2, <1>3

\* What is named stays at its place when a block is taken.
LEMMA StillBelongs ==
  ASSUME NEW o \in [Block -> Place], NEW m, NEW c \in Block, c - 1 \notin m, NEW pl \in Place,
         NEW i, NEW k, NEW b \in 0 .. Blocks, Belongs(o, m, b, i, k)
  PROVE  Belongs([o EXCEPT ![c] = pl], m \cup {c - 1}, b, i, k)
BY DEF Belongs, Block

LEMMA NodeStays ==
  ASSUME NEW o \in [Block -> Place], NEW m, NEW c \in Block, c - 1 \notin m, NEW pl \in Place,
         NEW i, NEW nd \in Node, NodeBelongs(o, m, i, nd)
  PROVE  NodeBelongs([o EXCEPT ![c] = pl], m \cup {c - 1}, i, nd)
<1>1. \A k \in 0 .. Direct : nd.sect[k] \in 0 .. Blocks
  BY DEF Node
<1> QED BY <1>1, StillBelongs DEF NodeBelongs

LEMMA TableStays ==
  ASSUME NEW o \in [Block -> Place], NEW m, NEW c \in Block, c - 1 \notin m, NEW pl \in Place,
         NEW i, NEW t \in Table, TableBelongs(o, m, i, t)
  PROVE  TableBelongs([o EXCEPT ![c] = pl], m \cup {c - 1}, i, t)
<1>1. \A k \in 1 .. Indirect : t[k] \in 0 .. Blocks
  BY DEF Table
<1> QED BY <1>1, StillBelongs DEF TableBelongs

\* What is left to do after the first step
LEMMA TodoTail ==
  ASSUME NEW t, Todo(t), t # <<>>
  PROVE  /\ Todo(Tail(t)) /\ Head(t) = t[1] /\ 1 \in DOMAIN t /\ t[1].do \in Kinds
         /\ DOMAIN Tail(t) = 1 .. Len(t) - 1 /\ DOMAIN t = 1 .. Len(t)
         /\ \A j \in 1 .. Len(t) - 1 : Tail(t)[j] = t[j + 1]
         /\ Tail(t) # <<>> => Head(Tail(t)) = t[2] /\ 2 \in DOMAIN t
<1>1. t \in Seq([do : Kinds, on : Ino]) /\ Len(t) \in Nat \ {0} /\ DOMAIN t = 1 .. Len(t)
  BY DEF Todo
<1>2. /\ Tail(t) \in Seq([do : Kinds, on : Ino]) /\ Len(Tail(t)) = Len(t) - 1
      /\ \A j \in 1 .. Len(t) - 1 : Tail(t)[j] = t[j + 1]
      /\ DOMAIN Tail(t) = 1 .. Len(t) - 1 /\ Head(t) = t[1]
  BY <1>1
<1>3. t[1].do \in Kinds
  <2>1. PICK S : S = [do : Kinds, on : Ino]
    OBVIOUS
  <2>2. t \in Seq(S) /\ Len(t) \in Nat \ {0}
    BY <1>1, <2>1
  <2>3. t[1] \in S
    BY <2>2
  <2> QED BY <2>1, <2>3
<1>4. Tail(t) # <<>> => Head(Tail(t)) = t[2] /\ 2 \in DOMAIN t
  <2>1. SUFFICES ASSUME Tail(t) # <<>> PROVE Head(Tail(t)) = t[2] /\ 2 \in DOMAIN t
    OBVIOUS
  <2>2. Len(Tail(t)) # 0
    BY <1>2, <2>1
  <2> QED BY <1>1, <1>2, <2>2
<1>5. ASSUME NEW j \in DOMAIN Tail(t)
      PROVE  LET u == Tail(t) IN
          /\ u[j].do = "load" => /\ j < Len(u) /\ u[j + 1].do = "store"
                                 /\ u[j + 1].on = u[j].on
          /\ u[j].do = "store" => j = 1 \/ u[j - 1].do = "load"
          /\ u[j].do = "alloc" => j = 1 /\ Len(u) > 1 /\ u[2].do \in {"dots", "zero"}
          /\ u[j].do \in {"dots", "zero"} => j = 1 \/ (j = 2 /\ u[1].do = "alloc")
          /\ u[j].do = "tier" => j = 1 \/ u[j - 1].do = "zero"
  <2>1. j \in 1 .. Len(t) - 1 /\ Tail(t)[j] = t[j + 1]
    BY <1>1, <1>2, <1>5
  <2>2. PICK k \in DOMAIN t : k = j + 1
    BY <1>1, <2>1
  <2>3. j # 1 => j - 1 \in 1 .. Len(t) - 1 /\ Tail(t)[j - 1] = t[k - 1]
    BY <1>1, <1>2, <2>1, <2>2
  <2>4. k < Len(t) => j + 1 \in 1 .. Len(t) - 1 /\ Tail(t)[j + 1] = t[k + 1]
    BY <1>1, <1>2, <2>1, <2>2
  <2>5. /\ t[k].do = "load" => /\ k < Len(t) /\ t[k + 1].do = "store"
                               /\ t[k + 1].on = t[k].on
        /\ t[k].do = "store" => k = 1 \/ t[k - 1].do = "load"
        /\ t[k].do = "alloc" => k = 1
        /\ t[k].do \in {"dots", "zero"} => k = 1 \/ (k = 2 /\ t[1].do = "alloc")
        /\ t[k].do = "tier" => k = 1 \/ t[k - 1].do = "zero"
    BY DEF Todo
  <2>6. k # 1 /\ (k = 2 => j = 1) /\ (k < Len(t) => j < Len(Tail(t)))
    BY <1>1, <1>2, <2>1, <2>2
  <2> QED BY <2>1, <2>2, <2>3, <2>4, <2>5, <2>6
<1> QED BY <1>1, <1>2, <1>3, <1>4, <1>5 DEF Todo

\* A process that makes no call
LEMMA IdleSound == ASSUME NEW o, NEW m, NEW f PROVE Under(o, m, Idle) /\ Writes(o, m, f, Idle)
<1>1. /\ Idle.dir = 0 /\ Idle.ino = 0 /\ Idle.idx = 0 /\ Idle.tier = <<>> /\ Idle.todo = <<>>
  BY DEF Idle
<1>2. Todo(<<>>) /\ DOMAIN <<>> = {}
  <2>1. <<>> \in Seq([do : Kinds, on : Ino]) /\ DOMAIN <<>> = {}
    OBVIOUS
  <2> QED BY <2>1 DEF Todo
<1>3. 0 \in Ino /\ 0 \in 0 .. Direct + Indirect
  BY DiskConstants DEF Ino
<1> QED BY <1>1, <1>2, <1>3 DEF Under, Writes

-----------------------------------------------------------------------------
(* The steps of a call *)

\* A call goes on to its next step, with the same inodes.
LEMMA Under_Next ==
  ASSUME NEW o, NEW m, NEW x, Under(o, m, x), x.todo # <<>>,
         NEW y, DOMAIN y = DOMAIN Idle, y.todo = Tail(x.todo),
         y.dir = x.dir, y.ino = x.ino, y.idx = x.idx,
         y.tier \in {<<>>} \cup Table, x.tier # <<>> => y.tier # <<>>,
         y.tier # <<>> => y.tier \in Table /\ TableBelongs(o, m, y.dir, y.tier)
  PROVE  Under(o, m, y)
<1>1. /\ Todo(x.todo) /\ Todo(Tail(x.todo))
      /\ DOMAIN Tail(x.todo) = 1 .. Len(x.todo) - 1 /\ DOMAIN x.todo = 1 .. Len(x.todo)
      /\ \A j \in 1 .. Len(x.todo) - 1 : Tail(x.todo)[j] = x.todo[j + 1]
  BY TodoTail DEF Under
<1>2. ASSUME NEW j \in DOMAIN y.todo
      PROVE  /\ y.todo[j].do = "zero" => y.idx < Direct + Indirect
             /\ y.todo[j].do = "tier" => y.tier # <<>>
  <2>1. PICK k \in DOMAIN x.todo : y.todo[j] = x.todo[k]
    <3>1. Len(x.todo) \in Nat
      BY <1>1 DEF Todo
    <3>2. j \in 1 .. Len(x.todo) - 1 /\ j + 1 \in DOMAIN x.todo
      BY <1>1, <1>2, <3>1
    <3> QED BY <1>1, <3>2
  <2> QED BY <2>1 DEF Under
<1> QED BY <1>1, <1>2 DEF Under

\* Unless it has read an inode to write, or taken a block, what it writes is its own.
LEMMA Writes_Next ==
  ASSUME NEW o, NEW m, NEW f, NEW x, Todo(x.todo), x.todo # <<>>,
         Head(x.todo).do \notin {"load", "alloc"}, NEW y, y.todo = Tail(x.todo)
  PROVE  Writes(o, m, f, y)
<1>1. SUFFICES ASSUME Tail(x.todo) # <<>>
               PROVE  Head(Tail(x.todo)).do \notin {"store", "dots", "zero"}
  BY DEF Writes
<1>2. Head(x.todo) = x.todo[1] /\ Head(Tail(x.todo)) = x.todo[2] /\ 2 \in DOMAIN x.todo
  BY <1>1, TodoTail
<1> QED BY <1>2 DEF Todo

\* A step of one call, when what is on the disk and in memory still is sound
LEMMA CallGoesOn ==
  ASSUME NEW o, TakenBy(o), NEW p \in Proc, r[p] # Idle, NEW x, Then(p, x),
         x.dir = r[p].dir, x.ino = r[p].ino, Under(o, bmem, x), Writes(o, bmem, fault, x),
         OnDisk(o)', imem' = imem, bmem' = bmem, fault' = fault
  PROVE  TakenBy(o)'
<1>1. r = [q \in Proc |-> r[q]]
  BY DEF TakenBy
<1>2. r' = [r EXCEPT ![p] = IF x.todo = <<>> THEN Idle ELSE x]
  BY DEF Then
<1>3. \A q \in Proc \ {p} : r'[q] = r[q]
  BY <1>1, <1>2
<1>4. r'[p] = Idle \/ r'[p] = x
  BY <1>1, <1>2
<1>5. r' = [q \in Proc |-> r'[q]]
  BY <1>1, <1>2
<1>6. Under(o, bmem, Idle) /\ Writes(o, bmem, fault, Idle)
  BY IdleSound
<1>7. \A q \in Proc : Under(o, bmem', r'[q]) /\ Writes(o, bmem', fault', r'[q])
  BY <1>3, <1>4, <1>6 DEF TakenBy
<1>8. Numbers'
  BY <1>3, <1>4 DEF TakenBy, Numbers
<1> QED BY <1>5, <1>7, <1>8 DEF TakenBy

\* Inodes that are opened and closed
LEMMA OpenSound ==
  ASSUME NEW o, TakenBy(o), NEW d \in Ino
  PROVE  inode_open(d) \in [Ino -> Node] /\ \A i \in Ino : NodeBelongs(o, bmem, i, inode_open(d)[i])
BY DEF TakenBy, OnDisk, inode_open

LEMMA CloseSound ==
  ASSUME NEW o, TakenBy(o), NEW p \in Proc
  PROVE  dir_close(p) \in [Ino -> Node] /\ \A i \in Ino : NodeBelongs(o, bmem, i, dir_close(p)[i])
<1>1. dir_close(p) = [i \in Ino |-> dir_close(p)[i]]
  BY DEF dir_close
<1>2. \A i \in Ino : dir_close(p)[i] \in {core[i], inode_init}
  BY DEF dir_close
<1>3. core \in [Ino -> Node] /\ \A i \in Ino : NodeBelongs(o, bmem, i, core[i])
  BY DEF TakenBy, OnDisk
<1>4. inode_init \in Node /\ \A i : NodeBelongs(o, bmem, i, inode_init)
  BY NothingBelongs
<1> QED BY <1>1, <1>2, <1>3, <1>4

\* The first step of a call under way
LEMMA DoingIs ==
  ASSUME NEW o, TakenBy(o), NEW p \in Proc, NEW what, Doing(p, what)
  PROVE  /\ ~fault /\ r[p] # Idle /\ r[p].todo # <<>> /\ Head(r[p].todo).do = what
         /\ Under(o, bmem, r[p]) /\ Writes(o, bmem, fault, r[p]) /\ Todo(r[p].todo)
         /\ what \in Kinds /\ Head(r[p].todo) = r[p].todo[1] /\ 1 \in DOMAIN r[p].todo
         /\ DOMAIN r[p] = DOMAIN Idle /\ OnDisk(o)
<1>1. /\ ~fault /\ r[p].todo # <<>> /\ Head(r[p].todo).do = what
      /\ Under(o, bmem, r[p]) /\ Writes(o, bmem, fault, r[p]) /\ OnDisk(o)
  BY DEF Doing, TakenBy
<1>2. r[p] # Idle
  BY <1>1 DEF Idle
<1>3. Todo(r[p].todo) /\ DOMAIN r[p] = DOMAIN Idle
  BY <1>1 DEF Under
<1> QED BY <1>1, <1>2, <1>3, TodoTail

\* inode_sync reads the sector,
LEMMA SyncLoadTakes ==
  ASSUME NEW o, TakenBy(o), NEW p \in Proc, SyncLoad(p)
  PROVE  TakenBy(o)'
<1> DEFINE x == r[p]
           y == [x EXCEPT !.table = disk.inode, !.snap = core[Head(x.todo).on],
                          !.todo = Rest(p)]
<1>1. /\ Doing(p, "load") /\ Then(p, y)
      /\ UNCHANGED <<disk, imem, bmem, core, fault, failed>>
  BY DEF SyncLoad
<1>2. /\ x # Idle /\ x.todo # <<>> /\ Under(o, bmem, x) /\ Todo(x.todo)
      /\ Head(x.todo) = x.todo[1] /\ 1 \in DOMAIN x.todo /\ x.todo[1].do = "load"
      /\ DOMAIN x = DOMAIN Idle /\ OnDisk(o)
  BY <1>1, DoingIs
<1>3. /\ DOMAIN y = DOMAIN Idle /\ y.todo = Tail(x.todo) /\ y.dir = x.dir /\ y.ino = x.ino
      /\ y.idx = x.idx /\ y.tier = x.tier /\ y.table = disk.inode
      /\ y.snap = core[x.todo[1].on]
  BY <1>2 DEF Idle, Rest
<1>4. x.todo[1].on \in Ino /\ x.todo[2].do = "store" /\ x.todo[2].on = x.todo[1].on
  <2>1. PICK S : S = [do : Kinds, on : Ino]
    OBVIOUS
  <2>2. x.todo \in Seq(S) /\ DOMAIN x.todo = 1 .. Len(x.todo)
    BY <1>2, <2>1 DEF Todo
  <2>3. x.todo[1] \in S
    BY <1>2, <2>2
  <2>4. x.todo[1].on \in Ino
    BY <2>1, <2>3
  <2>5. x.todo[1 + 1].do = "store" /\ x.todo[1 + 1].on = x.todo[1].on
    BY <1>2 DEF Todo
  <2> QED BY <2>4, <2>5
<1> HIDE DEF y
<1>5. Under(o, bmem, y)
  BY <1>2, <1>3, Under_Next DEF Under
<1>6. Writes(o, bmem, fault, y)
  <2>1. y.todo # <<>> => Head(y.todo) = x.todo[2]
    BY <1>2, <1>3, TodoTail
  <2> QED BY <1>2, <1>3, <1>4, <2>1 DEF Writes, OnDisk
<1>7. OnDisk(o)'
  BY <1>1, <1>2 DEF OnDisk
<1> QED BY <1>1, <1>2, <1>3, <1>5, <1>6, <1>7, CallGoesOn

\* and writes it back.
LEMMA SyncStoreTakes ==
  ASSUME NEW o, TakenBy(o), NEW p \in Proc, SyncStore(p)
  PROVE  TakenBy(o)'
<1> DEFINE x == r[p]
           y == [x EXCEPT !.table = <<>>, !.snap = inode_init, !.todo = Rest(p)]
<1>1. /\ Doing(p, "store") /\ Then(p, y) /\ UNCHANGED <<imem, bmem, fault, failed>>
      /\ disk' = [disk EXCEPT !.inode = [x.table EXCEPT ![Head(x.todo).on] = x.snap]]
      /\ core' = core \/ core' = dir_close(p)
  BY DEF SyncStore
<1>2. /\ x # Idle /\ x.todo # <<>> /\ Under(o, bmem, x) /\ Todo(x.todo)
      /\ Head(x.todo).do = "store" /\ DOMAIN x = DOMAIN Idle /\ OnDisk(o)
      /\ Writes(o, bmem, fault, x)
  BY <1>1, DoingIs
<1>3. /\ DOMAIN y = DOMAIN Idle /\ y.todo = Tail(x.todo) /\ y.dir = x.dir /\ y.ino = x.ino
      /\ y.idx = x.idx /\ y.tier = x.tier
  BY <1>2 DEF Idle, Rest
<1> HIDE DEF y
<1>4. Under(o, bmem, y)
  BY <1>2, <1>3, Under_Next DEF Under
<1>5. Writes(o, bmem, fault, y)
  BY <1>2, <1>3, Writes_Next
<1>6. OnDisk(o)'
  <2>1. /\ x.snap \in Node /\ NodeBelongs(o, bmem, Head(x.todo).on, x.snap)
        /\ x.table \in [Ino -> Node] /\ \A i \in Ino : NodeBelongs(o, bmem, i, x.table[i])
    BY <1>2 DEF Writes
  <2>2. PICK t : t = [x.table EXCEPT ![Head(x.todo).on] = x.snap]
    OBVIOUS
  <2>3. t \in [Ino -> Node] /\ \A i \in Ino : NodeBelongs(o, bmem, i, t[i])
    BY <2>1, <2>2
  <2>4. core' \in [Ino -> Node] /\ \A i \in Ino : NodeBelongs(o, bmem, i, core'[i])
    BY <1>1, <1>2, CloseSound DEF OnDisk
  <2>5. /\ DOMAIN disk' = DOMAIN disk /\ disk'.inode = t /\ disk'.ibits = disk.ibits
        /\ disk'.bbits = disk.bbits /\ disk'.tab = disk.tab
    BY <1>1, <1>2, <2>2 DEF OnDisk
  <2> QED BY <1>1, <1>2, <2>3, <2>4, <2>5 DEF OnDisk
<1> QED BY <1>1, <1>2, <1>3, <1>4, <1>5, <1>6, CallGoesOn

\* file_create ends with the inode bitmap.
LEMMA SyncInodeBitsTakes ==
  ASSUME NEW o, TakenBy(o), NEW p \in Proc, SyncInodeBits(p)
  PROVE  TakenBy(o)'
<1> DEFINE x == r[p]
           y == [x EXCEPT !.todo = Rest(p)]
<1>1. /\ Doing(p, "ibits") /\ Then(p, y) /\ UNCHANGED <<imem, bmem, fault, failed>>
      /\ disk' = [disk EXCEPT !.ibits = imem] /\ core' = dir_close(p)
  BY DEF SyncInodeBits
<1>2. /\ x # Idle /\ x.todo # <<>> /\ Under(o, bmem, x) /\ Todo(x.todo)
      /\ Head(x.todo).do = "ibits" /\ DOMAIN x = DOMAIN Idle /\ OnDisk(o)
  BY <1>1, DoingIs
<1>3. /\ DOMAIN y = DOMAIN Idle /\ y.todo = Tail(x.todo) /\ y.dir = x.dir /\ y.ino = x.ino
      /\ y.idx = x.idx /\ y.tier = x.tier
  BY <1>2 DEF Idle, Rest
<1> HIDE DEF y
<1>4. Under(o, bmem, y)
  BY <1>2, <1>3, Under_Next DEF Under
<1>5. Writes(o, bmem, fault, y)
  BY <1>2, <1>3, Writes_Next
<1>6. OnDisk(o)'
  <2>1. core' \in [Ino -> Node] /\ \A i \in Ino : NodeBelongs(o, bmem, i, core'[i])
    BY <1>1, CloseSound
  <2>2. /\ DOMAIN disk' = DOMAIN disk /\ disk'.inode = disk.inode /\ disk'.ibits = imem
        /\ disk'.bbits = disk.bbits /\ disk'.tab = disk.tab
    BY <1>1, <1>2 DEF OnDisk
  <2> QED BY <1>1, <1>2, <2>1, <2>2 DEF OnDisk
<1> QED BY <1>1, <1>2, <1>3, <1>4, <1>5, <1>6, CallGoesOn

\* alloc_directory_inode enters the block of a new directory.
LEMMA WriteDotsTakes ==
  ASSUME NEW o, TakenBy(o), NEW p \in Proc, WriteDots(p)
  PROVE  TakenBy(o)'
<1> DEFINE x == r[p]
           y == [x EXCEPT !.todo = Rest(p)]
           nd == [inode_init EXCEPT !.size = 2, !.sect[0] = x.lba]
<1>1. /\ Doing(p, "dots") /\ Then(p, y) /\ UNCHANGED <<imem, bmem, fault, failed>>
      /\ disk' = [disk EXCEPT !.ents[x.lba] = Dots(x.ino, x.dir)]
      /\ core' = [core EXCEPT ![x.ino] = nd]
  BY DEF WriteDots
<1>2. /\ x # Idle /\ x.todo # <<>> /\ Under(o, bmem, x) /\ Todo(x.todo) /\ ~fault
      /\ Head(x.todo).do = "dots" /\ DOMAIN x = DOMAIN Idle /\ OnDisk(o)
      /\ Writes(o, bmem, fault, x)
  BY <1>1, DoingIs
<1>3. /\ DOMAIN y = DOMAIN Idle /\ y.todo = Tail(x.todo) /\ y.dir = x.dir /\ y.ino = x.ino
      /\ y.idx = x.idx /\ y.tier = x.tier
  BY <1>2 DEF Idle, Rest
<1> HIDE DEF y
<1>4. Under(o, bmem, y)
  BY <1>2, <1>3, Under_Next DEF Under
<1>5. Writes(o, bmem, fault, y)
  BY <1>2, <1>3, Writes_Next
<1>6. x.lba \in Block /\ x.lba - 1 \in bmem /\ o[x.lba] = <<x.ino, 0>>
  BY <1>2 DEF Writes, Dest
<1>7. nd \in Node /\ NodeBelongs(o, bmem, x.ino, nd)
  <2>1. /\ nd = [size |-> 2, sect |-> nd.sect] /\ nd.sect = [k \in 0 .. Direct |-> nd.sect[k]]
        /\ \A k \in 0 .. Direct : nd.sect[k] = IF k = 0 THEN x.lba ELSE 0
    <3>1. PICK z : z = [k \in 0 .. Direct |-> 0]
      OBVIOUS
    <3>2. inode_init = [size |-> 0, sect |-> z]
      BY <3>1 DEF inode_init
    <3>3. nd = [size |-> 2, sect |-> [z EXCEPT ![0] = x.lba]]
      <4>1. nd = [[inode_init EXCEPT !.size = 2] EXCEPT !.sect[0] = x.lba]
        OBVIOUS
      <4>2. PICK v : v = [inode_init EXCEPT !.size = 2]
        OBVIOUS
      <4>3. v = [size |-> 2, sect |-> z]
        BY <3>2, <4>2
      <4>4. nd = [v EXCEPT !.sect[0] = x.lba]
        BY <4>1, <4>2
      <4> HIDE DEF nd
      <4> QED BY <4>3, <4>4
    <3>4. nd = [size |-> 2, sect |-> nd.sect] /\ nd.sect = [z EXCEPT ![0] = x.lba]
      BY <3>3
    <3> HIDE DEF nd
    <3> QED BY <3>1, <3>4
  <2> HIDE DEF nd
  <2>2. \A k \in 0 .. Direct : nd.sect[k] \in 0 .. Blocks
    BY <1>6, <2>1, DiskConstants DEF Block
  <2>3. nd \in Node
    BY <2>1, <2>2 DEF Node
  <2>4. \A k \in 0 .. Direct : Belongs(o, bmem, nd.sect[k], x.ino, IF k < Direct THEN k ELSE -1)
    BY <1>6, <2>1, DiskConstants DEF Belongs
  <2> QED BY <2>3, <2>4 DEF NodeBelongs
<1>8. OnDisk(o)'
  <2> HIDE DEF nd
  <2>1. core' \in [Ino -> Node] /\ \A i \in Ino : NodeBelongs(o, bmem, i, core'[i])
    BY <1>1, <1>2, <1>7 DEF OnDisk
  <2>2. /\ DOMAIN disk' = DOMAIN disk /\ disk'.inode = disk.inode /\ disk'.ibits = disk.ibits
        /\ disk'.bbits = disk.bbits /\ disk'.tab = disk.tab
    BY <1>1, <1>2 DEF OnDisk
  <2> QED BY <1>1, <1>2, <2>1, <2>2 DEF OnDisk
<1> QED BY <1>1, <1>2, <1>3, <1>4, <1>5, <1>8, CallGoesOn

\* sync_dir_entry clears a new block and enters it.
LEMMA ZeroBlockTakes ==
  ASSUME NEW o, TakenBy(o), NEW p \in Proc, ZeroBlock(p)
  PROVE  TakenBy(o)'
<1> DEFINE x == r[p]
           tiered == x.idx >= Direct /\ x.tier # <<>>
           k == IF x.idx < Direct THEN x.idx ELSE Direct
           t == IF tiered THEN [x.tier EXCEPT ![x.idx - Direct + 1] = x.lba] ELSE x.tier
           y == [x EXCEPT !.todo = Rest(p),
                          !.tier = IF tiered THEN [@ EXCEPT ![x.idx - Direct + 1] = x.lba] ELSE @]
<1>1. /\ Doing(p, "zero") /\ Then(p, y) /\ UNCHANGED <<imem, bmem, fault, failed>>
      /\ disk' = [disk EXCEPT !.ents[x.lba] = ZeroSector, !.tab[x.lba] = ZeroTable]
      /\ core' = IF tiered THEN core ELSE [core EXCEPT ![x.dir].sect[k] = x.lba]
  BY DEF ZeroBlock
<1>2. /\ x # Idle /\ x.todo # <<>> /\ Under(o, bmem, x) /\ Todo(x.todo) /\ ~fault
      /\ Head(x.todo).do = "zero" /\ DOMAIN x = DOMAIN Idle /\ OnDisk(o)
      /\ Writes(o, bmem, fault, x) /\ Head(x.todo) = x.todo[1] /\ 1 \in DOMAIN x.todo
  BY <1>1, DoingIs
<1>3. /\ DOMAIN y = DOMAIN Idle /\ y.todo = Tail(x.todo) /\ y.dir = x.dir /\ y.ino = x.ino
      /\ y.idx = x.idx /\ y.tier = t
  BY <1>2 DEF Idle, Rest
<1> HIDE DEF y
<1>4. /\ x.lba \in Block /\ x.lba - 1 \in bmem /\ o[x.lba] = Dest(x)
      /\ x.idx \in 0 .. Direct + Indirect - 1 /\ x.dir \in Ino
      /\ x.tier \in {<<>>} \cup Table
      /\ x.tier # <<>> => x.tier \in Table /\ TableBelongs(o, bmem, x.dir, x.tier)
  BY <1>2, DiskConstants DEF Writes, Under
<1>5. o[x.lba] = IF x.idx >= Direct /\ x.tier = <<>> THEN <<x.dir, -1>> ELSE <<x.dir, x.idx>>
  BY <1>2, <1>4 DEF Dest
<1>6. /\ t \in {<<>>} \cup Table /\ (x.tier # <<>> => t # <<>>)
      /\ t # <<>> => t \in Table /\ TableBelongs(o, bmem, x.dir, t)
  <2>1. CASE tiered
    <3>1. t = [x.tier EXCEPT ![x.idx - Direct + 1] = x.lba] /\ x.tier \in Table
      BY <1>4, <2>1
    <3>2. x.idx - Direct + 1 \in 1 .. Indirect /\ x.lba \in 0 .. Blocks
      BY <1>4, <2>1, DiskConstants DEF Block
    <3>3. /\ t \in Table /\ t[x.idx - Direct + 1] = x.lba
          /\ \A j \in 1 .. Indirect : j # x.idx - Direct + 1 => t[j] = x.tier[j]
      BY <3>1, <3>2 DEF Table
    <3> HIDE DEF t
    <3>4. t # <<>>
      <4>1. DOMAIN t = 1 .. Indirect /\ 1 \in 1 .. Indirect
        BY <3>2, <3>3, DiskConstants DEF Table
      <4>2. DOMAIN <<>> = {}
        OBVIOUS
      <4> QED BY <4>1, <4>2
    <3>5. TableBelongs(o, bmem, x.dir, t)
      <4>1. ASSUME NEW j \in 1 .. Indirect PROVE Belongs(o, bmem, t[j], x.dir, Direct + j - 1)
        <5>1. CASE j = x.idx - Direct + 1
          <6>1. Direct + j - 1 = x.idx
            BY <1>4, <5>1, DiskConstants
          <6> QED BY <1>4, <1>5, <2>1, <3>3, <5>1, <6>1 DEF Belongs
        <5>2. CASE j # x.idx - Direct + 1
          BY <1>4, <2>1, <3>3, <5>2 DEF TableBelongs
        <5> QED BY <5>1, <5>2
      <4> QED BY <4>1 DEF TableBelongs
    <3> QED BY <3>3, <3>4, <3>5
  <2>2. CASE ~tiered
    BY <1>4, <2>2
  <2> QED BY <2>1, <2>2
<1>7. Under(o, bmem, y)
  <2> HIDE DEF t
  <2> QED BY <1>2, <1>3, <1>6, Under_Next
<1>8. Writes(o, bmem, fault, y)
  BY <1>2, <1>3, Writes_Next
<1>9. core' \in [Ino -> Node] /\ \A i \in Ino : NodeBelongs(o, bmem, i, core'[i])
  <2>1. CASE tiered
    BY <1>1, <1>2, <2>1 DEF OnDisk
  <2>2. CASE ~tiered
    <3>1. core' = [core EXCEPT ![x.dir].sect[k] = x.lba]
      BY <1>1, <2>2
    <3>2. /\ core \in [Ino -> Node] /\ core[x.dir] \in Node
          /\ \A i \in Ino : NodeBelongs(o, bmem, i, core[i])
      BY <1>2, <1>4 DEF OnDisk
    <3>3. PICK nd : nd = [core[x.dir] EXCEPT !.sect[k] = x.lba]
      OBVIOUS
    <3>4. core' = [core EXCEPT ![x.dir] = nd]
      BY <3>1, <3>3
    <3>5. k \in 0 .. Direct /\ x.lba \in 0 .. Blocks
      BY <1>4, DiskConstants DEF Block
    <3>6. o[x.lba] = <<x.dir, IF k < Direct THEN k ELSE -1>>
      BY <1>4, <1>5, <2>2, DiskConstants
    <3> HIDE DEF k
    <3>7. /\ nd \in Node /\ nd.sect[k] = x.lba
          /\ \A j \in 0 .. Direct : j # k => nd.sect[j] = core[x.dir].sect[j]
      BY <3>2, <3>3, <3>5 DEF Node
    <3>8. NodeBelongs(o, bmem, x.dir, nd)
      BY <1>4, <3>2, <3>6, <3>7 DEF NodeBelongs, Belongs
    <3> QED BY <1>4, <3>2, <3>4, <3>7, <3>8
  <2> QED BY <2>1, <2>2
<1>10. OnDisk(o)'
  <2> HIDE DEF tiered, k
  <2>1. /\ DOMAIN disk' = DOMAIN disk /\ disk'.inode = disk.inode /\ disk'.ibits = disk.ibits
        /\ disk'.bbits = disk.bbits /\ disk'.tab = [disk.tab EXCEPT ![x.lba] = ZeroTable]
    BY <1>1, <1>2 DEF OnDisk
  <2>2. disk'.tab \in [Block -> Table]
    BY <1>2, <2>1, NothingBelongs DEF OnDisk
  <2>3. ASSUME NEW b \in Block
        PROVE  /\ o[b][2] = -1 => TableBelongs(o, bmem, o[b][1], disk'.tab[b])
               /\ b - 1 \notin bmem => disk'.tab[b] = ZeroTable
    <3>1. disk'.tab[b] = disk.tab[b] \/ disk'.tab[b] = ZeroTable
      BY <1>2, <2>1 DEF OnDisk
    <3> QED BY <1>2, <3>1, NothingBelongs DEF OnDisk
  <2> QED BY <1>1, <1>2, <1>9, <2>1, <2>2, <2>3 DEF OnDisk
<1> QED BY <1>1, <1>2, <1>3, <1>7, <1>8, <1>10, CallGoesOn

\* The entry is written,
LEMMA PutEntryTakes ==
  ASSUME NEW o, TakenBy(o), NEW p \in Proc, PutEntry(p)
  PROVE  TakenBy(o)'
<1> DEFINE x == r[p]
           y == [x EXCEPT !.sec = ZeroSector, !.todo = Rest(p)]
<1>1. /\ Doing(p, "put") /\ Then(p, y) /\ UNCHANGED <<imem, bmem, fault, failed>>
      /\ disk' = [disk EXCEPT !.ents[x.lba] = [x.sec EXCEPT ![x.slot] = x.ent]]
      /\ core' = [core EXCEPT ![x.dir].size = @ + Delta(x)]
  BY DEF PutEntry
<1>2. /\ x # Idle /\ x.todo # <<>> /\ Under(o, bmem, x) /\ Todo(x.todo)
      /\ Head(x.todo).do = "put" /\ DOMAIN x = DOMAIN Idle /\ OnDisk(o)
  BY <1>1, DoingIs
<1>3. /\ DOMAIN y = DOMAIN Idle /\ y.todo = Tail(x.todo) /\ y.dir = x.dir /\ y.ino = x.ino
      /\ y.idx = x.idx /\ y.tier = x.tier
  BY <1>2 DEF Idle, Rest
<1> HIDE DEF y
<1>4. Under(o, bmem, y)
  BY <1>2, <1>3, Under_Next DEF Under
<1>5. Writes(o, bmem, fault, y)
  BY <1>2, <1>3, Writes_Next
<1>6. core' \in [Ino -> Node] /\ \A i \in Ino : NodeBelongs(o, bmem, i, core'[i])
  <2>1. /\ core \in [Ino -> Node] /\ x.dir \in Ino /\ core[x.dir] \in Node
        /\ \A i \in Ino : NodeBelongs(o, bmem, i, core[i])
    BY <1>2 DEF OnDisk, Under
  <2>2. Delta(x) \in Int
    BY DEF Delta
  <2>3. PICK nd : nd = [core[x.dir] EXCEPT !.size = @ + Delta(x)]
    OBVIOUS
  <2>4. core' = [core EXCEPT ![x.dir] = nd]
    BY <1>1, <2>3
  <2>5. nd \in Node /\ nd.sect = core[x.dir].sect
    BY <2>1, <2>2, <2>3 DEF Node
  <2> QED BY <2>1, <2>4, <2>5 DEF NodeBelongs
<1>7. OnDisk(o)'
  <2>1. /\ DOMAIN disk' = DOMAIN disk /\ disk'.inode = disk.inode /\ disk'.ibits = disk.ibits
        /\ disk'.bbits = disk.bbits /\ disk'.tab = disk.tab
    BY <1>1, <1>2 DEF OnDisk
  <2> QED BY <1>1, <1>2, <1>6, <2>1 DEF OnDisk
<1> QED BY <1>1, <1>2, <1>3, <1>4, <1>5, <1>7, CallGoesOn

\* and the table of indirect blocks, with the owner's own.
LEMMA WriteTableTakes ==
  ASSUME NEW o, TakenBy(o), NEW p \in Proc, WriteTable(p)
  PROVE  TakenBy(o)'
<1> DEFINE x == r[p]
           y == [x EXCEPT !.todo = Rest(p)]
           b == core[x.dir].sect[Direct]
<1>1. /\ Doing(p, "tier") /\ Then(p, y) /\ UNCHANGED <<imem, bmem, fault, failed>>
      /\ disk' = [disk EXCEPT !.tab[b] = x.tier]
      /\ core' = IF x.ent = Free THEN [core EXCEPT ![x.dir].size = @ - 1] ELSE core
  BY DEF WriteTable
<1>2. /\ x # Idle /\ x.todo # <<>> /\ Under(o, bmem, x) /\ Todo(x.todo)
      /\ Head(x.todo).do = "tier" /\ DOMAIN x = DOMAIN Idle /\ OnDisk(o)
      /\ Head(x.todo) = x.todo[1] /\ 1 \in DOMAIN x.todo
  BY <1>1, DoingIs
<1>3. /\ DOMAIN y = DOMAIN Idle /\ y.todo = Tail(x.todo) /\ y.dir = x.dir /\ y.ino = x.ino
      /\ y.idx = x.idx /\ y.tier = x.tier
  BY <1>2 DEF Idle, Rest
<1> HIDE DEF y
<1>4. Under(o, bmem, y)
  BY <1>2, <1>3, Under_Next DEF Under
<1>5. Writes(o, bmem, fault, y)
  BY <1>2, <1>3, Writes_Next
<1>6. /\ x.tier \in Table /\ TableBelongs(o, bmem, x.dir, x.tier) /\ x.dir \in Ino
      /\ b # 0 => b - 1 \in bmem /\ o[b] = <<x.dir, -1>>
  <2>1. x.tier \in Table /\ TableBelongs(o, bmem, x.dir, x.tier) /\ x.dir \in Ino
    BY <1>2 DEF Under
  <2>2. NodeBelongs(o, bmem, x.dir, core[x.dir])
    BY <1>2, <2>1 DEF OnDisk
  <2> QED BY <2>1, <2>2, DiskConstants DEF NodeBelongs, Belongs
<1>7. core' \in [Ino -> Node] /\ \A i \in Ino : NodeBelongs(o, bmem, i, core'[i])
  <2>1. /\ core \in [Ino -> Node] /\ core[x.dir] \in Node
        /\ \A i \in Ino : NodeBelongs(o, bmem, i, core[i])
    BY <1>2, <1>6 DEF OnDisk
  <2>2. PICK nd : nd = [core[x.dir] EXCEPT !.size = @ - 1]
    OBVIOUS
  <2>3. core' = core \/ core' = [core EXCEPT ![x.dir] = nd]
    BY <1>1, <2>2
  <2>4. nd \in Node /\ nd.sect = core[x.dir].sect
    BY <2>1, <2>2 DEF Node
  <2> QED BY <1>6, <2>1, <2>3, <2>4 DEF NodeBelongs
<1>8. OnDisk(o)'
  <2> HIDE DEF b
  <2>1. /\ DOMAIN disk' = DOMAIN disk /\ disk'.inode = disk.inode /\ disk'.ibits = disk.ibits
        /\ disk'.bbits = disk.bbits /\ disk'.tab = [disk.tab EXCEPT ![b] = x.tier]
    BY <1>1, <1>2 DEF OnDisk
  <2>2. disk'.tab \in [Block -> Table]
    BY <1>2, <1>6, <2>1 DEF OnDisk
  <2>3. ASSUME NEW c \in Block
        PROVE  /\ o[c][2] = -1 => TableBelongs(o, bmem, o[c][1], disk'.tab[c])
               /\ c - 1 \notin bmem => disk'.tab[c] = ZeroTable
    <3>1. CASE c = b
      <4>1. c # 0 /\ disk'.tab[c] = x.tier
        BY <1>2, <2>1, <2>3, <3>1, DiskConstants DEF OnDisk, Block
      <4> QED BY <1>6, <3>1, <4>1
    <3>2. CASE c # b
      <4>1. disk'.tab[c] = disk.tab[c]
        BY <1>2, <2>1, <3>2 DEF OnDisk
      <4> QED BY <1>2, <4>1 DEF OnDisk
    <3> QED BY <3>1, <3>2
  <2> QED BY <1>1, <1>2, <1>7, <2>1, <2>2, <2>3 DEF OnDisk
<1> QED BY <1>1, <1>2, <1>3, <1>4, <1>5, <1>8, CallGoesOn

\* Lists of steps one after the other
LEMMA TodoMore ==
  ASSUME NEW s, Todo(s), NEW t, Todo(t), s # <<>>,
         1 \in DOMAIN t => /\ t[1].do \notin {"store", "alloc", "dots", "zero"}
                           /\ t[1].do = "tier" => s[Len(s)].do = "zero"
  PROVE  /\ Todo(s \o t) /\ s \o t # <<>> /\ Head(s \o t) = s[1]
         /\ \A j \in DOMAIN (s \o t) : \/ j \in DOMAIN s /\ (s \o t)[j] = s[j]
                                       \/ \E k \in DOMAIN t : (s \o t)[j] = t[k]
<1> DEFINE u == s \o t
           n == Len(s)
<1>1. PICK S : S = [do : Kinds, on : Ino]
  OBVIOUS
<1>2. /\ s \in Seq(S) /\ t \in Seq(S) /\ DOMAIN s = 1 .. n /\ DOMAIN t = 1 .. Len(t)
      /\ n \in Nat /\ Len(t) \in Nat
  BY <1>1 DEF Todo
<1>3. n # 0
  BY <1>2
<1>4. /\ u \in Seq(S) /\ DOMAIN u = 1 .. n + Len(t) /\ Len(u) = n + Len(t)
      /\ (\A j \in 1 .. n : u[j] = s[j]) /\ \A j \in n + 1 .. n + Len(t) : u[j] = t[j - n]
  BY <1>2
<1>5. u # <<>> /\ Head(u) = s[1]
  BY <1>2, <1>3, <1>4
<1> HIDE DEF u
<1>6. ASSUME NEW j \in DOMAIN u
      PROVE  \/ j \in DOMAIN s /\ u[j] = s[j]
             \/ j - n \in DOMAIN t /\ j > n /\ u[j] = t[j - n]
  BY <1>2, <1>4, <1>6
<1>7. ASSUME NEW j \in DOMAIN u
      PROVE  /\ u[j].do = "load" => /\ j < Len(u) /\ u[j + 1].do = "store"
                                    /\ u[j + 1].on = u[j].on
             /\ u[j].do = "store" => j = 1 \/ u[j - 1].do = "load"
             /\ u[j].do = "alloc" => j = 1 /\ Len(u) > 1 /\ u[2].do \in {"dots", "zero"}
             /\ u[j].do \in {"dots", "zero"} => j = 1 \/ (j = 2 /\ u[1].do = "alloc")
             /\ u[j].do = "tier" => j = 1 \/ u[j - 1].do = "zero"
  <2>1. CASE j \in DOMAIN s /\ u[j] = s[j]
    <3>1. /\ s[j].do = "load" => /\ j < Len(s) /\ s[j + 1].do = "store"
                                 /\ s[j + 1].on = s[j].on
          /\ s[j].do = "store" => j = 1 \/ s[j - 1].do = "load"
          /\ s[j].do = "alloc" => j = 1 /\ Len(s) > 1 /\ s[2].do \in {"dots", "zero"}
          /\ s[j].do \in {"dots", "zero"} => j = 1 \/ (j = 2 /\ s[1].do = "alloc")
          /\ s[j].do = "tier" => j = 1 \/ s[j - 1].do = "zero"
      BY <2>1 DEF Todo
    <3>2. /\ j < n => u[j + 1] = s[j + 1]
          /\ j # 1 => u[j - 1] = s[j - 1]
          /\ u[1] = s[1] /\ (n > 1 => u[2] = s[2])
      BY <1>2, <1>3, <1>4, <2>1
    <3> QED BY <1>2, <1>4, <2>1, <3>1, <3>2
  <2>2. CASE j - n \in DOMAIN t /\ j > n /\ u[j] = t[j - n]
    <3>1. PICK k \in DOMAIN t : k = j - n
      BY <2>2
    <3>2. /\ t[k].do = "load" => /\ k < Len(t) /\ t[k + 1].do = "store"
                                 /\ t[k + 1].on = t[k].on
          /\ t[k].do = "store" => k = 1 \/ t[k - 1].do = "load"
          /\ t[k].do = "alloc" => k = 1
          /\ t[k].do \in {"dots", "zero"} => k = 1 \/ (k = 2 /\ t[1].do = "alloc")
          /\ t[k].do = "tier" => k = 1 \/ t[k - 1].do = "zero"
      BY DEF Todo
    <3>3. /\ k < Len(t) => j < Len(u) /\ u[j + 1] = t[k + 1]
          /\ k # 1 => u[j - 1] = t[k - 1]
          /\ k = 1 => u[j - 1] = s[n]
      <4>1. j = n + k /\ k \in 1 .. Len(t) /\ \A c \in 1 .. Len(t) : u[n + c] = t[c]
        <5>1. j = n + k /\ k \in 1 .. Len(t)
          BY <1>2, <1>4, <2>2, <3>1
        <5>2. ASSUME NEW c \in 1 .. Len(t) PROVE u[n + c] = t[c]
          <6>1. PICK b : b = n + c
            OBVIOUS
          <6>2. b \in n + 1 .. n + Len(t) /\ b - n = c
            BY <1>2, <6>1
          <6>3. u[b] = t[b - n]
            BY <1>4, <6>2
          <6> QED BY <6>1, <6>2, <6>3
        <5> QED BY <5>1, <5>2
      <4>2. k < Len(t) => j < Len(u) /\ j + 1 = n + (k + 1) /\ k + 1 \in 1 .. Len(t)
        BY <1>2, <1>4, <4>1
      <4>3. k # 1 => j - 1 = n + (k - 1) /\ k - 1 \in 1 .. Len(t)
        <5>1. n \in Nat /\ Len(t) \in Nat /\ j = n + k /\ k \in 1 .. Len(t)
          BY <1>2, <4>1
        <5> HIDE DEF n
        <5> QED BY <5>1
      <4>4. k = 1 => j - 1 = n /\ n \in 1 .. n
        BY <1>2, <1>3, <4>1
      <4> QED BY <1>4, <4>1, <4>2, <4>3, <4>4
    <3>4. k = 1 => /\ t[k].do \notin {"store", "alloc", "dots", "zero"}
                   /\ t[k].do = "tier" => s[n].do = "zero"
      BY <3>1
    <3>5. k = 2 => 1 \in DOMAIN t
      BY <1>2, <3>1
    <3> QED BY <2>2, <3>1, <3>2, <3>3, <3>4, <3>5
  <2> QED BY <1>6, <2>1, <2>2
<1>8. Todo(u)
  BY <1>1, <1>4, <1>7 DEF Todo
<1> QED BY <1>5, <1>6, <1>8 DEF u

\* The pieces
LEMMA TodoPieces ==
  /\ \A what \in {"find", "put", "ibits", "tier"} :
        Todo(<<Step(what, 0)>>) /\ DOMAIN <<Step(what, 0)>> = {1} /\ Len(<<Step(what, 0)>>) = 1
  /\ \A what \in {"dots", "zero"} :
        LET s == <<Step("alloc", 0), Step(what, 0)>> IN Todo(s) /\ DOMAIN s = {1, 2} /\ Len(s) = 2
  /\ \A i \in Ino : Todo(inode_sync(i)) /\ inode_sync(i)[1].do = "load"
                    /\ DOMAIN inode_sync(i) = {1, 2} /\ inode_sync(i)[2].do = "store"
                    /\ inode_sync(i) # <<>>
<1>1. 0 \in Ino
  BY DiskConstants DEF Ino
<1>2. ASSUME NEW what \in {"find", "put", "ibits", "tier"}
      PROVE  Todo(<<Step(what, 0)>>) /\ DOMAIN <<Step(what, 0)>> = {1} /\ Len(<<Step(what, 0)>>) = 1
  <2>1. Step(what, 0) \in [do : Kinds, on : Ino] /\ Step(what, 0).do = what
    BY <1>1 DEF Step, Kinds
  <2>2. PICK e : e = Step(what, 0)
    OBVIOUS
  <2>3. <<e>> \in Seq([do : Kinds, on : Ino]) /\ DOMAIN <<e>> = {1} /\ <<e>>[1] = e /\ Len(<<e>>) = 1
    BY <2>1, <2>2
  <2> QED BY <2>1, <2>2, <2>3 DEF Todo
<1>3. ASSUME NEW what \in {"dots", "zero"}
      PROVE  LET s == <<Step("alloc", 0), Step(what, 0)>>
             IN  Todo(s) /\ DOMAIN s = {1, 2} /\ Len(s) = 2
  <2>1. /\ Step(what, 0) \in [do : Kinds, on : Ino] /\ Step(what, 0).do = what
        /\ Step("alloc", 0) \in [do : Kinds, on : Ino] /\ Step("alloc", 0).do = "alloc"
    BY <1>1 DEF Step, Kinds
  <2>2. PICK e, g : e = Step("alloc", 0) /\ g = Step(what, 0)
    OBVIOUS
  <2>3. /\ <<e, g>> \in Seq([do : Kinds, on : Ino]) /\ DOMAIN <<e, g>> = {1, 2}
        /\ <<e, g>>[1] = e /\ <<e, g>>[2] = g /\ Len(<<e, g>>) = 2
    BY <2>1, <2>2
  <2> QED BY <2>1, <2>2, <2>3 DEF Todo
<1>4. ASSUME NEW i \in Ino
      PROVE  Todo(inode_sync(i)) /\ inode_sync(i)[1].do = "load"
             /\ DOMAIN inode_sync(i) = {1, 2} /\ inode_sync(i)[2].do = "store"
             /\ inode_sync(i) # <<>>
  <2>1. /\ Step("load", i) \in [do : Kinds, on : Ino] /\ Step("load", i).do = "load"
        /\ Step("store", i) \in [do : Kinds, on : Ino] /\ Step("store", i).do = "store"
        /\ Step("load", i).on = i /\ Step("store", i).on = i
    BY <1>4 DEF Step, Kinds
  <2>2. PICK e, g : e = Step("load", i) /\ g = Step("store", i)
    OBVIOUS
  <2>3. /\ <<e, g>> \in Seq([do : Kinds, on : Ino]) /\ DOMAIN <<e, g>> = {1, 2}
        /\ <<e, g>>[1] = e /\ <<e, g>>[2] = g /\ Len(<<e, g>>) = 2 /\ <<e, g>> # <<>>
    BY <2>1, <2>2
  <2>4. inode_sync(i) = <<e, g>>
    BY <2>2 DEF inode_sync
  <2>5. PICK v : v = <<e, g>>
    OBVIOUS
  <2>6. /\ v \in Seq([do : Kinds, on : Ino]) /\ DOMAIN v = {1, 2} /\ v[1] = e /\ v[2] = g
        /\ Len(v) = 2
    BY <2>3, <2>5
  <2>7. /\ e.do = "load" /\ g.do = "store" /\ g.on = e.on
    BY <2>1, <2>2
  <2>8. Todo(v)
    <3>1. ASSUME NEW j \in DOMAIN v
          PROVE  /\ v[j].do = "load" => /\ j < Len(v) /\ v[j + 1].do = "store"
                                        /\ v[j + 1].on = v[j].on
                 /\ v[j].do = "store" => j = 1 \/ v[j - 1].do = "load"
                 /\ v[j].do \in {"load", "store"}
      <4>1. CASE j = 1
        BY <2>6, <2>7, <4>1
      <4>2. CASE j = 2
        BY <2>6, <2>7, <4>2
      <4> QED BY <2>6, <3>1, <4>1, <4>2
    <3> QED BY <2>6, <3>1 DEF Todo
  <2> QED BY <2>3, <2>4, <2>5, <2>6, <2>7, <2>8
<1> QED BY <1>2, <1>3, <1>4

\* sync_dir_entry goes on to the next block, or to write, or takes a block.
LEMMA FindBlockTakes ==
  ASSUME NEW o, TakenBy(o), NEW p \in Proc, FindBlock(p)
  PROVE  TakenBy(o)'
<1> DEFINE x == r[p]
           indirect == core[x.dir].sect[Direct]
<1>1. /\ Doing(p, "find") /\ x.idx < Direct + Indirect
      /\ UNCHANGED <<disk, imem, bmem, core, fault, failed>>
  BY Zenon DEF FindBlock
<1>2. /\ x # Idle /\ x.todo # <<>> /\ Under(o, bmem, x) /\ Todo(x.todo)
      /\ Head(x.todo).do = "find" /\ DOMAIN x = DOMAIN Idle /\ OnDisk(o)
      /\ Head(x.todo) = x.todo[1] /\ 1 \in DOMAIN x.todo
  BY <1>1, DoingIs
<1>3. \E y : /\ Then(p, y) /\ DOMAIN y = DOMAIN x /\ y.dir = x.dir /\ y.ino = x.ino
             /\ \/ /\ y.idx = x.idx /\ y.tier = x.tier
                   /\ y.todo = <<Step("alloc", 0), Step("zero", 0)>> \o x.todo
                \/ /\ y.idx = x.idx /\ y.tier = x.tier /\ x.tier # <<>>
                   /\ y.todo = <<Step("alloc", 0), Step("zero", 0)>> \o <<Step("tier", 0)>> \o x.todo
                \/ /\ y.idx = x.idx /\ y.todo = x.todo
                   /\ x.tier = <<>> /\ indirect # 0 /\ y.tier = disk.tab[indirect]
                \/ /\ y.idx = x.idx + 1 /\ y.todo = x.todo /\ y.tier = x.tier
                \/ /\ y.idx = x.idx /\ y.tier = x.tier
                   /\ y.todo = <<Step("put", 0)>> \o Tail(x.todo)
  <2> DEFINE direct == x.idx < Direct
             tiered == x.tier # <<>>
             b == IF direct THEN core[x.dir].sect[x.idx] ELSE x.tier[x.idx - Direct + 1]
             free == {s \in 1 .. setup.slots : disk.ents[b][s].type = "unknown"}
             more(steps) == [x EXCEPT !.todo = steps \o @]
             az == <<Step("alloc", 0), Step("zero", 0)>>
  <2>1. /\ "todo" \in DOMAIN x /\ "idx" \in DOMAIN x /\ "tier" \in DOMAIN x /\ "lba" \in DOMAIN x
        /\ "sec" \in DOMAIN x /\ "slot" \in DOMAIN x /\ "dir" \in DOMAIN x /\ "ino" \in DOMAIN x
    BY <1>2 DEF Idle
  <2>2. CASE ~direct /\ ~tiered /\ indirect = 0
    <3>1. PICK y : y = more(az)
      OBVIOUS
    <3>2. Then(p, y)
      BY <2>2, <3>1, Zenon DEF FindBlock
    <3>3. /\ DOMAIN y = DOMAIN x /\ y.dir = x.dir /\ y.ino = x.ino /\ y.idx = x.idx
          /\ y.tier = x.tier /\ y.todo = az \o x.todo
      BY <2>1, <3>1
    <3> QED BY <3>2, <3>3
  <2>3. CASE ~direct /\ ~tiered /\ indirect # 0
    <3>1. PICK y : y = [x EXCEPT !.tier = disk.tab[indirect]]
      BY Zenon
    <3>2. Then(p, y)
      BY <2>3, <3>1, Zenon DEF FindBlock
    <3>3. /\ DOMAIN y = DOMAIN x /\ y.dir = x.dir /\ y.ino = x.ino /\ y.idx = x.idx
          /\ y.tier = disk.tab[indirect] /\ y.todo = x.todo
      BY <2>1, <3>1
    <3> QED BY <2>3, <3>2, <3>3, Zenon
  <2>4. CASE (direct \/ tiered) /\ b = 0 /\ direct
    <3>1. PICK y : y = more(az)
      OBVIOUS
    <3>2. Then(p, more(az \o <<>>))
      BY <2>4, Zenon DEF FindBlock
    <3>3. az \o <<>> = az
      <4>1. PICK c : c = az
        OBVIOUS
      <4>2. c \o <<>> = c
        BY <4>1
      <4> QED BY <4>1, <4>2
    <3>4. Then(p, y)
      BY <3>1, <3>2, <3>3
    <3>5. /\ DOMAIN y = DOMAIN x /\ y.dir = x.dir /\ y.ino = x.ino /\ y.idx = x.idx
          /\ y.tier = x.tier /\ y.todo = az \o x.todo
      BY <2>1, <3>1
    <3> QED BY <3>4, <3>5
  <2>5. CASE (direct \/ tiered) /\ b = 0 /\ ~direct
    <3>1. PICK y : y = more(az \o <<Step("tier", 0)>>)
      BY Zenon
    <3>2. Then(p, y)
      BY <2>5, <3>1, Zenon DEF FindBlock
    <3>3. /\ DOMAIN y = DOMAIN x /\ y.dir = x.dir /\ y.ino = x.ino /\ y.idx = x.idx
          /\ y.tier = x.tier /\ y.todo = az \o <<Step("tier", 0)>> \o x.todo
      BY <2>1, <3>1
    <3> QED BY <2>5, <3>2, <3>3
  <2>6. CASE (direct \/ tiered) /\ b # 0 /\ free = {}
    <3>1. PICK y : y = [x EXCEPT !.idx = @ + 1]
      BY Zenon
    <3>2. Then(p, y)
      BY <2>6, <3>1, Zenon DEF FindBlock
    <3>3. /\ DOMAIN y = DOMAIN x /\ y.dir = x.dir /\ y.ino = x.ino /\ y.idx = x.idx + 1
          /\ y.tier = x.tier /\ y.todo = x.todo
      BY <2>1, <3>1
    <3> QED BY <3>2, <3>3
  <2>7. CASE (direct \/ tiered) /\ b # 0 /\ free # {}
    <3>1. PICK y : y = [x EXCEPT !.lba = b, !.sec = disk.ents[b], !.slot = Least(free),
                                 !.todo = <<Step("put", 0)>> \o Rest(p)]
      BY ZenonT(30)
    <3>2. Then(p, y)
      BY <2>7, <3>1, Zenon DEF FindBlock
    <3> HIDE DEF b, free
    <3>3. /\ DOMAIN y = DOMAIN x /\ y.dir = x.dir /\ y.ino = x.ino /\ y.idx = x.idx
          /\ y.tier = x.tier /\ y.todo = <<Step("put", 0)>> \o Tail(x.todo)
      BY <2>1, <3>1 DEF Rest
    <3> QED BY <3>2, <3>3
  <2> HIDE DEF direct, tiered, b, free
  <2> QED BY <2>2, <2>3, <2>4, <2>5, <2>6, <2>7, Zenon
<1>4. PICK y : /\ Then(p, y) /\ DOMAIN y = DOMAIN x /\ y.dir = x.dir /\ y.ino = x.ino
             /\ \/ /\ y.idx = x.idx /\ y.tier = x.tier
                   /\ y.todo = <<Step("alloc", 0), Step("zero", 0)>> \o x.todo
                \/ /\ y.idx = x.idx /\ y.tier = x.tier /\ x.tier # <<>>
                   /\ y.todo = <<Step("alloc", 0), Step("zero", 0)>> \o <<Step("tier", 0)>> \o x.todo
                \/ /\ y.idx = x.idx /\ y.todo = x.todo
                   /\ x.tier = <<>> /\ indirect # 0 /\ y.tier = disk.tab[indirect]
                \/ /\ y.idx = x.idx + 1 /\ y.todo = x.todo /\ y.tier = x.tier
                \/ /\ y.idx = x.idx /\ y.tier = x.tier
                   /\ y.todo = <<Step("put", 0)>> \o Tail(x.todo)
  BY <1>3, Zenon
<1>5. /\ x.dir \in Ino /\ x.ino \in Ino /\ x.idx \in 0 .. Direct + Indirect - 1
      /\ x.tier \in {<<>>} \cup Table
      /\ x.tier # <<>> => x.tier \in Table /\ TableBelongs(o, bmem, x.dir, x.tier)
      /\ \A j \in DOMAIN x.todo : x.todo[j].do = "tier" => x.tier # <<>>
  BY <1>1, <1>2, DiskConstants DEF Under
<1>6. /\ y.tier \in {<<>>} \cup Table /\ (x.tier # <<>> => y.tier # <<>>)
      /\ y.tier # <<>> => y.tier \in Table /\ TableBelongs(o, bmem, x.dir, y.tier)
  <2>1. CASE y.tier = x.tier
    BY <1>5, <2>1
  <2>2. CASE x.tier = <<>> /\ indirect # 0 /\ y.tier = disk.tab[indirect]
    <3>1. core[x.dir] \in Node /\ NodeBelongs(o, bmem, x.dir, core[x.dir])
      BY <1>2, <1>5 DEF OnDisk
    <3>2. indirect \in Block /\ o[indirect] = <<x.dir, -1>>
      <4>1. Direct \in 0 .. Direct /\ core[x.dir].sect \in [0 .. Direct -> 0 .. Blocks]
        BY <3>1, DiskConstants DEF Node
      <4>2. indirect \in 0 .. Blocks
        BY <4>1
      <4>3. Belongs(o, bmem, indirect, x.dir, -1)
        BY <3>1, <4>1, DiskConstants DEF NodeBelongs
      <4> HIDE DEF indirect
      <4> QED BY <2>2, <4>2, <4>3, DiskConstants DEF Block, Belongs
    <3> HIDE DEF indirect
    <3>3. disk.tab[indirect] \in Table /\ TableBelongs(o, bmem, x.dir, disk.tab[indirect])
      BY <1>2, <3>2 DEF OnDisk
    <3> QED BY <2>2, <3>3
  <2> QED BY <1>4, <2>1, <2>2
<1>7. /\ Todo(y.todo) /\ (y.todo # <<>> => Head(y.todo).do \in Kinds \ {"store", "dots", "zero"})
      /\ \A j \in DOMAIN y.todo : /\ y.todo[j].do = "zero" => y.idx < Direct + Indirect
                                  /\ y.todo[j].do = "tier" => y.tier # <<>>
  <2>1. \A j \in DOMAIN x.todo : x.todo[j].do # "zero"
    BY <1>2 DEF Todo
  <2>2. CASE y.todo = x.todo
    BY <1>2, <1>5, <1>6, <2>1, <2>2 DEF Kinds
  <2>3. CASE y.idx = x.idx /\ y.todo = <<Step("alloc", 0), Step("zero", 0)>> \o x.todo
    <3>1. PICK s : s = <<Step("alloc", 0), Step("zero", 0)>>
      OBVIOUS
    <3>2. Todo(s) /\ DOMAIN s = {1, 2} /\ Len(s) = 2 /\ s[1].do = "alloc" /\ s[2].do = "zero" /\ s # <<>>
      BY <3>1, TodoPieces DEF Step
    <3>3. /\ Todo(s \o x.todo) /\ Head(s \o x.todo) = s[1]
          /\ \A j \in DOMAIN (s \o x.todo) :
                \/ j \in DOMAIN s /\ (s \o x.todo)[j] = s[j]
                \/ \E k \in DOMAIN x.todo : (s \o x.todo)[j] = x.todo[k]
      BY <1>2, <3>2, TodoMore
    <3>4. y.todo = s \o x.todo
      BY <2>3, <3>1
    <3>5. Todo(y.todo) /\ Head(y.todo).do \in Kinds \ {"store", "dots", "zero"}
      BY <3>2, <3>3, <3>4 DEF Kinds
    <3>6. ASSUME NEW j \in DOMAIN y.todo
          PROVE  y.todo[j].do \in {"alloc", "zero"} \/ \E k \in DOMAIN x.todo : y.todo[j] = x.todo[k]
      BY <3>2, <3>3, <3>4, <3>6
    <3>7. y.idx < Direct + Indirect
      BY <1>1, <2>3
    <3> QED BY <1>5, <1>6, <3>5, <3>6, <3>7
  <2>4. CASE /\ y.idx = x.idx /\ x.tier # <<>>
             /\ y.todo = <<Step("alloc", 0), Step("zero", 0)>> \o <<Step("tier", 0)>> \o x.todo
    <3>1. PICK s, z : s = <<Step("alloc", 0), Step("zero", 0)>> /\ z = <<Step("tier", 0)>>
      OBVIOUS
    <3>2. /\ Todo(s) /\ DOMAIN s = {1, 2} /\ Len(s) = 2 /\ s[1].do = "alloc" /\ s[2].do = "zero"
          /\ Todo(z) /\ DOMAIN z = {1} /\ z[1].do = "tier" /\ s # <<>>
      BY <3>1, TodoPieces DEF Step
    <3>3. PICK w : w = s \o z
      OBVIOUS
    <3>4. /\ Todo(w) /\ w # <<>> /\ Head(w) = s[1]
          /\ \A j \in DOMAIN w : \/ j \in DOMAIN s /\ w[j] = s[j]
                                 \/ \E k \in DOMAIN z : w[j] = z[k]
      BY <3>2, <3>3, TodoMore
    <3>5. Head(w) = w[1]
      BY <3>4, TodoTail
    <3>6. /\ Todo(w \o x.todo) /\ Head(w \o x.todo) = w[1]
          /\ \A j \in DOMAIN (w \o x.todo) :
                \/ j \in DOMAIN w /\ (w \o x.todo)[j] = w[j]
                \/ \E k \in DOMAIN x.todo : (w \o x.todo)[j] = x.todo[k]
      BY <1>2, <3>4, TodoMore
    <3>7. y.todo = w \o x.todo
      BY <2>4, <3>1, <3>3
    <3>8. Head(y.todo).do = "alloc"
      BY <3>2, <3>4, <3>5, <3>6, <3>7
    <3>9. y.idx < Direct + Indirect /\ y.tier # <<>>
      BY <1>1, <1>6, <2>4
    <3> QED BY <3>6, <3>7, <3>8, <3>9 DEF Kinds
  <2>5. CASE y.idx = x.idx /\ y.todo = <<Step("put", 0)>> \o Tail(x.todo)
    <3>1. PICK s : s = <<Step("put", 0)>>
      OBVIOUS
    <3>2. Todo(s) /\ DOMAIN s = {1} /\ Len(s) = 1 /\ s[1].do = "put" /\ s # <<>>
      BY <3>1, TodoPieces DEF Step
    <3>3. PICK t : t = Tail(x.todo)
      OBVIOUS
    <3>4. /\ Todo(t) /\ DOMAIN t = 1 .. Len(x.todo) - 1 /\ DOMAIN x.todo = 1 .. Len(x.todo)
          /\ Len(x.todo) \in Nat
          /\ \A j \in 1 .. Len(x.todo) - 1 : t[j] = x.todo[j + 1]
      <4>1. Len(x.todo) \in Nat
        BY <1>2 DEF Todo
      <4> QED BY <1>2, <3>3, <4>1, TodoTail
    <3>5. \A j \in DOMAIN t : \E k \in DOMAIN x.todo : t[j] = x.todo[k]
      BY <3>4
    <3>6. 1 \in DOMAIN t => t[1].do \notin {"store", "alloc", "dots", "zero", "tier"}
      <4>1. SUFFICES ASSUME 1 \in DOMAIN t
                     PROVE  t[1].do \notin {"store", "alloc", "dots", "zero", "tier"}
        OBVIOUS
      <4>2. t[1] = x.todo[2] /\ 2 \in DOMAIN x.todo
        BY <3>4, <4>1
      <4>3. PICK j \in DOMAIN x.todo : j = 2
        BY <4>2
      <4>4. x.todo[1].do = "find" /\ j - 1 = 1 /\ j # 1
        BY <1>2, <4>3
      <4>5. /\ x.todo[j].do = "store" => j = 1 \/ x.todo[j - 1].do = "load"
            /\ x.todo[j].do = "alloc" => j = 1
            /\ x.todo[j].do \in {"dots", "zero"} => j = 1 \/ (j = 2 /\ x.todo[1].do = "alloc")
            /\ x.todo[j].do = "tier" => j = 1 \/ x.todo[j - 1].do = "zero"
        BY <1>2 DEF Todo
      <4> QED BY <4>2, <4>3, <4>4, <4>5
    <3>7. /\ Todo(s \o t) /\ Head(s \o t) = s[1]
          /\ \A j \in DOMAIN (s \o t) :
                \/ j \in DOMAIN s /\ (s \o t)[j] = s[j]
                \/ \E k \in DOMAIN t : (s \o t)[j] = t[k]
      <4>1. 1 \in DOMAIN t => /\ t[1].do \notin {"store", "alloc", "dots", "zero"}
                              /\ t[1].do = "tier" => s[Len(s)].do = "zero"
        BY <3>6
      <4>2. Todo(s) /\ s # <<>> /\ Todo(t)
        BY <3>2, <3>4
      <4> QED BY <4>1, <4>2, TodoMore
    <3>8. y.todo = s \o t
      BY <2>5, <3>1, <3>3
    <3>9. ASSUME NEW j \in DOMAIN y.todo
          PROVE  y.todo[j].do = "put" \/ \E k \in DOMAIN x.todo : y.todo[j] = x.todo[k]
      BY <3>2, <3>5, <3>7, <3>8, <3>9, ZenonT(30)
    <3> QED BY <1>5, <1>6, <2>1, <2>5, <3>2, <3>7, <3>8, <3>9 DEF Kinds
  <2> QED BY <1>4, <2>2, <2>3, <2>4, <2>5, Zenon
<1>8. Under(o, bmem, y) /\ Writes(o, bmem, fault, y)
  <2>1. y.idx \in 0 .. Direct + Indirect
    BY <1>4, <1>5, DiskConstants
  <2> QED BY <1>2, <1>4, <1>5, <1>6, <1>7, <2>1 DEF Under, Writes
<1>9. OnDisk(o)'
  BY <1>1, <1>2 DEF OnDisk
<1> QED BY <1>1, <1>2, <1>4, <1>8, <1>9, CallGoesOn

\* There is no room for the entry: the call gives its inode number back.
LEMMA NoRoomTakes ==
  ASSUME NEW o, TakenBy(o), NEW p \in Proc, NoRoom(p)
  PROVE  TakenBy(o)'
<1>1. /\ Doing(p, "find") /\ imem' = imem \ {r[p].ino} /\ core' = dir_close(p)
      /\ r' = [r EXCEPT ![p] = Idle] /\ UNCHANGED <<disk, bmem, fault, failed>>
  BY DEF NoRoom, bitmap_set
<1>2. r[p] # Idle /\ OnDisk(o) /\ Numbers /\ r = [q \in Proc |-> r[q]]
  BY <1>1, DoingIs DEF TakenBy
<1>3. r'[p] = Idle /\ r' = [q \in Proc |-> r'[q]] /\ \A q \in Proc \ {p} : r'[q] = r[q]
  BY <1>1, <1>2
<1>4. Numbers'
  <2>1. \A q \in Proc : r'[q] # Idle => q # p /\ r[q] # Idle /\ r'[q] = r[q]
    BY <1>3
  <2> QED BY <1>1, <1>2, <2>1 DEF Numbers
<1>5. OnDisk(o)'
  <2>1. core' \in [Ino -> Node] /\ \A i \in Ino : NodeBelongs(o, bmem, i, core'[i])
    BY <1>1, CloseSound
  <2>2. imem' \in SUBSET Nat
    BY <1>1, <1>2 DEF OnDisk
  <2> QED BY <1>1, <1>2, <2>1, <2>2 DEF OnDisk
<1>6. Under(o, bmem, Idle) /\ Writes(o, bmem, fault, Idle)
  BY IdleSound
<1>7. \A q \in Proc : Under(o, bmem', r'[q]) /\ Writes(o, bmem', fault', r'[q])
  BY <1>1, <1>3, <1>6 DEF TakenBy
<1> QED BY <1>3, <1>4, <1>5, <1>7 DEF TakenBy

\* What is sound for a call stays so when blocks are taken.
LEMMA CallStays ==
  ASSUME NEW o, NEW m, NEW n, NEW k, NEW f \in BOOLEAN, NEW g \in BOOLEAN, f => g,
         \A i, nd : nd \in Node /\ NodeBelongs(o, m, i, nd) => NodeBelongs(n, k, i, nd),
         \A i, t : t \in Table /\ TableBelongs(o, m, i, t) => TableBelongs(n, k, i, t),
         \A b \in Block : b - 1 \in m => b - 1 \in k /\ n[b] = o[b],
         NEW x, Under(o, m, x), Writes(o, m, f, x)
  PROVE  Under(n, k, x) /\ Writes(n, k, g, x)
<1>1. Under(n, k, x)
  BY DEF Under
<1>2. Writes(n, k, g, x)
  <2>1. SUFFICES ASSUME x.todo # <<>>
                 PROVE  /\ Head(x.todo).do = "store" =>
                             /\ x.snap \in Node /\ NodeBelongs(n, k, Head(x.todo).on, x.snap)
                             /\ x.table \in [Ino -> Node]
                             /\ \A i \in Ino : NodeBelongs(n, k, i, x.table[i])
                        /\ Head(x.todo).do \in {"dots", "zero"} /\ ~g =>
                             x.lba \in Block /\ x.lba - 1 \in k /\ n[x.lba] = Dest(x)
    BY DEF Writes
  <2>2. /\ Head(x.todo).do = "store" =>
             /\ x.snap \in Node /\ NodeBelongs(o, m, Head(x.todo).on, x.snap)
             /\ x.table \in [Ino -> Node] /\ \A i \in Ino : NodeBelongs(o, m, i, x.table[i])
        /\ Head(x.todo).do \in {"dots", "zero"} /\ ~f =>
             x.lba \in Block /\ x.lba - 1 \in m /\ o[x.lba] = Dest(x)
    BY <2>1 DEF Writes
  <2>3. Head(x.todo).do = "store" => \A i \in Ino : x.table[i] \in Node
    BY <2>2
  <2> QED BY <2>2, <2>3
<1> QED BY <1>1, <1>2

\* A block is taken, for the place the call will enter it at.
LEMMA AllocTakes ==
  ASSUME NEW o \in [Block -> Place], TakenBy(o), setup \in Setups, NEW p \in Proc, Alloc(p)
  PROVE  \E n \in [Block -> Place] : TakenBy(n)'
<1> DEFINE x == r[p]
           i == bitmap_scan(bmem, setup.blocks, 1)
           y == [x EXCEPT !.lba = i + 1, !.todo = Rest(p)]
<1>1. /\ Doing(p, "alloc") /\ Then(p, y) /\ fault' = (i = -1)
      /\ bmem' = (IF i = -1 THEN bmem ELSE bmem \cup {i})
      /\ disk' = [disk EXCEPT !.bbits = bmem'] /\ UNCHANGED <<imem, core, failed>>
  BY DEF Alloc, bitmap_set
<1>2. /\ x # Idle /\ x.todo # <<>> /\ Under(o, bmem, x) /\ Todo(x.todo) /\ ~fault
      /\ Head(x.todo).do = "alloc" /\ DOMAIN x = DOMAIN Idle /\ OnDisk(o)
      /\ Head(x.todo) = x.todo[1] /\ 1 \in DOMAIN x.todo
  BY <1>1, DoingIs
<1>3. /\ DOMAIN y = DOMAIN Idle /\ y.todo = Tail(x.todo) /\ y.dir = x.dir /\ y.ino = x.ino
      /\ y.idx = x.idx /\ y.tier = x.tier /\ y.lba = i + 1
  <2> HIDE DEF i
  <2> QED BY <1>2 DEF Idle, Rest
<1>4. i # -1 => i \in 0 .. Blocks - 1 /\ i \notin bmem
  <2>1. setup.blocks \in 1 .. Blocks
    BY DiskConstants
  <2>2. setup.blocks \in Nat
    BY <2>1, DiskConstants
  <2>3. i # -1 => i \in 0 .. setup.blocks - 1 /\ i \notin bmem
    BY <2>2, ScanOne
  <2> HIDE DEF i
  <2> QED BY <2>1, <2>3, DiskConstants
<1> HIDE DEF y, i
<1>5. Under(o, bmem, y)
  BY <1>2, <1>3, Under_Next DEF Under
<1>6. y.todo # <<>> /\ Head(y.todo).do \in {"dots", "zero"}
  <2>1. Len(x.todo) > 1 /\ x.todo[2].do \in {"dots", "zero"} /\ Len(x.todo) \in Nat
    BY <1>2 DEF Todo
  <2>2. DOMAIN Tail(x.todo) = 1 .. Len(x.todo) - 1
    BY <1>2, TodoTail
  <2>3. Tail(x.todo) # <<>>
    <3>1. 1 \in DOMAIN Tail(x.todo) /\ DOMAIN <<>> = {}
      BY <2>1, <2>2
    <3> QED BY <3>1
  <2> QED BY <1>2, <1>3, <2>1, <2>3, TodoTail
<1>7. Dest(y) \in Place
  <2>1. y.dir \in Ino /\ y.ino \in Ino /\ y.idx \in 0 .. Direct + Indirect
    BY <1>5 DEF Under
  <2>2. Head(y.todo).do = "zero" => y.idx < Direct + Indirect
    <3>1. Todo(y.todo)
      BY <1>5 DEF Under
    <3>2. Head(y.todo) = y.todo[1] /\ 1 \in DOMAIN y.todo
      BY <1>6, <3>1, TodoTail
    <3> QED BY <1>5, <3>2 DEF Under
  <2>3. CASE Head(y.todo).do = "dots"
    BY <2>1, <2>3, DiskConstants DEF Dest, Place
  <2>4. CASE Head(y.todo).do = "zero"
    <3>1. y.idx \in -1 .. Direct + Indirect - 1 /\ -1 \in -1 .. Direct + Indirect - 1
      BY <2>1, <2>2, <2>4, DiskConstants
    <3>2. Dest(y) = <<y.dir, -1>> \/ Dest(y) = <<y.dir, y.idx>>
      BY <2>4 DEF Dest
    <3> QED BY <2>1, <3>1, <3>2 DEF Place
  <2> QED BY <1>6, <2>3, <2>4
<1>8. PICK n \in [Block -> Place] :
        /\ \A j, nd : nd \in Node /\ NodeBelongs(o, bmem, j, nd) => NodeBelongs(n, bmem', j, nd)
        /\ \A j, t : t \in Table /\ TableBelongs(o, bmem, j, t) => TableBelongs(n, bmem', j, t)
        /\ \A b \in Block : b - 1 \in bmem => b - 1 \in bmem' /\ n[b] = o[b]
        /\ \A b \in Block : n[b] = o[b] \/ b - 1 \notin bmem
        /\ ~fault' => y.lba \in Block /\ y.lba - 1 \in bmem' /\ n[y.lba] = Dest(y)
        /\ bmem' \in SUBSET Nat
  <2>1. CASE i = -1
    <3>1. bmem' = bmem /\ fault' = TRUE /\ bmem \in SUBSET Nat
      BY <1>1, <1>2, <2>1 DEF OnDisk
    <3> QED BY <3>1
  <2>2. CASE i # -1
    <3>1. PICK c : c = i + 1
      OBVIOUS
    <3>2. c \in Block /\ c - 1 \notin bmem /\ bmem' = bmem \cup {c - 1} /\ y.lba = c
      <4>1. c \in Block /\ c - 1 = i
        BY <1>4, <2>2, <3>1, DiskConstants DEF Block
      <4>2. bmem' = bmem \cup {i} /\ y.lba = c /\ i \notin bmem
        BY <1>1, <1>3, <1>4, <2>2, <3>1
      <4> QED BY <4>1, <4>2
    <3>3. PICK n : n = [o EXCEPT ![c] = Dest(y)]
      OBVIOUS
    <3>4. n \in [Block -> Place] /\ n[c] = Dest(y) /\ \A b \in Block : b # c => n[b] = o[b]
      BY <1>7, <3>2, <3>3
    <3>5. ASSUME NEW j, NEW nd \in Node, NodeBelongs(o, bmem, j, nd)
          PROVE  NodeBelongs(n, bmem', j, nd)
      BY <1>7, <3>2, <3>3, <3>5, NodeStays
    <3>6. ASSUME NEW j, NEW t \in Table, TableBelongs(o, bmem, j, t)
          PROVE  TableBelongs(n, bmem', j, t)
      BY <1>7, <3>2, <3>3, <3>6, TableStays
    <3>7. bmem' \in SUBSET Nat
      <4>1. c - 1 \in Nat /\ bmem \in SUBSET Nat
        BY <1>2, <3>2, DiskConstants DEF OnDisk, Block
      <4> QED BY <3>2, <4>1
    <3>8. \A b \in Block : /\ b - 1 \in bmem => b - 1 \in bmem' /\ n[b] = o[b]
                           /\ n[b] = o[b] \/ b - 1 \notin bmem
      BY <3>2, <3>4
    <3> QED BY <3>2, <3>4, <3>5, <3>6, <3>7, <3>8
  <2> QED BY <2>1, <2>2
<1>9. fault' \in BOOLEAN /\ fault \in BOOLEAN
  BY <1>1, <1>2 DEF OnDisk
<1>10. /\ r = [q \in Proc |-> r[q]] /\ Numbers
       /\ \A q \in Proc : Under(o, bmem, r[q]) /\ Writes(o, bmem, fault, r[q])
  BY DEF TakenBy
<1>11. /\ r' = [q \in Proc |-> r'[q]] /\ r'[p] = y /\ \A q \in Proc \ {p} : r'[q] = r[q]
  BY <1>1, <1>6, <1>10 DEF Then
<1>12. Numbers'
  <2>1. y.ino = x.ino /\ imem' = imem /\ x # Idle
    BY <1>1, <1>2, <1>3
  <2>2. \A q \in Proc : r'[q].ino = r[q].ino /\ (r'[q] # Idle => r[q] # Idle)
    BY <1>11, <2>1
  <2> QED BY <1>10, <2>1, <2>2 DEF Numbers
<1>13. ASSUME NEW q \in Proc, q # p
       PROVE  Under(n, bmem', r[q]) /\ Writes(n, bmem', fault', r[q])
  BY <1>2, <1>8, <1>9, <1>10, <1>13, CallStays
<1>14. Under(n, bmem', y) /\ Writes(n, bmem', fault', y)
  <2>1. Under(n, bmem', y)
    BY <1>5, <1>8 DEF Under
  <2> QED BY <1>6, <1>8, <2>1 DEF Writes
<1>15. OnDisk(n)'
  <2>1. /\ DOMAIN disk' = DOMAIN disk /\ disk'.inode = disk.inode /\ disk'.ibits = disk.ibits
        /\ disk'.bbits = bmem' /\ disk'.tab = disk.tab
    BY <1>1, <1>2 DEF OnDisk
  <2>2. \A j \in Ino : NodeBelongs(n, bmem', j, disk.inode[j]) /\ NodeBelongs(n, bmem', j, core[j])
    <3>1. \A j \in Ino : /\ disk.inode[j] \in Node /\ NodeBelongs(o, bmem, j, disk.inode[j])
                         /\ core[j] \in Node /\ NodeBelongs(o, bmem, j, core[j])
      BY <1>2 DEF OnDisk
    <3> QED BY <1>8, <3>1
  <2>3. ASSUME NEW b \in Block
        PROVE  /\ n[b][2] = -1 => TableBelongs(n, bmem', n[b][1], disk.tab[b])
               /\ b - 1 \notin bmem' => disk.tab[b] = ZeroTable
    <3>1. /\ o[b][2] = -1 => TableBelongs(o, bmem, o[b][1], disk.tab[b])
          /\ b - 1 \notin bmem => disk.tab[b] = ZeroTable /\ disk.tab[b] \in Table
          /\ disk.tab[b] \in Table
      BY <1>2 DEF OnDisk
    <3>2. CASE b - 1 \in bmem
      BY <1>8, <3>1, <3>2
    <3>3. CASE b - 1 \notin bmem
      BY <3>1, <3>3, NothingBelongs
    <3> QED BY <3>2, <3>3
  <2> QED BY <1>1, <1>2, <1>8, <1>9, <2>1, <2>2, <2>3 DEF OnDisk
<1>16. \A q \in Proc : Under(n, bmem', r'[q]) /\ Writes(n, bmem', fault', r'[q])
  BY <1>11, <1>13, <1>14
<1> QED BY <1>8, <1>11, <1>12, <1>15, <1>16 DEF TakenBy

\* The steps of sys_mkdir, and of file_create
Entering(s) == Todo(s) /\ s # <<>> /\ \A j \in DOMAIN s : s[j].do \notin {"zero", "tier"}

LEMMA EnteringMore ==
  ASSUME NEW s, Entering(s), NEW t, Entering(t), t[1].do \in {"load", "find", "ibits"}
  PROVE  Entering(s \o t) /\ Head(s \o t) = Head(s)
<1>1. Todo(s) /\ Todo(t) /\ s # <<>> /\ Head(s) = s[1]
  BY TodoTail DEF Entering
<1>2. 1 \in DOMAIN t => /\ t[1].do \notin {"store", "alloc", "dots", "zero"}
                        /\ t[1].do = "tier" => s[Len(s)].do = "zero"
  OBVIOUS
<1>3. /\ Todo(s \o t) /\ s \o t # <<>> /\ Head(s \o t) = s[1]
      /\ \A j \in DOMAIN (s \o t) : \/ j \in DOMAIN s /\ (s \o t)[j] = s[j]
                                    \/ \E k \in DOMAIN t : (s \o t)[j] = t[k]
  BY <1>1, <1>2, TodoMore
<1>4. PICK u : u = s \o t
  OBVIOUS
<1>5. ASSUME NEW j \in DOMAIN u PROVE u[j].do \notin {"zero", "tier"}
  BY <1>3, <1>4, <1>5 DEF Entering
<1> QED BY <1>1, <1>3, <1>4, <1>5 DEF Entering

LEMMA EnteringSteps ==
  ASSUME NEW d \in Ino, NEW i \in Ino
  PROVE  /\ Entering(mkdir_steps(d, i)) /\ Head(mkdir_steps(d, i)).do = "alloc"
         /\ Entering(file_create_steps(d, i)) /\ Head(file_create_steps(d, i)).do = "find"
<1>1. PICK a, f, b : /\ a = <<Step("alloc", 0), Step("dots", 0)>> /\ f = <<Step("find", 0)>>
                     /\ b = <<Step("ibits", 0)>>
  OBVIOUS
<1>2. PICK u, v : u = inode_sync(d) /\ v = inode_sync(i)
  OBVIOUS
<1>3. /\ Entering(a) /\ Head(a).do = "alloc" /\ Entering(f) /\ f[1].do = "find"
      /\ Head(f).do = "find" /\ Entering(b) /\ b[1].do = "ibits"
  <2>1. Todo(a) /\ Todo(f) /\ Todo(b) /\ DOMAIN a = {1, 2} /\ DOMAIN f = {1} /\ DOMAIN b = {1}
    BY <1>1, TodoPieces
  <2>2. a[1].do = "alloc" /\ a[2].do = "dots" /\ f[1].do = "find" /\ b[1].do = "ibits"
    BY <1>1 DEF Step
  <2>3. a # <<>> /\ f # <<>> /\ b # <<>> /\ Head(a) = a[1] /\ Head(f) = f[1]
    BY <1>1
  <2> QED BY <2>1, <2>2, <2>3 DEF Entering
<1>4. Entering(u) /\ u[1].do = "load" /\ Entering(v) /\ v[1].do = "load"
  <2>1. /\ Todo(u) /\ u[1].do = "load" /\ DOMAIN u = {1, 2} /\ u[2].do = "store" /\ u # <<>>
        /\ Todo(v) /\ v[1].do = "load" /\ DOMAIN v = {1, 2} /\ v[2].do = "store" /\ v # <<>>
    BY <1>2, TodoPieces
  <2> QED BY <2>1 DEF Entering
<1>5. Entering(a \o v \o f \o u) /\ Head(a \o v \o f \o u) = Head(a)
  <2>1. Entering(a \o v) /\ Head(a \o v) = Head(a)
    BY <1>3, <1>4, EnteringMore
  <2>2. Entering(a \o v \o f) /\ Head(a \o v \o f) = Head(a)
    BY <1>3, <2>1, EnteringMore
  <2> QED BY <1>4, <2>2, EnteringMore
<1>6. Entering(f \o u \o v \o b) /\ Head(f \o u \o v \o b) = Head(f)
  <2>1. Entering(f \o u) /\ Head(f \o u) = Head(f)
    BY <1>3, <1>4, EnteringMore
  <2>2. Entering(f \o u \o v) /\ Head(f \o u \o v) = Head(f)
    BY <1>4, <2>1, EnteringMore
  <2> QED BY <1>3, <2>2, EnteringMore
<1>7. mkdir_steps(d, i) = a \o v \o f \o u /\ file_create_steps(d, i) = f \o u \o v \o b
  BY <1>1, <1>2 DEF mkdir_steps, file_create_steps
<1> QED BY <1>3, <1>5, <1>6, <1>7

\* A call begins, with an inode number that is free.
LEMMA NewNameTakes ==
  ASSUME NEW o, TakenBy(o), setup \in Setups, NEW p \in Proc, NEW op \in {"create", "mkdir"},
         NEW d \in Ino, NEW n, NewName(p, op, d, n)
  PROVE  TakenBy(o)'
<1> DEFINE i == inode_bitmap_alloc
           e == [name |-> n, ino |-> i, type |-> IF op = "mkdir" THEN "dir" ELSE "file"]
           t == IF op = "mkdir" THEN mkdir_steps(d, i) ELSE file_create_steps(d, i)
           y == [Idle EXCEPT !.op = op, !.dir = d, !.ino = i, !.ent = e, !.todo = t]
<1>1. /\ i # -1 /\ imem' = imem \cup {i} /\ core' = [inode_open(d) EXCEPT ![i] = inode_init]
      /\ disk' = (IF op = "mkdir" THEN [disk EXCEPT !.ibits = imem'] ELSE disk)
      /\ r' = [r EXCEPT ![p] = y] /\ UNCHANGED <<bmem, fault, failed>> /\ r[p] = Idle
  BY DEF NewName, bitmap_set
<1>2. i \in Ino /\ i \notin imem
  <2>1. setup.inodes \in 1 .. Inodes /\ Inodes \in Nat
    BY DiskConstants
  <2>2. setup.inodes \in Nat
    BY <2>1
  <2>3. i \in 0 .. setup.inodes - 1 /\ i \notin imem
    BY <1>1, <2>2, ScanOne DEF inode_bitmap_alloc
  <2> HIDE DEF i
  <2> QED BY <2>1, <2>3 DEF Ino
<1> HIDE DEF i
<1>3. Entering(t) /\ Head(t).do \in {"alloc", "find"}
  BY <1>2, EnteringSteps
<1>4. /\ DOMAIN y = DOMAIN Idle /\ y.dir = d /\ y.ino = i /\ y.idx = 0 /\ y.tier = <<>>
      /\ y.todo = t
  <2> HIDE DEF t, e
  <2> QED BY DEF Idle
<1> HIDE DEF t, e, y
<1>5. Under(o, bmem, y) /\ Writes(o, bmem, fault, y)
  <2>1. 0 \in 0 .. Direct + Indirect
    BY DiskConstants
  <2> QED BY <1>2, <1>3, <1>4, <2>1 DEF Under, Writes, Entering
<1>6. OnDisk(o) /\ Numbers /\ r = [q \in Proc |-> r[q]]
      /\ \A q \in Proc : Under(o, bmem, r[q]) /\ Writes(o, bmem, fault, r[q])
  BY DEF TakenBy
<1>7. r' = [q \in Proc |-> r'[q]] /\ r'[p] = y /\ \A q \in Proc \ {p} : r'[q] = r[q]
  BY <1>1, <1>6
<1>8. Numbers'
  <2>1. \A q \in Proc : r'[q] # Idle => \/ q = p /\ r'[q].ino = i
                                        \/ q # p /\ r[q] # Idle /\ r'[q].ino = r[q].ino
    BY <1>4, <1>7
  <2> QED BY <1>1, <1>2, <1>6, <2>1 DEF Numbers
<1>9. OnDisk(o)'
  <2>1. core' \in [Ino -> Node] /\ \A j \in Ino : NodeBelongs(o, bmem, j, core'[j])
    BY <1>1, OpenSound, NothingBelongs
  <2>2. imem' \in SUBSET Nat
    BY <1>1, <1>2, <1>6 DEF OnDisk, Ino
  <2>3. /\ DOMAIN disk' = DOMAIN disk /\ disk'.inode = disk.inode /\ disk'.ibits \in {disk.ibits, imem'}
        /\ disk'.bbits = disk.bbits /\ disk'.tab = disk.tab
    BY <1>1, <1>6 DEF OnDisk
  <2> QED BY <1>1, <1>6, <2>1, <2>2, <2>3 DEF OnDisk
<1>10. \A q \in Proc : Under(o, bmem', r'[q]) /\ Writes(o, bmem', fault', r'[q])
  BY <1>1, <1>5, <1>6, <1>7
<1> QED BY <1>7, <1>8, <1>9, <1>10 DEF TakenBy

\* The machine is switched off and on again.
LEMMA MountTakes ==
  ASSUME NEW o, TakenBy(o), Mount
  PROVE  TakenBy(o)'
<1>1. /\ imem' = disk.ibits /\ bmem' = disk.bbits /\ UNCHANGED <<disk, fault>>
      /\ core' = [i \in Ino |-> IF i = 0 THEN disk.inode[0] ELSE inode_init]
      /\ r' = [p \in Proc |-> Idle]
  BY DEF Mount
<1>2. OnDisk(o)
  BY DEF TakenBy
<1>3. bmem' = bmem
  BY <1>1, <1>2 DEF OnDisk
<1>4. core' \in [Ino -> Node] /\ \A i \in Ino : NodeBelongs(o, bmem, i, core'[i])
  <2>1. 0 \in Ino
    BY DiskConstants DEF Ino
  <2> QED BY <1>1, <1>2, <2>1, NothingBelongs DEF OnDisk
<1>5. OnDisk(o)'
  BY <1>1, <1>2, <1>3, <1>4 DEF OnDisk
<1>6. /\ r' = [p \in Proc |-> r'[p]] /\ Numbers'
      /\ \A p \in Proc : Under(o, bmem', r'[p]) /\ Writes(o, bmem', fault', r'[p])
  BY <1>1, IdleSound DEF Numbers
<1> QED BY <1>5, <1>6 DEF TakenBy

-----------------------------------------------------------------------------
(* All of it *)

\* A step of the calls is a step of one process, one that may make calls,
LEMMA OneCalls ==
  ASSUME Call
  PROVE  \E p \in setup.users : \E y : r' = [r EXCEPT ![p] = y]
<1>1. PICK p \in setup.users :
        \/ \E d \in Ino, n \in setup.names :
              \/ NewName(p, "create", d, n) \/ NewName(p, "mkdir", d, n)
              \/ Remove(p, "unlink", d, n) \/ Remove(p, "rmdir", d, n)
        \/ \E d, i \in Ino : FirstBlock(p, d, i)
        \/ NoRoom(p)
        \/ SyncLoad(p) \/ SyncStore(p) \/ SyncInodeBits(p)
        \/ Alloc(p) \/ WriteDots(p) \/ WriteData(p)
        \/ FindBlock(p) \/ ZeroBlock(p) \/ PutEntry(p) \/ WriteTable(p)
        \/ DeleteEntry(p) \/ DropBlock(p) \/ DropTable(p)
        \/ Release(p) \/ ReleaseBlock(p) \/ ReleaseInode(p)
  BY DEF Call
<1>2. ASSUME NEW d, NEW n, NEW op, NewName(p, op, d, n) \/ Remove(p, op, d, n)
      PROVE  \E y : r' = [r EXCEPT ![p] = y]
  BY <1>2 DEF NewName, Remove
<1>3. ASSUME NEW d, NEW i, FirstBlock(p, d, i) PROVE \E y : r' = [r EXCEPT ![p] = y]
  BY <1>3 DEF FirstBlock
<1>4. ASSUME NoRoom(p) PROVE \E y : r' = [r EXCEPT ![p] = y]
  BY <1>4 DEF NoRoom
<1>5. ASSUME NEW x, Then(p, x) PROVE \E y : r' = [r EXCEPT ![p] = y]
  BY <1>5 DEF Then
<1>6. ASSUME \/ SyncLoad(p) \/ SyncStore(p) \/ SyncInodeBits(p)
             \/ Alloc(p) \/ WriteDots(p) \/ WriteData(p)
      PROVE  \E x : Then(p, x)
  BY <1>6 DEF SyncLoad, SyncStore, SyncInodeBits, Alloc, WriteDots, WriteData
<1>7. ASSUME FindBlock(p) \/ ZeroBlock(p) \/ PutEntry(p) \/ WriteTable(p)
      PROVE  \E x : Then(p, x)
  BY <1>7, ZenonT(30) DEF FindBlock, ZeroBlock, PutEntry, WriteTable
<1>8. ASSUME DeleteEntry(p) PROVE \E x : Then(p, x)
  BY <1>8, ZenonT(30) DEF DeleteEntry
<1>9. ASSUME \/ DropBlock(p) \/ DropTable(p) \/ Release(p) \/ ReleaseBlock(p)
             \/ ReleaseInode(p)
      PROVE  \E x : Then(p, x)
  BY <1>9 DEF DropBlock, DropTable, Release, ReleaseBlock, ReleaseInode
<1> QED BY <1>1, <1>2, <1>3, <1>4, <1>5, <1>6, <1>7, <1>8, <1>9

\* and with the calls that take, what they took stays theirs.
LEMMA CallTakes ==
  ASSUME NEW o \in [Block -> Place], TakenBy(o), setup \in Setups,
         setup.ops \subseteq {"create", "mkdir"}, Call
  PROVE  \E n \in [Block -> Place] : TakenBy(n)'
<1>1. setup.users \subseteq Proc
  BY DiskConstants
<1>2. PICK p \in Proc :
        \/ \E d \in Ino, n \in setup.names :
              \/ NewName(p, "create", d, n) \/ NewName(p, "mkdir", d, n)
              \/ Remove(p, "unlink", d, n) \/ Remove(p, "rmdir", d, n)
        \/ \E d, i \in Ino : FirstBlock(p, d, i)
        \/ SyncLoad(p) \/ SyncStore(p) \/ SyncInodeBits(p)
        \/ Alloc(p) \/ WriteDots(p) \/ FindBlock(p) \/ NoRoom(p)
        \/ ZeroBlock(p) \/ PutEntry(p) \/ WriteTable(p)
        \/ WriteData(p) \/ DeleteEntry(p) \/ DropBlock(p) \/ DropTable(p)
        \/ Release(p) \/ ReleaseBlock(p) \/ ReleaseInode(p)
  BY <1>1 DEF Call
<1>3. ASSUME NEW d \in Ino, NEW n, NewName(p, "create", d, n) \/ NewName(p, "mkdir", d, n)
      PROVE  TakenBy(o)'
  BY <1>3, NewNameTakes
<1>4. ASSUME NEW d \in Ino, NEW n, Remove(p, "unlink", d, n) \/ Remove(p, "rmdir", d, n)
      PROVE  FALSE
  BY <1>4, ZenonT(30) DEF Remove
<1>5. ASSUME NEW d \in Ino, NEW i \in Ino, FirstBlock(p, d, i) PROVE FALSE
  BY <1>5 DEF FirstBlock
<1>6. ASSUME \/ WriteData(p) \/ DeleteEntry(p) \/ DropBlock(p) \/ DropTable(p)
             \/ Release(p) \/ ReleaseBlock(p) \/ ReleaseInode(p)
      PROVE  FALSE
  <2>1. \E what \in {"data", "delete", "drop", "droptier", "release", "free", "ifree"} :
           Doing(p, what)
    BY <1>6, Zenon DEF WriteData, DeleteEntry, DropBlock, DropTable, Release, ReleaseBlock,
                ReleaseInode
  <2>2. PICK what : /\ what \in {"data", "delete", "drop", "droptier", "release", "free", "ifree"}
                    /\ Doing(p, what)
    BY <2>1
  <2>3. what \in Kinds
    BY <2>2, DoingIs
  <2> QED BY <2>2, <2>3 DEF Kinds
<1>7. ASSUME SyncLoad(p) \/ SyncStore(p) \/ SyncInodeBits(p) PROVE TakenBy(o)'
  BY <1>7, SyncLoadTakes, SyncStoreTakes, SyncInodeBitsTakes
<1>8. ASSUME WriteDots(p) \/ FindBlock(p) \/ NoRoom(p) PROVE TakenBy(o)'
  BY <1>8, WriteDotsTakes, FindBlockTakes, NoRoomTakes
<1>9. ASSUME ZeroBlock(p) \/ PutEntry(p) \/ WriteTable(p) PROVE TakenBy(o)'
  BY <1>9, ZeroBlockTakes, PutEntryTakes, WriteTableTakes
<1>10. ASSUME Alloc(p) PROVE \E n \in [Block -> Place] : TakenBy(n)'
  BY <1>10, AllocTakes
<1> QED BY <1>2, <1>3, <1>4, <1>5, <1>6, <1>7, <1>8, <1>9, <1>10

\* The new partition names one block, the first, of the root.
LEMMA InitTakes == Init => TakeInv
<1> SUFFICES ASSUME Init PROVE TakeInv
  OBVIOUS
<1>1. /\ setup \in Setups /\ imem = disk.ibits /\ bmem = disk.bbits /\ fault = FALSE
      /\ r = [p \in Proc |-> Idle] /\ core = [i \in Ino |-> IF i = 0 THEN Root ELSE inode_init]
      /\ disk = [ibits |-> {0}, bbits |-> {0},
                 inode |-> [i \in Ino |-> IF i = 0 THEN Root ELSE inode_init],
                 ents |-> [b \in Block |-> IF b = 1 THEN Dots(0, 0) ELSE ZeroSector],
                 tab |-> [b \in Block |-> ZeroTable]]
  BY DEF Init
<1>2. PICK o : o = [b \in Block |-> <<0, 0>>]
  OBVIOUS
<1>3. o \in [Block -> Place] /\ 1 \in Block /\ o[1] = <<0, 0>>
  BY <1>2, DiskConstants DEF Place, Block, Ino
<1>4. Root \in Node /\ NodeBelongs(o, {0}, 0, Root)
  <2>1. PICK z : z = [k \in 0 .. Direct |-> 0]
    OBVIOUS
  <2>2. PICK v : v = [inode_init EXCEPT !.size = 2]
    OBVIOUS
  <2>3. v = [size |-> 2, sect |-> z]
    BY <2>1, <2>2 DEF inode_init
  <2>4. Root = [v EXCEPT !.sect[0] = 1]
    BY <2>2 DEF Root
  <2>5. Root = [size |-> 2, sect |-> [z EXCEPT ![0] = 1]]
    BY <2>3, <2>4
  <2>6. PICK w : w = [z EXCEPT ![0] = 1]
    OBVIOUS
  <2>7. w \in [0 .. Direct -> 0 .. Blocks] /\ \A k \in 0 .. Direct : w[k] = IF k = 0 THEN 1 ELSE 0
    BY <2>1, <2>6, DiskConstants
  <2>8. Root.sect = w /\ Root \in Node
    BY <2>5, <2>6, <2>7 DEF Node
  <2>9. \A k \in 0 .. Direct : Belongs(o, {0}, Root.sect[k], 0, IF k < Direct THEN k ELSE -1)
    BY <1>3, <2>7, <2>8, DiskConstants DEF Belongs
  <2> QED BY <2>8, <2>9 DEF NodeBelongs
<1>5. OnDisk(o)
  <2>1. /\ DOMAIN disk = {"ibits", "bbits", "inode", "ents", "tab"}
        /\ disk.inode = [i \in Ino |-> IF i = 0 THEN Root ELSE inode_init]
        /\ disk.tab = [b \in Block |-> ZeroTable] /\ imem = {0} /\ bmem = {0}
        /\ disk.ibits = {0} /\ disk.bbits = {0}
    BY <1>1
  <2>2. /\ disk.inode \in [Ino -> Node] /\ core \in [Ino -> Node]
        /\ \A i \in Ino : NodeBelongs(o, bmem, i, disk.inode[i]) /\ NodeBelongs(o, bmem, i, core[i])
    BY <1>1, <1>4, <2>1, NothingBelongs
  <2>3. /\ disk.tab \in [Block -> Table]
        /\ \A b \in Block : disk.tab[b] = ZeroTable /\ TableBelongs(o, bmem, o[b][1], disk.tab[b])
    BY <2>1, NothingBelongs
  <2>4. /\ disk.ibits \in SUBSET Nat /\ imem \in SUBSET Nat /\ bmem \in SUBSET Nat
        /\ disk.bbits = bmem /\ fault \in BOOLEAN
    <3>1. {0} \in SUBSET Nat
      OBVIOUS
    <3>2. disk.ibits = {0} /\ imem = {0} /\ bmem = {0} /\ disk.bbits = {0}
      BY <2>1
    <3>3. fault \in BOOLEAN
      BY <1>1, Zenon
    <3> QED BY <3>1, <3>2, <3>3
  <2> QED BY <2>1, <2>2, <2>3, <2>4 DEF OnDisk
<1>6. TakenBy(o)
  <2>1. \A p \in Proc : r[p] = Idle
    BY <1>1
  <2>2. \A p \in Proc : Under(o, bmem, r[p]) /\ Writes(o, bmem, fault, r[p])
    BY <2>1, IdleSound
  <2> QED BY <1>1, <1>3, <1>5, <2>1, <2>2 DEF TakenBy, Numbers
<1> QED BY <1>1, <1>3, <1>6 DEF TakeInv

LEMMA NextTakes == TakeInv /\ [Next]_vars => TakeInv'
<1> SUFFICES ASSUME TakeInv, [Next]_vars PROVE TakeInv'
  OBVIOUS
<1>1. /\ setup \in Setups /\ r = [p \in Proc |-> r[p]] /\ \A p \in Proc \ setup.users : r[p] = Idle
      /\ setup.users \subseteq Proc
  BY DiskConstants DEF TakeInv
<1>2. CASE Call /\ UNCHANGED setup
  <2>1. PICK p \in setup.users : \E y : r' = [r EXCEPT ![p] = y]
    BY <1>2, OneCalls
  <2>2. r' = [q \in Proc |-> r'[q]] /\ \A q \in Proc \ setup.users : r'[q] = Idle
    BY <1>1, <2>1
  <2>3. ASSUME setup.ops \subseteq {"create", "mkdir"} PROVE \E o \in [Block -> Place] : TakenBy(o)'
    BY <1>1, <1>2, <2>3, CallTakes DEF TakeInv
  <2> QED BY <1>1, <1>2, <2>2, <2>3 DEF TakeInv
<1>3. CASE Mount /\ UNCHANGED setup
  <2>1. r' = [q \in Proc |-> Idle]
    BY <1>3 DEF Mount
  <2>2. ASSUME setup.ops \subseteq {"create", "mkdir"} PROVE \E o \in [Block -> Place] : TakenBy(o)'
    BY <1>3, <2>2, MountTakes DEF TakeInv
  <2> QED BY <1>1, <1>3, <2>1, <2>2 DEF TakeInv
<1>4. CASE UNCHANGED vars
  <2>1. ASSUME NEW o, TakenBy(o) PROVE TakenBy(o)'
    BY <1>4, <2>1 DEF vars, TakenBy, OnDisk, Numbers
  <2> QED BY <1>4, <2>1 DEF TakeInv, vars
<1> QED BY <1>2, <1>3, <1>4 DEF Next, Stopped

\* What an inode in memory names, it owns.
LEMMA HeldBelongs ==
  ASSUME NEW o, TakenBy(o), NEW is \in SUBSET Ino, NEW x \in Held(is, core)
  PROVE  /\ x = <<x[1], x[2], x[3]>> /\ o[x[3]] = <<x[1], x[2]>>
<1>1. /\ core \in [Ino -> Node] /\ disk.tab \in [Block -> Table]
      /\ \A i \in Ino : NodeBelongs(o, bmem, i, core[i])
      /\ \A b \in Block : o[b][2] = -1 => TableBelongs(o, bmem, o[b][1], disk.tab[b])
  BY DEF TakenBy, OnDisk
<1>2. PICK i \in is : \/ x = <<i, -1, core[i].sect[Direct]>>
                      \/ \E k \in Index : x = <<i, k, all_blocks(core[i])[k]>>
  BY DEF Held
<1>3. x[3] # 0 /\ i \in Ino
  BY DEF Held
<1>4. /\ NodeBelongs(o, bmem, i, core[i]) /\ core[i] \in Node
      /\ \A k \in 0 .. Direct : core[i].sect[k] \in 0 .. Blocks
  BY <1>1, <1>3 DEF Node
<1>5. core[i].sect[Direct] # 0 => /\ core[i].sect[Direct] \in Block
                                  /\ o[core[i].sect[Direct]] = <<i, -1>>
  BY <1>4, DiskConstants DEF NodeBelongs, Belongs, Block
<1>6. CASE x = <<i, -1, core[i].sect[Direct]>>
  BY <1>3, <1>5, <1>6
<1>7. ASSUME NEW k \in Index, x = <<i, k, all_blocks(core[i])[k]>>
      PROVE  o[x[3]] = <<i, k>>
  <2>1. x[3] = IF k < Direct THEN core[i].sect[k]
               ELSE IF core[i].sect[Direct] = 0 THEN 0
               ELSE disk.tab[core[i].sect[Direct]][k - Direct + 1]
    BY <1>7 DEF all_blocks
  <2>2. k \in 0 .. Direct + Indirect - 1
    BY <1>7 DEF Index
  <2>3. CASE k < Direct
    <3>1. k \in 0 .. Direct /\ x[3] = core[i].sect[k]
      BY <2>1, <2>2, <2>3, DiskConstants
    <3>2. Belongs(o, bmem, core[i].sect[k], i, k)
      BY <1>4, <2>3, <3>1 DEF NodeBelongs
    <3> QED BY <1>3, <3>1, <3>2 DEF Belongs
  <2>4. CASE ~(k < Direct)
    <3>1. PICK b : b = core[i].sect[Direct]
      OBVIOUS
    <3>2. b # 0 /\ x[3] = disk.tab[b][k - Direct + 1]
      BY <1>3, <2>1, <2>4, <3>1
    <3>3. b \in Block /\ o[b] = <<i, -1>>
      BY <1>5, <3>1, <3>2
    <3>4. TableBelongs(o, bmem, i, disk.tab[b])
      BY <1>1, <3>3
    <3>5. PICK j : j = k - Direct + 1
      OBVIOUS
    <3>6. j \in 1 .. Indirect /\ Direct + j - 1 = k
      BY <2>2, <2>4, <3>5, DiskConstants
    <3>7. Belongs(o, bmem, disk.tab[b][j], i, k)
      <4>1. Belongs(o, bmem, disk.tab[b][j], i, Direct + j - 1)
        BY <3>4, <3>6 DEF TableBelongs
      <4> QED BY <3>6, <4>1
    <3> QED BY <1>3, <3>2, <3>5, <3>7 DEF Belongs
  <2> QED BY <2>3, <2>4
<1> QED BY <1>2, <1>6, <1>7

\* Where more than one process makes calls, they are those that take.
Takers == \A s \in Setups : (\A p, q \in s.users : p = q) \/ s.ops \subseteq {"create", "mkdir"}

\* Processes that create files and directories at the same time never get the
\* same block or the same inode number, whatever disk accesses of theirs
\* interleave and however often the power fails in the middle of their calls.
THEOREM TakenOnceHolds == ASSUME Takers PROVE Spec => []TakenOnce
<1>1. TakeInv => TakenOnce
  <2> SUFFICES ASSUME TakeInv, NEW p \in Proc, NEW q \in Proc, p # q, r[p] # Idle, r[q] # Idle
               PROVE  /\ r[p].ino # r[q].ino
                      /\ \A x \in Held({r[p].dir, r[p].ino}, core),
                            y \in Held({r[q].dir, r[q].ino}, core) : x[3] = y[3] => x = y
    BY DEF TakenOnce
  <2>1. p \in setup.users /\ q \in setup.users /\ setup \in Setups
    BY DEF TakeInv
  <2>2. setup.ops \subseteq {"create", "mkdir"}
    BY <2>1 DEF Takers
  <2>3. PICK o \in [Block -> Place] : TakenBy(o)
    BY <2>2 DEF TakeInv
  <2>4. /\ Numbers /\ r[p].dir \in Ino /\ r[p].ino \in Ino /\ r[q].dir \in Ino /\ r[q].ino \in Ino
    BY <2>3 DEF TakenBy, Under
  <2>5. ASSUME NEW x \in Held({r[p].dir, r[p].ino}, core),
               NEW y \in Held({r[q].dir, r[q].ino}, core), x[3] = y[3]
        PROVE  x = y
    <3>1. {r[p].dir, r[p].ino} \in SUBSET Ino /\ {r[q].dir, r[q].ino} \in SUBSET Ino
      BY <2>4
    <3>2. /\ x = <<x[1], x[2], x[3]>> /\ o[x[3]] = <<x[1], x[2]>>
          /\ y = <<y[1], y[2], y[3]>> /\ o[y[3]] = <<y[1], y[2]>>
      BY <2>3, <2>5, <3>1, HeldBelongs
    <3> QED BY <2>5, <3>2
  <2> QED BY <2>4, <2>5 DEF Numbers
<1> QED BY <1>1, InitTakes, NextTakes, PTL DEF Spec

-----------------------------------------------------------------------------
(***************************************************************************)
(* One process that makes calls: which change of the view each step makes. *)
(***************************************************************************)

LEMMA Remounts ==
  ASSUME NEW v, NEW dk, NEW im, NEW bm, NEW co, Sound(v, Idle, dk, im, bm, co),
         NEW co2 \in [Ino -> Node], co2[0] = dk.inode[0]
  PROVE  Sound(v, Idle, dk, dk.ibits, dk.bbits, co2)
<1>1. Rested(v, dk, im, bm, co) /\ Sees(v, Idle, dk, bm, co) /\ Phase(v, Idle, dk, im)
  BY AtRest DEF Sound
<1>2. co2[0] = co[0] /\ Synced(v, dk, {}) /\ dk.ibits = im
  BY <1>1, Ranges DEF Rested, Synced
<1>3. Sees(v, Idle, dk, bm, co2)
  BY <1>1, <1>2, SeesEnd
<1>4. dk.bbits = bm
  BY <1>1 DEF Sees
<1> QED BY <1>1, <1>2, <1>3, <1>4 DEF Sound

-----------------------------------------------------------------------------
\* What the code reads from the disk is the view.
Reading(v) == /\ Agrees(v, bmem, disk.ents) /\ disk \in Disk /\ v.tab = disk.tab

LEMMA BlocksRead ==
  ASSUME NEW v, Reading(v), NEW i \in v.live, NEW nd, nd = v.node[i]
  PROVE  /\ i \in Ino /\ \A k \in Index : all_blocks(nd)[k] = v.at[i][k]
         /\ nd.sect[Direct] = v.at[i][-1]
<1>1. i \in Ino /\ Names(v.at[i], nd, disk.tab)
  BY DEF Reading, Agrees, Types, Laid
<1>2. ASSUME NEW k \in Index PROVE all_blocks(nd)[k] = v.at[i][k]
  <2>1. all_blocks(nd)[k] = IF k < Direct THEN nd.sect[k]
                            ELSE IF nd.sect[Direct] = 0 THEN 0
                            ELSE disk.tab[nd.sect[Direct]][k - Direct + 1]
    BY DEF all_blocks
  <2>2. CASE k < Direct
    <3>1. k \in 0 .. Direct - 1
      BY <2>2, DiskConstants DEF Index
    <3> QED BY <1>1, <2>1, <2>2, <3>1 DEF Names
  <2>3. CASE ~(k < Direct)
    <3>1. k \in Direct .. Last - 1
      BY <2>3, DiskConstants DEF Index, Last
    <3> QED BY <1>1, <2>1, <2>3, <3>1 DEF Names
  <2> QED BY <2>2, <2>3
<1>3. nd.sect[Direct] = v.at[i][-1]
  BY <1>1 DEF Names
<1> QED BY <1>1, <1>2, <1>3

LEMMA PlacesRead ==
  ASSUME NEW v, Reading(v), NEW i \in v.dirs, NEW nd, nd = v.node[i]
  PROVE  /\ i \in Ino /\ Places(nd) = Filled(v.ent[i])
         /\ \A y \in Filled(v.ent[i]) : At(nd, y) = v.ent[i][y[1]][y[2]]
         /\ \A k \in Index : all_blocks(nd)[k] = v.at[i][k]
<1>1. i \in Ino /\ \A k \in Index : all_blocks(nd)[k] = v.at[i][k]
  <2>1. i \in v.live
    BY DEF Reading, Agrees, Types
  <2> QED BY <2>1, BlocksRead
<1>2. \A k \in Index : v.ent[i][k] = IF v.at[i][k] = 0 THEN ZeroSector ELSE disk.ents[v.at[i][k]]
  BY DEF Reading, Agrees, Shown
<1>3. ASSUME NEW k \in Index, NEW s \in Slot
      PROVE  /\ (all_blocks(nd)[k] # 0 /\ disk.ents[all_blocks(nd)[k]][s] # Free) <=> v.ent[i][k][s] # Free
             /\ v.ent[i][k][s] # Free => disk.ents[all_blocks(nd)[k]][s] = v.ent[i][k][s]
  <2>1. all_blocks(nd)[k] = v.at[i][k]
    BY <1>1
  <2>2. ZeroSector[s] = Free
    BY Zeros
  <2>3. v.ent[i][k] = IF v.at[i][k] = 0 THEN ZeroSector ELSE disk.ents[v.at[i][k]]
    BY <1>2
  <2> QED BY <2>1, <2>2, <2>3
<1>4. Places(nd) = Filled(v.ent[i])
  <2>1. ASSUME NEW y PROVE y \in Places(nd) <=> y \in Filled(v.ent[i])
    BY <1>3 DEF Places, Filled
  <2> QED BY <2>1
<1>5. \A y \in Filled(v.ent[i]) : At(nd, y) = v.ent[i][y[1]][y[2]]
  BY <1>3 DEF Filled, At
<1> QED BY <1>1, <1>4, <1>5

LEMMA EntriesRead ==
  ASSUME NEW v, Reading(v), NEW i \in v.dirs, NEW nd, nd = v.node[i]
  PROVE  Entries(nd) = {v.ent[i][y[1]][y[2]] : y \in Filled(v.ent[i])}
BY PlacesRead DEF Entries

\* Between calls the directories are those that paths lead to.
LEMMA DirsRead ==
  ASSUME NEW v, Reading(v), v.pend = 0, Synced(v, disk, {})
  PROVE  Dirs = v.dirs
<1> DEFINE below == UNION {{i} \X Subdirs(i) : i \in Ino}
           named == {0} \cup {x[2] : x \in below}
           closed == {S \in SUBSET named : 0 \in S /\ \A x \in below : x[1] \in S => x[2] \in S}
<1>1. /\ Types(v) /\ Shown(v.at, v.ent, v.dirs, disk.ents) /\ Dotted(v.ent, v.dirs)
      /\ NamesLive(v.ent, v.dirs, v.live, 0) /\ Reached(v.ent, v.dirs, 0)
      /\ \A n \in v.live \ {0} : HasName(v.ent, n)
  BY DEF Reading, Agrees, Tree
<1>2. /\ v.live \in SUBSET Ino /\ v.dirs \in SUBSET Ino /\ v.dirs \subseteq v.live /\ 0 \in v.dirs
      /\ v.ent \in [Ino -> [Index -> Sector]]
  BY <1>1 DEF Types
<1>3. \A i \in Ino : disk.inode[i] = v.node[i]
  BY DEF Synced
<1>4. ASSUME NEW i \in Ino, NEW j
      PROVE  j \in Subdirs(i) <=> \E y \in Places(disk.inode[i]) :
                 LET e == At(disk.inode[i], y) IN e.type = "dir" /\ e.name \in Name /\ e.ino = j
  BY DEF Subdirs, Entries
<1>5. ASSUME NEW i \in v.dirs, NEW j
      PROVE  j \in Subdirs(i) <=> \E k \in Index, s \in Slot :
                 IsName(v.ent, i, k, s) /\ v.ent[i][k][s].type = "dir" /\ v.ent[i][k][s].ino = j
  <2>1. /\ Places(disk.inode[i]) = Filled(v.ent[i]) /\ i \in Ino
        /\ \A y \in Filled(v.ent[i]) : At(disk.inode[i], y) = v.ent[i][y[1]][y[2]]
    BY <1>2, <1>3, PlacesRead
  <2>2. j \in Subdirs(i) <=> \E k \in Index, s \in Slot : LET e == v.ent[i][k][s] IN
             e # Free /\ e.type = "dir" /\ e.name \in Name /\ e.ino = j
    <3>1. j \in Subdirs(i) <=> \E y \in Filled(v.ent[i]) : LET e == v.ent[i][y[1]][y[2]] IN
               e.type = "dir" /\ e.name \in Name /\ e.ino = j
      BY <1>4, <2>1
    <3>2. PICK g : g = v.ent[i]
      OBVIOUS
    <3>3. ASSUME NEW y \in Filled(g) PROVE y[1] \in Index /\ y[2] \in Slot /\ g[y[1]][y[2]] # Free
      BY <3>3 DEF Filled
    <3>4. ASSUME NEW k \in Index, NEW s \in Slot, g[k][s] # Free
          PROVE  \E y \in Filled(g) : y[1] = k /\ y[2] = s
      <4>1. <<k, s>> \in Filled(g) /\ <<k, s>>[1] = k /\ <<k, s>>[2] = s
        BY <3>4 DEF Filled
      <4> QED BY <4>1
    <3> QED BY <3>1, <3>2, <3>3, <3>4
  <2>3. ASSUME NEW k \in Index, NEW s \in Slot
        PROVE  v.ent[i][k][s] # Free /\ v.ent[i][k][s].name \in Name <=> IsName(v.ent, i, k, s)
    <3>1. CASE <<k, s>> \in DotPlaces
      <4>1. v.ent[i][0][1].name = "." /\ v.ent[i][0][2].name = ".."
        <5>1. /\ v.ent[i][0][1] = [name |-> ".", ino |-> i, type |-> "dir"]
              /\ v.ent[i][0][2].name = ".."
          BY <1>1 DEF Dotted
        <5> QED BY <5>1
      <4>2. v.ent[i][k][s].name \in {".", ".."}
        BY <3>1, <4>1 DEF DotPlaces
      <4>3. v.ent[i][k][s].name \notin Name
        BY <4>2, FsDiskAssumption
      <4> QED BY <3>1, <4>3 DEF IsName
    <3>2. CASE <<k, s>> \notin DotPlaces
      BY <1>1, <2>1, <3>2, Zenon DEF IsName, NamesLive
    <3> QED BY <3>1, <3>2
  <2> QED BY <2>2, <2>3
<1>6. ASSUME NEW i \in Ino, NEW j \in Subdirs(i) PROVE j \in Ino
  <2>1. PICK y \in Index \X Slot : /\ all_blocks(disk.inode[i])[y[1]] # 0
                                   /\ At(disk.inode[i], y).ino = j
    BY <1>4 DEF Places
  <2>2. PICK b : b = all_blocks(disk.inode[i])[y[1]]
    OBVIOUS
  <2>3. b \in 0 .. Blocks
    <3>1. /\ disk.inode[i] \in Node /\ disk.tab \in [Block -> Table]
      BY DEF Reading, Disk
    <3>2. \A k \in 0 .. Direct : disk.inode[i].sect[k] \in 0 .. Blocks
      BY <3>1 DEF Node
    <3>3. PICK k \in Index : k = y[1] /\ b = IF k < Direct THEN disk.inode[i].sect[k]
                ELSE IF disk.inode[i].sect[Direct] = 0 THEN 0
                ELSE disk.tab[disk.inode[i].sect[Direct]][k - Direct + 1]
      BY <2>2 DEF all_blocks
    <3>4. CASE k < Direct
      <4>1. k \in 0 .. Direct
        BY <3>4, DiskConstants DEF Index
      <4> QED BY <3>2, <3>3, <3>4, <4>1
    <3>5. CASE ~(k < Direct)
      <4>1. k - Direct + 1 \in 1 .. Indirect /\ Direct \in 0 .. Direct /\ 0 \in 0 .. Blocks
        BY <3>5, DiskConstants DEF Index
      <4>2. disk.inode[i].sect[Direct] \in 0 .. Blocks
        BY <3>2, <4>1
      <4>3. disk.inode[i].sect[Direct] # 0 => disk.tab[disk.inode[i].sect[Direct]] \in Table
        BY <3>1, <4>2, Ranges
      <4>4. disk.inode[i].sect[Direct] # 0 =>
              disk.tab[disk.inode[i].sect[Direct]][k - Direct + 1] \in 0 .. Blocks
        BY <4>1, <4>3 DEF Table
      <4> QED BY <3>3, <3>5, <4>1, <4>4
    <3> QED BY <3>4, <3>5
  <2>4. disk.ents[b][y[2]] \in Entry
    <3>1. disk.ents \in [Block -> Sector] /\ b \in Block /\ y[2] \in Slot
      BY <2>1, <2>2, <2>3, Ranges DEF Reading, Disk
    <3> QED BY <3>1 DEF Sector
  <2> QED BY <2>1, <2>2, <2>4 DEF At, Entry
<1>7. named \subseteq Ino
  BY <1>6, Ranges
<1>8. v.dirs \subseteq named
  <2>1. ASSUME NEW d \in v.dirs, d # 0 PROVE \E x \in below : x[2] = d
    <3>1. PICK i \in Ino, k \in Index, s \in Slot : IsName(v.ent, i, k, s) /\ v.ent[i][k][s].ino = d
      BY <1>1, <1>2, <2>1 DEF HasName
    <3>2. v.ent[i][k][s].type = "dir"
      BY <1>1, <3>1 DEF NamesLive
    <3>3. i \in v.dirs
      <4>1. SUFFICES ASSUME i \notin v.dirs PROVE FALSE
        OBVIOUS
      <4>2. v.ent[i] = Empty
        BY <1>1, <4>1 DEF Shown
      <4>3. v.ent[i][k][s] = Free
        BY <4>2, Zeros
      <4> QED BY <3>1, <4>3 DEF IsName
    <3>4. d \in Subdirs(i)
      BY <1>5, <3>1, <3>2, <3>3
    <3>5. <<i, d>> \in below
      BY <3>4
    <3> QED BY <3>5
  <2> QED BY <2>1
<1>9. v.dirs \in closed
  <2>1. ASSUME NEW x \in below, x[1] \in v.dirs PROVE x[2] \in v.dirs
    <3>1. x[2] \in Subdirs(x[1])
      OBVIOUS
    <3>2. PICK k \in Index, s \in Slot :
            IsName(v.ent, x[1], k, s) /\ v.ent[x[1]][k][s].type = "dir" /\ v.ent[x[1]][k][s].ino = x[2]
      BY <1>5, <2>1, <3>1
    <3> QED BY <1>1, <1>2, <2>1, <3>2, Zenon DEF NamesLive
  <2> HIDE DEF below, named
  <2> QED BY <1>2, <1>8, <2>1
<1>10. ASSUME NEW S \in closed PROVE v.dirs \subseteq S
  <2>1. S \in SUBSET Ino /\ 0 \in S
    BY <1>7
  <2>2. ASSUME NEW i \in S, NEW k \in Index, NEW s \in Slot,
               IsName(v.ent, i, k, s), v.ent[i][k][s].type = "dir"
        PROVE  v.ent[i][k][s].ino \in S
    <3>1. i \in v.dirs
      <4>1. SUFFICES ASSUME i \notin v.dirs PROVE FALSE
        OBVIOUS
      <4>2. v.ent[i] = Empty
        BY <1>1, <2>1, <4>1 DEF Shown
      <4>3. v.ent[i][k][s] = Free
        BY <4>2, Zeros
      <4> QED BY <2>2, <4>3 DEF IsName
    <3>2. v.ent[i][k][s].ino \in Subdirs(i)
      BY <1>5, <2>2, <3>1
    <3>3. <<i, v.ent[i][k][s].ino>> \in below
      BY <2>1, <3>2
    <3>4. \A x \in below : x[1] \in S => x[2] \in S
      OBVIOUS
    <3> HIDE DEF below, closed
    <3> QED BY <3>3, <3>4
  <2>3. Closed(v.ent, S)
    BY <2>1, <2>2 DEF Closed
  <2>4. v.dirs \ {0} \subseteq S
    BY <1>1, <2>1, <2>3 DEF Reached
  <2> QED BY <2>1, <2>4
<1>11. Dirs = {d \in named : \A S \in closed : d \in S}
  BY DEF Dirs
<1> HIDE DEF below, named, closed
<1> QED BY <1>8, <1>9, <1>10, <1>11

-----------------------------------------------------------------------------
\* The steps of the code: process p works on view v, and after the step on some view.
Works(v, p) ==
    /\ p \in Proc /\ setup \in Setups /\ r = [q \in Proc |-> r[q]]
    /\ Sound(v, r[p], disk, imem, bmem, core)
Worked(p) == \E w : Sound(w, r'[p], disk', imem', bmem', core')

LEMMA Working ==
  ASSUME NEW v, NEW p, Works(v, p)
  PROVE  /\ p \in Proc /\ DOMAIN r[p] = DOMAIN Idle /\ r[p].dir \in Ino /\ r[p].ino \in Ino
         /\ disk \in Disk /\ core \in [Ino -> Node] /\ disk.bbits = bmem /\ bmem \in SUBSET Nat
         /\ DOMAIN disk = {"ibits", "bbits", "inode", "ents", "tab"}
         /\ Sound(v, r[p], disk, imem, bmem, core)
BY DEF Works, Sound, Sees, Disk

\* What Then does with a call that is sound: it takes it.
LEMMA ThenSound ==
  ASSUME NEW v, NEW p, Works(v, p), NEW y, Then(p, y)
  PROVE  /\ r'[p] = IF y.todo = <<>> THEN Idle ELSE y
         /\ \A w : Sound(w, y, disk', imem', bmem', core') => Worked(p)
<1>1. r'[p] = IF y.todo = <<>> THEN Idle ELSE y
  BY DEF Then, Works
<1>2. ASSUME NEW w, Sound(w, y, disk', imem', bmem', core') PROVE Worked(p)
  <2>1. y.dir \in Ino /\ y.ino \in Ino /\ Phase(w, y, disk', imem')
    BY <1>2 DEF Sound, Sees
  <2>2. PICK dk, im : dk = disk' /\ im = imem'
    OBVIOUS
  <2>3. Phase(w, y, dk, im)
    BY <2>1, <2>2
  <2>4. y.todo = <<>> => Resting(w, y, dk, im)
    BY <2>1, <2>3, Heads
  <2>5. y.todo = <<>> => y = Idle
    BY <2>4 DEF Resting
  <2> QED BY <1>1, <1>2, <2>5 DEF Worked
<1> QED BY <1>1, <1>2

LEMMA Closing ==
  ASSUME NEW v, NEW p, Works(v, p)
  PROVE  dir_close(p) \in [Ino -> Node] /\ dir_close(p)[0] = core[0]
<1>1. core \in [Ino -> Node] /\ 0 \in Ino /\ inode_init \in Node
  BY Working, Ranges, NothingBelongs
<1> QED BY <1>1 DEF dir_close

LEMMA SyncLoadWorks == ASSUME NEW v, NEW p, Works(v, p), SyncLoad(p) PROVE Worked(p)
<1>0. PICK x : x = r[p]
  OBVIOUS
<1>1. PICK y : y = [x EXCEPT !.table = disk.inode, !.snap = core[Head(x.todo).on], !.todo = Tail(x.todo)]
  OBVIOUS
<1>2. /\ Then(p, y) /\ x.todo # <<>> /\ Head(x.todo).do = "load"
      /\ disk' = disk /\ imem' = imem /\ bmem' = bmem /\ core' = core
  BY <1>0, <1>1 DEF SyncLoad, Doing, Rest
<1>3. DOMAIN x = DOMAIN Idle /\ Sound(v, x, disk, imem, bmem, core)
  BY <1>0, Working
<1>4. Same(x, y) /\ y.table = disk.inode /\ y.snap = core[Head(x.todo).on] /\ y.todo = Tail(x.todo)
  BY <1>1, <1>3 DEF Same, Idle
<1>5. Sound(v, y, disk, imem, bmem, core)
  BY <1>2, <1>3, <1>4, Loads
<1> QED BY <1>2, <1>5, ThenSound

\* What inode_sync writes
LEMMA Storing ==
  ASSUME NEW v, NEW x, NEW dk, NEW im, NEW bm, NEW co, Sound(v, x, dk, im, bm, co),
         x.todo # <<>>, Head(x.todo).do = "store"
  PROVE  \E j \in {x.dir, x.ino} :
            Head(x.todo).on = j /\ x.snap = v.node[j] /\ x.table = dk.inode
<1>1. /\ Sees(v, x, dk, bm, co) /\ Phase(v, x, dk, im) /\ x.dir \in Ino /\ x.ino \in Ino
  BY DEF Sound, Sees
<1>2. /\ x.dir \in Nat /\ x.ino \in Nat /\ Seek(x) \in Seq(Steps)
  BY <1>1, EndList
<1>i. PICK ibits \in Seq(Steps) : ibits = Cons(Step("ibits", 0), <<>>) /\ Head(ibits) = Step("ibits", 0)
  BY StepKinds, Conses
<1>r. PICK release \in Seq(Steps) :
        release = Cons(Step("release", 0), <<>>) /\ Head(release) = Step("release", 0)
  BY StepKinds, Conses, ZenonT(30)
<1>3. /\ ibits = Cons(Step("ibits", 0), <<>>) /\ Head(ibits) = Step("ibits", 0)
      /\ release = Cons(Step("release", 0), <<>>) /\ Head(release) = Step("release", 0)
  BY <1>i, <1>r
<1>4. Load(x.ino, ibits) \in Seq(Steps) /\ <<>> \in Seq(Steps)
  BY <1>2, <1>3, LoadList
<1>5. x.todo # ibits /\ x.todo # release
  BY <1>3, StepKinds
<1>6. ASSUME NEW j \in {x.dir, x.ino}, NEW t \in Seq(Steps), NEW S, Syncs(v, x, dk, j, t, S)
      PROVE  Head(x.todo).on = j /\ x.snap = v.node[j] /\ x.table = dk.inode
  <2>0. j \in Nat
    BY <1>2
  <2>1. Head(Load(j, t)) = Step("load", j) /\ Head(Store(j, t)) = Step("store", j)
    BY <2>0, LoadList
  <2>2. Step("store", j).on = j /\ Step("load", j).do # "store"
    BY <2>0, StepKinds
  <2> QED BY <1>6, <2>1, <2>2 DEF Syncs
<1>7. \/ MadeDir(v, x, dk, im) \/ Entered(v, x, dk, im)
      \/ Appends(v, x, dk, im) \/ Removed(v, x, dk, im)
  BY <1>1, Heads
<1>8. CASE MadeDir(v, x, dk, im)
  BY <1>2, <1>6, <1>8 DEF MadeDir
<1>9. CASE Entered(v, x, dk, im)
  BY <1>3, <1>4, <1>5, <1>6, <1>9 DEF Entered
<1>10. CASE Appends(v, x, dk, im)
  <2>1. PICK t \in Seq(Steps) : t = Load(x.ino, <<>>)
    BY <1>2, <1>4, LoadList
  <2>2. PICK u \in Seq(Steps) : u = Cons(Step("data", 0), t) /\ Head(u) = Step("data", 0)
    BY StepKinds, Conses
  <2>3. Head(Cons(Step("alloc", 0), u)) = Step("alloc", 0)
    BY StepKinds, Conses
  <2>4. x.todo # u /\ x.todo # Cons(Step("alloc", 0), u)
    BY <2>2, <2>3, StepKinds
  <2>5. Syncs(v, x, dk, x.ino, <<>>, {})
    BY <1>10, <2>1, <2>2, <2>4 DEF Appends
  <2> QED BY <1>4, <1>6, <2>5
<1>11. CASE Removed(v, x, dk, im)
  BY <1>3, <1>5, <1>6, <1>11 DEF Removed
<1> QED BY <1>7, <1>8, <1>9, <1>10, <1>11

\* The inodes of the bitmap
LEMMA InodesInUse ==
  ASSUME NEW v, NEW x, NEW dk, NEW im, NEW bm, NEW co, Sound(v, x, dk, im, bm, co)
  PROVE  im \in SUBSET Ino /\ im \in SUBSET Nat
<1>1. v.live \in SUBSET Ino /\ x.ino \in Ino /\ Phase(v, x, dk, im)
  BY DEF Sound, Sees, Agrees, Types
<1>2. im = v.live \/ v.live = im \ {x.ino}
  <2>1. New(v, x, dk, im) \/ Old(v, x, dk, im) => im = v.live
    BY DEF New, Old
  <2>2. Resting(v, x, dk, im) \/ Appends(v, x, dk, im) => im = v.live
    BY DEF Resting, Appends
  <2>3. Releases(v, x, dk, im) => v.live = im \ {x.ino}
    BY DEF Releases
  <2>4. \/ Resting(v, x, dk, im) \/ Appends(v, x, dk, im) \/ Releases(v, x, dk, im)
        \/ New(v, x, dk, im) \/ Old(v, x, dk, im)
    <3>1. ASSUME \/ MakingDir(v, x, dk, im) \/ MadeDir(v, x, dk, im) \/ Finds(v, x, dk, im)
                 \/ Adds(v, x, dk, im) \/ Tables(v, x, dk, im) \/ Puts(v, x, dk, im)
                 \/ Entered(v, x, dk, im)
          PROVE  New(v, x, dk, im)
      BY <3>1 DEF MakingDir, MadeDir, Finds, Adds, Tables, Puts, Searching, Entered
    <3>2. ASSUME \/ Deletes(v, x, dk, im) \/ Clears(v, x, dk, im) \/ DropsIndirect(v, x, dk, im)
                 \/ Removed(v, x, dk, im)
          PROVE  Old(v, x, dk, im)
      BY <3>2 DEF Deletes, Clears, DropsIndirect, Removed
    <3> QED BY <1>1, <3>1, <3>2 DEF Phase
  <2> QED BY <2>1, <2>2, <2>3, <2>4
<1>3. Ino \subseteq Nat
  BY DiskConstants DEF Ino
<1>4. im \subseteq Ino
  BY <1>1, <1>2
<1> QED BY <1>3, <1>4

LEMMA SyncStoreWorks == ASSUME NEW v, NEW p, Works(v, p), SyncStore(p) PROVE Worked(p)
<1>0. PICK x : x = r[p]
  OBVIOUS
<1>1. PICK y : y = [x EXCEPT !.table = <<>>, !.snap = inode_init, !.todo = Tail(x.todo)]
  OBVIOUS
<1>i. PICK t2 : t2 = [x.table EXCEPT ![Head(x.todo).on] = x.snap]
  OBVIOUS
<1>2. /\ Then(p, y) /\ x.todo # <<>> /\ Head(x.todo).do = "store"
      /\ disk' = [disk EXCEPT !.inode = t2]
      /\ imem' = imem /\ bmem' = bmem /\ core' = IF Tail(x.todo) = <<>> THEN dir_close(p) ELSE core
  BY <1>0, <1>1, <1>i DEF SyncStore, Doing, Rest
<1>3. /\ DOMAIN x = DOMAIN Idle /\ Sound(v, x, disk, imem, bmem, core) /\ disk \in Disk
      /\ x.dir \in Ino /\ x.ino \in Ino
  BY <1>0, Working
<1>4. Same(x, y) /\ y.todo = Tail(x.todo)
  BY <1>1, <1>3 DEF Same, Idle
<1>5. t2 \in [Ino -> Node]
  <2>1. PICK j : /\ j \in {x.dir, x.ino} /\ x.todo # <<>> /\ Head(x.todo).on = j
                 /\ x.snap = v.node[j] /\ x.table = disk.inode
    BY <1>2, <1>3, Storing
  <2>2. v.node \in [Ino -> Node] /\ disk.inode \in [Ino -> Node]
    BY <1>3 DEF Sound, Sees, Agrees, Types, Disk
  <2> QED BY <1>3, <1>i, <2>1, <2>2
<1>6. PICK dk2 : dk2 = [disk EXCEPT !.inode = t2]
  OBVIOUS
<1> HIDE <1>i
<1>7. /\ dk2 \in Disk /\ dk2.inode = t2 /\ dk2.ibits = disk.ibits /\ dk2.bbits = disk.bbits
      /\ dk2.ents = disk.ents /\ dk2.tab = disk.tab
  BY <1>3, <1>5, <1>6 DEF Disk
<1> USE <1>i
<1>8. PICK co2 \in [Ino -> Node] : co2 = dir_close(p) /\ co2[0] = core[0]
  BY Closing
<1>9. Written(x, disk, dk2)
  BY <1>7 DEF Written
<1> HIDE <1>i
<1>a. Stored(v, y, dk2, imem, bmem, core, co2)
  BY <1>2, <1>3, <1>4, <1>7, <1>8, <1>9, Stores
<1>10. IF y.todo = <<>> THEN Sound(v, Idle, dk2, imem, bmem, co2) ELSE Sound(v, y, dk2, imem, bmem, core)
  BY <1>a DEF Stored
<1>11. r'[p] = IF y.todo = <<>> THEN Idle ELSE y
  BY <1>2, ThenSound
<1>12. disk' = dk2 /\ core' = IF y.todo = <<>> THEN co2 ELSE core
  BY <1>2, <1>4, <1>6, <1>8
<1> QED BY <1>2, <1>10, <1>11, <1>12 DEF Worked

LEMMA SyncInodeBitsWorks == ASSUME NEW v, NEW p, Works(v, p), SyncInodeBits(p) PROVE Worked(p)
<1>0. PICK x : x = r[p]
  OBVIOUS
<1>1. PICK y : y = [x EXCEPT !.todo = Tail(x.todo)]
  OBVIOUS
<1>2. /\ Then(p, y) /\ x.todo # <<>> /\ Head(x.todo).do = "ibits"
      /\ disk' = [disk EXCEPT !.ibits = imem]
      /\ imem' = imem /\ bmem' = bmem /\ core' = dir_close(p)
  BY <1>0, <1>1 DEF SyncInodeBits, Doing, Rest
<1>3. /\ DOMAIN x = DOMAIN Idle /\ Sound(v, x, disk, imem, bmem, core) /\ disk \in Disk
      /\ x.dir \in Ino /\ x.ino \in Ino
  BY <1>0, Working
<1>4. y.todo = Tail(x.todo)
  BY <1>1, <1>3 DEF Idle
<1>5. imem \in SUBSET Nat
  BY <1>2, <1>3, InodesInUse
<1>6. PICK dk2 : dk2 = [disk EXCEPT !.ibits = imem]
  OBVIOUS
<1>7. /\ dk2 \in Disk /\ dk2.inode = disk.inode /\ dk2.ibits = imem /\ dk2.bbits = disk.bbits
      /\ dk2.ents = disk.ents /\ dk2.tab = disk.tab
  BY <1>3, <1>5, <1>6 DEF Disk
<1>8. PICK co2 \in [Ino -> Node] : co2 = dir_close(p) /\ co2[0] = core[0]
  BY Closing
<1>9. Tail(x.todo) = <<>> /\ Sound(v, Idle, dk2, imem, bmem, co2)
  BY <1>2, <1>3, <1>7, <1>8, Bits
<1>10. r'[p] = IF y.todo = <<>> THEN Idle ELSE y
  BY <1>2, ThenSound
<1>11. r'[p] = Idle /\ disk' = dk2 /\ core' = co2
  BY <1>2, <1>4, <1>6, <1>8, <1>9, <1>10
<1> QED BY <1>2, <1>9, <1>11 DEF Worked

LEMMA AllocWorks == ASSUME NEW v, NEW p, Works(v, p), Alloc(p) PROVE fault' \/ Worked(p)
<1>0. PICK x : x = r[p]
  OBVIOUS
<1>i. PICK i : i = bitmap_scan(bmem, setup.blocks, 1)
  OBVIOUS
<1>1. PICK y : y = [x EXCEPT !.lba = i + 1, !.todo = Tail(x.todo)]
  OBVIOUS
<1>2. /\ Then(p, y) /\ x.todo # <<>> /\ Head(x.todo).do = "alloc" /\ fault' = (i = -1)
      /\ bmem' = (IF i = -1 THEN bmem ELSE bitmap_set(bmem, i, 1))
      /\ disk' = [disk EXCEPT !.bbits = bmem']
      /\ imem' = imem /\ core' = core
  BY <1>0, <1>1, <1>i DEF Alloc, Doing, Rest
<1>3. DOMAIN x = DOMAIN Idle /\ Sound(v, x, disk, imem, bmem, core) /\ disk \in Disk /\ bmem \in SUBSET Nat
  BY <1>0, Working
<1>4. SUFFICES ASSUME i # -1 PROVE Worked(p)
  BY <1>2
<1>5. i \in Nat /\ i \notin bmem /\ i + 1 \in Block /\ (i + 1) - 1 = i
  <2>1. setup.blocks \in 1 .. Blocks
    BY DiskConstants DEF Works
  <2>2. setup.blocks \in Nat
    BY <2>1
  <2>3. i \in 0 .. setup.blocks - 1 /\ i \notin bmem
    BY <1>i, <1>4, <2>2, ScanOne
  <2> QED BY <2>1, <2>3, DiskConstants DEF Block
<1>6. PICK c \in Block : c = i + 1 /\ c - 1 = i /\ c - 1 \notin bmem
  BY <1>5
<1>7. Same(x, y) /\ y.lba = c /\ y.todo = Tail(x.todo)
  BY <1>1, <1>3, <1>6 DEF Same, Idle
<1>8. bmem' = bmem \cup {c - 1} /\ bmem' \in SUBSET Nat
  BY <1>2, <1>3, <1>4, <1>5, <1>6 DEF bitmap_set
<1>9. PICK dk2 : dk2 = [disk EXCEPT !.bbits = bmem']
  OBVIOUS
<1>10. /\ dk2 \in Disk /\ dk2.inode = disk.inode /\ dk2.ibits = disk.ibits
       /\ dk2.bbits = bmem \cup {c - 1} /\ dk2.ents = disk.ents /\ dk2.tab = disk.tab
  BY <1>3, <1>8, <1>9 DEF Disk
<1>11. PICK w : Sound(w, y, dk2, imem, bmem \cup {c - 1}, core)
  BY <1>2, <1>3, <1>6, <1>7, <1>10, Allocs
<1>12. Sound(w, y, disk', imem', bmem', core')
  BY <1>2, <1>8, <1>9, <1>11
<1> QED BY <1>2, <1>12, ThenSound

LEMMA WriteDotsWorks == ASSUME NEW v, NEW p, Works(v, p), WriteDots(p) PROVE Worked(p)
<1>0. PICK x : x = r[p]
  OBVIOUS
<1>1. PICK y : y = [x EXCEPT !.todo = Tail(x.todo)]
  OBVIOUS
<1>2. PICK dk2 : dk2 = [disk EXCEPT !.ents = [disk.ents EXCEPT ![x.lba] = Dots(x.ino, x.dir)]]
  OBVIOUS
<1>3. PICK co2 : co2 = [core EXCEPT ![x.ino] = [inode_init EXCEPT !.size = 2, !.sect[0] = x.lba]]
  OBVIOUS
<1>4. /\ Then(p, y) /\ x.todo # <<>> /\ Head(x.todo).do = "dots"
      /\ disk' = dk2 /\ core' = co2 /\ imem' = imem /\ bmem' = bmem
  BY <1>0, <1>1, <1>2, <1>3 DEF WriteDots, Doing, Rest
<1>5. DOMAIN x = DOMAIN Idle /\ Sound(v, x, disk, imem, bmem, core)
  BY <1>0, Working
<1>6. Same(x, y) /\ y.todo = Tail(x.todo)
  BY <1>1, <1>5 DEF Same, Idle
<1>d. DotsWritten(x, disk, dk2, core, co2)
  BY <1>2, <1>3 DEF DotsWritten
<1>7. PICK w : Sound(w, y, dk2, imem, bmem, co2)
  BY <1>4, <1>5, <1>6, <1>d, WritesDots
<1> QED BY <1>4, <1>7, ThenSound

LEMMA WriteDataWorks == ASSUME NEW v, NEW p, Works(v, p), WriteData(p) PROVE Worked(p)
<1>0. PICK x : x = r[p]
  OBVIOUS
<1>1. PICK y : y = [x EXCEPT !.todo = Tail(x.todo)]
  OBVIOUS
<1>2. PICK nd : nd = [core[x.ino] EXCEPT !.size = 1, !.sect[0] = x.lba]
  OBVIOUS
<1>3. PICK co2 : co2 = [core EXCEPT ![x.ino] = nd]
  OBVIOUS
<1>4. /\ Then(p, y) /\ x.todo # <<>> /\ Head(x.todo).do = "data"
      /\ disk' = disk /\ core' = co2 /\ imem' = imem /\ bmem' = bmem
  BY <1>0, <1>1, <1>2, <1>3 DEF WriteData, Doing, Rest
<1>5. DOMAIN x = DOMAIN Idle /\ Sound(v, x, disk, imem, bmem, core)
  BY <1>0, Working
<1>6. Same(x, y) /\ y.todo = Tail(x.todo)
  BY <1>1, <1>5 DEF Same, Idle
<1>d. DataWritten(x, core, co2)
  BY <1>2, <1>3 DEF DataWritten
<1>7. PICK w : Sound(w, y, disk, imem, bmem, co2)
  BY <1>4, <1>5, <1>6, <1>d, WritesData
<1> QED BY <1>4, <1>7, ThenSound

LEMMA NoRoomWorks ==
  ASSUME NEW v, NEW p, Works(v, p), NoRoom(p), r[p].op # "mkdir" PROVE Worked(p)
<1>0. PICK x : x = r[p]
  OBVIOUS
<1>1. /\ r' = [r EXCEPT ![p] = Idle] /\ x.todo # <<>> /\ Head(x.todo).do = "find"
      /\ x.idx = Last /\ x.op # "mkdir"
      /\ disk' = disk /\ core' = dir_close(p) /\ imem' = imem \ {x.ino} /\ bmem' = bmem
  BY <1>0 DEF NoRoom, Doing, Last, bitmap_set
<1>2. PICK co2 \in [Ino -> Node] : co2 = dir_close(p) /\ co2[0] = core[0]
  BY Closing
<1>3. Sound(v, x, disk, imem, bmem, core)
  BY <1>0, Working
<1>4. PICK w : Sound(w, Idle, disk, imem \ {x.ino}, bmem, co2)
  BY <1>1, <1>2, <1>3, NoneLeft
<1>5. r'[p] = Idle
  BY <1>1 DEF Works
<1> QED BY <1>1, <1>2, <1>4, <1>5 DEF Worked

LEMMA PlaceInRange ==
  ASSUME NEW v, NEW x, NEW dk, NEW im, NEW bm, NEW co, Sound(v, x, dk, im, bm, co),
         x.todo # <<>>, Head(x.todo).do \in {"zero", "find"}
  PROVE  x.idx \in 0 .. Last /\ Direct \in Nat /\ Last \in Nat /\ Searching(v, x, dk, im)
<1>1. Phase(v, x, dk, im) /\ x.dir \in Ino /\ x.ino \in Ino
  BY DEF Sound, Sees
<1>2. Adds(v, x, dk, im) \/ Finds(v, x, dk, im)
  BY <1>1, Heads
<1>3. Searching(v, x, dk, im)
  BY <1>2 DEF Adds, Finds
<1>4. x.idx \in 0 .. Last
  BY <1>3 DEF Searching
<1>5. Direct \in Nat
  BY DiskConstants
<1>6. Last \in Nat
  BY Ranges
<1> QED BY <1>3, <1>4, <1>5, <1>6

LEMMA ZeroBlockWorks == ASSUME NEW v, NEW p, Works(v, p), ZeroBlock(p) PROVE Worked(p)
<1>0. PICK x : x = r[p]
  OBVIOUS
<1>1. PICK k : k = IF x.idx < Direct THEN x.idx ELSE Direct
  OBVIOUS
<1>2. PICK dk2 : Cleared(disk, dk2, x.lba)
  BY DEF Cleared
<1>3. /\ x.todo # <<>> /\ Head(x.todo).do = "zero" /\ disk' = dk2 /\ imem' = imem /\ bmem' = bmem
  BY <1>0, <1>2 DEF ZeroBlock, Doing, Cleared
<1>4. DOMAIN x = DOMAIN Idle /\ Sound(v, x, disk, imem, bmem, core)
  BY <1>0, Working
<1>5. CASE x.idx < Direct \/ x.tier = <<>>
  <2>1. PICK y : y = [x EXCEPT !.todo = Tail(x.todo), !.tier = x.tier]
    OBVIOUS
  <2>2. PICK co2 : EnterSect(core, co2, x.dir, k, x.lba)
    BY DEF EnterSect
  <2>3. ~(x.idx >= Direct /\ x.tier # <<>>)
    <3>1. x.idx \in 0 .. Last /\ Direct \in Nat /\ Last \in Nat
      BY <1>3, <1>4, PlaceInRange
    <3> QED BY <1>5, <3>1
  <2>4. core' = [core EXCEPT ![x.dir].sect[k] = x.lba]
    BY <1>0, <1>1, <2>3 DEF ZeroBlock
  <2>5. Then(p, y)
    BY <1>0, <2>1, <2>3 DEF ZeroBlock, Rest
  <2>6. core' = co2
    BY <2>2, <2>4 DEF EnterSect
  <2>7. Same(x, y) /\ y.todo = Tail(x.todo)
    BY <1>4, <2>1 DEF Same, Idle
  <2>a. NodeLacks(x, k)
    BY <1>1, <1>5 DEF NodeLacks
  <2>8. SoundOn(y, dk2, imem, bmem, co2)
    <3>1. Sound(v, x, disk, imem, bmem, core) /\ x.todo # <<>> /\ Head(x.todo).do = "zero"
      BY <1>3, <1>4
    <3> QED BY <1>2, <2>2, <2>7, <2>a, <3>1, ZeroesInode
  <2>9. PICK w : Sound(w, y, dk2, imem, bmem, co2)
    BY <2>8 DEF SoundOn
  <2> QED BY <1>3, <2>5, <2>6, <2>9, ThenSound
<1>6. CASE ~(x.idx < Direct \/ x.tier = <<>>)
  <2>1. x.idx >= Direct /\ x.tier # <<>>
    <3>1. x.idx \in 0 .. Last /\ Direct \in Nat /\ Last \in Nat
      BY <1>3, <1>4, PlaceInRange
    <3> QED BY <1>6, <3>1
  <2>2. PICK t : t = [x.tier EXCEPT ![x.idx - Direct + 1] = x.lba]
    OBVIOUS
  <2>3. PICK y : y = [x EXCEPT !.todo = Tail(x.todo), !.tier = t]
    OBVIOUS
  <2>4. Then(p, y) /\ core' = core
    BY <1>0, <2>1, <2>2, <2>3 DEF ZeroBlock, Rest
  <2>5. Like(x, y) /\ y.idx = x.idx /\ y.todo = Tail(x.todo) /\ y.tier = t
    BY <1>4, <2>3 DEF Like, Idle
  <2>6. TableGets(x, y)
    BY <2>2, <2>5 DEF TableGets
  <2>7. SoundOn(y, dk2, imem, bmem, core)
    <3>1. Sound(v, x, disk, imem, bmem, core) /\ x.todo # <<>> /\ Head(x.todo).do = "zero"
      BY <1>3, <1>4
    <3>2. Like(x, y) /\ y.idx = x.idx /\ y.todo = Tail(x.todo)
      BY <2>5
    <3> QED BY <1>2, <2>1, <2>6, <3>1, <3>2, ZeroesTable
  <2>8. PICK w : Sound(w, y, dk2, imem, bmem, core)
    BY <2>7 DEF SoundOn
  <2> QED BY <1>3, <2>4, <2>8, ThenSound
<1> QED BY <1>5, <1>6

LEMMA PutEntryWorks == ASSUME NEW v, NEW p, Works(v, p), PutEntry(p) PROVE Worked(p)
<1>0. PICK x : x = r[p]
  OBVIOUS
<1>1. PICK y : y = [x EXCEPT !.sec = ZeroSector, !.todo = Tail(x.todo)]
  OBVIOUS
<1>2. PICK dk2 : PutSector(disk, dk2, x.lba, x.sec, x.slot, x.ent)
  BY DEF PutSector
<1>3. PICK z : z = Delta(x)
  OBVIOUS
<1>4. PICK co2 : AddSize(core, co2, x.dir, z)
  BY DEF AddSize
<1>5. /\ Then(p, y) /\ x.todo # <<>> /\ Head(x.todo).do = "put" /\ disk' = dk2
      /\ imem' = imem /\ bmem' = bmem /\ core' = co2
  BY <1>0, <1>1, <1>2, <1>3, <1>4 DEF PutEntry, Doing, Rest, PutSector, AddSize
<1>6. DOMAIN x = DOMAIN Idle /\ Sound(v, x, disk, imem, bmem, core)
  BY <1>0, Working
<1>7. Same(x, y) /\ y.todo = Tail(x.todo)
  BY <1>1, <1>6 DEF Same, Idle
<1>8. Puts(v, x, disk, imem) \/ Clears(v, x, disk, imem)
  <2>1. Phase(v, x, disk, imem) /\ x.dir \in Ino /\ x.ino \in Ino
    BY <1>6 DEF Sound, Sees
  <2> QED BY <1>5, <2>1, Heads
<1>9. CASE Puts(v, x, disk, imem)
  <2>1. z = 1
    BY <1>3, <1>9, FsDiskAssumption DEF Puts, Searching, New, Free, Delta
  <2>2. AddSize(core, co2, x.dir, 1)
    BY <1>4, <2>1
  <2>3. PICK w : Sound(w, y, dk2, imem, bmem, co2)
    BY <1>2, <1>6, <1>7, <1>9, <2>2, PutsEntry
  <2> QED BY <1>5, <2>3, ThenSound
<1>10. CASE Clears(v, x, disk, imem)
  <2>1. z = -1
    BY <1>3, <1>10 DEF Clears, Old, Delta
  <2>2. AddSize(core, co2, x.dir, -1)
    BY <1>4, <2>1
  <2>3. PICK w : Sound(w, y, dk2, imem, bmem, co2)
    BY <1>2, <1>5, <1>6, <1>7, <1>10, <2>2, ClearsEntry
  <2> QED BY <1>5, <2>3, ThenSound
<1> QED BY <1>8, <1>9, <1>10

LEMMA WriteTableWorks == ASSUME NEW v, NEW p, Works(v, p), WriteTable(p) PROVE Worked(p)
<1>0. PICK x : x = r[p]
  OBVIOUS
<1>1. PICK y : y = [x EXCEPT !.todo = Tail(x.todo)]
  OBVIOUS
<1>2. PICK t2 : t2 = [disk.tab EXCEPT ![core[x.dir].sect[Direct]] = x.tier]
  OBVIOUS
<1>3. PICK dk2 : dk2 = [disk EXCEPT !.tab = t2]
  OBVIOUS
<1>5. /\ Then(p, y) /\ x.todo # <<>> /\ Head(x.todo).do = "tier"
      /\ disk' = dk2 /\ imem' = imem /\ bmem' = bmem
  BY <1>0, <1>1, <1>2, <1>3 DEF WriteTable, Doing, Rest
<1>6. DOMAIN x = DOMAIN Idle /\ Sound(v, x, disk, imem, bmem, core) /\ disk \in Disk
  BY <1>0, Working
<1>7. Same(x, y) /\ y.todo = Tail(x.todo)
  BY <1>1, <1>6 DEF Same, Idle
<1>8. Tables(v, x, disk, imem) \/ DropsIndirect(v, x, disk, imem)
  <2>1. Phase(v, x, disk, imem) /\ x.dir \in Ino /\ x.ino \in Ino
    BY <1>6 DEF Sound, Sees
  <2> QED BY <1>5, <2>1, Heads
<1>t. t2 \in [Block -> Table]
  <2>1. disk.tab \in [Block -> Table] /\ v.tab \in [Block -> Table] /\ v.node \in [Ino -> Node]
        /\ x.dir \in Ino
    BY <1>6 DEF Disk, Sound, Sees, Agrees, Types
  <2>2. InHand(v, x, disk)
    BY <1>8 DEF Tables, Searching, DropsIndirect
  <2>3. v.node[x.dir].sect[Direct] \in Block
    <3>1. v.node[x.dir].sect[Direct] \in 0 .. Blocks /\ v.node[x.dir].sect[Direct] # 0
      BY <2>1, <2>2, Ranges DEF Node, InHand
    <3> QED BY <3>1, Ranges
  <2>4. x.tier \in Table
    BY <2>1, <2>2, <2>3 DEF InHand
  <2> QED BY <1>2, <2>1, <2>4
<1> HIDE <1>2
<1>d. /\ dk2 \in Disk /\ dk2.inode = disk.inode /\ dk2.ibits = disk.ibits /\ dk2.bbits = disk.bbits
      /\ dk2.ents = disk.ents /\ dk2.tab = t2
  BY <1>3, <1>6, <1>t DEF Disk
<1>u. TableWritten(x, disk, dk2, core)
  BY <1>2, <1>d DEF TableWritten
<1>9. CASE Tables(v, x, disk, imem)
  <2>1. x.ent # Free
    BY <1>9, FsDiskAssumption DEF Tables, Searching, New, Free
  <2>2. core' = core
    BY <1>0, <2>1 DEF WriteTable
  <2>3. Sound(v, y, dk2, imem, bmem, core)
    BY <1>6, <1>7, <1>9, <1>d, <1>u, TablesWritten
  <2> QED BY <1>5, <2>2, <2>3, ThenSound
<1>10. CASE DropsIndirect(v, x, disk, imem)
  <2>1. x.ent = Free
    BY <1>10 DEF DropsIndirect, Old
  <2>2. PICK co2 : AddSize(core, co2, x.dir, -1)
    BY DEF AddSize
  <2>3. core' = [core EXCEPT ![x.dir].size = @ - 1]
    BY <1>0, <2>1 DEF WriteTable
  <2>4. core' = co2
    <3>1. PICK s : s = core[x.dir].size /\ s \in Int
      <4>1. core \in [Ino -> Node] /\ x.dir \in Ino
        BY <1>0, Working
      <4> QED BY <4>1 DEF Node
    <3>2. s + (-1) = s - 1
      BY <3>1
    <3> QED BY <2>2, <2>3, <3>1, <3>2 DEF AddSize
  <2>5. PICK w : Sound(w, y, dk2, imem, bmem, co2)
    BY <1>5, <1>6, <1>7, <1>10, <1>d, <1>u, <2>2, TableCounted
  <2> QED BY <1>5, <2>4, <2>5, ThenSound
<1> QED BY <1>8, <1>9, <1>10

\* sync_dir_entry's loop, case by case
FindGuard(p, x) ==
    /\ x = r[p] /\ x.todo # <<>> /\ Head(x.todo).do = "find" /\ x.idx < Last
    /\ disk' = disk /\ imem' = imem /\ bmem' = bmem /\ core' = core
FindFacts(v, x) ==
    /\ DOMAIN x = DOMAIN Idle /\ Sound(v, x, disk, imem, bmem, core) /\ x.todo = Seek(x)
    /\ Seek(x) \in Seq(Steps) /\ x.idx \in Nat /\ Direct \in Nat

LEMMA FindFactsHold ==
  ASSUME NEW v, NEW p, Works(v, p), FindBlock(p), NEW x, x = r[p]
  PROVE  FindGuard(p, x) /\ FindFacts(v, x)
<1>1. FindGuard(p, x)
  BY Zenon DEF FindBlock, Doing, FindGuard, Last
<1>2. DOMAIN x = DOMAIN Idle /\ Sound(v, x, disk, imem, bmem, core) /\ x.dir \in Ino /\ x.ino \in Ino
  BY Working
<1>3. x.idx \in 0 .. Last /\ Direct \in Nat
  BY <1>1, <1>2, PlaceInRange DEF FindGuard
<1>4. Finds(v, x, disk, imem)
  <2>1. Phase(v, x, disk, imem)
    BY <1>2 DEF Sound
  <2> QED BY <1>1, <1>2, <2>1, Heads DEF FindGuard
<1>5. x.todo = Seek(x)
  BY <1>4 DEF Finds
<1>6. Seek(x) \in Seq(Steps)
  BY <1>2, EndList
<1>7. x.idx \in Nat
  BY <1>3
<1> QED BY <1>1, <1>2, <1>3, <1>5, <1>6, <1>7 DEF FindFacts

PutAt(x, b, t, s) ==
    [x EXCEPT !.lba = b, !.sec = t, !.slot = s, !.todo = <<Step("put", 0)>> \o Tail(x.todo)]
More(x, s) == [x EXCEPT !.todo = s \o x.todo]
LEMMA FindCases ==
  ASSUME NEW p, FindBlock(p), NEW x, x = r[p], NEW b,
         b = IF x.idx < Direct THEN core[x.dir].sect[x.idx] ELSE x.tier[x.idx - Direct + 1],
         NEW free, free = {s \in 1 .. setup.slots : disk.ents[b][s].type = "unknown"}
  PROVE  /\ ~(x.idx < Direct) /\ x.tier = <<>> /\ core[x.dir].sect[Direct] = 0 =>
                Then(p, More(x, <<Step("alloc", 0), Step("zero", 0)>>))
         /\ ~(x.idx < Direct) /\ x.tier = <<>> /\ core[x.dir].sect[Direct] # 0 =>
                Then(p, [x EXCEPT !.tier = disk.tab[core[x.dir].sect[Direct]]])
         /\ x.idx < Direct /\ b = 0 =>
                Then(p, More(x, <<Step("alloc", 0), Step("zero", 0)>> \o <<>>))
         /\ ~(x.idx < Direct) /\ x.tier # <<>> /\ b = 0 =>
                Then(p, More(x, <<Step("alloc", 0), Step("zero", 0)>> \o <<Step("tier", 0)>>))
         /\ (x.idx < Direct \/ x.tier # <<>>) /\ b # 0 /\ free = {} =>
                Then(p, [x EXCEPT !.idx = x.idx + 1])
         /\ (x.idx < Direct \/ x.tier # <<>>) /\ b # 0 /\ free # {} =>
                Then(p, PutAt(x, b, disk.ents[b], Least(free)))
<1> DEFINE direct == x.idx < Direct
           tiered == x.tier # <<>>
           indirect == core[x.dir].sect[Direct]
           a1 == Then(p, More(x, <<Step("alloc", 0), Step("zero", 0)>>))
<1>1. Then(p, IF ~direct /\ ~tiered
              THEN IF indirect = 0 THEN More(x, <<Step("alloc", 0), Step("zero", 0)>>)
                   ELSE [x EXCEPT !.tier = disk.tab[indirect]]
              ELSE IF b = 0
              THEN More(x, <<Step("alloc", 0), Step("zero", 0)>>
                           \o IF direct THEN <<>> ELSE <<Step("tier", 0)>>)
              ELSE IF free = {} THEN [x EXCEPT !.idx = x.idx + 1]
              ELSE [x EXCEPT !.lba = b, !.sec = disk.ents[b], !.slot = Least(free),
                             !.todo = <<Step("put", 0)>> \o Tail(x.todo)])
  BY ZenonT(30) DEF FindBlock, More, Rest
<1> QED BY <1>1, ZenonT(30) DEF PutAt

LEMMA FindBlockWorks == ASSUME NEW v, NEW p, Works(v, p), FindBlock(p) PROVE Worked(p)
<1>0. PICK x : x = r[p]
  OBVIOUS
<1>b. PICK b : b = IF x.idx < Direct THEN core[x.dir].sect[x.idx] ELSE x.tier[x.idx - Direct + 1]
  OBVIOUS
<1>f. PICK free : free = {s \in 1 .. setup.slots : disk.ents[b][s].type = "unknown"}
  OBVIOUS
<1>1. FindGuard(p, x) /\ FindFacts(v, x)
  BY <1>0, FindFactsHold
<1>2. /\ DOMAIN x = DOMAIN Idle /\ Sound(v, x, disk, imem, bmem, core) /\ x.todo # <<>>
      /\ Head(x.todo).do = "find" /\ x.idx < Last
      /\ disk' = disk /\ imem' = imem /\ bmem' = bmem /\ core' = core
      /\ x.todo = Seek(x) /\ Seek(x) \in Seq(Steps) /\ x.idx \in Nat /\ Direct \in Nat
  BY <1>1 DEF FindGuard, FindFacts
<1>3. ASSUME NEW y, Then(p, y), Sound(v, y, disk, imem, bmem, core) PROVE Worked(p)
  BY <1>2, <1>3, ThenSound
<1>s. /\ Step("alloc", 0) \in Steps /\ Step("zero", 0) \in Steps /\ Step("tier", 0) \in Steps
      /\ <<>> \in Seq(Steps)
  BY StepKinds, Conses
<1>4. ASSUME NEW steps, Lacking(x, core), Then(p, More(x, steps)),
             steps \o Seek(x) = Cons(Step("alloc", 0), Cons(Step("zero", 0), Enters(x)))
      PROVE  Worked(p)
  <2>1. PICK y : y = More(x, steps)
    OBVIOUS
  <2>2. Same(x, y) /\ y.todo = steps \o x.todo
    BY <1>2, <2>1 DEF More, Same, Idle
  <2>3. y.todo = Cons(Step("alloc", 0), Cons(Step("zero", 0), Enters(x)))
    BY <1>2, <1>4, <2>2
  <2>4. Sound(v, y, disk, imem, bmem, core)
    BY <1>2, <1>4, <2>2, <2>3, FindsNone
  <2> QED BY <1>3, <1>4, <2>1, <2>4
<1>5. <<Step("alloc", 0), Step("zero", 0)>> \o Seek(x) = Cons(Step("alloc", 0), Cons(Step("zero", 0), Seek(x)))
  BY <1>2, <1>s, Before
<1>c. ~(x.idx < Direct) <=> x.idx >= Direct
  BY <1>2
<1>6. CASE ~(x.idx < Direct) /\ x.tier = <<>> /\ core[x.dir].sect[Direct] = 0
  <2>1. Lacking(x, core)
    BY <1>6, <1>c DEF Lacking
  <2>2. Enters(x) = Seek(x)
    BY <1>6 DEF Enters
  <2>3. Then(p, More(x, <<Step("alloc", 0), Step("zero", 0)>>))
    BY <1>0, <1>6, <1>b, <1>f, FindCases
  <2> QED BY <1>4, <1>5, <2>1, <2>2, <2>3
<1>7. CASE ~(x.idx < Direct) /\ x.tier = <<>> /\ core[x.dir].sect[Direct] # 0
  <2>1. PICK t : t = disk.tab[core[x.dir].sect[Direct]]
    OBVIOUS
  <2>2. PICK y : y = [x EXCEPT !.tier = t]
    OBVIOUS
  <2>3. Like(x, y) /\ y.idx = x.idx /\ y.todo = x.todo /\ y.tier = t
    BY <1>2, <2>2 DEF Like, Idle
  <2>4. Then(p, y)
    BY <1>0, <1>7, <1>b, <1>f, <2>1, <2>2, FindCases
  <2>5. y.tier = disk.tab[core[x.dir].sect[Direct]]
    BY <2>1, <2>3
  <2>6. Sound(v, y, disk, imem, bmem, core)
    BY <1>2, <1>7, <1>c, <2>3, <2>5, FindsTable
  <2> QED BY <1>3, <2>4, <2>6
<1>8. CASE x.idx < Direct /\ b = 0
  <2>1. Lacking(x, core)
    BY <1>8, <1>b DEF Lacking
  <2>2. Enters(x) = Seek(x)
    BY <1>8, <1>c DEF Enters
  <2>3. Then(p, More(x, <<Step("alloc", 0), Step("zero", 0)>> \o <<>>))
    BY <1>0, <1>8, <1>b, <1>f, FindCases
  <2>4. <<Step("alloc", 0), Step("zero", 0)>> \o <<>> = <<Step("alloc", 0), Step("zero", 0)>>
    <3>1. <<Step("alloc", 0), Step("zero", 0)>> \in Seq(Steps)
      BY <1>s, Before
    <3> QED BY <3>1, Joined
  <2> QED BY <1>4, <1>5, <2>1, <2>2, <2>3, <2>4
<1>9. CASE ~(x.idx < Direct) /\ x.tier # <<>> /\ b = 0
  <2>1. Lacking(x, core)
    BY <1>9, <1>b, <1>c DEF Lacking
  <2>2. Enters(x) = Cons(Step("tier", 0), Seek(x))
    BY <1>9, <1>c DEF Enters
  <2>3. Then(p, More(x, <<Step("alloc", 0), Step("zero", 0)>> \o <<Step("tier", 0)>>))
    BY <1>0, <1>9, <1>b, <1>f, FindCases
  <2>4. (<<Step("alloc", 0), Step("zero", 0)>> \o <<Step("tier", 0)>>) \o Seek(x)
          = Cons(Step("alloc", 0), Cons(Step("zero", 0), Enters(x)))
    BY <1>2, <1>s, <2>2, BeforeThree
  <2> QED BY <1>4, <2>1, <2>3, <2>4
<1>10. CASE (x.idx < Direct \/ x.tier # <<>>) /\ b # 0 /\ free = {}
  <2>1. PICK y : y = [x EXCEPT !.idx = x.idx + 1]
    BY Zenon
  <2>2. Like(x, y) /\ y.idx = x.idx + 1 /\ y.todo = x.todo /\ y.tier = x.tier
    BY <1>2, <2>1 DEF Like, Idle
  <2>3. Then(p, y)
    BY <1>0, <1>10, <1>b, <1>f, <2>1, FindCases, Zenon
  <2>4. BlockAt(x, core, b)
    BY <1>10, <1>b, <1>c DEF BlockAt
  <2>5. disk.ents[b][1].type # "unknown"
    <3>1. setup.slots \in 2 .. Slots /\ Slots \in Nat
      BY FsDiskAssumption DEF Works
    <3>2. 1 \in 1 .. setup.slots
      BY <3>1
    <3> QED BY <1>10, <1>f, <3>2
  <2>6. Sound(v, y, disk, imem, bmem, core)
    BY <1>2, <1>10, <2>2, <2>4, <2>5, FindsFull
  <2> QED BY <1>3, <2>3, <2>6
<1>11. CASE (x.idx < Direct \/ x.tier # <<>>) /\ b # 0 /\ free # {}
  <2>1. PICK s \in Slot : s = Least(free) /\ disk.ents[b][s].type = "unknown"
    <3>1. setup.slots \in 2 .. Slots /\ Slots \in Nat
      BY FsDiskAssumption DEF Works
    <3>2. free \subseteq Nat /\ free \subseteq Slot
      BY <1>f, <3>1 DEF Slot
    <3>3. Least(free) \in free
      BY <1>11, <3>2, LeastOf
    <3> QED BY <1>f, <3>2, <3>3
  <2>2. PICK t : t = disk.ents[b]
    OBVIOUS
  <2>3. PICK u : u = <<Step("put", 0)>> \o Tail(x.todo)
    OBVIOUS
  <2>4. PICK y : y = PutAt(x, b, t, s)
    OBVIOUS
  <2>5. Same(x, y) /\ y.lba = b /\ y.sec = t /\ y.slot = s /\ y.todo = u
    BY <1>2, <2>3, <2>4 DEF PutAt, Same, Idle
  <2>a. Then(p, PutAt(x, b, disk.ents[b], Least(free)))
    BY <1>0, <1>11, <1>b, <1>f, FindCases, ZenonT(30)
  <2>6. Then(p, y)
    BY <2>a, <2>1, <2>2, <2>4
  <2>7. y.todo = Cons(Step("put", 0), Tail(x.todo)) /\ y.sec = disk.ents[b]
    BY <2>2, <2>3, <2>5 DEF Cons
  <2>8. BlockAt(x, core, b)
    BY <1>11, <1>b, <1>c DEF BlockAt
  <2>9. Sound(v, y, disk, imem, bmem, core)
    BY <1>2, <1>11, <2>1, <2>5, <2>7, <2>8, FindsPlace
  <2> QED BY <1>3, <2>6, <2>9
<1> QED BY <1>6, <1>7, <1>8, <1>9, <1>10, <1>11

-----------------------------------------------------------------------------
\* delete_dir_entry finds the one entry that names the inode,
Matching(v, d, n) == {y \in Filled(v.ent[d]) : v.ent[d][y[1]][y[2]].ino = n}
Naming1(v, d, n, k, s) ==
    /\ d \in v.dirs /\ d # n /\ Parent(v.ent, d) # n
    /\ k \in Index /\ s \in Slot /\ IsName(v.ent, d, k, s) /\ v.ent[d][k][s].ino = n

LEMMA OneMatches ==
  ASSUME NEW v, NEW m, NEW e, Agrees(v, m, e), NEW d, NEW n, NEW k, NEW s, Naming1(v, d, n, k, s)
  PROVE  Matching(v, d, n) = {<<k, s>>}
<1> USE DEF Naming1
<1>1. Dotted(v.ent, v.dirs) /\ NamedOnce(v.ent) /\ d \in Ino
  BY DEF Agrees, Types, Tree
<1>2. v.ent[d][0][1].ino = d /\ v.ent[d][0][2].ino # n
  <2>1. v.ent[d][0][1] = [name |-> ".", ino |-> d, type |-> "dir"]
    BY <1>1 DEF Dotted
  <2>2. v.ent[d][0][1].ino = d
    BY <2>1
  <2> QED BY <2>2 DEF Parent
<1>3. <<k, s>> \in Matching(v, d, n)
  BY DEF Matching, Filled, IsName
<1>4. ASSUME NEW y \in Matching(v, d, n) PROVE y = <<k, s>>
  <2>1. PICK l \in Index, t \in Slot : y = <<l, t>>
    BY DEF Matching, Filled
  <2>2. v.ent[d][l][t] # Free /\ v.ent[d][l][t].ino = n
    BY <2>1 DEF Matching, Filled
  <2>3. <<l, t>> \notin DotPlaces
    BY <1>2, <2>2 DEF DotPlaces
  <2>4. IsName(v.ent, d, l, t)
    BY <2>2, <2>3 DEF IsName
  <2>5. l = k /\ t = s
    BY <1>1, <2>2, <2>4 DEF NamedOnce
  <2> QED BY <2>1, <2>5
<1> QED BY <1>3, <1>4

\* and knows when it is alone in its block.
LEMMA OneInBlock ==
  ASSUME NEW g, NEW k \in Index, NEW s \in Slot, g[k][s] # Free,
         Cardinality({y \in Filled(g) : y[1] = k}) = 1
  PROVE  Single(g, k, s)
<1>1. PICK S : S = {y \in Filled(g) : y[1] = k}
  OBVIOUS
<1>2. IsFiniteSet(S)
  BY <1>1, FilledFinite, FS_Subset
<1>3. PICK z : S = {z}
  BY <1>1, <1>2, FS_Singleton
<1>4. <<k, s>> \in S
  BY <1>1 DEF Filled
<1>5. ASSUME NEW t \in Slot, t # s PROVE g[k][t] = Free
  <2>1. <<k, t>> \in S => <<k, t>> = <<k, s>>
    BY <1>3, <1>4
  <2>2. g[k][t] # Free => <<k, t>> \in S
    BY <1>1 DEF Filled
  <2> QED BY <1>5, <2>1, <2>2
<1> QED BY <1>5 DEF Single

\* Its cases
AimAt(x, k, b, tier, sec, s, steps) ==
    [x EXCEPT !.idx = k, !.lba = b, !.tier = tier, !.sec = sec, !.slot = s,
              !.todo = steps \o Tail(x.todo)]
FoundIn(x, nd) == {y \in Places(nd) : At(nd, y).ino = x.ino}
FirstOf(F) == Least({y[1] : y \in F})
HereOf(F, k) == {y \in F : y[1] = k}
SlotOf(H) == Least({y[2] : y \in H})
TierOf(nd, k) == IF k < Direct THEN <<>>
                 ELSE [disk.tab[nd.sect[Direct]] EXCEPT ![k - Direct + 1] = 0]
AloneIn(nd, k) == Cardinality({y \in Places(nd) : y[1] = k}) = 1
Found(p, x, nd, k, s) ==
    /\ x = r[p] /\ nd = core[x.dir] /\ k \in Nat /\ s \in Nat
    /\ FoundIn(x, nd) = {<<k, s>>}
LastSteps(t) ==
    <<Step("drop", 0)>> \o IF t = ZeroTable THEN <<Step("droptier", 0)>> ELSE <<Step("tier", 0)>>
InTable(p, x, nd, k, b, s) ==
    \E t : /\ Omits(t, disk.tab[nd.sect[Direct]], k)
           /\ Then(p, AimAt(x, k, b, t, x.sec, s, LastSteps(t)))

LEMMA LeastSingle == ASSUME NEW k \in Nat PROVE Least({k}) = k
BY LeastOf

StepsOf(nd, k, t) ==
    IF ~AloneIn(nd, k) THEN <<Step("put", 0)>>
    ELSE <<Step("drop", 0)>> \o IF k < Direct THEN <<>>
                               ELSE IF t = ZeroTable THEN <<Step("droptier", 0)>>
                               ELSE <<Step("tier", 0)>>

LEMMA DeleteRead ==
  ASSUME NEW p, DeleteEntry(p), NEW x, x = r[p], NEW nd, nd = core[x.dir],
         NEW F, F = FoundIn(x, nd), F # {}, NEW k, k = FirstOf(F)
  PROVE  Then(p, AimAt(x, k, all_blocks(nd)[k], TierOf(nd, k),
                       IF AloneIn(nd, k) THEN x.sec ELSE disk.ents[all_blocks(nd)[k]],
                       SlotOf(HereOf(F, k)), StepsOf(nd, k, TierOf(nd, k))))
<1> DEFINE nd0 == core[r[p].dir]
           F0 == FoundIn(r[p], nd0)
           k0 == FirstOf(F0)
<1>1. F0 = {} \/
      Then(p, AimAt(r[p], k0, all_blocks(nd0)[k0], TierOf(nd0, k0),
                    IF AloneIn(nd0, k0) THEN r[p].sec ELSE disk.ents[all_blocks(nd0)[k0]],
                    SlotOf(HereOf(F0, k0)), StepsOf(nd0, k0, TierOf(nd0, k0))))
  BY Zenon DEF DeleteEntry, FoundIn, FirstOf, HereOf, SlotOf, TierOf, AloneIn, StepsOf, AimAt, Rest
<1>2. nd = nd0 /\ F = F0 /\ k = k0
  OBVIOUS
<1> HIDE DEF nd0, F0, k0
<1> QED BY <1>1, <1>2

LEMMA DeleteCases ==
  ASSUME NEW p, DeleteEntry(p), NEW x, NEW nd, NEW k, NEW s, Found(p, x, nd, k, s),
         NEW b, b = all_blocks(nd)[k]
  PROVE  /\ x.todo # <<>> /\ Head(x.todo).do = "delete"
         /\ disk' = disk /\ imem' = imem /\ bmem' = bmem /\ core' = core
         /\ ~AloneIn(nd, k) =>
               \E t : Then(p, AimAt(x, k, b, t, disk.ents[b], s, <<Step("put", 0)>>))
         /\ AloneIn(nd, k) /\ k < Direct =>
               Then(p, AimAt(x, k, b, <<>>, x.sec, s, <<Step("drop", 0)>> \o <<>>))
         /\ AloneIn(nd, k) /\ ~(k < Direct) => InTable(p, x, nd, k, b, s)
<1> USE DEF Found
<1>1. PICK F : F = FoundIn(x, nd) /\ F = {<<k, s>>} /\ F # {}
  OBVIOUS
<1>2. FirstOf(F) = k
  <2>1. {y[1] : y \in {<<k, s>>}} = {k}
    OBVIOUS
  <2> QED BY <1>1, <2>1, LeastSingle DEF FirstOf
<1>3. SlotOf(HereOf(F, k)) = s
  <2>1. {y \in {<<k, s>>} : y[1] = k} = {<<k, s>>}
    OBVIOUS
  <2>2. {y[2] : y \in {<<k, s>>}} = {s}
    OBVIOUS
  <2> QED BY <1>1, <2>1, <2>2, LeastSingle DEF HereOf, SlotOf
<1>6. PICK tier : tier = TierOf(nd, k)
  OBVIOUS
<1>7. PICK steps : steps = StepsOf(nd, k, tier)
  OBVIOUS
<1>8. PICK sec : sec = IF AloneIn(nd, k) THEN x.sec ELSE disk.ents[b]
  OBVIOUS
<1>9. Then(p, AimAt(x, k, b, tier, sec, s, steps))
  <2>1. Then(p, AimAt(x, k, all_blocks(nd)[k], TierOf(nd, k),
                      IF AloneIn(nd, k) THEN x.sec ELSE disk.ents[all_blocks(nd)[k]],
                      SlotOf(HereOf(F, k)), StepsOf(nd, k, TierOf(nd, k))))
    <3>1. x = r[p] /\ nd = core[x.dir] /\ k = FirstOf(F)
      BY <1>2
    <3> QED BY <1>1, <3>1, DeleteRead
  <2> QED BY <1>3, <1>6, <1>7, <1>8, <2>1
<1>10. /\ x.todo # <<>> /\ Head(x.todo).do = "delete"
       /\ disk' = disk /\ imem' = imem /\ bmem' = bmem /\ core' = core
  BY ZenonT(30) DEF DeleteEntry, Doing
<1>11. CASE ~AloneIn(nd, k)
  <2>1. steps = <<Step("put", 0)>> /\ sec = disk.ents[b]
    BY <1>7, <1>8, <1>11 DEF StepsOf
  <2> HIDE <1>6, <1>7
  <2> QED BY <1>9, <1>10, <1>11, <2>1
<1>12. CASE AloneIn(nd, k) /\ k < Direct
  <2>1. steps = <<Step("drop", 0)>> \o <<>> /\ sec = x.sec /\ tier = <<>>
    BY <1>6, <1>7, <1>8, <1>12 DEF StepsOf, TierOf
  <2> QED BY <1>9, <1>10, <1>12, <2>1
<1>13. CASE AloneIn(nd, k) /\ ~(k < Direct)
  <2>1. steps = LastSteps(tier) /\ sec = x.sec
    BY <1>7, <1>8, <1>13 DEF LastSteps, StepsOf
  <2>2. Omits(tier, disk.tab[nd.sect[Direct]], k)
    BY <1>6, <1>13, Zenon DEF Omits, TierOf
  <2>3. Then(p, AimAt(x, k, b, tier, x.sec, s, LastSteps(tier)))
    BY <1>9, <2>1
  <2>4. InTable(p, x, nd, k, b, s)
    BY <2>2, <2>3, Zenon DEF InTable
  <2> QED BY <1>10, <1>13, <2>4
<1> QED BY <1>11, <1>12, <1>13

\* What delete_dir_entry starts from
DeleteFacts(v, p, x, nd, k, s) ==
    /\ x = r[p] /\ nd = core[x.dir]
    /\ Sound(v, x, disk, imem, bmem, core) /\ DOMAIN x = DOMAIN Idle
    /\ Agrees(v, bmem, disk.ents) /\ v.tab = disk.tab /\ nd = v.node[x.dir]
    /\ Naming1(v, x.dir, x.ino, k, s) /\ IsName(v.ent, x.dir, k, s)
    /\ v.ent[x.dir][k][s].ino = x.ino
    /\ x.todo # <<>> /\ Head(x.todo).do = "delete"
    /\ Tail(x.todo) = End(x) /\ End(x) \in Seq(Steps) /\ x.dir \in Ino

LEMMA DeleteStarts ==
  ASSUME NEW v, NEW p, Works(v, p), DeleteEntry(p), NEW x, x = r[p], NEW nd, nd = core[x.dir]
  PROVE  \E k \in Index, s \in Slot : DeleteFacts(v, p, x, nd, k, s)
<1>1. x.todo # <<>> /\ Head(x.todo).do = "delete"
  BY Zenon DEF DeleteEntry, Doing
<1>2. DOMAIN x = DOMAIN Idle /\ Sound(v, x, disk, imem, bmem, core) /\ x.dir \in Ino /\ x.ino \in Ino
  BY Working
<1>3. Deletes(v, x, disk, imem)
  <2>1. Phase(v, x, disk, imem)
    BY <1>2 DEF Sound
  <2> QED BY <1>1, <1>2, <2>1, Heads
<1>4. PICK k \in Index, s \in Slot : IsName(v.ent, x.dir, k, s) /\ v.ent[x.dir][k][s].ino = x.ino
  BY <1>3 DEF Deletes
<1>5. /\ Agrees(v, bmem, disk.ents) /\ Old(v, x, disk, imem) /\ Tail(x.todo) = End(x)
      /\ End(x) \in Seq(Steps) /\ x.dir \in v.dirs /\ core[x.dir] = v.node[x.dir]
  <2>1. End(x) \in Seq(Steps)
    BY <1>2, EndList
  <2>2. Tail(x.todo) = End(x)
    <3>1. x.todo = Cons(Step("delete", 0), End(x))
      BY <1>3 DEF Deletes
    <3> QED BY <2>1, <3>1, StepKinds, Conses
  <2>3. Old(v, x, disk, imem) /\ x.dir \in v.dirs
    BY <1>3 DEF Deletes, Old
  <2>4. Sees(v, x, disk, bmem, core)
    BY <1>2 DEF Sound
  <2>5. Agrees(v, bmem, disk.ents) /\ core[x.dir] = v.node[x.dir]
    BY <2>4 DEF Sees, Seen
  <2> QED BY <2>1, <2>2, <2>3, <2>5
<1>6. v.tab = disk.tab
  BY <1>3 DEF Deletes
<1>7. Naming1(v, x.dir, x.ino, k, s)
  BY <1>4, <1>5 DEF Naming1, Old
<1> QED BY <1>1, <1>2, <1>4, <1>5, <1>6, <1>7 DEF DeleteFacts

LEMMA DeleteReads ==
  ASSUME NEW v, NEW p, Works(v, p), NEW x, NEW nd, NEW k \in Index, NEW s \in Slot,
         DeleteFacts(v, p, x, nd, k, s)
  PROVE  /\ Found(p, x, nd, k, s) /\ all_blocks(nd)[k] = v.at[x.dir][k]
         /\ AloneIn(nd, k) => Single(v.ent[x.dir], k, s)
<1>1. /\ Agrees(v, bmem, disk.ents) /\ v.tab = disk.tab /\ nd = v.node[x.dir] /\ x = r[p]
      /\ nd = core[x.dir] /\ Naming1(v, x.dir, x.ino, k, s) /\ x.dir \in v.dirs
      /\ v.ent[x.dir][k][s] # Free
  BY DEF DeleteFacts, Naming1, IsName
<1>2. Reading(v)
  BY <1>1, Working DEF Reading
<1>3. /\ Places(nd) = Filled(v.ent[x.dir])
      /\ \A y \in Filled(v.ent[x.dir]) : At(nd, y) = v.ent[x.dir][y[1]][y[2]]
      /\ \A l \in Index : all_blocks(nd)[l] = v.at[x.dir][l]
  BY <1>1, <1>2, PlacesRead
<1>4. FoundIn(x, nd) = Matching(v, x.dir, x.ino)
  BY <1>3 DEF FoundIn, Matching
<1>5. FoundIn(x, nd) = {<<k, s>>}
  BY <1>1, <1>4, OneMatches
<1>6. AloneIn(nd, k) => Single(v.ent[x.dir], k, s)
  BY <1>1, <1>3, OneInBlock DEF AloneIn
<1>7. k \in Nat /\ s \in Nat
  BY Ranges
<1> QED BY <1>1, <1>3, <1>5, <1>6, <1>7 DEF Found

AimedAt(x, y, k, b, tier, sec, s, t) ==
    /\ Like(x, y) /\ y.idx = k /\ y.lba = b /\ y.tier = tier /\ y.sec = sec /\ y.slot = s
    /\ y.todo = t \o Tail(x.todo)
LEMMA Aiming ==
  ASSUME NEW x, DOMAIN x = DOMAIN Idle, NEW k, NEW b, NEW tier, NEW sec, NEW s, NEW t,
         NEW y, y = AimAt(x, k, b, tier, sec, s, t)
  PROVE  AimedAt(x, y, k, b, tier, sec, s, t)
BY DEF AimedAt, AimAt, Like, Idle

LEMMA LastList ==
  ASSUME NEW x, End(x) \in Seq(Steps), NEW t
  PROVE  LastSteps(t) \o End(x) = Cons(Step("drop", 0),
             IF t = ZeroTable THEN Cons(Step("droptier", 0), End(x))
             ELSE Cons(Step("tier", 0), End(x)))
<1>1. Step("drop", 0) \in Steps /\ Step("droptier", 0) \in Steps /\ Step("tier", 0) \in Steps
  BY StepKinds
<1>2. /\ <<Step("drop", 0)>> \in Seq(Steps) /\ <<Step("droptier", 0)>> \in Seq(Steps)
      /\ <<Step("tier", 0)>> \in Seq(Steps)
  BY <1>1, Before
<1>3. /\ (<<Step("drop", 0)>> \o <<Step("droptier", 0)>>) \o End(x)
            = <<Step("drop", 0)>> \o (<<Step("droptier", 0)>> \o End(x))
      /\ (<<Step("drop", 0)>> \o <<Step("tier", 0)>>) \o End(x)
            = <<Step("drop", 0)>> \o (<<Step("tier", 0)>> \o End(x))
  BY <1>2, Joined
<1> QED BY <1>3 DEF LastSteps, Cons

LEMMA DeleteEntryWorks == ASSUME NEW v, NEW p, Works(v, p), DeleteEntry(p) PROVE Worked(p)
<1>x. PICK x : x = r[p]
  OBVIOUS
<1>n. PICK nd : nd = core[x.dir]
  OBVIOUS
<1>1. PICK k \in Index, s \in Slot : DeleteFacts(v, p, x, nd, k, s)
  BY <1>x, <1>n, DeleteStarts
<1>2. /\ Found(p, x, nd, k, s) /\ all_blocks(nd)[k] = v.at[x.dir][k]
      /\ AloneIn(nd, k) => Single(v.ent[x.dir], k, s)
  BY <1>1, DeleteReads
<1>3. PICK b : b = all_blocks(nd)[k] /\ b = v.at[x.dir][k]
  BY <1>2
<1>4. /\ x.todo # <<>> /\ Head(x.todo).do = "delete"
      /\ disk' = disk /\ imem' = imem /\ bmem' = bmem /\ core' = core
      /\ ~AloneIn(nd, k) =>
            \E t : Then(p, AimAt(x, k, b, t, disk.ents[b], s, <<Step("put", 0)>>))
      /\ AloneIn(nd, k) /\ k < Direct =>
            Then(p, AimAt(x, k, b, <<>>, x.sec, s, <<Step("drop", 0)>> \o <<>>))
      /\ AloneIn(nd, k) /\ ~(k < Direct) => InTable(p, x, nd, k, b, s)
  BY <1>2, <1>3, DeleteCases
<1>5. ASSUME NEW y, Then(p, y), NEW w, Sound(w, y, disk, imem, bmem, core) PROVE Worked(p)
  <2>1. Sound(w, y, disk', imem', bmem', core')
    BY <1>4, <1>5
  <2> QED BY <1>5, <2>1, ThenSound
<1>6. /\ Sound(v, x, disk, imem, bmem, core) /\ DOMAIN x = DOMAIN Idle
      /\ IsName(v.ent, x.dir, k, s) /\ v.ent[x.dir][k][s].ino = x.ino /\ nd = v.node[x.dir]
      /\ Tail(x.todo) = End(x) /\ End(x) \in Seq(Steps)
  BY <1>1 DEF DeleteFacts
<1>7. CASE ~AloneIn(nd, k)
  <2>1. PICK t : Then(p, AimAt(x, k, b, t, disk.ents[b], s, <<Step("put", 0)>>))
    BY <1>4, <1>7
  <2>2. PICK y : y = AimAt(x, k, b, t, disk.ents[b], s, <<Step("put", 0)>>)
    OBVIOUS
  <2>3. AimedAt(x, y, k, b, t, disk.ents[b], s, <<Step("put", 0)>>)
    BY <1>6, <2>2, Aiming
  <2>4. Like(x, y) /\ y.idx = k /\ y.slot = s /\ y.lba = v.at[x.dir][k] /\ y.sec = disk.ents[y.lba]
    BY <1>3, <2>3 DEF AimedAt
  <2>5. y.todo = Cons(Step("put", 0), Tail(x.todo))
    BY <2>3 DEF AimedAt, Cons
  <2>6. Sound(v, y, disk, imem, bmem, core)
    BY <1>4, <1>6, <2>4, <2>5, DeletesOne
  <2> QED BY <1>5, <2>1, <2>2, <2>6
<1>8. CASE AloneIn(nd, k) /\ k < Direct
  <2>1. Then(p, AimAt(x, k, b, <<>>, x.sec, s, <<Step("drop", 0)>> \o <<>>))
    BY <1>4, <1>8
  <2>2. PICK y : y = AimAt(x, k, b, <<>>, x.sec, s, <<Step("drop", 0)>> \o <<>>)
    OBVIOUS
  <2>3. AimedAt(x, y, k, b, <<>>, x.sec, s, <<Step("drop", 0)>> \o <<>>)
    BY <1>6, <2>2, Aiming
  <2>4. Like(x, y) /\ y.idx = k /\ y.slot = s /\ y.lba = v.at[x.dir][k]
    BY <1>3, <2>3 DEF AimedAt
  <2>5. y.todo = Cons(Step("drop", 0), Tail(x.todo))
    <3>1. <<Step("drop", 0)>> \in Seq(Steps)
      BY StepKinds, Before
    <3>2. <<Step("drop", 0)>> \o <<>> = <<Step("drop", 0)>>
      BY <3>1, Joined
    <3> QED BY <2>3, <3>2 DEF AimedAt, Cons
  <2>6. Single(v.ent[x.dir], k, s)
    BY <1>2, <1>8
  <2>7. Sound(v, y, disk, imem, bmem, core)
    BY <1>4, <1>6, <1>8, <2>4, <2>5, <2>6, DeletesLast
  <2> QED BY <1>5, <2>1, <2>2, <2>7
<1>9. CASE AloneIn(nd, k) /\ ~(k < Direct)
  <2>1. PICK t : /\ Omits(t, disk.tab[nd.sect[Direct]], k)
                 /\ Then(p, AimAt(x, k, b, t, x.sec, s, LastSteps(t)))
    BY <1>4, <1>9 DEF InTable
  <2>2. PICK y : y = AimAt(x, k, b, t, x.sec, s, LastSteps(t))
    OBVIOUS
  <2>3. AimedAt(x, y, k, b, t, x.sec, s, LastSteps(t))
    BY <1>6, <2>2, Aiming
  <2>4. Like(x, y) /\ y.idx = k /\ y.slot = s /\ y.lba = v.at[x.dir][k] /\ y.tier = t
    BY <1>3, <2>3 DEF AimedAt
  <2>5. Omits(y.tier, disk.tab[TableOf(v, x.dir)], k)
    BY <1>6, <2>1, <2>4 DEF TableOf
  <2>6. y.todo = Cons(Step("drop", 0), Ending(y))
    <3>1. End(y) = End(x)
      BY <2>4, LikeCall
    <3>2. y.todo = LastSteps(t) \o End(x)
      BY <1>6, <2>3 DEF AimedAt
    <3> QED BY <1>6, <2>4, <3>1, <3>2, LastList DEF Ending
  <2>7. Single(v.ent[x.dir], k, s)
    BY <1>2, <1>9
  <2>8. k >= Direct
    BY <1>9, Ranges, DiskConstants
  <2>9. PICK w : Sound(w, y, disk, imem, bmem, core)
    BY <1>4, <1>6, <2>4, <2>5, <2>6, <2>7, <2>8, DeletesIndirect
  <2> QED BY <1>5, <2>1, <2>2, <2>9
<1> QED BY <1>7, <1>8, <1>9

\* A bit of the bitmap of blocks is cleared, on the disk too.
BitsWritten(bm2, dk2) ==
    /\ dk2 \in Disk /\ dk2.inode = disk.inode /\ dk2.ibits = disk.ibits /\ dk2.ents = disk.ents
    /\ dk2.tab = disk.tab /\ dk2.bbits = bm2
LEMMA WritesBits ==
  ASSUME disk \in Disk, bmem \in SUBSET Nat, NEW bm2, bm2 \subseteq bmem
  PROVE  BitsWritten(bm2, [disk EXCEPT !.bbits = bm2])
<1>1. bm2 \in SUBSET Nat
  OBVIOUS
<1> QED BY <1>1 DEF BitsWritten, Disk

DropIn(co, d, k) == [co EXCEPT ![d].sect[k] = 0, ![d].size = @ - 1]
Lessened(nd, k) == [nd EXCEPT !.sect[k] = 0, !.size = @ - 1]
LEMMA LessenedIs ==
  ASSUME NEW nd \in Node, NEW k
  PROVE  Lessened(nd, k) = [nd EXCEPT !.sect[k] = 0, !.size = nd.size - 1]
BY DEF Node, Lessened
LEMMA DropInIs ==
  ASSUME NEW co \in [Ino -> Node], NEW d \in Ino, NEW k, NEW co2, co2 = DropIn(co, d, k)
  PROVE  DropSect(co, co2, d, k)
<1>1. DropIn(co, d, k) = [co EXCEPT ![d] = Lessened(co[d], k)]
  BY DEF DropIn, Lessened, Node
<1>2. Lessened(co[d], k) = [co[d] EXCEPT !.sect[k] = 0, !.size = co[d].size - 1]
  BY LessenedIs
<1> QED BY <1>1, <1>2 DEF DropSect

LEMMA DropBlockWorks == ASSUME NEW v, NEW p, Works(v, p), DropBlock(p) PROVE Worked(p)
<1>0. PICK x : x = r[p]
  OBVIOUS
<1>1. PICK y : y = [x EXCEPT !.todo = Tail(x.todo)]
  OBVIOUS
<1>2. PICK bm2 : bm2 = bmem \ {x.lba - 1}
  OBVIOUS
<1>3. PICK dk2 : dk2 = [disk EXCEPT !.bbits = bm2]
  OBVIOUS
<1>c. PICK co2 : co2 = DropIn(core, x.dir, x.idx)
  OBVIOUS
<1>5. /\ Then(p, y) /\ x.todo # <<>> /\ Head(x.todo).do = "drop"
      /\ disk' = dk2 /\ bmem' = bm2 /\ imem' = imem
      /\ core' = IF x.idx < Direct THEN co2 ELSE core
  <2>1. /\ Then(p, y) /\ x.todo # <<>> /\ Head(x.todo).do = "drop"
        /\ bmem' = bm2 /\ imem' = imem /\ disk' = [disk EXCEPT !.bbits = bmem']
    BY <1>0, <1>1, <1>2 DEF DropBlock, Doing, Rest, bitmap_set
  <2>2. core' = IF r[p].idx < Direct THEN DropIn(core, r[p].dir, r[p].idx) ELSE core
    BY DEF DropBlock, DropIn
  <2> QED BY <1>0, <1>3, <1>c, <2>1, <2>2
<1>6. /\ DOMAIN x = DOMAIN Idle /\ Sound(v, x, disk, imem, bmem, core) /\ disk \in Disk
      /\ bmem \in SUBSET Nat /\ core \in [Ino -> Node] /\ x.dir \in Ino
  BY <1>0, Working
<1>4. DropSect(core, co2, x.dir, x.idx)
  BY <1>6, <1>c, DropInIs
<1>7. Same(x, y) /\ y.todo = Tail(x.todo)
  BY <1>1, <1>6 DEF Same, Idle
<1>8. /\ dk2 \in Disk /\ dk2.inode = disk.inode /\ dk2.ibits = disk.ibits /\ dk2.ents = disk.ents
      /\ dk2.tab = disk.tab /\ dk2.bbits = bmem \ {x.lba - 1}
  <2>1. bm2 \subseteq bmem
    BY <1>2
  <2>2. BitsWritten(bm2, dk2)
    BY <1>3, <1>6, <2>1, WritesBits
  <2> QED BY <1>2, <2>2 DEF BitsWritten
<1>9. CASE x.idx < Direct
  <2>1. PICK w : Sound(w, y, dk2, imem, bmem \ {x.lba - 1}, co2)
    BY <1>4, <1>5, <1>6, <1>7, <1>8, <1>9, DropsDirect
  <2>2. Sound(w, y, disk', imem', bmem', core')
    BY <1>2, <1>5, <1>9, <2>1
  <2> QED BY <1>5, <2>2, ThenSound
<1>10. CASE ~(x.idx < Direct)
  <2>1. PICK w : Sound(w, y, dk2, imem, bmem \ {x.lba - 1}, core)
    BY <1>5, <1>6, <1>7, <1>8, <1>10, DropsFar
  <2>2. Sound(w, y, disk', imem', bmem', core')
    BY <1>2, <1>5, <1>10, <2>1
  <2> QED BY <1>5, <2>2, ThenSound
<1> QED BY <1>9, <1>10

LEMMA DropTableWorks == ASSUME NEW v, NEW p, Works(v, p), DropTable(p) PROVE Worked(p)
<1>0. PICK x : x = r[p]
  OBVIOUS
<1>1. PICK y : y = [x EXCEPT !.todo = Tail(x.todo)]
  OBVIOUS
<1>b. PICK bt : bt = core[x.dir].sect[Direct]
  OBVIOUS
<1>2. PICK bm2 : bm2 = bmem \ {bt - 1}
  OBVIOUS
<1>3. PICK dk2 : dk2 = [disk EXCEPT !.bbits = bm2]
  OBVIOUS
<1>c. PICK co2 : co2 = DropIn(core, x.dir, Direct)
  OBVIOUS
<1>5. /\ Then(p, y) /\ x.todo # <<>> /\ Head(x.todo).do = "droptier"
      /\ disk' = dk2 /\ bmem' = bm2 /\ imem' = imem /\ core' = co2
  <2>1. /\ Then(p, y) /\ x.todo # <<>> /\ Head(x.todo).do = "droptier"
        /\ bmem' = bm2 /\ imem' = imem /\ disk' = [disk EXCEPT !.bbits = bmem']
    BY <1>0, <1>1, <1>2, <1>b DEF DropTable, Doing, Rest, bitmap_set
  <2>2. core' = DropIn(core, r[p].dir, Direct)
    BY DEF DropTable, DropIn
  <2> QED BY <1>0, <1>3, <1>c, <2>1, <2>2
<1>6. /\ DOMAIN x = DOMAIN Idle /\ Sound(v, x, disk, imem, bmem, core) /\ disk \in Disk
      /\ bmem \in SUBSET Nat /\ core \in [Ino -> Node] /\ x.dir \in Ino
  BY <1>0, Working
<1>4. DropSect(core, co2, x.dir, Direct)
  BY <1>6, <1>c, DropInIs
<1>7. Same(x, y) /\ y.todo = Tail(x.todo)
  BY <1>1, <1>6 DEF Same, Idle
<1>8. /\ dk2 \in Disk /\ dk2.inode = disk.inode /\ dk2.ibits = disk.ibits /\ dk2.ents = disk.ents
      /\ dk2.tab = disk.tab /\ dk2.bbits = bmem \ {bt - 1}
  BY <1>2, <1>3, <1>6, WritesBits DEF BitsWritten
<1>9. PICK w : Sound(w, y, dk2, imem, bmem \ {bt - 1}, co2)
  BY <1>4, <1>5, <1>6, <1>7, <1>8, <1>b, DropsTable
<1>10. Sound(w, y, disk', imem', bmem', core')
  BY <1>2, <1>5, <1>9
<1> QED BY <1>5, <1>10, ThenSound

\* inode_release reads the blocks that the inode has.
LEMMA ReleaseReads ==
  ASSUME NEW v, NEW p, Works(v, p), Release(p), NEW x, x = r[p], NEW nd, nd = core[x.ino]
  PROVE  /\ x.todo # <<>> /\ Head(x.todo).do = "release"
         /\ disk' = disk /\ imem' = imem /\ bmem' = bmem /\ core' = core
         /\ nd.sect[Direct] = v.at[x.ino][-1]
         /\ \A k \in Index : all_blocks(nd)[k] = v.at[x.ino][k]
<1>1. /\ x.todo # <<>> /\ Head(x.todo).do = "release"
      /\ disk' = disk /\ imem' = imem /\ bmem' = bmem /\ core' = core
  BY DEF Release, Doing
<1>2. Sound(v, x, disk, imem, bmem, core) /\ disk \in Disk
  BY Working
<1>3. /\ Agrees(v, bmem, disk.ents) /\ v.tab = disk.tab /\ x.ino \in v.live /\ core[x.ino] = v.node[x.ino]
  BY <1>1, <1>2, Releasing
<1>4. Reading(v)
  BY <1>2, <1>3 DEF Reading
<1> QED BY <1>1, <1>3, <1>4, BlocksRead

FreeList(f, g) == [k \in 1 .. Direct + Indirect + 2 |->
                      IF k < Direct + Indirect + 2
                      THEN Step("free", [l \in 0 .. Direct + Indirect |->
                                           IF l = 0 THEN f ELSE g[l - 1]][k - 1])
                      ELSE Step("ifree", 0)]
LEMMA FreeListIs ==
  ASSUME NEW f, NEW g, NEW h, f = h[-1], \A k \in Index : g[k] = h[k]
  PROVE  Frees(FreeList(f, g), h)
<1>1. Last = Direct + Indirect /\ Last \in Nat /\ Index = 0 .. Last - 1
  BY Ranges DEF Last
<1>2. ASSUME NEW k \in 1 .. Last + 2, k < Last + 2
      PROVE  [l \in 0 .. Last |-> IF l = 0 THEN f ELSE g[l - 1]][k - 1] = h[k - 2]
  <2>1. k - 1 \in 0 .. Last /\ (k - 1) - 1 = k - 2
    BY <1>1, <1>2
  <2>2. CASE k - 1 = 0
    <3>1. k - 2 = -1
      BY <1>1, <2>2
    <3> QED BY <2>1, <2>2, <3>1
  <2>3. CASE k - 1 # 0
    <3>1. k - 2 \in Index
      BY <1>1, <1>2, <2>3
    <3> QED BY <2>1, <2>3, <3>1
  <2> QED BY <2>2, <2>3
<1>3. FreeList(f, g) = [k \in 1 .. Last + 2 |->
          IF k < Last + 2 THEN Step("free", [l \in 0 .. Last |-> IF l = 0 THEN f ELSE g[l - 1]][k - 1])
          ELSE Step("ifree", 0)]
  BY <1>1 DEF FreeList
<1> QED BY <1>2, <1>3 DEF Frees

LEMMA ReleaseWorks == ASSUME NEW v, NEW p, Works(v, p), Release(p) PROVE Worked(p)
<1>x. PICK x : x = r[p]
  OBVIOUS
<1>n. PICK nd : nd = core[x.ino]
  OBVIOUS
<1>t. PICK t : t = FreeList(nd.sect[Direct], all_blocks(nd))
  OBVIOUS
<1>y. PICK y : y = [x EXCEPT !.todo = t]
  OBVIOUS
<1>1. /\ x.todo # <<>> /\ Head(x.todo).do = "release"
      /\ disk' = disk /\ imem' = imem /\ bmem' = bmem /\ core' = core
      /\ nd.sect[Direct] = v.at[x.ino][-1]
      /\ \A k \in Index : all_blocks(nd)[k] = v.at[x.ino][k]
  BY <1>x, <1>n, ReleaseReads
<1>2. Frees(t, v.at[x.ino])
  BY <1>1, <1>t, FreeListIs
<1>3. Then(p, y)
  BY <1>x, <1>n, <1>t, <1>y DEF Release, FreeList
<1>4. DOMAIN x = DOMAIN Idle /\ Sound(v, x, disk, imem, bmem, core)
  BY <1>x, Working
<1>5. Same(x, y) /\ y.todo = t
  BY <1>4, <1>y DEF Same, Idle
<1>6. Frees(y.todo, v.at[x.ino])
  BY <1>2, <1>5
<1>7. PICK w : Sound(w, y, disk, imem, bmem, core)
  BY <1>1, <1>4, <1>5, <1>6, StartsRelease
<1> QED BY <1>1, <1>3, <1>7, ThenSound

LEMMA ReleaseBlockWorks == ASSUME NEW v, NEW p, Works(v, p), ReleaseBlock(p) PROVE Worked(p)
<1>0. PICK x : x = r[p]
  OBVIOUS
<1>b. PICK b : b = Head(x.todo).on
  OBVIOUS
<1>1. PICK y : y = [x EXCEPT !.todo = Tail(x.todo)]
  OBVIOUS
<1>6. /\ DOMAIN x = DOMAIN Idle /\ Sound(v, x, disk, imem, bmem, core) /\ disk \in Disk
      /\ bmem \in SUBSET Nat /\ disk.bbits = bmem
  BY <1>0, Working
<1>2. PICK bm2 : bm2 = IF b = 0 THEN bmem ELSE bmem \ {b - 1}
  OBVIOUS
<1>3. PICK dk2 : dk2 = [disk EXCEPT !.bbits = bm2]
  OBVIOUS
<1>5. /\ Then(p, y) /\ x.todo # <<>> /\ Head(x.todo).do = "free"
      /\ disk' = dk2 /\ bmem' = bm2 /\ imem' = imem /\ core' = core
  <2>1. /\ Then(p, y) /\ x.todo # <<>> /\ Head(x.todo).do = "free" /\ bmem' = bm2
        /\ imem' = imem /\ core' = core
        /\ disk' = [disk EXCEPT !.bbits = IF b = 0 THEN disk.bbits ELSE bmem']
    BY <1>0, <1>1, <1>2, <1>b DEF ReleaseBlock, Doing, Rest, bitmap_set
  <2>2. (IF b = 0 THEN disk.bbits ELSE bmem') = bm2
    BY <1>2, <1>6, <2>1
  <2> QED BY <1>3, <2>1, <2>2
<1>7. Same(x, y) /\ y.todo = Tail(x.todo)
  BY <1>1, <1>6 DEF Same, Idle
<1>8. BlockFreed(disk, dk2, bmem, bm2, b)
  <2>1. bm2 \subseteq bmem
    BY <1>2
  <2>2. BitsWritten(bm2, dk2)
    BY <1>3, <1>6, <2>1, WritesBits
  <2> QED BY <1>2, <2>2 DEF BlockFreed, BitsWritten
<1>a. SoundOn(y, dk2, imem, bm2, core)
  BY <1>5, <1>6, <1>7, <1>8, <1>b, ReleasesBlock
<1>9. PICK w : Sound(w, y, dk2, imem, bm2, core)
  BY <1>a DEF SoundOn
<1> QED BY <1>5, <1>9, ThenSound

LEMMA ReleaseInodeWorks == ASSUME NEW v, NEW p, Works(v, p), ReleaseInode(p) PROVE Worked(p)
<1>0. PICK x : x = r[p]
  OBVIOUS
<1>1. PICK y : y = [x EXCEPT !.todo = Tail(x.todo)]
  OBVIOUS
<1>2. PICK im2 : im2 = imem \ {x.ino}
  OBVIOUS
<1>3. PICK dk2 : dk2 = [disk EXCEPT !.ibits = im2]
  OBVIOUS
<1>5. /\ Then(p, y) /\ x.todo # <<>> /\ Head(x.todo).do = "ifree"
      /\ disk' = dk2 /\ bmem' = bmem /\ imem' = im2 /\ core' = dir_close(p)
  BY <1>0, <1>1, <1>2, <1>3 DEF ReleaseInode, Doing, Rest, bitmap_set
<1>6. DOMAIN x = DOMAIN Idle /\ Sound(v, x, disk, imem, bmem, core) /\ disk \in Disk
  BY <1>0, Working
<1>7. y.todo = Tail(x.todo)
  BY <1>1, <1>6 DEF Idle
<1>8. NumberFreed(disk, dk2, imem, im2, x.ino)
  <2>1. im2 \in SUBSET Nat
    BY <1>2, <1>6, InodesInUse
  <2> QED BY <1>2, <1>3, <1>6, <2>1 DEF Disk, NumberFreed
<1>9. PICK co2 \in [Ino -> Node] : co2 = dir_close(p) /\ co2[0] = core[0]
  BY Closing
<1>10. Tail(x.todo) = <<>> /\ SoundOn(Idle, dk2, im2, bmem, co2)
  BY <1>5, <1>6, <1>8, <1>9, ReleasesInode
<1>11. r'[p] = IF y.todo = <<>> THEN Idle ELSE y
  BY <1>5, ThenSound
<1>12. r'[p] = Idle
  BY <1>7, <1>10, <1>11
<1> QED BY <1>5, <1>9, <1>10, <1>12 DEF Worked, SoundOn

-----------------------------------------------------------------------------
\* Process p is alone, and begins a call.
Solo(p) == \A q \in Proc \ {p} : r[q] = Idle
Beginning(v, p) ==
    /\ Rested(v, disk, imem, bmem, core) /\ Reading(v) /\ Dirs = v.dirs /\ Opened = {0}
    /\ core \in [Ino -> Node] /\ v.node \in [Ino -> Node] /\ v.dirs \subseteq Ino /\ imem = v.live
    /\ Sound(v, Idle, disk, imem, bmem, core)
    /\ \A j \in Ino : v.node[j] = disk.inode[j]
    /\ \A j \in Ino : inode_open(j) = [core EXCEPT ![j] = v.node[j]]
    /\ \A j \in Ino : Dir(j) = v.node[j]

LEMMA Begins ==
  ASSUME NEW v, NEW p, Works(v, p), Solo(p), r[p] = Idle
  PROVE  Beginning(v, p)
<1>1. Sound(v, Idle, disk, imem, bmem, core)
  BY DEF Works
<1>2. Rested(v, disk, imem, bmem, core)
  BY <1>1, AtRest
<1>3. Reading(v) /\ v.pend = 0 /\ Synced(v, disk, {}) /\ imem = v.live /\ core[0] = v.node[0]
  BY <1>2 DEF Rested, Reading
<1>4. Dirs = v.dirs
  BY <1>3, DirsRead
<1>5. core \in [Ino -> Node] /\ v.node \in [Ino -> Node] /\ v.dirs \subseteq Ino
  BY <1>2 DEF Rested, Sees, Agrees, Types
<1>6. \A q \in Proc : r[q].dir = 0 /\ r[q].ino = 0
  BY DEF Solo, Idle
<1>7. Opened = {0}
  BY <1>6 DEF Opened
<1>8. \A j \in Ino : v.node[j] = disk.inode[j]
  BY <1>3 DEF Synced
<1>9. ASSUME NEW j \in Ino PROVE inode_open(j) = [core EXCEPT ![j] = v.node[j]]
  <2>1. CASE j = 0
    <3>1. inode_open(j) = core
      BY <1>7, <2>1 DEF inode_open
    <3>2. PICK nd : nd = v.node[j] /\ nd = core[j]
      BY <1>3, <2>1
    <3>3. [core EXCEPT ![j] = nd] = core
      BY <1>5, <3>2
    <3> QED BY <3>1, <3>2, <3>3
  <2>2. CASE j # 0
    BY <1>7, <1>8, <2>2 DEF inode_open
  <2> QED BY <2>1, <2>2
<1>10. \A j \in Ino : Dir(j) = v.node[j]
  BY <1>5, <1>9 DEF Dir
<1> QED BY <1>1, <1>2, <1>3, <1>4, <1>5, <1>7, <1>8, <1>9, <1>10 DEF Beginning

\* An inode is opened for the call.
LEMMA Brings ==
  ASSUME NEW v, NEW p, Beginning(v, p), NEW d \in Ino
  PROVE  /\ inode_open(d) \in [Ino -> Node] /\ Brought(disk, core, inode_open(d), d)
         /\ v.node[d] = disk.inode[d]
<1>1. /\ core \in [Ino -> Node] /\ v.node \in [Ino -> Node] /\ v.node[d] = disk.inode[d]
      /\ inode_open(d) = [core EXCEPT ![d] = v.node[d]] /\ core[0] = v.node[0]
  BY DEF Beginning, Rested
<1>2. PICK nd \in Node : nd = v.node[d]
  BY <1>1
<1>3. PICK co2 : co2 = inode_open(d) /\ co2 = [core EXCEPT ![d] = nd]
  BY <1>1, <1>2
<1>4. co2 \in [Ino -> Node] /\ co2[d] = nd /\ co2[0] = core[0]
  BY <1>1, <1>2, <1>3, Ranges
<1> QED BY <1>1, <1>2, <1>3, <1>4 DEF Brought

LEMMA NewNameWorks ==
  ASSUME NEW v, NEW p, Works(v, p), Solo(p), NEW op \in {"create", "mkdir"}, NEW d \in Ino,
         NEW n \in Name, NewName(p, op, d, n)
  PROVE  Worked(p)
<1>i. PICK i : i = inode_bitmap_alloc
  OBVIOUS
<1>e. PICK e : e = [name |-> n, ino |-> i, type |-> IF op = "mkdir" THEN "dir" ELSE "file"]
  OBVIOUS
<1>t. PICK t : t = IF op = "mkdir" THEN mkdir_steps(d, i) ELSE file_create_steps(d, i)
  OBVIOUS
<1>y. PICK y : y = [Idle EXCEPT !.op = op, !.dir = d, !.ino = i, !.ent = e, !.todo = t]
  OBVIOUS
<1>1. /\ r[p] = Idle /\ d \in Dirs /\ i # -1 /\ bmem' = bmem
      /\ imem' = bitmap_set(imem, i, 1)
      /\ disk' = (IF op = "mkdir" THEN [disk EXCEPT !.ibits = imem'] ELSE disk)
      /\ core' = [inode_open(d) EXCEPT ![i] = inode_init]
      /\ r' = [r EXCEPT ![p] = y]
  BY <1>i, <1>e, <1>t, <1>y DEF NewName
<1>2. Beginning(v, p)
  BY <1>1, Begins
<1>3. d \in v.dirs /\ imem = v.live /\ Sound(v, Idle, disk, imem, bmem, core) /\ disk \in Disk
  BY <1>1, <1>2 DEF Beginning, Rested
<1>4. 0 \in imem /\ d \in imem /\ imem \in SUBSET Nat
  <2>1. v.dirs \subseteq v.live /\ 0 \in v.dirs
    BY <1>3 DEF Sound, Sees, Agrees, Types
  <2> QED BY <1>3, <2>1, InodesInUse
<1>5. i \in Ino \ imem
  <2>1. setup.inodes \in 1 .. Inodes /\ Inodes \in Nat
    BY FsDiskAssumption DEF Works
  <2>2. setup.inodes \in Nat
    BY <2>1
  <2>3. i \in 0 .. setup.inodes - 1 /\ i \notin imem
    BY <1>i, <1>1, <2>2, ScanOne DEF inode_bitmap_alloc
  <2> QED BY <2>1, <2>3 DEF Ino
<1>6. PICK im2 : im2 = imem \cup {i} /\ im2 \in SUBSET Nat
  <2>1. i \in Nat
    BY <1>5, DiskConstants DEF Ino
  <2>2. imem \cup {i} \in SUBSET Nat
    BY <1>4, <2>1
  <2> QED BY <2>2
<1>7. PICK dk2 : dk2 = IF op = "mkdir" THEN [disk EXCEPT !.ibits = im2] ELSE disk
  OBVIOUS
<1>8. PICK co1 : co1 = inode_open(d) /\ co1 \in [Ino -> Node] /\ Brought(disk, core, co1, d)
  BY <1>2, Brings
<1>9. PICK co2 : co2 = [co1 EXCEPT ![i] = inode_init]
  OBVIOUS
<1>10. imem' = im2 /\ disk' = dk2 /\ core' = co2 /\ r'[p] = y
  <2>1. imem' = im2
    BY <1>1, <1>6 DEF bitmap_set
  <2>2. disk' = dk2
    BY <1>1, <1>7, <2>1
  <2>3. core' = co2
    BY <1>1, <1>8, <1>9
  <2>4. r'[p] = y
    BY <1>1 DEF Works
  <2> QED BY <2>1, <2>2, <2>3, <2>4
<1>11. co2 \in [Ino -> Node] /\ Brought(disk, core, co2, d) /\ co2[i] = inode_init
  <2>1. inode_init \in Node
    BY NothingBelongs
  <2> QED BY <1>4, <1>5, <1>8, <1>9, <2>1 DEF Brought
<1>12. /\ DOMAIN y = DOMAIN Idle /\ y.op = op /\ y.dir = d /\ y.ino = i /\ y.ent = e
       /\ y.idx = 0 /\ y.tier = <<>> /\ y.todo = t
  BY <1>y DEF Idle
<1>13. e \in Entry /\ e.name \in Name /\ e.ino = i /\ e.type = IF op = "mkdir" THEN "dir" ELSE "file"
  BY <1>e, <1>5 DEF Entry
<1>14. Naming(y, d, i)
  BY <1>t, <1>12, <1>13 DEF Naming
<1>15. Numbered(y, imem, im2, disk, dk2, i)
  <2>1. /\ dk2 \in Disk /\ dk2.ibits = IF op = "mkdir" THEN im2 ELSE disk.ibits
        /\ dk2.bbits = disk.bbits /\ dk2.inode = disk.inode /\ dk2.ents = disk.ents
        /\ dk2.tab = disk.tab
    BY <1>3, <1>6, <1>7 DEF Disk
  <2> QED BY <1>6, <1>12, <2>1 DEF Numbered
<1>16. PICK w : Sound(w, y, dk2, im2, bmem, co2)
  BY <1>3, <1>5, <1>11, <1>14, <1>15, StartsName
<1> QED BY <1>1, <1>10, <1>16 DEF Worked

\* An entry that is read in a directory
LEMMA EntryRead ==
  ASSUME NEW v, NEW p, Beginning(v, p), NEW d \in Dirs, NEW e \in Entries(Dir(d)),
         e.type = "file" \/ e.name \in Name
  PROVE  Names1(v, d, e.ino, e) /\ d \in v.dirs
<1>1. d \in v.dirs /\ d \in Ino /\ Reading(v) /\ Dir(d) = v.node[d] /\ Agrees(v, bmem, disk.ents)
  BY DEF Beginning, Rested
<1>2. e \in {v.ent[d][y[1]][y[2]] : y \in Filled(v.ent[d])}
  BY <1>1, EntriesRead
<1>3. PICK k \in Index, s \in Slot : e = v.ent[d][k][s] /\ e # Free
  BY <1>2 DEF Filled
<1>4. v.ent[d][0][1] = [name |-> ".", ino |-> d, type |-> "dir"] /\ v.ent[d][0][2].type = "dir"
      /\ v.ent[d][0][2].name = ".."
  BY <1>1 DEF Agrees, Tree, Dotted
<1>5. v.ent[d][0][1].type = "dir" /\ v.ent[d][0][1].name = "."
  BY <1>4
<1>6. "." \notin Name /\ ".." \notin Name
  BY FsDiskAssumption
<1>7. <<k, s>> \notin DotPlaces
  BY <1>3, <1>4, <1>5, <1>6 DEF DotPlaces
<1>8. IsName(v.ent, d, k, s)
  BY <1>3, <1>7 DEF IsName
<1> QED BY <1>1, <1>3, <1>8 DEF Names1

LEMMA NamedFile ==
  ASSUME NEW v, NEW m, NEW e, Agrees(v, m, e), NEW d \in v.dirs, NEW f, NEW i, Names1(v, d, i, f)
  PROVE  i \in v.live /\ i # 0 /\ i \in Ino /\ (f.type = "file" => i \notin v.dirs)
<1>1. PICK k \in Index, s \in Slot : IsName(v.ent, d, k, s) /\ v.ent[d][k][s] = f /\ f.ino = i
  BY DEF Names1
<1>2. /\ v.ent[d][k][s].ino \in v.live \ {0, v.pend}
      /\ \/ v.ent[d][k][s].type = "dir"
         \/ v.ent[d][k][s].type = "file" /\ v.ent[d][k][s].ino \notin v.dirs
  BY <1>1, Zenon DEF Agrees, Types, Tree, NamesLive
<1>3. v.live \subseteq Ino
  BY DEF Agrees, Types
<1> QED BY <1>1, <1>2, <1>3

LEMMA FirstBlockWorks ==
  ASSUME NEW v, NEW p, Works(v, p), Solo(p), NEW d \in Ino, NEW i \in Ino, FirstBlock(p, d, i)
  PROVE  Worked(p)
<1>y. PICK y : y = [Idle EXCEPT !.op = "append", !.ino = i,
                        !.todo = <<Step("alloc", 0), Step("data", 0)>> \o inode_sync(i)]
  OBVIOUS
<1>1. /\ r[p] = Idle /\ d \in Dirs /\ disk.inode[i].size = 0 /\ core' = inode_open(i)
      /\ disk' = disk /\ imem' = imem /\ bmem' = bmem /\ r' = [r EXCEPT ![p] = y]
  BY <1>y DEF FirstBlock
<1>2. PICK e \in Entries(Dir(d)) : e.ino = i /\ e.type = "file"
  BY DEF FirstBlock
<1>3. Beginning(v, p)
  BY <1>1, Begins
<1>4. Names1(v, d, i, e) /\ d \in v.dirs
  BY <1>1, <1>2, <1>3, EntryRead
<1>5. Agrees(v, bmem, disk.ents) /\ Sound(v, Idle, disk, imem, bmem, core)
  BY <1>3 DEF Beginning, Rested
<1>6. i \in v.live \ v.dirs
  BY <1>2, <1>4, <1>5, NamedFile
<1>7. PICK co2 : co2 = inode_open(i) /\ co2 \in [Ino -> Node] /\ Brought(disk, core, co2, i)
  BY <1>3, Brings
<1>8. Appending(y, i)
  BY <1>y DEF Appending, Idle
<1>9. Sound(v, y, disk, imem, bmem, co2)
  BY <1>1, <1>5, <1>6, <1>7, <1>8, StartsAppend
<1>10. r'[p] = y
  BY <1>1 DEF Works
<1> QED BY <1>1, <1>7, <1>9, <1>10 DEF Worked

LEMMA RemoveWorks ==
  ASSUME NEW v, NEW p, Works(v, p), Solo(p), NEW op \in {"unlink", "rmdir"}, NEW d \in Ino,
         NEW n \in Name, Remove(p, op, d, n)
  PROVE  Worked(p)
<1>1. PICK e \in Search(Dir(d), n) :
         /\ r[p] = Idle /\ d \in Dirs
         /\ \/ op = "unlink" /\ e.type = "file"
            \/ op = "rmdir" /\ e.type = "dir" /\ dir_is_empty(inode_open(e.ino)[e.ino])
         /\ core' = [core EXCEPT ![d] = Dir(d), ![e.ino] = inode_open(e.ino)[e.ino]]
         /\ r' = [r EXCEPT ![p] = [Idle EXCEPT !.op = op, !.dir = d, !.ino = e.ino,
                     !.todo = (<<Step("delete", 0)>> \o inode_sync(d)) \o <<Step("release", 0)>>]]
         /\ disk' = disk /\ imem' = imem /\ bmem' = bmem
  BY DEF Remove
<1>i. PICK i : i = e.ino
  OBVIOUS
<1>2. Beginning(v, p)
  BY <1>1, Begins
<1>3. e \in Entries(Dir(d)) /\ e.name \in Name
  BY DEF Search
<1>4. Names1(v, d, i, e) /\ d \in v.dirs
  BY <1>1, <1>2, <1>3, <1>i, EntryRead
<1>5. Agrees(v, bmem, disk.ents) /\ Sound(v, Idle, disk, imem, bmem, core) /\ core \in [Ino -> Node]
  BY <1>2 DEF Beginning, Rested
<1>6. i \in Ino /\ i # 0
  BY <1>4, <1>5, NamedFile
<1>7. /\ Dir(d) = v.node[d] /\ inode_open(i) = [core EXCEPT ![i] = v.node[i]]
      /\ v.node[d] = disk.inode[d] /\ v.node[i] = disk.inode[i] /\ core[0] = v.node[0]
      /\ v.node \in [Ino -> Node]
  BY <1>2, <1>6 DEF Beginning, Rested
<1>8. PICK nd \in Node : nd = v.node[d]
  BY <1>7
<1>9. PICK nc \in Node : nc = v.node[i]
  BY <1>6, <1>7
<1>10. inode_open(i)[i] = nc
  BY <1>5, <1>6, <1>7, <1>9
<1>11. PICK co1 : co1 = [core EXCEPT ![d] = nd]
  OBVIOUS
<1>12. PICK co2 : co2 = [co1 EXCEPT ![i] = nc]
  OBVIOUS
<1>13. core' = co2
  <2>1. core' = [core EXCEPT ![d] = nd, ![i] = nc]
    BY <1>1, <1>7, <1>8, <1>10, <1>i
  <2> QED BY <1>5, <1>6, <1>11, <1>12, <2>1
<1>14. /\ co2 \in [Ino -> Node] /\ Brought(disk, core, co2, d) /\ Brought(disk, core, co2, i)
  <2>1. co1 \in [Ino -> Node] /\ co1[d] = nd /\ \A j \in Ino \ {d} : co1[j] = core[j]
    BY <1>5, <1>11
  <2>2. /\ co2 \in [Ino -> Node] /\ co2[i] = nc /\ \A j \in Ino \ {i} : co2[j] = co1[j]
    BY <1>6, <1>12, <2>1
  <2>3. co2[0] = core[0]
    BY <1>6, <1>7, <1>8, <2>1, <2>2, Ranges
  <2>4. co2[d] = nd
    BY <1>8, <1>9, <2>1, <2>2
  <2> QED BY <1>7, <1>8, <1>9, <2>2, <2>3, <2>4 DEF Brought
<1>15. PICK y : y = [Idle EXCEPT !.op = op, !.dir = d, !.ino = i,
                  !.todo = (<<Step("delete", 0)>> \o inode_sync(d)) \o <<Step("release", 0)>>]
  OBVIOUS
<1>16. Removing(y, d, i)
  BY <1>15 DEF Removing, Idle
<1>17. Removable(disk, i, e)
  BY <1>1, <1>7, <1>9, <1>10, <1>i DEF Removable, dir_is_empty
<1>18. Sound(v, y, disk, imem, bmem, co2)
  BY <1>4, <1>5, <1>14, <1>16, <1>17, StartsRemove
<1>19. r'[p] = y
  BY <1>1, <1>15, <1>i DEF Works
<1> QED BY <1>1, <1>13, <1>18, <1>19 DEF Worked

LEMMA MountWorks ==
  ASSUME NEW v, NEW p, Works(v, p), r[p] = Idle, Mount
  PROVE  Worked(p)
<1>1. PICK co2 : co2 = [i \in Ino |-> IF i = 0 THEN disk.inode[0] ELSE inode_init]
  OBVIOUS
<1>2. /\ imem' = disk.ibits /\ bmem' = disk.bbits /\ core' = co2 /\ disk' = disk
      /\ r' = [q \in Proc |-> Idle]
  BY <1>1 DEF Mount
<1>3. Sound(v, Idle, disk, imem, bmem, core) /\ disk \in Disk
  BY Working DEF Works
<1>4. co2 \in [Ino -> Node] /\ co2[0] = disk.inode[0]
  BY <1>1, <1>3, NothingBelongs, Ranges DEF Disk
<1>5. Sound(v, Idle, disk, disk.ibits, disk.bbits, co2)
  BY <1>3, <1>4, Remounts
<1>6. r'[p] = Idle
  BY <1>2 DEF Works
<1> QED BY <1>2, <1>5, <1>6 DEF Worked

-----------------------------------------------------------------------------
\* A new partition
RootIs(nd) ==
    /\ nd \in Node /\ nd.size = 2 /\ \A k \in 0 .. Direct : nd.sect[k] = IF k = 0 THEN 1 ELSE 0
LEMMA RootNode == RootIs(Root) /\ inode_init \in Node /\ \A k \in 0 .. Direct : inode_init.sect[k] = 0
<1>1. PICK z : z = [k \in 0 .. Direct |-> 0]
  OBVIOUS
<1>2. PICK v : v = [inode_init EXCEPT !.size = 2]
  OBVIOUS
<1>3. v = [size |-> 2, sect |-> z]
  BY <1>1, <1>2 DEF inode_init
<1>4. Root = [v EXCEPT !.sect[0] = 1]
  BY <1>2 DEF Root
<1>5. Root = [size |-> 2, sect |-> [z EXCEPT ![0] = 1]]
  BY <1>3, <1>4
<1>6. PICK w : w = [z EXCEPT ![0] = 1]
  OBVIOUS
<1>7. w \in [0 .. Direct -> 0 .. Blocks] /\ \A k \in 0 .. Direct : w[k] = IF k = 0 THEN 1 ELSE 0
  BY <1>1, <1>6, DiskConstants
<1>8. Root.sect = w /\ Root \in Node /\ Root.size = 2
  BY <1>5, <1>6, <1>7 DEF Node
<1>9. inode_init \in Node /\ \A k \in 0 .. Direct : inode_init.sect[k] = 0
  BY NothingBelongs DEF inode_init
<1> QED BY <1>7, <1>8, <1>9 DEF RootIs

\* The root alone
NewDisk(dk, co) ==
    /\ dk = [ibits |-> {0}, bbits |-> {0},
             inode |-> [i \in Ino |-> IF i = 0 THEN Root ELSE inode_init],
             ents |-> [b \in Block |-> IF b = 1 THEN Dots(0, 0) ELSE ZeroSector],
             tab |-> [b \in Block |-> ZeroTable]]
    /\ co = [i \in Ino |-> IF i = 0 THEN Root ELSE inode_init]
NewView(v) ==
    /\ v.node = [i \in Ino |-> IF i = 0 THEN Root ELSE inode_init]
    /\ v.tab = [b \in Block |-> ZeroTable] /\ v.live = {0} /\ v.dirs = {0}
    /\ v.at = [i \in Ino |-> [k \in Where |-> IF i = 0 /\ k = 0 THEN 1 ELSE 0]]
    /\ v.ent = [i \in Ino |-> [k \in Index |-> IF i = 0 /\ k = 0 THEN Dots(0, 0) ELSE ZeroSector]]
    /\ v.hand = {} /\ v.pend = 0 /\ v.late = -1

LEMMA DotsAre ==
  /\ Dots(0, 0) \in Sector
  /\ Dots(0, 0)[1] = [name |-> ".", ino |-> 0, type |-> "dir"]
  /\ Dots(0, 0)[2] = [name |-> "..", ino |-> 0, type |-> "dir"]
  /\ \A s \in Slot \ {1, 2} : Dots(0, 0)[s] = Free
<1>1. 1 \in Slot /\ 2 \in Slot /\ 0 \in Ino /\ Slot \subseteq Nat
  BY Ranges
<1>2. PICK a : a = [name |-> ".", ino |-> 0, type |-> "dir"]
  OBVIOUS
<1>3. PICK b : b = [name |-> "..", ino |-> 0, type |-> "dir"]
  OBVIOUS
<1>4. Dots(0, 0) = [s \in Slot |-> CASE s = 1 -> a [] s = 2 -> b [] OTHER -> Free]
  BY <1>2, <1>3 DEF Dots
<1>5. Dots(0, 0) = [s \in Slot |-> IF s = 1 THEN a ELSE IF s = 2 THEN b ELSE Free]
  BY <1>4
<1>6. Dots(0, 0) \in Sector
  BY <1>1, DotsSector
<1> QED BY <1>1, <1>2, <1>3, <1>5, <1>6

LEMMA NewAgrees ==
  ASSUME NEW v, NewView(v), NEW dk, NEW co, NewDisk(dk, co)
  PROVE  Agrees(v, {0}, dk.ents)
<1> USE DEF NewView
<1>1. 0 \in Ino /\ 0 \in Where /\ 0 \in Index /\ 1 \in Block /\ -1 \in Where /\ -1 \notin Index
  BY Ranges, DiskConstants DEF Block, Index
<1>2. /\ \A i \in Ino, k \in Where : v.at[i][k] = IF i = 0 /\ k = 0 THEN 1 ELSE 0
      /\ \A i \in Ino, k \in Index :
            v.ent[i][k] = IF i = 0 /\ k = 0 THEN Dots(0, 0) ELSE ZeroSector
  OBVIOUS
<1>3. Types(v)
  <2>1. v.node \in [Ino -> Node]
    BY RootNode DEF RootIs
  <2>2. v.tab \in [Block -> Table]
    BY NothingBelongs, ZenonT(30)
  <2>3. v.at \in [Ino -> [Where -> 0 .. Blocks]]
    <3>1. 0 \in 0 .. Blocks /\ 1 \in 0 .. Blocks
      BY DiskConstants
    <3> QED BY <3>1
  <2>4. v.ent \in [Ino -> [Index -> Sector]]
    <3>1. Dots(0, 0) \in Sector /\ ZeroSector \in Sector
      BY DotsAre, Zeros
    <3> QED BY <3>1
  <2> QED BY <1>1, <2>1, <2>2, <2>3, <2>4 DEF Types
<1>4. Owned(v.at, v.hand, {0})
  BY <1>1, <1>2 DEF Owned
<1>5. Laid(v.at, v.node, v.tab, v.live)
  <2>1. ASSUME NEW i \in Ino PROVE IF i \in v.live THEN Names(v.at[i], v.node[i], v.tab) ELSE v.at[i] = Blank
    <3>1. CASE i = 0
      <4>1. v.node[i] = Root
        BY <3>1
      <4>2. \A k \in 0 .. Direct - 1 : k \in Where /\ k \in 0 .. Direct
        BY DiskConstants DEF Where, Last
      <4>3. \A k \in Direct .. Last - 1 : k \in Where /\ k # 0
        BY DiskConstants DEF Where, Last
      <4>4. Direct \in 0 .. Direct /\ Direct # 0
        BY DiskConstants
      <4> QED BY <1>1, <1>2, <3>1, <4>1, <4>2, <4>3, <4>4, RootNode DEF Names, RootIs
    <3>2. CASE i # 0
      <4>1. v.at[i] = [k \in Where |-> 0]
        BY <3>2
      <4> QED BY <3>2, <4>1 DEF Blank
    <3> QED BY <3>1, <3>2
  <2> QED BY <2>1 DEF Laid
<1>6. Shown(v.at, v.ent, v.dirs, dk.ents)
  <2>1. dk.ents = [b \in Block |-> IF b = 1 THEN Dots(0, 0) ELSE ZeroSector]
    BY DEF NewDisk
  <2>2. ASSUME NEW i \in Ino, i # 0 PROVE v.ent[i] = Empty
    BY <2>2 DEF Empty
  <2>3. \A k \in Index : k \in Where
    BY Ranges
  <2> QED BY <1>1, <1>2, <2>1, <2>2, <2>3 DEF Shown
<1>7. \A i \in Ino, k \in Index, s \in Slot : ~IsName(v.ent, i, k, s)
  BY <1>2, DotsAre, Zeros DEF IsName, DotPlaces
<1>8. Tree(v.ent, v.dirs, v.live, v.pend)
  <2>1. v.ent[0][0] = Dots(0, 0)
    BY <1>1, <1>2
  <2>2. Dotted(v.ent, v.dirs)
    <3>1. v.ent[0][0][2] = [name |-> "..", ino |-> 0, type |-> "dir"]
      BY <2>1, DotsAre
    <3>2. v.ent[0][0][2].name = ".." /\ v.ent[0][0][2].type = "dir" /\ v.ent[0][0][2].ino = 0
      BY <3>1
    <3> QED BY <2>1, <3>2, DotsAre DEF Dotted
  <2>3. NamesLive(v.ent, v.dirs, v.live, v.pend) /\ NamedOnce(v.ent)
    BY <1>7 DEF NamesLive, NamedOnce
  <2>4. Reached(v.ent, v.dirs, v.pend)
    BY DEF Reached
  <2> QED BY <2>2, <2>3, <2>4 DEF Tree
<1>9. Sizes(v.node, v.ent, v.dirs, v.late)
  <2>1. JustDots(v.ent[0], 0, 0)
    BY <1>1, <1>2 DEF JustDots
  <2>2. Cardinality(Filled(v.ent[0])) = 2
    BY <2>1, FilledDots, TwoDots
  <2>3. v.node[0].size = 2
    BY <1>1, RootNode DEF RootIs
  <2> QED BY <2>2, <2>3 DEF Sizes
<1>10. EmptyFiles(v.node, v.at, v.dirs, v.live)
  BY DEF EmptyFiles
<1> QED BY <1>3, <1>4, <1>5, <1>6, <1>8, <1>9, <1>10 DEF Agrees

LEMMA NewSound ==
  ASSUME NEW dk, NEW co, NewDisk(dk, co)
  PROVE  \E v : Sound(v, Idle, dk, {0}, {0}, co)
<1>1. PICK v : v = [node |-> [i \in Ino |-> IF i = 0 THEN Root ELSE inode_init],
          tab |-> [b \in Block |-> ZeroTable], live |-> {0}, dirs |-> {0},
          at |-> [i \in Ino |-> [k \in Where |-> IF i = 0 /\ k = 0 THEN 1 ELSE 0]],
          ent |-> [i \in Ino |-> [k \in Index |-> IF i = 0 /\ k = 0 THEN Dots(0, 0) ELSE ZeroSector]],
          hand |-> {}, pend |-> 0, late |-> -1]
  OBVIOUS
<1>2. NewView(v)
  BY <1>1 DEF NewView
<1> HIDE <1>1
<1>3. Agrees(v, {0}, dk.ents)
  BY <1>2, NewAgrees
<1>4. /\ DOMAIN dk = {"ibits", "bbits", "inode", "ents", "tab"}
      /\ dk.ibits = {0} /\ dk.bbits = {0} /\ co = dk.inode /\ dk.inode = v.node /\ dk.tab = v.tab
      /\ dk.ents = [b \in Block |-> IF b = 1 THEN Dots(0, 0) ELSE ZeroSector]
      /\ dk = [ibits |-> dk.ibits, bbits |-> dk.bbits, inode |-> dk.inode, ents |-> dk.ents,
               tab |-> dk.tab]
  BY <1>2 DEF NewDisk, NewView
<1>5. v.node \in [Ino -> Node] /\ v.tab \in [Block -> Table]
  BY <1>3 DEF Agrees, Types
<1>6. dk.ents \in [Block -> Sector]
  BY <1>4, DotsAre, Zeros
<1>7. dk \in Disk
  <2>1. {0} \in SUBSET Nat
    OBVIOUS
  <2> QED BY <1>4, <1>5, <1>6, <2>1 DEF Disk
<1>8. \A b \in Block, s \in Slot : dk.ents[b][s].type = "unknown" => dk.ents[b][s] = Free
  <2>1. \A s \in Slot : Dots(0, 0)[s].type = "unknown" => Dots(0, 0)[s] = Free
    BY Ranges, DotsSector
  <2> QED BY <1>4, <2>1, Zeros
<1>9. Sees(v, Idle, dk, {0}, co)
  <2>1. DOMAIN Idle = DOMAIN Idle /\ Idle.dir = 0 /\ Idle.ino = 0
    BY DEF Idle
  <2> QED BY <1>3, <1>4, <1>5, <1>7, <1>8, <2>1, Ranges DEF Sees
<1>10. Resting(v, Idle, dk, {0})
  BY <1>2, <1>4 DEF NewView, Resting, Synced
<1> QED BY <1>9, <1>10 DEF Sound, Phase

-----------------------------------------------------------------------------
\* One process makes the calls, and there is a view of the tree as it works on it.
Treed(p) == SoundOn(r[p], disk, imem, bmem, core)
TreeInv == Alone => failed = 0 /\ (~fault => \A p \in Proc : setup.users = {p} => Treed(p))

\* sys_mkdir finds room for its entry.
Room == \A p \in Proc : r[p].op = "mkdir" => ~NoRoom(p)

\* A step of process p, whatever the call
Steps1(p) ==
    \/ SyncLoad(p) \/ SyncStore(p) \/ SyncInodeBits(p)
    \/ Alloc(p) \/ WriteDots(p) \/ WriteData(p)
    \/ FindBlock(p) \/ NoRoom(p) \/ ZeroBlock(p) \/ PutEntry(p) \/ WriteTable(p)
    \/ DeleteEntry(p) \/ DropBlock(p) \/ DropTable(p)
    \/ Release(p) \/ ReleaseBlock(p) \/ ReleaseInode(p)
Starts1(p) ==
    \/ \E d \in Ino, n \in setup.names :
          \/ NewName(p, "create", d, n) \/ NewName(p, "mkdir", d, n)
          \/ Remove(p, "unlink", d, n) \/ Remove(p, "rmdir", d, n)
    \/ \E d, i \in Ino : FirstBlock(p, d, i)

LEMMA CallIs ==
  ASSUME Call
  PROVE  (\E p \in setup.users : Starts1(p) \/ Steps1(p)) /\ ~fault /\ failed' = failed
<1>1. PICK p \in setup.users : Starts1(p) \/ Steps1(p)
  BY DEF Call, Starts1, Steps1
<1>2. ASSUME NEW d, NEW n, NEW op, NewName(p, op, d, n) \/ Remove(p, op, d, n)
      PROVE  ~fault /\ failed' = failed
  BY <1>2 DEF NewName, Remove
<1>3. ASSUME NEW d, NEW i, FirstBlock(p, d, i) PROVE ~fault /\ failed' = failed
  BY <1>3 DEF FirstBlock
<1>4. ASSUME \/ SyncLoad(p) \/ SyncStore(p) \/ SyncInodeBits(p)
             \/ Alloc(p) \/ WriteDots(p) \/ WriteData(p)
      PROVE  ~fault /\ failed' = failed
  BY <1>4 DEF SyncLoad, SyncStore, SyncInodeBits, Alloc, WriteDots, WriteData, Doing
<1>5. ASSUME FindBlock(p) \/ NoRoom(p) \/ ZeroBlock(p) \/ PutEntry(p) \/ WriteTable(p)
      PROVE  ~fault /\ failed' = failed
  BY <1>5, ZenonT(30) DEF FindBlock, NoRoom, ZeroBlock, PutEntry, WriteTable, Doing
<1>6. ASSUME DeleteEntry(p) PROVE ~fault /\ failed' = failed
  BY <1>6, ZenonT(30) DEF DeleteEntry, Doing
<1>7. ASSUME DropBlock(p) \/ DropTable(p) \/ Release(p) \/ ReleaseBlock(p) \/ ReleaseInode(p)
      PROVE  ~fault /\ failed' = failed
  BY <1>7, Zenon DEF DropBlock, DropTable, Release, ReleaseBlock, ReleaseInode, Doing
<1>8. Starts1(p) => ~fault /\ failed' = failed
  BY <1>2, <1>3 DEF Starts1
<1>9. Steps1(p) => ~fault /\ failed' = failed
  BY <1>4, <1>5, <1>6, <1>7 DEF Steps1
<1> QED BY <1>1, <1>8, <1>9

\* The process that works keeps a view.
LEMMA StepsWork ==
  ASSUME NEW v, NEW p, Works(v, p), Steps1(p), Room
  PROVE  fault' \/ Worked(p)
<1>0. p \in Proc
  BY DEF Works
<1>1. ASSUME SyncLoad(p) \/ SyncStore(p) \/ SyncInodeBits(p) PROVE Worked(p)
  BY <1>1, SyncLoadWorks, SyncStoreWorks, SyncInodeBitsWorks
<1>2. ASSUME Alloc(p) PROVE fault' \/ Worked(p)
  BY <1>2, AllocWorks
<1>3. ASSUME WriteDots(p) \/ WriteData(p) \/ FindBlock(p) PROVE Worked(p)
  BY <1>3, WriteDotsWorks, WriteDataWorks, FindBlockWorks
<1>4. ASSUME NoRoom(p) PROVE Worked(p)
  BY <1>0, <1>4, NoRoomWorks DEF Room
<1>5. ASSUME ZeroBlock(p) \/ PutEntry(p) \/ WriteTable(p) PROVE Worked(p)
  BY <1>5, ZeroBlockWorks, PutEntryWorks, WriteTableWorks
<1>6. ASSUME DeleteEntry(p) \/ DropBlock(p) \/ DropTable(p) PROVE Worked(p)
  BY <1>6, DeleteEntryWorks, DropBlockWorks, DropTableWorks
<1>7. ASSUME Release(p) \/ ReleaseBlock(p) \/ ReleaseInode(p) PROVE Worked(p)
  BY <1>7, ReleaseWorks, ReleaseBlockWorks, ReleaseInodeWorks
<1> QED BY <1>1, <1>2, <1>3, <1>4, <1>5, <1>6, <1>7 DEF Steps1

LEMMA StartsWork ==
  ASSUME NEW v, NEW p, Works(v, p), Solo(p), Starts1(p)
  PROVE  Worked(p)
<1>1. setup.names \subseteq Name
  BY FsDiskAssumption DEF Works
<1>2. ASSUME NEW d \in Ino, NEW n \in setup.names,
             NewName(p, "create", d, n) \/ NewName(p, "mkdir", d, n)
      PROVE  Worked(p)
  BY <1>1, <1>2, NewNameWorks
<1>3. ASSUME NEW d \in Ino, NEW n \in setup.names,
             Remove(p, "unlink", d, n) \/ Remove(p, "rmdir", d, n)
      PROVE  Worked(p)
  BY <1>1, <1>3, RemoveWorks
<1>4. ASSUME NEW d \in Ino, NEW i \in Ino, FirstBlock(p, d, i) PROVE Worked(p)
  BY <1>4, FirstBlockWorks
<1> QED BY <1>2, <1>3, <1>4 DEF Starts1

LEMMA InitTrees == Init => TreeInv
<1> SUFFICES ASSUME Init PROVE TreeInv
  OBVIOUS
<1>1. /\ failed = 0 /\ imem = {0} /\ bmem = {0} /\ NewDisk(disk, core)
      /\ \A p \in Proc : r[p] = Idle
  <2>1. /\ failed = 0 /\ r = [p \in Proc |-> Idle] /\ imem = disk.ibits /\ bmem = disk.bbits
        /\ NewDisk(disk, core)
    BY DEF Init, NewDisk
  <2>2. disk.ibits = {0} /\ disk.bbits = {0}
    BY <2>1 DEF NewDisk
  <2> QED BY <2>1, <2>2
<1>2. SoundOn(Idle, disk, {0}, {0}, core)
  BY <1>1, NewSound DEF SoundOn
<1>3. \A p \in Proc : Treed(p)
  BY <1>1, <1>2 DEF Treed
<1> QED BY <1>1, <1>3 DEF TreeInv

LEMMA NextTrees == TakeInv /\ TreeInv /\ [Next]_vars /\ [Room]_vars => TreeInv'
<1> SUFFICES ASSUME TakeInv, TreeInv, [Next]_vars, [Room]_vars PROVE TreeInv'
  OBVIOUS
<1>1. /\ setup \in Setups /\ r = [q \in Proc |-> r[q]] /\ \A q \in Proc \ setup.users : r[q] = Idle
  BY DEF TakeInv
<1>2. CASE UNCHANGED vars
  <2>1. Alone' = Alone /\ failed' = failed /\ fault' = fault /\ setup' = setup
    BY <1>2 DEF vars, Alone, OneUser
  <2>2. \A p \in Proc : Treed(p)' = Treed(p)
    BY <1>2 DEF vars, Treed
  <2> QED BY <2>1, <2>2 DEF TreeInv
<1>3. ASSUME Room, NEW p \in Proc, setup.users = {p}, setup.fails = 0, setup' = setup,
             Call \/ Mount
      PROVE  failed' = 0 /\ (~fault' => Treed(p)')
  <2>1. failed = 0 /\ (~fault => Treed(p))
    BY <1>3 DEF TreeInv, Alone, OneUser
  <2>2. Solo(p)
    BY <1>1, <1>3 DEF Solo
  <2>3. ~fault /\ failed' = 0 /\ (Mount => Quiet)
    <3>1. Call => ~fault /\ failed' = failed
      BY CallIs
    <3>2. Mount => ~fault /\ Quiet /\ failed' = failed
      BY <1>3, <2>1 DEF Mount
    <3> QED BY <1>3, <2>1, <3>1, <3>2
  <2>4. PICK v : Sound(v, r[p], disk, imem, bmem, core)
    BY <2>1, <2>3 DEF Treed, SoundOn
  <2>5. Works(v, p)
    BY <1>1, <2>4 DEF Works
  <2>6. CASE Call
    <3>1. Starts1(p) \/ Steps1(p)
      BY <1>3, <2>6, CallIs
    <3> QED BY <1>3, <2>2, <2>3, <2>5, <3>1, StartsWork, StepsWork DEF Worked, Treed, SoundOn
  <2>7. CASE Mount
    <3>1. r[p] = Idle
      BY <2>3, <2>7 DEF Quiet
    <3> QED BY <2>3, <2>5, <2>7, <3>1, MountWorks DEF Worked, Treed, SoundOn
  <2> QED BY <1>3, <2>6, <2>7
<1>4. CASE (Call \/ Mount) /\ setup' = setup /\ ~UNCHANGED vars
  <2> SUFFICES ASSUME Alone' PROVE failed' = 0 /\ (~fault' => \A p \in Proc : setup'.users = {p} => Treed(p)')
    BY DEF TreeInv
  <2>1. setup.fails = 0 /\ \E p \in Proc : setup.users = {p}
    BY <1>4 DEF Alone, OneUser
  <2>2. Room
    BY <1>4
  <2> QED BY <1>3, <1>4, <2>1, <2>2
<1> QED BY <1>2, <1>4 DEF Next, Stopped

-----------------------------------------------------------------------------
\* Between calls
Between(v) == Rested(v, disk, imem, bmem, core) /\ Reading(v)

LEMMA QuietRests ==
  ASSUME TreeInv, Alone, Quiet, ~fault
  PROVE  \E v : Between(v)
<1>1. PICK p \in Proc : setup.users = {p}
  BY DEF Alone, OneUser
<1>2. r[p] = Idle
  BY DEF Quiet
<1>3. PICK v : Sound(v, Idle, disk, imem, bmem, core)
  BY <1>1, <1>2 DEF TreeInv, Treed, SoundOn
<1>4. Rested(v, disk, imem, bmem, core)
  BY <1>3, AtRest
<1>5. Reading(v)
  BY <1>4 DEF Rested, Reading
<1> QED BY <1>4, <1>5 DEF Between

LEMMA BetweenFacts ==
  ASSUME NEW v, Between(v)
  PROVE  /\ Types(v) /\ Owned(v.at, {}, bmem) /\ Laid(v.at, v.node, v.tab, v.live)
         /\ Shown(v.at, v.ent, v.dirs, disk.ents) /\ Tree(v.ent, v.dirs, v.live, 0)
         /\ Sizes(v.node, v.ent, v.dirs, -1)
         /\ v.live = imem /\ disk.ibits = imem /\ disk.bbits = bmem /\ core[0] = disk.inode[0]
         /\ \A i \in Ino : disk.inode[i] = v.node[i]
         /\ Dirs = v.dirs /\ Reading(v)
<1>1. /\ Sees(v, Idle, disk, bmem, core) /\ Agrees(v, bmem, disk.ents)
      /\ v.pend = 0 /\ v.hand = {} /\ v.late = -1 /\ v.live = imem
      /\ Synced(v, disk, {}) /\ disk.ibits = imem /\ core[0] = v.node[0] /\ Reading(v)
  BY DEF Between, Rested
<1>2. \A i \in Ino : disk.inode[i] = v.node[i]
  BY <1>1 DEF Synced
<1>3. core[0] = disk.inode[0]
  BY <1>1, <1>2, Ranges
<1>4. Dirs = v.dirs
  BY <1>1, DirsRead
<1>5. disk.bbits = bmem
  BY <1>1 DEF Sees
<1>6. /\ Types(v) /\ Owned(v.at, {}, bmem) /\ Laid(v.at, v.node, v.tab, v.live)
      /\ Shown(v.at, v.ent, v.dirs, disk.ents) /\ Tree(v.ent, v.dirs, v.live, 0)
      /\ Sizes(v.node, v.ent, v.dirs, -1)
  BY <1>1 DEF Agrees
<1> QED BY <1>1, <1>2, <1>3, <1>4, <1>5, <1>6

LEMMA HeldRead ==
  ASSUME NEW v, Between(v), NEW x
  PROVE  x \in Held(imem, disk.inode) <=>
           \E i \in imem, k \in Where : x = <<i, k, v.at[i][k]>> /\ v.at[i][k] # 0
<1>1. /\ v.live = imem /\ Reading(v) /\ \A i \in Ino : disk.inode[i] = v.node[i]
  BY BetweenFacts
<1>2. ASSUME NEW i \in imem
      PROVE  /\ \A k \in Index : all_blocks(disk.inode[i])[k] = v.at[i][k]
             /\ disk.inode[i].sect[Direct] = v.at[i][-1]
  <2>1. i \in Ino
    BY <1>1, BlocksRead
  <2> QED BY <1>1, <2>1, BlocksRead
<1>3. x \in Held(imem, disk.inode) <=>
        /\ x[3] # 0
        /\ \E i \in imem : \/ \E k \in Index : x = <<i, k, all_blocks(disk.inode[i])[k]>>
                           \/ x = <<i, -1, disk.inode[i].sect[Direct]>>
  BY DEF Held
<1>4. ASSUME NEW i \in imem
      PROVE  \/ \E k \in Index : x = <<i, k, all_blocks(disk.inode[i])[k]>>
             \/ x = <<i, -1, disk.inode[i].sect[Direct]>>
             <=> \E k \in Where : x = <<i, k, v.at[i][k]>>
  BY <1>2, Ranges
<1>5. \A i, k : x = <<i, k, v.at[i][k]>> => x[3] = v.at[i][k]
  OBVIOUS
<1> QED BY <1>3, <1>4, <1>5

LEMMA TreeBlocks == TreeInv => BlocksExact
<1> SUFFICES ASSUME TreeInv, Alone, Quiet, ~fault
             PROVE  /\ \A x, y \in Held(imem, disk.inode) : x[3] = y[3] => x = y
                    /\ bmem = {x[3] - 1 : x \in Held(imem, disk.inode)}
                    /\ disk.bbits = bmem
  BY DEF BlocksExact
<1>1. PICK v : Between(v)
  BY QuietRests
<1>2. /\ Types(v) /\ Owned(v.at, {}, bmem) /\ Laid(v.at, v.node, v.tab, v.live)
      /\ v.live = imem /\ disk.bbits = bmem
  BY <1>1, BetweenFacts
<1>3. imem \subseteq Ino /\ v.at \in [Ino -> [Where -> 0 .. Blocks]]
  BY <1>2 DEF Types
<1>4. ASSUME NEW x \in Held(imem, disk.inode)
      PROVE  \E i \in imem, k \in Where : /\ x = <<i, k, v.at[i][k]>> /\ x[3] = v.at[i][k]
                                         /\ v.at[i][k] # 0
  <2>1. \A i, k : x = <<i, k, v.at[i][k]>> => x[3] = v.at[i][k]
    OBVIOUS
  <2> QED BY <1>1, <2>1, HeldRead
<1>5. ASSUME NEW x \in Held(imem, disk.inode), NEW y \in Held(imem, disk.inode), x[3] = y[3]
      PROVE  x = y
  <2>1. PICK i \in imem, k \in Where : x = <<i, k, v.at[i][k]>> /\ x[3] = v.at[i][k] /\ v.at[i][k] # 0
    BY <1>4
  <2>2. PICK j \in imem, l \in Where : y = <<j, l, v.at[j][l]>> /\ y[3] = v.at[j][l] /\ v.at[j][l] # 0
    BY <1>4
  <2>3. i = j /\ k = l
    BY <1>2, <1>3, <1>5, <2>1, <2>2 DEF Owned
  <2> QED BY <2>1, <2>2, <2>3
<1>6. ASSUME NEW x \in Held(imem, disk.inode) PROVE x[3] - 1 \in bmem
  BY <1>2, <1>3, <1>4 DEF Owned
<1>7. ASSUME NEW n \in bmem PROVE \E x \in Held(imem, disk.inode) : n = x[3] - 1
  <2>1. PICK i \in Ino, k \in Where : v.at[i][k] = n + 1
    BY <1>2 DEF Owned
  <2>2. n \in Nat
    BY <1>2 DEF Owned
  <2>3. i \in imem
    <3>1. i \notin v.live => v.at[i] = Blank
      BY <1>2 DEF Laid
    <3> QED BY <1>2, <2>1, <2>2, <3>1, Zeros
  <2>3a. PICK b : b = v.at[i][k]
    OBVIOUS
  <2>4. PICK x : x = <<i, k, b>>
    OBVIOUS
  <2>4a. x = <<i, k, v.at[i][k]>> /\ x[3] = v.at[i][k]
    BY <2>3a, <2>4
  <2>5. x \in Held(imem, disk.inode)
    BY <1>1, <2>1, <2>2, <2>3, <2>4a, HeldRead
  <2> QED BY <2>1, <2>2, <2>4a, <2>5
<1>8. bmem = {x[3] - 1 : x \in Held(imem, disk.inode)}
  BY <1>6, <1>7
<1> QED BY <1>2, <1>5, <1>8

LEMMA TreeSizes == TreeInv => SizeIsEntries
<1> SUFFICES ASSUME TreeInv, Alone, Quiet, ~fault
             PROVE  /\ \A d \in Dirs : disk.inode[d].size = Cardinality(Places(disk.inode[d]))
                    /\ core[0] = disk.inode[0]
  BY DEF SizeIsEntries
<1>1. PICK v : Between(v)
  BY QuietRests
<1>2. /\ Types(v) /\ Sizes(v.node, v.ent, v.dirs, -1) /\ core[0] = disk.inode[0]
      /\ \A i \in Ino : disk.inode[i] = v.node[i]
      /\ Dirs = v.dirs /\ Reading(v)
  BY <1>1, BetweenFacts
<1>3. ASSUME NEW d \in Dirs PROVE disk.inode[d].size = Cardinality(Places(disk.inode[d]))
  <2>1. d \in v.dirs /\ d \in Ino /\ d # -1
    BY <1>2, Ranges DEF Types
  <2>2. disk.inode[d] = v.node[d]
    BY <1>2, <2>1
  <2>3. Places(disk.inode[d]) = Filled(v.ent[d])
    BY <1>2, <2>1, <2>2, PlacesRead
  <2>4. v.node[d].size = Cardinality(Filled(v.ent[d])) + 0
    BY <1>2, <2>1 DEF Sizes
  <2>5. Cardinality(Filled(v.ent[d])) \in Nat
    BY FilledFinite
  <2> QED BY <2>2, <2>3, <2>4, <2>5
<1> QED BY <1>2, <1>3

\* A place of a directory on the disk that holds a name
LEMMA NamedRead ==
  ASSUME NEW v, Between(v), NEW x
  PROVE  x \in Named <=> \E d \in v.dirs, k \in Index, s \in Slot :
                            x = <<d, <<k, s>>>> /\ IsName(v.ent, d, k, s)
<1>1. /\ Types(v) /\ Tree(v.ent, v.dirs, v.live, 0) /\ \A i \in Ino : disk.inode[i] = v.node[i]
      /\ Dirs = v.dirs /\ Reading(v)
  BY BetweenFacts
<1>2. v.dirs \subseteq Ino
  BY <1>1 DEF Types
<1>3. x \in Named <=> \E d \in v.dirs : \E y \in Places(disk.inode[d]) :
                         x = <<d, y>> /\ At(disk.inode[d], y).name \in Name
  BY <1>1 DEF Named
<1>4. ASSUME NEW d \in v.dirs, NEW y
      PROVE  y \in Places(disk.inode[d]) /\ At(disk.inode[d], y).name \in Name <=>
                \E k \in Index, s \in Slot : y = <<k, s>> /\ IsName(v.ent, d, k, s)
  <2>1. disk.inode[d] = v.node[d] /\ d \in Ino
    BY <1>1, <1>2
  <2>2. /\ Places(disk.inode[d]) = Filled(v.ent[d])
        /\ \A z \in Filled(v.ent[d]) : At(disk.inode[d], z) = v.ent[d][z[1]][z[2]]
    BY <1>1, <2>1, PlacesRead
  <2>3. y \in Filled(v.ent[d]) <=> \E k \in Index, s \in Slot : y = <<k, s>> /\ v.ent[d][k][s] # Free
    BY DEF Filled
  <2>4. ASSUME NEW k \in Index, NEW s \in Slot
        PROVE  v.ent[d][k][s] # Free /\ v.ent[d][k][s].name \in Name <=> IsName(v.ent, d, k, s)
    <3>1. CASE <<k, s>> \in DotPlaces
      <4>1. v.ent[d][0][1] = [name |-> ".", ino |-> d, type |-> "dir"] /\ v.ent[d][0][2].name = ".."
        BY <1>1 DEF Tree, Dotted
      <4>2. v.ent[d][0][1].name = "."
        BY <4>1
      <4>3. v.ent[d][k][s].name \in {".", ".."}
        BY <3>1, <4>1, <4>2 DEF DotPlaces
      <4>4. v.ent[d][k][s].name \notin Name
        BY <4>3, FsDiskAssumption
      <4> QED BY <3>1, <4>4 DEF IsName
    <3>2. CASE <<k, s>> \notin DotPlaces
      BY <1>1, <2>1, <3>2, Zenon DEF IsName, Tree, NamesLive
    <3> QED BY <3>1, <3>2
  <2>5. ASSUME NEW k \in Index, NEW s \in Slot, y = <<k, s>>, y \in Filled(v.ent[d])
        PROVE  At(disk.inode[d], y) = v.ent[d][k][s]
    BY <2>2, <2>5
  <2> QED BY <2>2, <2>3, <2>4, <2>5
<1> QED BY <1>3, <1>4

\* A place in the tree that holds a name is in a directory.
LEMMA NamesInDirs ==
  ASSUME NEW v, Between(v), NEW i \in Ino, NEW k \in Index, NEW s \in Slot, IsName(v.ent, i, k, s)
  PROVE  i \in v.dirs
<1>1. Shown(v.at, v.ent, v.dirs, disk.ents)
  BY BetweenFacts
<1>2. i \notin v.dirs => v.ent[i] = Empty
  BY <1>1 DEF Shown
<1>3. v.ent[i] = Empty => v.ent[i][k][s] = Free
  BY Zeros
<1> QED BY <1>2, <1>3 DEF IsName

LEMMA TreeNamed == TreeInv => NamesExact
<1> SUFFICES ASSUME TreeInv, Alone, Quiet, ~fault
             PROVE  /\ {At(disk.inode[x[1]], x[2]).ino : x \in Named} = imem \ {0}
                    /\ Cardinality(Named) = Cardinality(imem) - 1
                    /\ disk.ibits = imem
  BY DEF NamesExact
<1>1. PICK v : Between(v)
  BY QuietRests
<1>2. /\ Types(v) /\ Tree(v.ent, v.dirs, v.live, 0) /\ v.live = imem /\ disk.ibits = imem
      /\ \A i \in Ino : disk.inode[i] = v.node[i]
      /\ Dirs = v.dirs /\ Reading(v)
  BY <1>1, BetweenFacts
<1>3. v.dirs \subseteq imem /\ imem \subseteq Ino /\ 0 \in imem
  BY <1>2 DEF Types
<1>4. PICK f : f = [x \in Named |-> At(disk.inode[x[1]], x[2]).ino]
  OBVIOUS
<1>5. ASSUME NEW x \in Named
      PROVE  \E d \in v.dirs, k \in Index, s \in Slot :
                x = <<d, <<k, s>>>> /\ IsName(v.ent, d, k, s) /\ f[x] = v.ent[d][k][s].ino
  <2>1. PICK d \in v.dirs, k \in Index, s \in Slot : x = <<d, <<k, s>>>> /\ IsName(v.ent, d, k, s)
    BY <1>1, NamedRead
  <2>2. disk.inode[d] = v.node[d] /\ \A y \in Filled(v.ent[d]) : At(disk.inode[d], y) = v.ent[d][y[1]][y[2]]
    <3>1. disk.inode[d] = v.node[d]
      BY <1>2, <1>3
    <3> QED BY <1>2, <3>1, PlacesRead
  <2>3a. PICK y : y = <<k, s>>
    OBVIOUS
  <2>3. y = <<k, s>> /\ y[1] = k /\ y[2] = s
    BY <2>3a
  <2>4. y \in Filled(v.ent[d])
    BY <2>1, <2>3 DEF Filled, IsName
  <2>5. x[1] = d /\ x[2] = y
    BY <2>1, <2>3
  <2>6. f[x] = v.ent[d][k][s].ino
    BY <1>4, <2>2, <2>3, <2>4, <2>5
  <2> QED BY <2>1, <2>6
<1>6. ASSUME NEW x \in Named PROVE f[x] \in imem \ {0}
  <2>1. PICK d \in v.dirs, k \in Index, s \in Slot :
          x = <<d, <<k, s>>>> /\ IsName(v.ent, d, k, s) /\ f[x] = v.ent[d][k][s].ino
    BY <1>5
  <2>2. d \in Ino
    BY <1>3
  <2>3. NamesLive(v.ent, v.dirs, imem, 0)
    BY <1>2 DEF Tree
  <2>4. v.ent[d][k][s].ino \in imem \ {0, 0}
    BY <2>1, <2>2, <2>3, Zenon DEF NamesLive
  <2> QED BY <2>1, <2>4
<1>7. ASSUME NEW n \in imem \ {0} PROVE \E x \in Named : f[x] = n
  <2>1. PICK i \in Ino, k \in Index, s \in Slot : IsName(v.ent, i, k, s) /\ v.ent[i][k][s].ino = n
    BY <1>2 DEF Tree, HasName
  <2>2. i \in v.dirs
    BY <1>1, <2>1, NamesInDirs
  <2>3. <<i, <<k, s>>>> \in Named
    BY <1>1, <2>1, <2>2, NamedRead
  <2>4. PICK x : x = <<i, <<k, s>>>>
    OBVIOUS
  <2>5. x \in Named
    BY <2>3, <2>4
  <2>6. PICK d \in v.dirs, l \in Index, t \in Slot :
          x = <<d, <<l, t>>>> /\ f[x] = v.ent[d][l][t].ino
    BY <1>5, <2>5
  <2>7. d = i /\ l = k /\ t = s
    BY <2>4, <2>6
  <2> QED BY <2>1, <2>5, <2>6, <2>7
<1>8. ASSUME NEW x \in Named, NEW y \in Named, f[x] = f[y] PROVE x = y
  <2>1. PICK d \in v.dirs, k \in Index, s \in Slot :
          x = <<d, <<k, s>>>> /\ IsName(v.ent, d, k, s) /\ f[x] = v.ent[d][k][s].ino
    BY <1>5
  <2>2. PICK c \in v.dirs, l \in Index, t \in Slot :
          y = <<c, <<l, t>>>> /\ IsName(v.ent, c, l, t) /\ f[y] = v.ent[c][l][t].ino
    BY <1>5
  <2>3. d = c /\ k = l /\ s = t
    BY <1>2, <1>3, <1>8, <2>1, <2>2 DEF Tree, NamedOnce
  <2> QED BY <2>1, <2>2, <2>3
<1>9. {At(disk.inode[x[1]], x[2]).ino : x \in Named} = imem \ {0}
  <2>1. \A x \in Named : At(disk.inode[x[1]], x[2]).ino = f[x]
    BY <1>4
  <2> QED BY <1>6, <1>7, <2>1
<1>10. Cardinality(Named) = Cardinality(imem) - 1
  <2>1. f \in Injection(Named, imem \ {0}) /\ f \in Surjection(Named, imem \ {0})
    <3>1. f \in [Named -> imem \ {0}]
      BY <1>4, <1>6
    <3>2. f \in Injection(Named, imem \ {0})
      BY <1>8, <3>1 DEF Injection, IsInjective
    <3>3. f \in Surjection(Named, imem \ {0})
      BY <1>7, <3>1 DEF Surjection
    <3> QED BY <3>2, <3>3
  <2>2. IsFiniteSet(imem)
    <3>1. IsFiniteSet(Ino)
      BY DiskConstants, FS_Interval DEF Ino
    <3> QED BY <1>3, <3>1, FS_Subset
  <2>3. IsFiniteSet(imem \ {0}) /\ Cardinality(imem \ {0}) = Cardinality(imem) - 1
    BY <1>3, <2>2, FS_RemoveElement
  <2>4. Cardinality(Named) = Cardinality(imem \ {0})
    BY <2>1, <2>3, FS_Injection
  <2> QED BY <2>3, <2>4
<1> QED BY <1>2, <1>9, <1>10

-----------------------------------------------------------------------------
\* Where one process makes the calls, and sys_mkdir finds room for its entry,
\* then between two calls each block belongs to one place of one inode and the
\* bitmap, in memory as on the disk, has just these: whatever files and
\* directories are made, filled and removed, growing into their indirect blocks
\* and shrinking again, no block is lost and none is shared.
THEOREM BlocksExactHolds == Spec /\ [][Room]_vars => []BlocksExact
BY InitTakes, NextTakes, InitTrees, NextTrees, TreeBlocks, PTL DEF Spec

\* Under the same hypotheses every inode but the root has one name, in a directory
\* that a path leads to; no name is that of a free inode, and the bitmap of
\* inodes on the disk is that in memory.
THEOREM NamesExactHolds == Spec /\ [][Room]_vars => []NamesExact
BY InitTakes, NextTakes, InitTrees, NextTrees, TreeNamed, PTL DEF Spec

\* Under the same hypotheses i_size of a directory counts its entries, which
\* dir_is_empty and dir_read rely on, and the root in memory is that on the disk.
THEOREM SizeIsEntriesHolds == Spec /\ [][Room]_vars => []SizeIsEntries
BY InitTakes, NextTakes, InitTrees, NextTrees, TreeSizes, PTL DEF Spec
=============================================================================
