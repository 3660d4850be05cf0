----------------------------- MODULE UserSpace -----------------------------
(***************************************************************************)
(* What a process has in memory and what fork, exec, exit and wait do to   *)
(* it: its vaddr_bitmap, page tables and heap (kernel/memory.c), program   *)
(* loading (userprog/exec.c), copying (userprog/fork.c) and release        *)
(* (userprog/wait_exit.c).  A system call is one step: it runs with IF     *)
(* off, and after the boot nobody leaves the CPU with a pool's lock.       *)
(*                                                                         *)
(* The seven block sizes have an arena layout and a free list each and do  *)
(* not interact: one of them is modelled.  The list heads are in the task  *)
(* structure, the links in the blocks, so fork copies an arena with its    *)
(* desc pointing to the parent's list: programs must not free a small      *)
(* block they inherited, and none does.                                    *)
(***************************************************************************)
EXTENDS Pools, FiniteSets, Sequences, Functions

CONSTANTS Proc, First,   \* processes; init
          ProcPages,     \* pages of a process, the stack in the last
          PerTable,      \* pages of one page table
          PerArena,      \* block_per_arena
          MaxPages,      \* pages of the largest malloc
          Programs,      \* the pages of the programs that can be loaded
          UserPages, KernelPages, \* pages of the pools for processes
          Losses         \* kernel pages lost before the story begins

\* create_user_vaddr_bitmap takes the pages of the bitmap rounded up,
\* release_prog_resource gives them back rounded down: 23 and 22.
btmap_bytes_len == (786432 - 32840) \div 8 \* pages below 0xc0000000 and below 0x8048000
BitmapPages == (btmap_bytes_len + 4095) \div 4096
BitmapFreed == btmap_bytes_len \div 4096

ASSUME UserSpaceAssumption ==
    /\ IsFiniteSet(Proc) /\ First \in Proc
    /\ ProcPages \in Nat \ {0} /\ PerTable \in Nat \ {0}
    /\ PerArena \in Nat \ {0} /\ MaxPages \in Nat
    /\ UserPages \in Nat /\ KernelPages \in Nat /\ Losses \subseteq Nat
    /\ \A l \in Losses : l + BitmapPages + 3 =< KernelPages
    /\ \A g \in Programs : g \subseteq 1 .. ProcPages - 1 \* ld_user.lds: 0x8049000

Stack == ProcPages - 1
Pde(v) == v \div PerTable

VARIABLES life,    \* "none", "run", "spoilt" (its memory was overwritten), "hang"
          parent,
          vaddr_bitmap,
          mapped,  \* pages present in the page tables
          page_tables,
          arena,   \* struct arena of the pages that begin with one
          free_list,
          owned,   \* what the program got from malloc: page and index
          holed,   \* a malloc_page failed half-way in the process or a forebear
          kfree,   \* free pages of the kernel pool
          lost,    \* kernel pages that nobody knows any more
          halt
spaceVars == <<vaddr_bitmap, mapped, page_tables, kfree>>
userVars == <<spaceVars, life, parent, arena, free_list, owned, holed, lost, halt>>

\* Pages of the user pool that nobody has
UserFree == UserPages - Cardinality(UNION {{p} \X mapped[p] : p \in Proc})

NoArenas == [i \in {} |-> 0]

\* process_execute(init) and start_process, which maps the stack
UserInit ==
    /\ life = [p \in Proc |-> IF p = First THEN "run" ELSE "none"]
    /\ parent = [p \in Proc |-> First]
    /\ mapped = [p \in Proc |-> IF p = First THEN {Stack} ELSE {}]
    /\ vaddr_bitmap = mapped
    /\ page_tables = [p \in Proc |-> {Pde(v) : v \in mapped[p]}]
    /\ arena = [p \in Proc |-> NoArenas]
    /\ free_list = [p \in Proc |-> <<>>]
    /\ owned = [p \in Proc |-> {}]
    /\ holed = [p \in Proc |-> FALSE]
    /\ lost \in Losses
    /\ kfree = KernelPages - (2 + BitmapPages + 1) - lost
    /\ halt = "no"

-----------------------------------------------------------------------------
Runs(p) == halt = "no" /\ life[p] = "run"
\* init only forks and waits.
Works(p) == Runs(p) /\ p # First

\* The system stops: a panic, a page fault of the kernel, or a page table at
\* physical page 0, because page_table_add does not look at what palloc returns.
Halt(what) == /\ halt' = what
              /\ UNCHANGED <<life, parent, spaceVars, arena, free_list, owned, holed, lost>>

\* page_table_add for pages vs of process p
NewTables(p, vs) == {Pde(v) : v \in vs} \ page_tables[p]
page_table_add(p, vs) ==
    /\ mapped' = [mapped EXCEPT ![p] = @ \cup vs]
    /\ page_tables' = [page_tables EXCEPT ![p] = @ \cup NewTables(p, vs)]
    /\ kfree' = kfree - Cardinality(NewTables(p, vs))

\* malloc_page(PF_USER, n): when the pool has too few pages it returns NULL and
\* leaves the bits set and the pages there were mapped.
VaddrGet(p, n) == bitmap_scan(vaddr_bitmap[p], ProcPages, n)
MallocPage(p, i, n) ==
    LET some == i .. i + (IF UserFree < n THEN UserFree ELSE n) - 1
    IN  /\ vaddr_bitmap' = [vaddr_bitmap EXCEPT ![p] = @ \cup i .. i + n - 1]
        /\ page_table_add(p, some)
        /\ holed' = [holed EXCEPT ![p] = @ \/ UserFree < n]
Wild(p, i, n) == Cardinality(NewTables(p, i .. i + n - 1)) > kfree

\* mutant: vaddr_remove is left out
MfreePageKeepsBits(p, i, n) ==
    /\ mapped' = [mapped EXCEPT ![p] = @ \ (i .. i + n - 1)]
    /\ arena' = [arena EXCEPT ![p] = [v \in DOMAIN @ \ {i} |-> @[v]]]
    /\ UNCHANGED <<vaddr_bitmap, page_tables, kfree>>

\* mfree_page(PF_USER, page i, n) of the arena there
mfree_page(p, i, n) ==
    /\ vaddr_bitmap' = [vaddr_bitmap EXCEPT ![p] = @ \ (i .. i + n - 1)]
    /\ mapped' = [mapped EXCEPT ![p] = @ \ (i .. i + n - 1)]
    /\ arena' = [arena EXCEPT ![p] = [v \in DOMAIN @ \ {i} |-> @[v]]]
    /\ UNCHANGED <<page_tables, kfree>>

\* An arena of kind and cnt in page i
With(arenas, i, kind, cnt) ==
    [v \in DOMAIN arenas \cup {i} |-> IF v = i THEN [kind |-> kind, cnt |-> cnt] ELSE arenas[v]]

\* sys_malloc of more than 1024 bytes, n pages with the arena's head
MallocLarge(p, n) ==
    LET i == VaddrGet(p, n)
    IN  /\ Works(p) /\ i # -1
        /\ IF Wild(p, i, n) THEN Halt("wild")
           ELSE /\ MallocPage(p, i, n)
                /\ IF UserFree < n
                   THEN UNCHANGED <<arena, owned>>
                   ELSE /\ arena' = [arena EXCEPT ![p] = With(@, i, "large", n)]
                        /\ owned' = [owned EXCEPT ![p] = @ \cup {<<i, 0>>}]
                /\ UNCHANGED <<life, parent, free_list, lost, halt>>

\* No address, and NULL
MallocFails(p) == Works(p) /\ VaddrGet(p, MaxPages) = -1 /\ UNCHANGED userVars

\* sys_malloc of a small block: from the free list, or from a new arena
MallocSmall(p) ==
    /\ Works(p) /\ free_list[p] # <<>>
    /\ LET b == Head(free_list[p])
       IN  /\ owned' = [owned EXCEPT ![p] = @ \cup {b}]
           /\ arena' = [arena EXCEPT ![p][b[1]].cnt = @ - 1]
    /\ free_list' = [free_list EXCEPT ![p] = Tail(@)]
    /\ UNCHANGED <<life, parent, spaceVars, holed, lost, halt>>

Block(i) == [k \in 1 .. PerArena |-> <<i, k - 1>>]

MallocArena(p) ==
    LET i == VaddrGet(p, 1)
    IN  /\ Works(p) /\ free_list[p] = <<>> /\ i # -1
        /\ IF Wild(p, i, 1) THEN Halt("wild")
           ELSE /\ MallocPage(p, i, 1)
                /\ IF UserFree < 1
                   THEN UNCHANGED <<arena, free_list, owned>>
                   ELSE /\ arena' = [arena EXCEPT ![p] = With(@, i, "mine", PerArena - 1)]
                        /\ free_list' = [free_list EXCEPT ![p] = Tail(Block(i))]
                        /\ owned' = [owned EXCEPT ![p] = @ \cup {Block(i)[1]}]
                /\ UNCHANGED <<life, parent, lost, halt>>

\* list_remove of the blocks in gone: SelectSeq, without its recursion
Without(list, gone) ==
    LET kept == {k \in DOMAIN list : list[k] \notin gone}
        Nth(j) == CHOOSE k \in kept : Cardinality({l \in kept : l =< k}) = j
    IN  [j \in 1 .. Cardinality(kept) |-> list[Nth(j)]]

\* sys_free: an arena none of whose blocks is in use is given back.
Free(p, b) ==
    LET a == arena[p][b[1]]
        list == Append(free_list[p], b)
        whole == Range(Block(b[1]))
    IN  /\ Works(p) /\ b \in owned[p] /\ a.kind # "inherited"
        /\ \/ /\ a.kind = "large"
              /\ mfree_page(p, b[1], a.cnt)
              /\ UNCHANGED <<free_list, halt>>
           \/ /\ a.kind = "mine" /\ a.cnt + 1 < PerArena
              /\ free_list' = [free_list EXCEPT ![p] = list]
              /\ arena' = [arena EXCEPT ![p][b[1]].cnt = @ + 1]
              /\ UNCHANGED <<spaceVars, halt>>
           \/ /\ a.kind = "mine" /\ a.cnt + 1 = PerArena
              /\ free_list' = [free_list EXCEPT ![p] = Without(list, whole)]
              /\ halt' = IF whole \subseteq Range(list) THEN "no" ELSE "assert"
              /\ mfree_page(p, b[1], 1)
        /\ owned' = [owned EXCEPT ![p] = @ \ {b}]
        /\ UNCHANGED <<life, parent, holed, lost>>

-----------------------------------------------------------------------------
\* segment_load: pages that are there are kept and read over.
Load(p, vs) == /\ page_table_add(p, vs \ mapped[p])
               /\ vaddr_bitmap' = [vaddr_bitmap EXCEPT ![p] = @ \cup vs]
LoadStops(p, vs) == \/ Cardinality(vs \ mapped[p]) > UserFree /\ Halt("oom")
                    \/ Cardinality(NewTables(p, vs \ mapped[p])) > kfree /\ Halt("wild")
Loads(p, vs) == /\ Cardinality(vs \ mapped[p]) =< UserFree
                /\ Cardinality(NewTables(p, vs \ mapped[p])) =< kfree
                /\ Load(p, vs)

\* sys_execv: the new program knows nothing of the old one's blocks.
Exec(p, g) ==
    /\ Works(p)
    /\ \/ LoadStops(p, g)
       \/ /\ Loads(p, g)
          /\ arena' = [arena EXCEPT ![p] = NoArenas]
          /\ free_list' = [free_list EXCEPT ![p] = <<>>]
          /\ owned' = [owned EXCEPT ![p] = {}]
          /\ UNCHANGED <<life, parent, holed, lost, halt>>

\* load finds a bad header after it has loaded the first segments: sys_execv
\* returns -1 to a program parts of which have been overwritten.
ArenaPages(p, i) == i .. i + (IF arena[p][i].kind = "large" THEN arena[p][i].cnt ELSE 1) - 1
ExecFails(p, vs) ==
    /\ Works(p) /\ Loads(p, vs)
    /\ life' = [life EXCEPT ![p] =
                   IF \E i \in DOMAIN arena[p] : ArenaPages(p, i) \cap vs # {}
                   THEN "spoilt" ELSE @]
    /\ UNCHANGED <<parent, arena, free_list, owned, holed, lost, halt>>

\* mutant: the child frees what it inherited as its own
InheritedAsOwn(a) == a

\* The desc of a copied arena points to the parent's task structure.
Inherited(a) == IF a.kind = "mine" THEN [a EXCEPT !.kind = "inherited"] ELSE a

\* sys_fork and copy_process.  Besides what the child keeps it takes a page as
\* a buffer and gives it back at the end.
Fork(p, q) ==
    LET dirs == {Pde(v) : v \in vaddr_bitmap[p]}
    IN  /\ Runs(p) /\ life[q] = "none"
        /\ kfree >= BitmapPages + 3 /\ vaddr_bitmap[p] \subseteq mapped[p]
        /\ Cardinality(vaddr_bitmap[p]) =< UserFree /\ kfree >= BitmapPages + 3 + Cardinality(dirs)
        /\ life' = [life EXCEPT ![q] = "run"]
        /\ parent' = [parent EXCEPT ![q] = p]
        /\ vaddr_bitmap' = [vaddr_bitmap EXCEPT ![q] = vaddr_bitmap[p]]
        /\ mapped' = [mapped EXCEPT ![q] = vaddr_bitmap[p]]
        /\ page_tables' = [page_tables EXCEPT ![q] = dirs]
        /\ arena' = [arena EXCEPT ![q] = [i \in DOMAIN arena[p] |-> Inherited(arena[p][i])]]
        /\ owned' = [owned EXCEPT ![q] = owned[p]]
        /\ free_list' = [free_list EXCEPT ![q] = <<>>]
        /\ holed' = [holed EXCEPT ![q] = holed[p]]
        /\ kfree' = kfree - (2 + BitmapPages + Cardinality(dirs))
        /\ UNCHANGED <<lost, halt>>

\* Without a page for the buffer the child's task structure is forgotten.
ForkFails(p, q) ==
    /\ Runs(p) /\ life[q] = "none" /\ kfree =< 1
    /\ kfree' = 0 /\ lost' = lost + kfree
    /\ UNCHANGED <<life, parent, vaddr_bitmap, mapped, page_tables, arena, free_list, owned, holed, halt>>

\* The failures nobody looks at: create_page_dir and get_a_page panic,
\* copy_body_stack3 reads a page that malloc_page failed to get, and
\* page_table_add uses what it did not get.
ForkStops(p, q) ==
    /\ Runs(p) /\ life[q] = "none" /\ kfree > 1
    /\ \/ kfree < BitmapPages + 3 /\ Halt("oom")
       \/ ~(vaddr_bitmap[p] \subseteq mapped[p]) /\ Halt("hole")
       \/ Cardinality(vaddr_bitmap[p]) > UserFree /\ Halt("oom")
       \/ /\ kfree >= BitmapPages + 3 /\ Halt("wild")
          /\ kfree < BitmapPages + 3 + Cardinality({Pde(v) : v \in vaddr_bitmap[p]})

\* mutant: release_prog_resource keeps the page tables
ReleasedNoTables(p) == BitmapFreed

\* Kernel pages that release_prog_resource gives back
Released(p) == Cardinality(page_tables[p]) + BitmapFreed

\* sys_exit and release_prog_resource: what is in the page tables is freed.
Exit(p) ==
    /\ halt = "no" /\ p # First /\ life[p] \in {"run", "spoilt"}
    /\ mapped' = [mapped EXCEPT ![p] = {}]
    /\ page_tables' = [page_tables EXCEPT ![p] = {}]
    /\ vaddr_bitmap' = [vaddr_bitmap EXCEPT ![p] = {}]
    /\ arena' = [arena EXCEPT ![p] = NoArenas]
    /\ free_list' = [free_list EXCEPT ![p] = <<>>]
    /\ owned' = [owned EXCEPT ![p] = {}]
    /\ holed' = [holed EXCEPT ![p] = FALSE]
    /\ kfree' = kfree + Released(p)
    /\ lost' = lost + BitmapPages - BitmapFreed
    /\ parent' = [q \in Proc |-> IF parent[q] = p THEN First ELSE parent[q]]
    /\ life' = [life EXCEPT ![p] = "hang"]
    /\ UNCHANGED halt

\* sys_wait of a child that hangs, thread_exit: page directory and task structure
Wait(p, q) ==
    /\ Runs(p) /\ life[q] = "hang" /\ parent[q] = p
    /\ life' = [life EXCEPT ![q] = "none"]
    /\ kfree' = kfree + 2
    /\ UNCHANGED <<parent, vaddr_bitmap, mapped, page_tables, arena, free_list, owned, holed, lost, halt>>

Halted == halt # "no" /\ UNCHANGED userVars

UserNext ==
    \/ \E p \in Proc :
          \/ \E n \in 1 .. MaxPages : MallocLarge(p, n)
          \/ MallocSmall(p) \/ MallocArena(p) \/ MallocFails(p)
          \/ \E b \in owned[p] : Free(p, b)
          \/ \E g \in Programs : \/ Exec(p, g)
                                 \/ \E last \in g : ExecFails(p, {v \in g : v =< last})
          \/ \E q \in Proc : Fork(p, q) \/ ForkFails(p, q) \/ ForkStops(p, q) \/ Wait(p, q)
          \/ Exit(p)
    \/ Halted

UserSpec == UserInit /\ [][UserNext]_userVars

-----------------------------------------------------------------------------
\* A block is in use or in the free list, never both and never twice, and lies
\* in a page the process has; an arena's count is the number of its free blocks,
\* and an arena with all of them free is gone.  So malloc never hands out a
\* block that is in use, after any mixture of fork, exec and free, the blocks a
\* process inherited included.  The ASSERT that sys_free finds each block of a free
\* arena in the list holds.
HeapExact == halt # "assert" /\ \A p \in Proc : halt = "no" /\ life[p] = "run" =>
    LET listed == Range(free_list[p])
        InArena(i) == {b \in listed : b[1] = i}
    IN  /\ \A j, k \in DOMAIN free_list[p] : j # k => free_list[p][j] # free_list[p][k]
        /\ listed \cap owned[p] = {}
        /\ \A b \in listed \cup owned[p] : b[1] \in DOMAIN arena[p]
        /\ \A i \in DOMAIN arena[p] : LET a == arena[p][i] IN
              /\ ArenaPages(p, i) \subseteq mapped[p]
              /\ a.kind = "mine" =>
                    /\ a.cnt = Cardinality(InArena(i)) /\ a.cnt < PerArena
                    /\ InArena(i) \cup {b \in owned[p] : b[1] = i} = Range(Block(i))

\* The vaddr_bitmap and the page tables of a process say the same, through
\* fork, which copies the pages the bitmap names, and exec, which sets bits for
\* the pages it finds missing; only after a malloc that failed for want of pages
\* are there bits without pages, and a fork after it stops the system.
BitsAreTables == /\ \A p \in Proc : /\ mapped[p] \subseteq vaddr_bitmap[p]
                                    /\ mapped[p] # vaddr_bitmap[p] => holed[p]
                                    /\ {Pde(v) : v \in mapped[p]} \subseteq page_tables[p]
                 /\ halt = "hole" => \E p \in Proc : holed[p]

\* A process that has come and gone has given back all of the kernel's pages
\* but one, the last of its bitmap; no other is ever lost, save the task
\* structure of a fork that found no second page.
Kept(p) ==
    {p} \X CASE life[p] = "none" -> {}
             [] life[p] = "hang" -> {<<"task", 0>>, <<"directory", 0>>}
             [] OTHER -> {<<"task", 0>>, <<"directory", 0>>}
                         \cup {"bitmap"} \X (1 .. BitmapPages) \cup {"table"} \X page_tables[p]
KernelPagesExact == kfree + Cardinality(UNION {Kept(p) : p \in Proc}) + lost = KernelPages
=============================================================================
