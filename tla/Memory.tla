------------------------------- MODULE Memory -------------------------------
(***************************************************************************)
(* Page allocation, kernel/memory.c: threads that take and give back pages *)
(* of the two pools, addresses of the kernel and of processes, and page    *)
(* tables.  Small blocks are the subject of module UserSpace.              *)
(*                                                                         *)
(* pc[t] says where thread t is:                                           *)
(*   "user"            outside the memory code                             *)
(*   "lock"            in lock_acquire of the pool, before vaddr_get       *)
(*   "scan", "set"     in palloc of the page, around its bitmap_scan       *)
(*   "tscan", "tset"   in palloc of the page table                         *)
(*   "map"             in page_table_add, entering the page                *)
(*   "unlock"          before lock_release of the pool                     *)
(* and req[t] is the request: the pool, the space whose page directory is  *)
(* loaded, whether it is get_a_page's ("at"), the first page, the pages    *)
(* done and wanted, and the physical page palloc found.                    *)
(***************************************************************************)
EXTENDS Pools, FiniteSets

CONSTANTS Thread,
          Process,      \* the threads with a page directory; the others
                        \* have pgdir = NULL
          Forker, Child, \* the process that forks, and the space it builds,
                        \* whose thread does not run yet
          Preemptible,  \* the threads that run this code with IF on; the
                        \* others are in system calls
          Kernel, None,
          AllMem,       \* pages of memory
          Taken,        \* bits set when the story begins, by owners who keep
                        \* their pages; kernel addresses likewise
          UserLen, TablePages, \* pages of a process, and of one page table
          MaxReq,       \* pages asked for in one request
          MaxCuts       \* bound on preemptions in the middle of a request

ASSUME MemoryAssumption ==
    /\ Process \subseteq Thread /\ Preemptible \subseteq Thread
    /\ Forker \in Process \ Preemptible  \* sys_fork: ASSERT(INTR_OFF)
    /\ Kernel \notin Thread /\ Child \notin Thread \cup {Kernel}
    /\ None \notin Thread
    /\ UserLen \in Nat /\ TablePages \in Nat \ {0} /\ MaxReq \in Nat /\ MaxCuts \in Nat
    /\ AllMem \in Nat /\ AllMem > UsedMem

L == mem_pool_init(AllMem)
Pool(pf) == IF pf = "kernel" THEN L.kernel ELSE L.user
Frame == Pages(L.kernel) \cup Pages(L.user)
Space == Process \cup {Child, Kernel}
VaddrLen(s) == IF s = Kernel THEN L.kernel.len ELSE UserLen
Dir(v) == v \div TablePages

VARIABLES bits,    \* the bits set in the bitmaps of the two pools
          vbits,   \* the vaddr_bitmap of each space
          pte,     \* the page each virtual page is mapped to
          table,   \* the page tables the directories of processes name
          garbled, \* the tables, of a space and a number, whose page somebody
                   \* else got as well
          lock,    \* holder of each pool's lock
          got,     \* requests granted and not given back: space, page, count
          cpu,     \* the thread that runs, and how often one has been preempted in
                   \* the middle of this code
          pc, req,
          fault    \* "no", or what stopped the system

memVars == <<bits, vbits, pte, table, garbled, got>>
vars == <<bits, vbits, pte, table, garbled, got, lock, cpu, pc, req, fault>>

NoReq == [pf |-> "kernel", space |-> Kernel, at |-> FALSE, reserve |-> FALSE,
          page |-> 0, done |-> 0, cnt |-> 0, frame |-> 0, tframe |-> 0]

TypeOK == /\ bits \subseteq 0 .. L.kernel.len + L.user.len - 1
          /\ vbits \in [Space -> SUBSET (0 .. L.kernel.len + UserLen)]
          /\ \A s \in Space : pte[s] \in [0 .. VaddrLen(s) - 1 -> Frame \cup {0}]
          /\ table \in [Space \ {Kernel} -> [0 .. Dir(UserLen - 1) -> Frame \cup {0}]]
          /\ garbled \subseteq (Space \ {Kernel}) \X (0 .. Dir(UserLen - 1))
          /\ lock \in [{"kernel", "user"} -> Thread \cup {None}]
          /\ cpu \in [runs : Thread, cut : 0 .. MaxCuts]
          /\ fault \in {"no", "oom", "assert", "wild"}

Init == /\ bits = Taken
        /\ vbits = [s \in Space |-> IF s = Kernel THEN Own(Taken, L.kernel) ELSE {}]
        /\ pte = [s \in Space |-> [v \in 0 .. VaddrLen(s) - 1 |-> 0]]
        /\ table = [s \in Space \ {Kernel} |-> [d \in 0 .. Dir(UserLen - 1) |-> 0]]
        /\ garbled = {}
        /\ lock = [pf \in {"kernel", "user"} |-> None]
        /\ got = {}
        /\ cpu \in [runs : Thread, cut : {0}]
        /\ pc = [t \in Thread |-> "user"]
        /\ req = [t \in Thread |-> NoReq]
        /\ fault = "no"

-----------------------------------------------------------------------------
At(t, where) == cpu.runs = t /\ fault = "no" /\ pc[t] = where
Goto(t, where) == pc' = [pc EXCEPT ![t] = where]
Stop(what) == fault' = what /\ UNCHANGED pc
Ask(t, r) == /\ At(t, "user")
             /\ req' = [req EXCEPT ![t] = r]
             /\ Goto(t, "lock")
             /\ UNCHANGED <<memVars, lock, cpu, fault>>

\* get_kernel_pages(n), and sys_malloc of more than 1024 bytes, which takes
\* user pages for a thread with a page directory
GetPages(t, pf, n) ==
    /\ pf = "user" => t \in Process
    /\ Ask(t, [NoReq EXCEPT !.pf = pf, !.cnt = n,
                            !.space = IF pf = "kernel" THEN Kernel ELSE t])

\* get_a_page(PF_USER, v, 1), from segment_load, which first looks whether the
\* page is there, and from start_process.  Programs begin above page 0.
GetAPage(t, v) ==
    /\ t \in Process /\ pte[t][v] = 0
    /\ Ask(t, [NoReq EXCEPT !.pf = "user", !.space = t, !.at = TRUE,
                            !.reserve = TRUE, !.page = v, !.cnt = 1])

\* copy_body_stack3: get_a_page(PF_USER, v, 0) with the child's page directory
\* loaded.  The child's bitmap is a copy of its parent's.
ForkPage(v) ==
    /\ pte[Forker][v] # 0 /\ pte[Child][v] = 0
    /\ Ask(Forker, [NoReq EXCEPT !.pf = "user", !.space = Child, !.at = TRUE,
                                 !.page = v, !.cnt = 1])

\* The virtual pages of a request
Wanted(r) == r.page .. r.page + r.cnt - 1

\* mutant: get_a_page and malloc_page do not wait for the lock
AcquireBlindly(t) ==
    LET r == req[t]
        i == bitmap_scan(vbits[r.space], VaddrLen(r.space), r.cnt)
    IN  /\ At(t, "lock")
        /\ lock' = [lock EXCEPT ![r.pf] = t]
        /\ req' = [req EXCEPT ![t].page = IF r.at \/ i = -1 THEN @ ELSE i]
        /\ vbits' = IF r.at \/ i = -1 THEN vbits
                    ELSE [vbits EXCEPT ![r.space] = @ \cup Wanted(req'[t])]
        /\ Goto(t, IF i = -1 /\ ~r.at THEN "unlock" ELSE "scan")
        /\ UNCHANGED <<bits, pte, table, garbled, got, cpu, fault>>

\* lock_acquire, then vaddr_get unless the caller gave the address
Acquire(t) ==
    LET r == req[t]
        i == bitmap_scan(vbits[r.space], VaddrLen(r.space), r.cnt)
    IN  /\ At(t, "lock") /\ lock[r.pf] = None
        /\ lock' = [lock EXCEPT ![r.pf] = t]
        /\ \/ r.at /\ Goto(t, "scan") /\ UNCHANGED <<vbits, req>>
           \/ ~r.at /\ i = -1 /\ Goto(t, "unlock") /\ UNCHANGED <<vbits, req>>
           \/ /\ ~r.at /\ i # -1
              /\ req' = [req EXCEPT ![t].page = i]
              /\ vbits' = [vbits EXCEPT ![r.space] = @ \cup Wanted(req'[t])]
              /\ Goto(t, "scan")
        /\ UNCHANGED <<bits, pte, table, garbled, got, cpu, fault>>

\* palloc(mem_pool) up to its bitmap_scan.  malloc_page that finds no page
\* returns NULL with the addresses and pages it has; get_a_page panics.
PallocScan(t) ==
    LET f == palloc(bits, Pool(req[t].pf))
    IN  /\ At(t, "scan")
        /\ req' = [req EXCEPT ![t].frame = f]
        /\ CASE f # 0 -> Goto(t, "set") /\ UNCHANGED fault
             [] f = 0 /\ req[t].at -> Stop("oom")
             [] OTHER -> Goto(t, "unlock") /\ UNCHANGED fault
        /\ UNCHANGED <<memVars, lock, cpu>>

\* The rest of palloc, update_thread_bitmap when get_a_page asks for it, and
\* page_table_add up to the page table: those of the kernel exist from the
\* boot on.
PallocSet(t) ==
    LET r == req[t]
        missing == r.space # Kernel /\ table[r.space][Dir(r.page + r.done)] = 0
    IN  /\ At(t, "set")
        /\ bits' = bitmap_set(bits, BitOf(Pool(r.pf), r.frame), 1)
        /\ vbits' = IF r.reserve THEN [vbits EXCEPT ![r.space] = @ \cup {r.page}] ELSE vbits
        /\ Goto(t, IF missing THEN "tscan" ELSE "map")
        /\ UNCHANGED <<pte, table, garbled, got, lock, cpu, req, fault>>

\* page_table_add's palloc(&kernel_pool), which does not hold the lock of that pool, and
\* whose result is not looked at: NULL makes physical page 0 a page table.
TableScan(t) ==
    LET f == palloc(bits, L.kernel)
    IN  /\ At(t, "tscan")
        /\ req' = [req EXCEPT ![t].tframe = f]
        /\ IF f = 0 THEN Stop("wild") ELSE Goto(t, "tset") /\ UNCHANGED fault
        /\ UNCHANGED <<memVars, lock, cpu>>

\* The page tables that are at one of pages, and the kernel's pages that have an owner
TablesAt(pages) == {x \in (Space \ {Kernel}) \X (0 .. Dir(UserLen - 1)) :
                      table[x[1]][x[2]] \in pages \ {0}}
Owned == UNION {{pte[Kernel][v] : v \in Wanted(g)} : g \in {h \in got : h.space = Kernel}}
Spoilt(s, v) == s # Kernel /\ <<s, Dir(v)>> \in garbled

\* memset(page, 0, PAGE_SIZE) of some pages: a page table among them has no
\* entries any more.
Zeroed(pages) ==
    [s \in Space |-> [v \in DOMAIN pte[s] |->
        IF s # Kernel /\ table[s][Dir(v)] \in pages \ {0} THEN 0 ELSE pte[s][v]]]

\* mutant: the page of the table is not marked as taken
TableSetUnmarked(t) ==
    LET r == req[t]
        d == Dir(r.page + r.done)
        shared == TablesAt({r.tframe})
    IN  /\ At(t, "tset")
        /\ table' = [table EXCEPT ![r.space][d] = r.tframe]
        /\ pte' = Zeroed({r.tframe})
        /\ garbled' = garbled \cup shared \cup
                        {x \in {<<r.space, d>>} : shared # {} \/ r.tframe \in Owned}
        /\ Goto(t, "map")
        /\ UNCHANGED <<bits, vbits, got, lock, cpu, req, fault>>

\* The rest of that palloc, the directory's entry and the memset of the table.
\* If the thread was preempted after TableScan, the page may be another table or
\* have an owner by now.
TableSet(t) ==
    LET r == req[t]
        d == Dir(r.page + r.done)
        shared == TablesAt({r.tframe})
    IN  /\ At(t, "tset")
        /\ bits' = bitmap_set(bits, BitOf(L.kernel, r.tframe), 1)
        /\ table' = [table EXCEPT ![r.space][d] = r.tframe]
        /\ pte' = Zeroed({r.tframe})
        /\ garbled' = garbled \cup shared \cup
                        {x \in {<<r.space, d>>} : shared # {} \/ r.tframe \in Owned}
        /\ Goto(t, "map")
        /\ UNCHANGED <<vbits, got, lock, cpu, req, fault>>

\* The ASSERT, and the entry.  What the entry of a spoilt table says is up to the
\* page's other owner, who writes to it, and a new entry is written into his data:
\* it seems present, or what the system does from here on is not followed.
Map(t) ==
    LET r == req[t]
        v == r.page + r.done
    IN  /\ At(t, "map")
        /\ \/ /\ pte[r.space][v] # 0 \/ Spoilt(r.space, v)
              /\ Stop("assert") /\ UNCHANGED <<pte, req>>
           \/ /\ Spoilt(r.space, v)
              /\ Stop("wild") /\ UNCHANGED <<pte, req>>
           \/ /\ pte[r.space][v] = 0 /\ ~Spoilt(r.space, v)
              /\ pte' = [pte EXCEPT ![r.space][v] = r.frame]
              /\ req' = [req EXCEPT ![t].done = @ + 1]
              /\ Goto(t, IF r.done + 1 = r.cnt THEN "unlock" ELSE "scan")
              /\ UNCHANGED fault
        /\ UNCHANGED <<bits, vbits, table, garbled, got, lock, cpu>>

\* The end of get_kernel_pages, get_user_pages and sys_malloc: the memset of the
\* pages, and lock_release.  From here on their owner writes to them.  Both do
\* harm when a page is a page table as well.  get_a_page zeroes nothing: its page
\* is from the user pool, which has no tables.
Unlock(t) ==
    LET r == req[t]
        mine == {pte[r.space][v] : v \in Wanted(r)}
    IN  /\ At(t, "unlock")
        /\ lock' = [lock EXCEPT ![r.pf] = None]
        /\ IF r.done = r.cnt /\ ~r.at
           THEN /\ got' = got \cup {[space |-> r.space, page |-> r.page, cnt |-> r.cnt]}
                /\ pte' = Zeroed(mine)
                /\ garbled' = garbled \cup TablesAt(mine)
           ELSE UNCHANGED <<got, pte, garbled>>
        /\ req' = [req EXCEPT ![t] = NoReq]
        /\ Goto(t, "user")
        /\ UNCHANGED <<bits, vbits, table, cpu, fault>>

\* mutant: vaddr_remove clears one bit more
MfreePageOneMore(t, g) ==
    /\ At(t, "user") /\ g \in got /\ g.space \in {Kernel, t}
    /\ g.space = t => lock["user"] = None
    /\ bits' = bits \ {pfree(L, pte[g.space][v]) : v \in Wanted(g)}
    /\ pte' = [pte EXCEPT ![g.space] =
                  [v \in DOMAIN @ |-> IF v \in Wanted(g) THEN 0 ELSE @[v]]]
    /\ vbits' = [vbits EXCEPT ![g.space] = @ \ (Wanted(g) \cup {g.page + g.cnt})]
    /\ got' = got \ {g}
    /\ UNCHANGED <<table, garbled, lock, cpu, pc, req, fault>>

\* mfree_page(pf, page, cnt): by sys_free, which holds the pool's lock, or by
\* fork and exit for kernel pages, without it.  The bits are cleared before
\* the entries and those before the addresses, so nothing read is stale.  Where a
\* spoilt table leads sys_free, to an arena that is not there or to another page,
\* is not followed.
MfreePage(t, g) ==
    /\ At(t, "user") /\ g \in got /\ g.space \in {Kernel, t}
    /\ g.space = t => lock["user"] = None
    /\ IF \E v \in Wanted(g) : Spoilt(g.space, v)
       THEN Stop("wild") /\ UNCHANGED memVars
       ELSE /\ bits' = bits \ {pfree(L, pte[g.space][v]) : v \in Wanted(g)}
            /\ pte' = [pte EXCEPT ![g.space] =
                          [v \in DOMAIN @ |-> IF v \in Wanted(g) THEN 0 ELSE @[v]]]
            /\ vbits' = [vbits EXCEPT ![g.space] = @ \ Wanted(g)]
            /\ got' = got \ {g}
            /\ UNCHANGED <<table, garbled, pc, fault>>
    /\ UNCHANGED <<lock, cpu, req>>

\* schedule() leaves a thread that waits for the lock, that is back in its
\* own code or that runs with IF on.  When the thread runs again,
\* process_activate has loaded its own page directory.
Switch(t) ==
    LET c == cpu.runs
        leaves == pc[c] = "user" \/ (pc[c] = "lock" /\ lock[req[c].pf] # None)
    IN  /\ fault = "no" /\ t # c
        /\ leaves \/ (c \in Preemptible /\ cpu.cut < MaxCuts)
        /\ cpu' = [runs |-> t, cut |-> IF leaves THEN cpu.cut ELSE cpu.cut + 1]
        /\ req' = IF req[c].space = Child THEN [req EXCEPT ![c].space = c] ELSE req
        /\ UNCHANGED <<memVars, lock, pc, fault>>

Stopped == fault # "no" /\ UNCHANGED vars

Next == \/ \E t \in Thread :
              \/ \E pf \in {"kernel", "user"}, n \in 1 .. MaxReq : GetPages(t, pf, n)
              \/ \E v \in 1 .. UserLen - 1 : GetAPage(t, v)
              \/ Acquire(t) \/ PallocScan(t) \/ PallocSet(t) \/ TableScan(t) \/ TableSet(t) \/ Map(t)
              \/ Unlock(t) \/ Switch(t)
              \/ \E g \in got : MfreePage(t, g)
        \/ \E v \in 0 .. UserLen - 1 : ForkPage(v)
        \/ Stopped

Spec == Init /\ [][Next]_vars

-----------------------------------------------------------------------------
\* The places that can hold a physical page: entries of page tables and of
\* page directories, and requests that have taken one and not entered it yet
Places == (UNION {{"page"} \X {s} \X (0 .. VaddrLen(s) - 1) : s \in Space})
          \cup {"table"} \X (Space \ {Kernel}) \X (0 .. Dir(UserLen - 1))
          \cup {"request"} \X Thread \X {0}
Held(x) == CASE x[1] = "page" -> pte[x[2]][x[3]]
             [] x[1] = "table" -> table[x[2]][x[3]]
             [] OTHER -> IF pc[x[2]] \in {"tscan", "tset", "map"}
                         THEN req[x[2]].frame ELSE 0

\* The pages whose bits are in a bitmap
PagesOf(bm) == UNION {{f \in Pages(Pool(pf)) : BitOf(Pool(pf), f) \in bm}
                         : pf \in {"kernel", "user"}}
TakenPages == PagesOf(Taken)

\* A page of frames is held in one place, and its bit is set exactly as long
\* as it is held: none is given out twice, none that was freed stays taken.
Exact(frames) ==
    LET use == {x \in Places : Held(x) \in frames}
        held == {Held(x) : x \in use}
    IN  /\ Cardinality(use) = Cardinality(held)
        /\ held \cap TakenPages = {}
        /\ PagesOf(bits) \cap frames = held \cup (TakenPages \cap frames)

\* As long as all requests come from system calls, with IF off, every page of the two
\* pools is held in one place, and its bit is set exactly as long, through failed
\* requests and page tables taken on the way.  Where kernel threads that are
\* preempted in the middle of this code make requests as well, this still holds of
\* the user pool, whose users all take its lock, until page_table_add, which takes its
\* page without the lock, and another owner get one page of the kernel pool: the
\* first memset of it makes the process lose its user pages.
FramesExact == fault = "no" => /\ cpu.cut = 0 => garbled = {} /\ Exact(Frame)
                               /\ garbled = {} => Exact(Pages(L.user))

\* What a thread was granted is mapped, and its addresses are reserved, until
\* it gives them back: a request that fails half-way, or a freed neighbour,
\* takes nothing away from it, preempted or not.  The one exception are the user
\* pages of a process under a page table whose page another owner got as well;
\* kernel pages, and the user pages under any other table, are never lost.
GrantsMapped == \A g \in got : \A v \in Wanted(g) :
                    /\ v \in vbits[g.space]
                    /\ pte[g.space][v] # 0 \/ Spoilt(g.space, v)

\* bitmap_scan is first fit on every bitmap the allocator comes to have, for
\* the counts asked of it: its loop, which counts from the last set bit it has
\* seen, finds the first run that is long enough, at the bitmap's ends too.
ScanIsFirstFit ==
    /\ \A pf \in {"kernel", "user"} : FirstFit(Own(bits, Pool(pf)), Pool(pf).len, 1)
    /\ \A s \in Space, n \in 1 .. MaxReq : FirstFit(vbits[s], VaddrLen(s), n)

\* ASSERT(!(*pte & 1)) in page_table_add never fails.
NoAssert == fault # "assert"
=============================================================================
