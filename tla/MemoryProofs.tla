---------------------------- MODULE MemoryProofs ----------------------------
(***************************************************************************)
(* Page allocation and what processes have in memory.  First the pools     *)
(* alone: bitmap_scan is first fit on bitmaps of every length, and the pools *)
(* of every size of memory give out and take back pages by the same bits.  *)
(* Then what is promised to those who ask for pages, for any threads,      *)
(* processes, sizes of memory and requests, preemption included.  Last the *)
(* page tables, bitmaps and heaps of any number of processes.              *)
(***************************************************************************)
EXTENDS Memory, UserSpace, FiniteSetTheorems, SequenceTheorems, TLAPS

-----------------------------------------------------------------------------
(* bitmap_scan and the pools *)

\* A set of naturals has a least element: the intervals 0 .. j are well-founded.
LEMMA LeastOf ==
  ASSUME NEW S, S \subseteq Nat, S # {}
  PROVE  Least(S) \in S /\ \A j \in S : Least(S) =< j
<1> DEFINE R == StrictSubsetOrdering(Nat)
           T == {0 .. j : j \in S}
<1>1. IsWellFoundedOn(R, FiniteSubsetsOf(Nat))
  BY FS_StrictSubsetOrderingWellFounded
<1>2. T \subseteq FiniteSubsetsOf(Nat) /\ T # {}
  <2>1. ASSUME NEW j \in S PROVE 0 .. j \in FiniteSubsetsOf(Nat)
    <3>1. j \in Int /\ 0 \in Int /\ 0 .. j \in SUBSET Nat
      OBVIOUS
    <3>2. IsFiniteSet(0 .. j)
      BY <3>1, FS_Interval
    <3> QED BY <3>1, <3>2 DEF FiniteSubsetsOf
  <2> QED BY <2>1
<1>3. PICK X \in T : \A Y \in T : ~(<<Y, X>> \in R)
  <2> HIDE DEF R, T
  <2> QED BY <1>1, <1>2, WFMin
<1>4. PICK x \in S : X = 0 .. x
  OBVIOUS
<1>5. ASSUME NEW y \in S PROVE x =< y
  <2>1. SUFFICES ASSUME y < x PROVE FALSE
    OBVIOUS
  <2>2. 0 .. y \subseteq 0 .. x /\ 0 .. y # 0 .. x
    <3>1. x \in 0 .. x /\ x \notin 0 .. y
      BY <2>1
    <3> QED BY <2>1, <3>1
  <2>3. 0 .. y \in SUBSET Nat /\ 0 .. x \in SUBSET Nat
    OBVIOUS
  <2>4. <<0 .. y, X>> \in R
    BY <1>4, <2>2, <2>3, Zenon DEF StrictSubsetOrdering
  <2> QED BY <1>3, <2>4
<1> QED BY <1>5 DEF Least

\* What the loop of bitmap_scan knows at bit i
LEMMA LastBadIs ==
  ASSUME NEW bs \in SUBSET Nat, NEW i \in Nat
  PROVE  /\ LastBad(bs, i) \in -1 .. i - 1
         /\ LastBad(bs, i) = -1 \/ LastBad(bs, i) \in bs
         /\ \A j \in bs : j < i => j =< LastBad(bs, i)
<1>1. CASE \E j \in bs : j < i
  <2> DEFINE S == {d \in Nat : d =< i - 1 /\ i - 1 - d \in bs}
  <2>1. S # {} /\ S \subseteq Nat
    <3>1. PICK j \in bs : j < i
      BY <1>1
    <3>2. i - 1 - j \in S
      <4>1. i - 1 - j \in Nat /\ i - 1 - (i - 1 - j) = j
        BY <3>1
      <4> QED BY <3>1, <4>1
    <3> QED BY <3>2
  <2> DEFINE d == Least(S)
  <2>2. d \in S /\ \A e \in S : d =< e
    <3> HIDE DEF S
    <3> QED BY <2>1, LeastOf
  <2> HIDE DEF d
  <2> DEFINE m == i - 1 - d
  <2>3. m \in bs /\ m < i /\ d \in Nat
    BY <2>2
  <2>4. ASSUME NEW k \in bs, k < i PROVE k =< m
    <3>1. i - 1 - k \in Nat /\ i - 1 - (i - 1 - k) = k
      BY <2>4
    <3>2. i - 1 - k \in S
      BY <2>4, <3>1
    <3> QED BY <2>2, <2>3, <3>1, <3>2
  <2>5. \E j \in bs : j < i /\ \A k \in bs : k < i => k =< j
    BY <2>3, <2>4
  <2> DEFINE c == CHOOSE j \in bs : j < i /\ \A k \in bs : k < i => k =< j
  <2>6. c \in bs /\ c < i /\ \A k \in bs : k < i => k =< c
    BY <2>5
  <2>7. LastBad(bs, i) = c
    BY <1>1 DEF LastBad
  <2> HIDE DEF c
  <2> QED BY <2>6, <2>7
<1>2. CASE ~ \E j \in bs : j < i
  BY <1>2 DEF LastBad
<1> QED BY <1>1, <1>2

\* A bit at which the loop returns ends a run of cnt clear bits ...
LEMMA HitEndsRun ==
  ASSUME NEW len \in Nat, NEW bs \in SUBSET Nat, NEW cnt \in Nat \ {0},
         NEW h \in ScanHits(bs, len, cnt)
  PROVE  /\ h - cnt + 1 \in Fits(bs, len, cnt)
         /\ cnt # 1 => LastBad(bs, h) + 1 = h - cnt + 1
<1>1. /\ h \in 0 .. len - 1 /\ h \notin bs
      /\ cnt = 1 \/ h - LastBad(bs, h) = cnt
  BY DEF ScanHits
<1>2. /\ LastBad(bs, h) \in -1 .. h - 1
      /\ \A j \in bs : j < h => j =< LastBad(bs, h)
  BY <1>1, LastBadIs
<1>3. CASE cnt = 1
  <2>1. \A k \in h - cnt + 1 .. h - cnt + 1 + cnt - 1 : k = h
    BY <1>1, <1>3
  <2> QED BY <1>1, <1>3, <2>1 DEF Fits
<1>4. CASE cnt # 1
  BY <1>1, <1>2, <1>4 DEF Fits
<1> QED BY <1>3, <1>4

\* ... and the loop returns at the end of the first such run, if not before.
LEMMA FirstRunIsHit ==
  ASSUME NEW len \in Nat, NEW bs \in SUBSET Nat, NEW cnt \in Nat \ {0},
         NEW m \in Fits(bs, len, cnt),
         \A j \in Fits(bs, len, cnt) : m =< j
  PROVE  m + cnt - 1 \in ScanHits(bs, len, cnt)
<1> DEFINE i == m + cnt - 1
<1>1. /\ m \in 0 .. len - cnt /\ i \in 0 .. len - 1 /\ m \in Nat /\ i \in Nat
      /\ \A k \in m .. i : k \notin bs
  BY DEF Fits
<1>2. i \notin bs
  BY <1>1
<1>3. CASE cnt = 1
  BY <1>1, <1>2, <1>3 DEF ScanHits
<1>4. CASE cnt # 1
  <2>1. /\ LastBad(bs, i) \in -1 .. i - 1
        /\ LastBad(bs, i) = -1 \/ LastBad(bs, i) \in bs
        /\ \A j \in bs : j < i => j =< LastBad(bs, i)
    BY <1>1, LastBadIs
  <2>2. LastBad(bs, i) =< m - 1
    BY <1>1, <2>1
  <2>3. m - 1 =< LastBad(bs, i)
    <3>1. CASE m = 0
      BY <2>1, <3>1
    <3>2. CASE m # 0
      <4>1. m - 1 \in 0 .. len - cnt /\ m - 1 \notin Fits(bs, len, cnt)
        BY <1>1, <3>2
      <4>2. PICK k \in m - 1 .. m - 1 + cnt - 1 : k \in bs
        BY <4>1 DEF Fits
      <4>3. k = m - 1 /\ k < i
        BY <1>1, <1>4, <4>2
      <4> QED BY <2>1, <4>2, <4>3
    <3> QED BY <3>1, <3>2
  <2>4. i - LastBad(bs, i) = cnt
    BY <1>1, <2>1, <2>2, <2>3
  <2> QED BY <1>1, <1>2, <2>4 DEF ScanHits
<1> QED BY <1>3, <1>4

\* bitmap_scan(bs, len, cnt) is the first run of cnt clear bits, or -1.
LEMMA ScanIs ==
  ASSUME NEW len \in Nat, NEW bs \in SUBSET Nat, NEW cnt \in Nat \ {0}
  PROVE  FirstFit(bs, len, cnt)
<1> DEFINE fits == Fits(bs, len, cnt)
           hits == ScanHits(bs, len, cnt)
<1>1. fits \subseteq Nat /\ hits \subseteq Nat
  BY DEF Fits, ScanHits
<1>2. CASE fits = {}
  <2>1. hits = {}
    BY <1>2, HitEndsRun
  <2> QED BY <1>2, <2>1 DEF bitmap_scan, FirstFit
<1>3. CASE fits # {}
  <2> DEFINE m == Least(fits)
             h == Least(hits)
  <2>1. m \in fits /\ \A j \in fits : m =< j
    <3> HIDE DEF fits
    <3> QED BY <1>1, <1>3, LeastOf
  <2> HIDE DEF m
  <2>2. m + cnt - 1 \in hits
    BY <2>1, FirstRunIsHit
  <2>3. h \in hits /\ h =< m + cnt - 1
    <3> HIDE DEF hits
    <3>1. hits # {}
      BY <2>2
    <3>2. h \in hits /\ \A j \in hits : h =< j
      BY <1>1, <3>1, LeastOf
    <3> QED BY <2>2, <3>2
  <2> HIDE DEF h
  <2>4. h - cnt + 1 \in fits /\ (cnt # 1 => LastBad(bs, h) + 1 = h - cnt + 1)
    BY <2>3, HitEndsRun
  <2>5. h - cnt + 1 = m
    BY <1>1, <2>1, <2>3, <2>4
  <2>6. bitmap_scan(bs, len, cnt) = m
    <3>1. bitmap_scan(bs, len, cnt) = IF cnt = 1 THEN h ELSE LastBad(bs, h) + 1
      BY <2>3 DEF bitmap_scan, h
    <3> QED BY <1>1, <2>3, <2>4, <2>5, <3>1
  <2> QED BY <1>3, <2>6 DEF m, FirstFit
<1> QED BY <1>2, <1>3

\* bitmap_scan finds the first run of clear bits that is long enough, on every
\* bitmap and for every count.
THEOREM ScanFirstFit ==
  \A len \in Nat, bs \in SUBSET Nat, cnt \in Nat \ {0} : FirstFit(bs, len, cnt)
BY ScanIs

\* What callers use of it: the run it returns lies in the bitmap and is clear.
LEMMA ScanFinds ==
  ASSUME NEW len \in Nat, NEW bs \in SUBSET Nat, NEW cnt \in Nat \ {0},
         bitmap_scan(bs, len, cnt) # -1
  PROVE  LET i == bitmap_scan(bs, len, cnt)
         IN  i \in Nat /\ i + cnt =< len /\ \A k \in i .. i + cnt - 1 : k \notin bs
<1> DEFINE fits == Fits(bs, len, cnt)
<1>1. fits # {} /\ bitmap_scan(bs, len, cnt) = Least(fits)
  BY ScanIs DEF FirstFit
<1>2. fits \subseteq Nat
  BY DEF Fits
<1>3. Least(fits) \in fits
  <2> HIDE DEF fits
  <2> QED BY <1>1, <1>2, LeastOf
<1> QED BY <1>1, <1>3 DEF Fits

-----------------------------------------------------------------------------
\* palloc gives out a page of its pool whose bit is clear, or NULL.
LEMMA PallocGives ==
  ASSUME NEW marks \in SUBSET Nat, NEW pool,
         pool.start \in Nat \ {0}, pool.base \in Nat, pool.len \in Nat,
         palloc(marks, pool) # 0
  PROVE  LET f == palloc(marks, pool)
         IN  f \in Pages(pool) /\ BitOf(pool, f) \notin marks
<1> DEFINE own == Own(marks, pool)
           i == bitmap_scan(own, pool.len, 1)
<1>1. own \in SUBSET Nat
  BY DEF Own
<1>2. i # -1 /\ palloc(marks, pool) = pool.start + i
  BY DEF palloc
<1>3. i \in Nat /\ i + 1 =< pool.len /\ i \notin own
  <2> HIDE DEF own
  <2>1. i \in Nat /\ i + 1 =< pool.len /\ \A k \in i .. i + 1 - 1 : k \notin own
    BY <1>1, <1>2, ScanFinds
  <2> QED BY <2>1
<1> HIDE DEF i
<1> QED BY <1>2, <1>3 DEF Pages, BitOf, Own

\* The two pools of every size of memory share no page and no bit, and a page
\* of either pool is given back by the bit by which it was taken -- with one
\* exception, the first page of the user pool, which pfree takes for a page of
\* the kernel pool: it clears the right bit if, and only if, the number of
\* pages of the kernel pool is a multiple of 8.
THEOREM PoolsGiveBack ==
  ASSUME NEW all \in Nat, all >= UsedMem
  PROVE  LET l == mem_pool_init(all)
             kernel == ((all - UsedMem) % 2^16) \div 2
         IN  /\ \A f \in Pages(l.kernel), g \in Pages(l.user) :
                   f # g /\ BitOf(l.kernel, f) # BitOf(l.user, g)
             /\ \A f \in Pages(l.kernel) : pfree(l, f) = BitOf(l.kernel, f)
             /\ \A f \in Pages(l.user) :
                   pfree(l, f) = BitOf(l.user, f)
                   <=> f # l.user.start \/ kernel % 8 = 0
<1> DEFINE free == (all - UsedMem) % 2^16
           kernel == free \div 2
           l == mem_pool_init(all)
<1>1. UsedMem = 512
  BY DEF UsedMem
<1>2. free \in Nat
  BY <1>1
<1>3. /\ l.kernel = [start |-> 512, base |-> 0, len |-> 8 * (kernel \div 8)]
      /\ l.user = [start |-> 512 + kernel, base |-> 8 * (kernel \div 8),
                   len |-> 8 * ((free - kernel) \div 8)]
  BY <1>1 DEF mem_pool_init
<1> HIDE DEF free, l
<1>4. kernel \in Nat /\ kernel =< free
  BY <1>2
<1> HIDE DEF kernel
<1>5. /\ 8 * (kernel \div 8) \in Nat
      /\ kernel = 8 * (kernel \div 8) + (kernel % 8) /\ kernel % 8 \in 0 .. 7
  BY <1>4
<1> QED BY <1>1, <1>3, <1>4, <1>5 DEF Pages, BitOf, pfree, free, kernel, l

-----------------------------------------------------------------------------
(* Requests for pages, side by side *)

\* Requests and their stages
Request == [pf : {"kernel", "user"}, space : Space, at : BOOLEAN, reserve : BOOLEAN,
            page : Nat, done : Nat, cnt : Nat, frame : Nat, tframe : Nat]
Mapping == {"scan", "set", "tscan", "tset", "map"}
Stage == {"user", "lock", "unlock"} \cup Mapping

\* Page v of a space is mapped, or it was until its page table got another owner.
Entered(s, v) == pte[s][v] # 0 \/ Spoilt(s, v)

\* Thread t has reserved addresses, which it will be granted if no page fails.
Reserves(t) == /\ ~req[t].at
               /\ pc[t] \in Mapping \/ (pc[t] = "unlock" /\ req[t].done = req[t].cnt)
Inside(x) == x.page + x.cnt =< VaddrLen(x.space)
Apart(x, y) == x.space = y.space => \A v \in Wanted(x) : v \notin Wanted(y)

TypeInv ==
    /\ vbits \in [Space -> SUBSET Nat]
    /\ pte = [s \in Space |-> pte[s]]
    /\ \A s \in Space : pte[s] \in [0 .. VaddrLen(s) - 1 -> Nat]
    /\ req \in [Thread -> Request]
    /\ pc \in [Thread -> Stage]
    /\ got \subseteq [space : Space, page : Nat, cnt : Nat]
    /\ cpu.runs \in Thread

\* A request on its way
RequestSound(t) ==
    /\ pc[t] # "user" => req[t].cnt # 0
    /\ pc[t] = "lock" => req[t].done = 0
    /\ pc[t] \in Mapping => req[t].done < req[t].cnt
    /\ req[t].space = Child => req[t].at /\ t = Forker
    /\ pc[t] \in Mapping \/ (pc[t] = "lock" /\ req[t].at) => Inside(req[t])
    /\ pc[t] \in Mapping \ {"scan"} => req[t].frame # 0
    /\ Reserves(t) =>
          /\ Inside(req[t])
          /\ \A v \in Wanted(req[t]) : v \in vbits[req[t].space]
          /\ \A v \in Wanted(req[t]) :
                v < req[t].page + req[t].done => Entered(req[t].space, v)

GrantSound(g) == Inside(g) /\ \A v \in Wanted(g) : v \in vbits[g.space] /\ Entered(g.space, v)

IInv == /\ TypeInv
        /\ \A t \in Thread : RequestSound(t)
        /\ \A t, u \in Thread : t # u /\ Reserves(t) /\ Reserves(u) => Apart(req[t], req[u])
        /\ \A g \in got : GrantSound(g)
        /\ \A g \in got, t \in Thread : Reserves(t) => Apart(g, req[t])
        /\ \A g, h \in got : g # h => Apart(g, h)

\* The pools' fields, and the lengths of bitmaps
LEMMA PoolTypes ==
  /\ L.kernel.start \in Nat /\ L.kernel.base \in Nat /\ L.kernel.len \in Nat
  /\ L.user.start \in Nat /\ L.user.base \in Nat /\ L.user.len \in Nat
<1> DEFINE free == (AllMem - UsedMem) % 2^16
           kernel == free \div 2
<1>1. UsedMem = 512
  BY DEF UsedMem
<1>2. free \in Nat
  BY <1>1, MemoryAssumption
<1>3. /\ L.kernel = [start |-> 512, base |-> 0, len |-> 8 * (kernel \div 8)]
      /\ L.user = [start |-> 512 + kernel, base |-> 8 * (kernel \div 8),
                   len |-> 8 * ((free - kernel) \div 8)]
  BY <1>1 DEF mem_pool_init, L
<1> HIDE DEF free
<1> QED BY <1>2, <1>3

\* Every address space has a length.
LEMMA LenType == \A s \in Space : VaddrLen(s) \in Nat
BY PoolTypes, MemoryAssumption DEF VaddrLen

\* palloc returns a page number, or NULL.
LEMMA PallocType ==
  ASSUME NEW S, NEW pool \in {L.kernel, L.user}
  PROVE  palloc(S, pool) \in Nat
<1> DEFINE own == Own(S, pool)
           i == bitmap_scan(own, pool.len, 1)
<1>1. own \in SUBSET Nat /\ pool.len \in Nat /\ pool.start \in Nat
  BY PoolTypes DEF Own
<1>2. i = -1 \/ i \in Nat
  <2> HIDE DEF own
  <2>1. CASE i # -1
    BY <1>1, <2>1, ScanFinds
  <2> QED BY <2>1
<1>3. palloc(S, pool) = IF i = -1 THEN 0 ELSE pool.start + i
  BY DEF palloc
<1> HIDE DEF i
<1> QED BY <1>1, <1>2, <1>3

\* The entry of a page directory that page v of a process goes by
LEMMA DirIn ==
  ASSUME NEW v \in 0 .. UserLen - 1
  PROVE  Dir(v) \in 0 .. Dir(UserLen - 1)
<1> DEFINE n == UserLen - 1
           a == v \div TablePages
           b == n \div TablePages
<1>1. v \in Nat /\ n \in Nat /\ v =< n /\ TablePages \in Nat \ {0}
  BY MemoryAssumption
<1>2. /\ a \in Nat /\ TablePages * a =< v
      /\ b \in Nat /\ n < TablePages * (b + 1)
  BY <1>1
<1>3. a =< b
  <2> HIDE DEF a, b, n
  <2>1. SUFFICES ASSUME b + 1 =< a PROVE FALSE
    BY <1>2
  <2>2. TablePages * (b + 1) =< TablePages * a
    BY <1>1, <1>2, <2>1
  <2> QED BY <1>1, <1>2, <2>2
<1> QED BY <1>2, <1>3 DEF Dir

\* The memset of a page takes entries from the tables it is a page of, and from no other.
LEMMA ZeroedIs ==
  ASSUME TypeInv, NEW pages
  PROVE  /\ Zeroed(pages) = [s \in Space |-> Zeroed(pages)[s]]
         /\ \A s \in Space : Zeroed(pages)[s] \in [0 .. VaddrLen(s) - 1 -> Nat]
         /\ \A s \in Space : \A v \in 0 .. VaddrLen(s) - 1 :
               \/ Zeroed(pages)[s][v] = pte[s][v]
               \/ /\ Zeroed(pages)[s][v] = 0 /\ s # Kernel
                  /\ <<s, Dir(v)>> \in TablesAt(pages)
<1> DEFINE Cleared(s, v) == s # Kernel /\ table[s][Dir(v)] \in pages \ {0}
<1>1. \A s \in Space : pte[s] \in [0 .. VaddrLen(s) - 1 -> Nat]
  BY DEF TypeInv
<1>2. ASSUME NEW s \in Space, NEW v \in 0 .. VaddrLen(s) - 1, Cleared(s, v)
      PROVE  s # Kernel /\ <<s, Dir(v)>> \in TablesAt(pages)
  <2>1. v \in 0 .. UserLen - 1
    BY <1>2 DEF VaddrLen
  <2>2. Dir(v) \in 0 .. Dir(UserLen - 1)
    BY <2>1, DirIn
  <2> QED BY <1>2, <2>2 DEF TablesAt
<1>3. Zeroed(pages) = [s \in Space |-> [v \in 0 .. VaddrLen(s) - 1 |->
                                           IF Cleared(s, v) THEN 0 ELSE pte[s][v]]]
  BY <1>1 DEF Zeroed
<1> HIDE DEF Cleared
<1>4. ASSUME NEW s \in Space
      PROVE  /\ Zeroed(pages)[s] \in [0 .. VaddrLen(s) - 1 -> Nat]
             /\ \A v \in 0 .. VaddrLen(s) - 1 :
                   Zeroed(pages)[s][v] = IF Cleared(s, v) THEN 0 ELSE pte[s][v]
  <2>1. Zeroed(pages)[s] = [v \in 0 .. VaddrLen(s) - 1 |-> IF Cleared(s, v) THEN 0 ELSE pte[s][v]]
    BY <1>3
  <2>2. \A v \in 0 .. VaddrLen(s) - 1 :
           Zeroed(pages)[s][v] = IF Cleared(s, v) THEN 0 ELSE pte[s][v]
    BY <2>1, Zenon
  <2>3. \A v \in 0 .. VaddrLen(s) - 1 : Zeroed(pages)[s][v] \in Nat
    <3> TAKE v \in 0 .. VaddrLen(s) - 1
    <3>1. pte[s][v] \in Nat /\ 0 \in Nat
      BY <1>1
    <3> QED BY <2>2, <3>1, Zenon
  <2>4. Zeroed(pages)[s] = [v \in 0 .. VaddrLen(s) - 1 |-> Zeroed(pages)[s][v]]
    BY <2>1, <2>2
  <2> QED BY <2>2, <2>3, <2>4
<1> QED BY <1>2, <1>3, <1>4

\* So an entry stays as it is, or is cleared.
LEMMA ZeroedIn ==
  ASSUME TypeInv, NEW pages, NEW s \in Space, NEW v \in 0 .. VaddrLen(s) - 1
  PROVE  Zeroed(pages)[s][v] \in {0, pte[s][v]}
BY ZeroedIs

\* Entries and tables that stay as they are
LEMMA EnteredSame ==
  ASSUME UNCHANGED <<pte, garbled>>
  PROVE  \A s, v : Entered(s, v)' <=> Entered(s, v)
BY DEF Entered, Spoilt

\* The memset takes nothing from a page that is entered.
LEMMA ZeroedKeeps ==
  ASSUME TypeInv, NEW pages, pte' = Zeroed(pages),
         garbled \subseteq garbled', TablesAt(pages) \subseteq garbled'
  PROVE  /\ pte' = [s \in Space |-> pte'[s]]
         /\ \A s \in Space : /\ pte'[s] \in [0 .. VaddrLen(s) - 1 -> Nat]
                              /\ \A v \in 0 .. VaddrLen(s) - 1 : Entered(s, v) => Entered(s, v)'
BY ZeroedIs DEF Entered, Spoilt

-----------------------------------------------------------------------------
\* Initially nobody has asked for a page.
LEMMA InitIInv == Init => IInv
<1> SUFFICES ASSUME Init PROVE IInv
  OBVIOUS
<1>1. TypeInv
  <2>1. vbits \in [Space -> SUBSET Nat]
    BY DEF Init, Own
  <2>2. pte = [s \in Space |-> pte[s]] /\ \A s \in Space : pte[s] \in [0 .. VaddrLen(s) - 1 -> Nat]
    BY DEF Init
  <2>3. req \in [Thread -> Request]
    BY DEF Init, NoReq, Request, Space
  <2>4. pc \in [Thread -> Stage] /\ got = {} /\ cpu.runs \in Thread
    BY DEF Init, Stage
  <2> QED BY <2>1, <2>2, <2>3, <2>4 DEF TypeInv
<1>2. \A t \in Thread : RequestSound(t) /\ ~Reserves(t)
  BY MemoryAssumption DEF Init, NoReq, RequestSound, Reserves, Mapping
<1>3. got = {}
  BY DEF Init
<1> QED BY <1>1, <1>2, <1>3 DEF IInv

\* A step of thread t that changes its request and its stage, reserves or maps
\* more, and takes nothing away from others.
LEMMA GrowStep ==
  ASSUME IInv, NEW t \in Thread,
         got' = got, cpu'.runs \in Thread,
         vbits' \in [Space -> SUBSET Nat],
         \A s \in Space : vbits[s] \subseteq vbits'[s],
         pte' = [s \in Space |-> pte'[s]],
         \A s \in Space : /\ pte'[s] \in [0 .. VaddrLen(s) - 1 -> Nat]
                          /\ \A v \in 0 .. VaddrLen(s) - 1 : Entered(s, v) => Entered(s, v)',
         req' \in [Thread -> Request], pc' \in [Thread -> Stage],
         \A u \in Thread \ {t} : req'[u] = req[u] /\ pc'[u] = pc[u],
         RequestSound(t)',
         Reserves(t)' => /\ Reserves(t)
                         /\ req'[t].space = req[t].space
                         /\ Wanted(req'[t]) = Wanted(req[t])
  PROVE  IInv'
<1>1. TypeInv'
  BY DEF IInv, TypeInv
<1>2. ASSUME NEW x \in [space : Space, page : Nat, cnt : Nat], Inside(x)
      PROVE  Wanted(x) \subseteq 0 .. VaddrLen(x.space) - 1
  BY <1>2, LenType DEF Inside, Wanted
<1>3. ASSUME NEW u \in Thread
      PROVE  RequestSound(u)'
  <2>1. CASE u # t
    <3>1. RequestSound(u) /\ req'[u] = req[u] /\ pc'[u] = pc[u] /\ (Reserves(u)' <=> Reserves(u))
      BY <2>1 DEF IInv, Reserves
    <3>2. req[u].space \in Space /\ req[u].page \in Nat /\ req[u].cnt \in Nat
      BY DEF IInv, TypeInv, Request
    <3>3. Inside(req[u]) => Wanted(req[u]) \subseteq 0 .. VaddrLen(req[u].space) - 1
      BY <3>2, LenType DEF Inside, Wanted
    <3> QED BY <3>1, <3>2, <3>3 DEF RequestSound, Inside
  <2> QED BY <2>1
<1>4. \A u \in Thread : Reserves(u)' => /\ Reserves(u)
                                        /\ req'[u].space = req[u].space
                                        /\ Wanted(req'[u]) = Wanted(req[u])
  BY DEF Reserves
<1>5. \A u, w \in Thread : u # w /\ Reserves(u)' /\ Reserves(w)' => Apart(req'[u], req'[w])
  BY <1>4 DEF IInv, Apart
<1>6. \A g \in got', u \in Thread : Reserves(u)' => Apart(g, req'[u])
  BY <1>4 DEF IInv, Apart
<1>7. ASSUME NEW g \in got' PROVE GrantSound(g)'
  <2>1. /\ GrantSound(g) /\ g.space \in Space
        /\ Wanted(g) \subseteq 0 .. VaddrLen(g.space) - 1
    BY <1>2 DEF IInv, TypeInv, GrantSound
  <2> QED BY <2>1 DEF GrantSound, Inside
<1>8. \A g, h \in got' : g # h => Apart(g, h)
  BY DEF IInv
<1> QED BY <1>1, <1>3, <1>5, <1>6, <1>7, <1>8 DEF IInv

\* The same, when nothing is reserved or mapped either.
LEMMA OwnStep ==
  ASSUME IInv, NEW t \in Thread,
         UNCHANGED <<vbits, pte, garbled, got>>, cpu'.runs \in Thread,
         req' \in [Thread -> Request], pc' \in [Thread -> Stage],
         \A u \in Thread \ {t} : req'[u] = req[u] /\ pc'[u] = pc[u],
         RequestSound(t)',
         Reserves(t)' => /\ Reserves(t)
                         /\ req'[t].space = req[t].space
                         /\ Wanted(req'[t]) = Wanted(req[t])
  PROVE  IInv'
<1>1. /\ vbits' \in [Space -> SUBSET Nat]
      /\ pte' = [s \in Space |-> pte'[s]]
      /\ \A s \in Space : pte'[s] \in [0 .. VaddrLen(s) - 1 -> Nat]
  BY DEF IInv, TypeInv
<1> QED BY <1>1, EnteredSame, GrowStep

\* A new request
LEMMA AskKeeps ==
  ASSUME IInv, NEW t \in Thread, NEW r \in Request, Ask(t, r),
         r.cnt # 0, r.done = 0, r.space = Child => r.at /\ t = Forker, r.at => Inside(r)
  PROVE  IInv'
<1>1. /\ req' = [req EXCEPT ![t] = r] /\ pc' = [pc EXCEPT ![t] = "lock"]
      /\ UNCHANGED <<vbits, pte, garbled, got, cpu>>
  BY DEF Ask, Goto, memVars
<1>2. req \in [Thread -> Request] /\ pc \in [Thread -> Stage] /\ cpu.runs \in Thread
  BY DEF IInv, TypeInv
<1>3. /\ req' \in [Thread -> Request] /\ pc' \in [Thread -> Stage]
      /\ req'[t] = r /\ pc'[t] = "lock"
      /\ \A u \in Thread \ {t} : req'[u] = req[u] /\ pc'[u] = pc[u]
  BY <1>1, <1>2 DEF Stage
<1>4. ~Reserves(t)'
  BY <1>3 DEF Reserves, Mapping
<1>5. RequestSound(t)'
  BY <1>3, <1>4, <1>1 DEF RequestSound, Mapping, Inside, Request
<1> QED BY <1>1, <1>2, <1>3, <1>4, <1>5, OwnStep

\* The empty request
LEMMA NoReqIs == NoReq \in Request /\ NoReq.at = FALSE /\ NoReq.page = 0 /\ NoReq.done = 0
BY DEF NoReq, Request, Space

\* get_kernel_pages and sys_malloc ask for pages at any address ...
LEMMA GetPagesKeeps ==
  ASSUME IInv, NEW t \in Thread, NEW pf \in {"kernel", "user"}, NEW n \in 1 .. MaxReq,
         GetPages(t, pf, n)
  PROVE  IInv'
<1> DEFINE s == IF pf = "kernel" THEN Kernel ELSE t
           r == [NoReq EXCEPT !.pf = pf, !.cnt = n, !.space = s]
<1>1. Ask(t, r) /\ (pf = "user" => t \in Process)
  BY DEF GetPages
<1>2. s \in Space \ {Child} /\ n \in Nat \ {0}
  BY <1>1, MemoryAssumption DEF Space
<1> HIDE DEF s
<1>3. r \in Request /\ r.cnt # 0 /\ r.done = 0 /\ ~r.at /\ r.space # Child
  BY <1>2, NoReqIs DEF Request
<1> HIDE DEF r
<1> QED BY <1>1, <1>3, AskKeeps

\* ... get_a_page for the page at a given one ...
LEMMA GetAPageKeeps ==
  ASSUME IInv, NEW t \in Thread, NEW v \in 1 .. UserLen - 1, GetAPage(t, v)
  PROVE  IInv'
<1> DEFINE r == [NoReq EXCEPT !.pf = "user", !.space = t, !.at = TRUE,
                              !.reserve = TRUE, !.page = v, !.cnt = 1]
<1>1. Ask(t, r) /\ t \in Process
  BY DEF GetAPage
<1>2. t \in Space \ {Child, Kernel} /\ v \in Nat /\ v + 1 =< UserLen
  BY <1>1, MemoryAssumption DEF Space
<1>3. /\ r \in Request /\ r.cnt = 1 /\ r.done = 0 /\ r.space = t /\ r.page = v
  BY <1>2, NoReqIs DEF Request
<1> HIDE DEF r
<1>4. Inside(r)
  BY <1>2, <1>3 DEF Inside, VaddrLen
<1> QED BY <1>1, <1>2, <1>3, <1>4, AskKeeps

\* ... and so does fork, in the space of its child.
LEMMA ForkPageKeeps ==
  ASSUME IInv, NEW v \in 0 .. UserLen - 1, ForkPage(v)
  PROVE  IInv'
<1> DEFINE r == [NoReq EXCEPT !.pf = "user", !.space = Child, !.at = TRUE,
                              !.page = v, !.cnt = 1]
<1>1. Ask(Forker, r) /\ Forker \in Thread
  BY MemoryAssumption DEF ForkPage
<1>2. Child \in Space \ {Kernel} /\ v \in Nat /\ v + 1 =< UserLen
  BY <1>1, MemoryAssumption DEF Space
<1>3. r \in Request /\ r.cnt = 1 /\ r.done = 0 /\ r.space = Child /\ r.page = v
  BY <1>2, NoReqIs DEF Request
<1>4. r.at
  BY NoReqIs DEF Request
<1> HIDE DEF r
<1>5. Inside(r)
  BY <1>2, <1>3 DEF Inside, VaddrLen
<1> QED BY <1>1, <1>3, <1>4, <1>5, AskKeeps

\* lock_acquire: the addresses vaddr_get finds are nobody's.
LEMMA AcquireKeeps ==
  ASSUME IInv, NEW t \in Thread, Acquire(t)
  PROVE  IInv'
<1> DEFINE r == req[t]
           i == bitmap_scan(vbits[r.space], VaddrLen(r.space), r.cnt)
<1>0. /\ vbits \in [Space -> SUBSET Nat] /\ req \in [Thread -> Request]
      /\ pc \in [Thread -> Stage] /\ r \in Request /\ cpu.runs \in Thread
      /\ pc[t] = "lock" /\ UNCHANGED <<pte, garbled, got, cpu>>
      /\ RequestSound(t) /\ ~Reserves(t)
  BY DEF IInv, TypeInv, Acquire, At, Reserves, Mapping
<1>1. r.space \in Space /\ r.page \in Nat /\ r.done \in Nat /\ r.cnt \in Nat \ {0}
  BY <1>0 DEF Request, RequestSound
<1>2. CASE r.at /\ pc' = [pc EXCEPT ![t] = "scan"] /\ UNCHANGED <<vbits, req>>
  <2>1. /\ \A u \in Thread \ {t} : pc'[u] = pc[u]
        /\ pc'[t] = "scan" /\ pc' \in [Thread -> Stage]
    BY <1>0, <1>2 DEF Stage, Mapping
  <2>2. ~Reserves(t)'
    BY <1>2 DEF Reserves
  <2>3. r.done < r.cnt
    BY <1>0, <1>1 DEF RequestSound
  <2>4. RequestSound(t)'
    BY <1>0, <1>2, <2>1, <2>2, <2>3 DEF RequestSound, Mapping, Inside
  <2> QED BY <1>0, <1>2, <2>1, <2>2, <2>4, OwnStep
<1>3. CASE ~r.at /\ i = -1 /\ pc' = [pc EXCEPT ![t] = "unlock"] /\ UNCHANGED <<vbits, req>>
  <2>1. /\ \A u \in Thread \ {t} : pc'[u] = pc[u]
        /\ pc'[t] = "unlock" /\ pc' \in [Thread -> Stage]
    BY <1>0, <1>3 DEF Stage, Mapping
  <2>2. req[t].done # req[t].cnt
    BY <1>0, <1>1 DEF RequestSound
  <2>3. ~Reserves(t)'
    BY <1>3, <2>1, <2>2 DEF Reserves, Mapping
  <2>4. RequestSound(t)'
    BY <1>0, <1>3, <2>1, <2>3 DEF RequestSound, Mapping, Inside
  <2> QED BY <1>0, <1>3, <2>1, <2>3, <2>4, OwnStep
<1>4. CASE /\ ~r.at /\ i # -1
           /\ req' = [req EXCEPT ![t].page = i]
           /\ vbits' = [vbits EXCEPT ![r.space] = @ \cup Wanted(req'[t])]
           /\ pc' = [pc EXCEPT ![t] = "scan"]
  <2>1. /\ i \in Nat /\ i + r.cnt =< VaddrLen(r.space)
        /\ \A k \in i .. i + r.cnt - 1 : k \notin vbits[r.space]
    <3> DEFINE bs == vbits[r.space]
               len == VaddrLen(r.space)
               cnt == r.cnt
    <3>1. len \in Nat /\ bs \in SUBSET Nat /\ cnt \in Nat \ {0} /\ bitmap_scan(bs, len, cnt) # -1
      BY <1>0, <1>1, <1>4, LenType
    <3> HIDE DEF bs, len, cnt
    <3>2. LET k == bitmap_scan(bs, len, cnt)
          IN  k \in Nat /\ k + cnt =< len /\ \A j \in k .. k + cnt - 1 : j \notin bs
      BY <3>1, ScanFinds
    <3> QED BY <3>2 DEF bs, len, cnt
  <2> HIDE DEF i
  <2>2. /\ req' \in [Thread -> Request] /\ pc' \in [Thread -> Stage]
        /\ req'[t].page = i /\ req'[t].space = r.space /\ req'[t].cnt = r.cnt
        /\ req'[t].done = r.done /\ req'[t].at = r.at /\ pc'[t] = "scan"
        /\ \A u \in Thread \ {t} : pc'[u] = pc[u] /\ req'[u] = req[u]
    BY <1>0, <1>4, <2>1 DEF Stage, Mapping, Request
  <2>3. Wanted(req'[t]) = i .. i + r.cnt - 1
    BY <2>2 DEF Wanted
  <2>4. /\ vbits' \in [Space -> SUBSET Nat]
        /\ \A s \in Space : vbits[s] \subseteq vbits'[s]
        /\ vbits'[r.space] = vbits[r.space] \cup (i .. i + r.cnt - 1)
    <3>1. vbits' = [vbits EXCEPT ![r.space] = @ \cup (i .. i + r.cnt - 1)]
      BY <1>4, <2>3
    <3> QED BY <1>0, <1>1, <2>1, <3>1
  <2>5. TypeInv'
    BY <1>0, <2>2, <2>4 DEF IInv, TypeInv
  <2>6. \A u \in Thread \ {t} : RequestSound(u)' /\ (Reserves(u)' => Reserves(u))
    <3> SUFFICES ASSUME NEW u \in Thread \ {t}
                 PROVE  RequestSound(u)' /\ (Reserves(u)' => Reserves(u))
      OBVIOUS
    <3>1. RequestSound(u) /\ req[u].space \in Space
      BY <1>0 DEF IInv, Request
    <3>2. \A s, v : Entered(s, v)' <=> Entered(s, v)
      BY <1>0, EnteredSame
    <3> QED BY <1>0, <2>2, <2>4, <3>1, <3>2 DEF RequestSound, Reserves, Inside
  <2>7. RequestSound(t)'
    <3>1. \A v \in Wanted(req'[t]) : v \in vbits'[r.space] /\ ~(v < i + r.done)
      <4>1. r.done = 0
        BY <1>0 DEF RequestSound
      <4> QED BY <1>1, <2>1, <2>3, <2>4, <4>1
    <3> QED BY <1>0, <1>1, <2>1, <2>2, <3>1 DEF RequestSound, Inside, Mapping
  <2>8. \A u \in Thread \ {t} : Reserves(u)' => Apart(req'[t], req'[u]) /\ Apart(req'[u], req'[t])
    <3> SUFFICES ASSUME NEW u \in Thread \ {t}, Reserves(u)', req[u].space = r.space
                 PROVE  \A v \in Wanted(req[u]) : v \notin Wanted(req'[t])
      BY <2>2 DEF Apart
    <3>1. RequestSound(u) /\ Reserves(u)
      BY <2>6 DEF IInv
    <3> QED BY <2>1, <2>3, <3>1 DEF RequestSound
  <2>9. \A g \in got' : GrantSound(g)' /\ Apart(g, req'[t])
    <3> SUFFICES ASSUME NEW g \in got
                 PROVE  GrantSound(g)' /\ Apart(g, req'[t])
      BY <1>0
    <3>1. GrantSound(g) /\ g.space \in Space
      BY DEF IInv, TypeInv
    <3>2. GrantSound(g)'
      BY <1>0, <2>4, <3>1, EnteredSame DEF GrantSound, Inside
    <3> QED BY <2>1, <2>2, <2>3, <3>1, <3>2 DEF Apart, GrantSound
  <2>10. \A u, w \in Thread : u # w /\ Reserves(u)' /\ Reserves(w)' => Apart(req'[u], req'[w])
    BY <2>2, <2>6, <2>8 DEF IInv
  <2>11. \A g \in got', u \in Thread : Reserves(u)' => Apart(g, req'[u])
    BY <1>0, <2>2, <2>6, <2>9 DEF IInv
  <2>12. \A g, h \in got' : g # h => Apart(g, h)
    BY <1>0 DEF IInv
  <2> QED BY <2>5, <2>6, <2>7, <2>9, <2>10, <2>11, <2>12 DEF IInv
<1>5. \/ r.at /\ pc' = [pc EXCEPT ![t] = "scan"] /\ UNCHANGED <<vbits, req>>
      \/ ~r.at /\ i = -1 /\ pc' = [pc EXCEPT ![t] = "unlock"] /\ UNCHANGED <<vbits, req>>
      \/ /\ ~r.at /\ i # -1
         /\ req' = [req EXCEPT ![t].page = i]
         /\ vbits' = [vbits EXCEPT ![r.space] = @ \cup Wanted(req'[t])]
         /\ pc' = [pc EXCEPT ![t] = "scan"]
  <2> HIDE DEF i, r
  <2> QED BY Zenon DEF Acquire, Goto, i, r
<1> QED BY <1>2, <1>3, <1>4, <1>5

\* bitmap_scan of palloc: a request that finds no page gives up its claim.
LEMMA PallocScanKeeps ==
  ASSUME IInv, NEW t \in Thread, PallocScan(t)
  PROVE  IInv'
<1> DEFINE f == palloc(bits, Pool(req[t].pf))
<1>0. /\ req \in [Thread -> Request] /\ pc \in [Thread -> Stage] /\ cpu.runs \in Thread
      /\ pc[t] = "scan" /\ UNCHANGED <<vbits, pte, garbled, got, cpu>>
      /\ req[t] \in Request /\ RequestSound(t)
  BY DEF IInv, TypeInv, PallocScan, At, memVars
<1>1. f \in Nat
  BY PallocType DEF Pool
<1>2. /\ req' = [req EXCEPT ![t].frame = f]
      /\ \/ f # 0 /\ pc' = [pc EXCEPT ![t] = "set"]
         \/ f = 0 /\ pc' = pc
         \/ f = 0 /\ pc' = [pc EXCEPT ![t] = "unlock"]
  <2> HIDE DEF f
  <2> QED BY Zenon DEF PallocScan, Stop, Goto, f
<1> HIDE DEF f
<1>3. /\ req' \in [Thread -> Request] /\ pc' \in [Thread -> Stage]
      /\ \A u \in Thread \ {t} : req'[u] = req[u] /\ pc'[u] = pc[u]
      /\ req'[t].frame = f /\ req'[t].space = req[t].space /\ req'[t].page = req[t].page
      /\ req'[t].cnt = req[t].cnt /\ req'[t].done = req[t].done /\ req'[t].at = req[t].at
      /\ \/ f # 0 /\ pc'[t] = "set"
         \/ pc'[t] = "scan"
         \/ pc'[t] = "unlock"
  BY <1>0, <1>1, <1>2 DEF Request, Stage, Mapping
<1>4. Wanted(req'[t]) = Wanted(req[t])
  BY <1>3 DEF Wanted
<1>5. req[t].done < req[t].cnt /\ req[t].done \in Nat /\ req[t].cnt \in Nat
  BY <1>0 DEF RequestSound, Mapping, Request
<1>6. Reserves(t)' => Reserves(t)
  BY <1>0, <1>3, <1>5 DEF Reserves, Mapping
<1>7. RequestSound(t)'
  BY <1>0, <1>3, <1>4, <1>5, <1>6, EnteredSame DEF RequestSound, Mapping, Inside
<1> QED BY <1>0, <1>3, <1>4, <1>6, <1>7, OwnStep

\* The rest of palloc may reserve one more address.
LEMMA PallocSetKeeps ==
  ASSUME IInv, NEW t \in Thread, PallocSet(t)
  PROVE  IInv'
<1> DEFINE r == req[t]
<1>0. /\ req \in [Thread -> Request] /\ pc \in [Thread -> Stage] /\ cpu.runs \in Thread
      /\ vbits \in [Space -> SUBSET Nat]
      /\ pc[t] = "set" /\ UNCHANGED <<pte, garbled, got, cpu, req>>
      /\ r \in Request /\ RequestSound(t)
      /\ pte = [s \in Space |-> pte[s]] /\ \A s \in Space : pte[s] \in [0 .. VaddrLen(s) - 1 -> Nat]
  BY DEF IInv, TypeInv, PallocSet, At
<1>1. r.space \in Space /\ r.page \in Nat
  BY <1>0 DEF Request
<1>2. /\ vbits' = IF r.reserve THEN [vbits EXCEPT ![r.space] = @ \cup {r.page}] ELSE vbits
      /\ pc' = [pc EXCEPT ![t] = "tscan"] \/ pc' = [pc EXCEPT ![t] = "map"]
  BY Zenon DEF PallocSet, Goto
<1>3. vbits' \in [Space -> SUBSET Nat] /\ \A s \in Space : vbits[s] \subseteq vbits'[s]
  BY <1>0, <1>1, <1>2
<1>4. /\ pc' \in [Thread -> Stage] /\ pc'[t] \in {"tscan", "map"}
      /\ \A u \in Thread \ {t} : pc'[u] = pc[u]
  BY <1>0, <1>2 DEF Stage, Mapping
<1>5. Reserves(t)' <=> Reserves(t)
  BY <1>0, <1>4 DEF Reserves, Mapping
<1>6. \A q, v : Entered(q, v)' <=> Entered(q, v)
  BY <1>0, EnteredSame
<1>7. RequestSound(t)'
  BY <1>0, <1>1, <1>3, <1>4, <1>5, <1>6 DEF RequestSound, Mapping, Inside
<1> QED BY <1>0, <1>3, <1>4, <1>5, <1>6, <1>7, GrowStep

\* The scan for the page of a page table concerns nobody's request.
LEMMA TableScanKeeps ==
  ASSUME IInv, NEW t \in Thread, TableScan(t)
  PROVE  IInv'
<1>0. /\ req \in [Thread -> Request] /\ pc \in [Thread -> Stage] /\ cpu.runs \in Thread
      /\ pc[t] = "tscan" /\ UNCHANGED <<vbits, pte, garbled, got, cpu>>
      /\ req[t] \in Request /\ RequestSound(t)
  BY DEF IInv, TypeInv, TableScan, At, memVars
<1>1. /\ req' = [req EXCEPT ![t].tframe = palloc(bits, L.kernel)]
      /\ pc' = pc \/ pc' = [pc EXCEPT ![t] = "tset"]
  BY Zenon DEF TableScan, Stop, Goto
<1>2. palloc(bits, L.kernel) \in Nat
  BY PallocType
<1>3. /\ req' \in [Thread -> Request] /\ pc' \in [Thread -> Stage]
      /\ \A u \in Thread \ {t} : req'[u] = req[u] /\ pc'[u] = pc[u]
      /\ req'[t].frame = req[t].frame /\ req'[t].space = req[t].space
      /\ req'[t].page = req[t].page /\ req'[t].cnt = req[t].cnt
      /\ req'[t].done = req[t].done /\ req'[t].at = req[t].at
      /\ pc'[t] \in {"tscan", "tset"}
  BY <1>0, <1>1, <1>2 DEF Request, Stage, Mapping
<1>4. Wanted(req'[t]) = Wanted(req[t])
  BY <1>3 DEF Wanted
<1>5. Reserves(t)' <=> Reserves(t)
  BY <1>0, <1>3 DEF Reserves, Mapping
<1>6. RequestSound(t)'
  BY <1>0, <1>3, <1>4, <1>5, EnteredSame DEF RequestSound, Mapping, Inside
<1> QED BY <1>0, <1>3, <1>4, <1>5, <1>6, OwnStep

\* The memset of the new page table takes the entries of any other table that is at
\* its page; those tables are spoilt from then on.
LEMMA TableSetKeeps ==
  ASSUME IInv, NEW t \in Thread, TableSet(t)
  PROVE  IInv'
<1> DEFINE r == req[t]
<1>0. /\ TypeInv /\ vbits \in [Space -> SUBSET Nat]
      /\ req \in [Thread -> Request] /\ pc \in [Thread -> Stage] /\ cpu.runs \in Thread
      /\ pc[t] = "tset" /\ UNCHANGED <<vbits, got, cpu, req>>
      /\ pte' = Zeroed({r.tframe})
      /\ garbled \subseteq garbled' /\ TablesAt({r.tframe}) \subseteq garbled'
      /\ pc' = [pc EXCEPT ![t] = "map"]
      /\ r \in Request /\ RequestSound(t)
  BY DEF IInv, TypeInv, TableSet, At, Goto
<1>1. /\ pte' = [s \in Space |-> pte'[s]]
      /\ \A s \in Space : /\ pte'[s] \in [0 .. VaddrLen(s) - 1 -> Nat]
                           /\ \A v \in 0 .. VaddrLen(s) - 1 : Entered(s, v) => Entered(s, v)'
  BY <1>0, ZeroedKeeps
<1>2. /\ pc' \in [Thread -> Stage] /\ pc'[t] = "map"
      /\ \A u \in Thread \ {t} : pc'[u] = pc[u]
  BY <1>0 DEF Stage, Mapping
<1>3. Reserves(t)' <=> Reserves(t)
  BY <1>0, <1>2 DEF Reserves, Mapping
<1>4. RequestSound(t)'
  <2>1. Reserves(t) => /\ Wanted(r) \subseteq 0 .. VaddrLen(r.space) - 1
                       /\ r.space \in Space
    <3>1. r.space \in Space /\ VaddrLen(r.space) \in Nat /\ r.page \in Nat /\ r.cnt \in Nat
      BY <1>0, LenType DEF Request
    <3> QED BY <1>0, <3>1 DEF RequestSound, Inside, Wanted
  <2>2. Reserves(t) => \A v \in Wanted(r) :
                         v < r.page + r.done => Entered(r.space, v)'
    BY <1>0, <1>1, <2>1 DEF RequestSound
  <2> QED BY <1>0, <1>2, <1>3, <2>2 DEF RequestSound, Mapping, Inside
<1> QED BY <1>0, <1>1, <1>2, <1>3, <1>4, GrowStep

\* page_table_add maps the next page of the request.
LEMMA MapKeeps ==
  ASSUME IInv, NEW t \in Thread, Map(t)
  PROVE  IInv'
<1> DEFINE r == req[t]
           v == r.page + r.done
<1>0. /\ req \in [Thread -> Request] /\ pc \in [Thread -> Stage] /\ cpu.runs \in Thread
      /\ vbits \in [Space -> SUBSET Nat]
      /\ pc[t] = "map" /\ UNCHANGED <<vbits, garbled, got, cpu>>
      /\ r \in Request /\ RequestSound(t)
      /\ pte = [s \in Space |-> pte[s]] /\ \A s \in Space : pte[s] \in [0 .. VaddrLen(s) - 1 -> Nat]
  BY DEF IInv, TypeInv, Map, At
<1>1. /\ r.space \in Space /\ r.page \in Nat /\ r.done \in Nat /\ r.cnt \in Nat
      /\ r.frame \in Nat \ {0} /\ r.done < r.cnt /\ VaddrLen(r.space) \in Nat
      /\ r.page + r.cnt =< VaddrLen(r.space)
  BY <1>0, LenType DEF Request, RequestSound, Mapping, Inside
<1>2. v \in 0 .. VaddrLen(r.space) - 1
  BY <1>1
<1>3. CASE UNCHANGED <<pte, req, pc>>
  BY <1>0, <1>3, EnteredSame, OwnStep DEF Reserves, RequestSound, Inside
<1>4. CASE /\ pte[r.space][v] = 0
           /\ pte' = [pte EXCEPT ![r.space][v] = r.frame]
           /\ req' = [req EXCEPT ![t].done = @ + 1]
           /\ pc' = [pc EXCEPT ![t] = IF r.done + 1 = r.cnt THEN "unlock" ELSE "scan"]
  <2>1. /\ req' \in [Thread -> Request] /\ pc' \in [Thread -> Stage]
        /\ \A u \in Thread \ {t} : req'[u] = req[u] /\ pc'[u] = pc[u]
        /\ req'[t].done = r.done + 1 /\ req'[t].space = r.space /\ req'[t].page = r.page
        /\ req'[t].cnt = r.cnt /\ req'[t].at = r.at
        /\ pc'[t] = IF r.done + 1 = r.cnt THEN "unlock" ELSE "scan"
    <3>1. /\ req' \in [Thread -> Request] /\ \A u \in Thread \ {t} : req'[u] = req[u]
          /\ req'[t].done = r.done + 1 /\ req'[t].space = r.space /\ req'[t].page = r.page
          /\ req'[t].cnt = r.cnt /\ req'[t].at = r.at
      <4> DEFINE d == r.done + 1
      <4>1. req' = [req EXCEPT ![t].done = d] /\ d \in Nat
        BY <1>1, <1>4
      <4> HIDE DEF d
      <4>2. req' \in [Thread -> Request]
        BY <1>0, <4>1 DEF Request
      <4>3. /\ \A u \in Thread \ {t} : req'[u] = req[u]
            /\ req'[t] = [req[t] EXCEPT !.done = d]
        BY <1>0, <4>1
      <4>4. /\ req'[t].done = d /\ req'[t].space = r.space /\ req'[t].page = r.page
            /\ req'[t].cnt = r.cnt /\ req'[t].at = r.at
        BY <1>0, <4>3 DEF Request
      <4> QED BY <4>2, <4>3, <4>4 DEF d
    <3> DEFINE where == IF r.done + 1 = r.cnt THEN "unlock" ELSE "scan"
    <3>2. where \in Stage
      BY DEF Stage, Mapping
    <3>3. pc' = [pc EXCEPT ![t] = where]
      BY <1>4
    <3> HIDE DEF where
    <3>4. /\ pc' \in [Thread -> Stage] /\ pc'[t] = where
          /\ \A u \in Thread \ {t} : pc'[u] = pc[u]
      BY <1>0, <3>2, <3>3
    <3> QED BY <3>1, <3>4 DEF where
  <2>2. /\ pte' = [s \in Space |-> pte'[s]]
        /\ \A s \in Space \ {r.space} : pte'[s] = pte[s]
        /\ pte'[r.space] = [pte[r.space] EXCEPT ![v] = r.frame]
    BY <1>0, <1>1, <1>4
  <2>3. /\ pte'[r.space] \in [0 .. VaddrLen(r.space) - 1 -> Nat]
        /\ pte'[r.space][v] # 0
        /\ \A w \in 0 .. VaddrLen(r.space) - 1 : pte[r.space][w] # 0 => pte'[r.space][w] # 0
    BY <1>0, <1>1, <1>2, <2>2
  <2>10. \A s \in Space : \A w \in 0 .. VaddrLen(s) - 1 : Entered(s, w) => Entered(s, w)'
    BY <1>0, <2>2, <2>3 DEF Entered, Spoilt
  <2>4. Wanted(req'[t]) = Wanted(r)
    BY <2>1 DEF Wanted
  <2>5. Reserves(t)' => Reserves(t)
    BY <1>0, <2>1 DEF Reserves, Mapping
  <2>6. RequestSound(t)'
    <3>1. Reserves(t)' => \A w \in Wanted(r) : w < r.page + (r.done + 1) => Entered(r.space, w)'
      <4> SUFFICES ASSUME Reserves(t)', NEW w \in Wanted(r), w < r.page + (r.done + 1)
                   PROVE  Entered(r.space, w)'
        OBVIOUS
      <4>1. w \in 0 .. VaddrLen(r.space) - 1 /\ (w < v \/ w = v)
        BY <1>1 DEF Wanted
      <4>2. w < v => Entered(r.space, w)
        BY <1>0, <2>5 DEF RequestSound
      <4>3. w = v => Entered(r.space, w)'
        BY <2>1, <2>3 DEF Entered
      <4>4. Entered(r.space, w) => Entered(r.space, w)'
        BY <1>1, <2>1, <2>10, <4>1
      <4> QED BY <4>1, <4>2, <4>3, <4>4
    <3>2. Reserves(t)' => \A w \in Wanted(r) : w \in vbits'[r.space]
      BY <1>0, <2>5 DEF RequestSound
    <3>3. Inside(req'[t])
      BY <1>1, <2>1 DEF Inside
    <3>4. pc'[t] \in Mapping => req'[t].done < req'[t].cnt
      BY <1>1, <2>1 DEF Mapping
    <3>5. req'[t].space = Child => req'[t].at /\ t = Forker
      BY <1>0, <2>1 DEF RequestSound
    <3>6. req'[t].cnt # 0 /\ pc'[t] # "lock" /\ pc'[t] \notin Mapping \ {"scan"}
      BY <1>1, <2>1 DEF Mapping
    <3> QED BY <2>1, <2>4, <3>1, <3>2, <3>3, <3>4, <3>5, <3>6 DEF RequestSound
  <2>7. \A s \in Space : /\ pte'[s] \in [0 .. VaddrLen(s) - 1 -> Nat]
                         /\ \A w \in 0 .. VaddrLen(s) - 1 : Entered(s, w) => Entered(s, w)'
    BY <1>0, <2>2, <2>3, <2>10
  <2>8. pte' = [s \in Space |-> pte'[s]]
    BY <2>2
  <2>9. vbits' \in [Space -> SUBSET Nat] /\ \A s \in Space : vbits[s] \subseteq vbits'[s]
    BY <1>0
  <2> HIDE DEF v
  <2> QED BY <1>0, <2>1, <2>4, <2>5, <2>6, <2>7, <2>8, <2>9, GrowStep
<1>5. \/ UNCHANGED <<pte, req, pc>>
      \/ /\ pte[r.space][v] = 0
         /\ pte' = [pte EXCEPT ![r.space][v] = r.frame]
         /\ req' = [req EXCEPT ![t].done = @ + 1]
         /\ pc' = [pc EXCEPT ![t] = IF r.done + 1 = r.cnt THEN "unlock" ELSE "scan"]
  BY Zenon DEF Map, Stop, Goto
<1> QED BY <1>3, <1>4, <1>5

\* The pages of a request that ends are granted: nobody else has them.
LEMMA UnlockKeeps ==
  ASSUME IInv, NEW t \in Thread, Unlock(t)
  PROVE  IInv'
<1> DEFINE r == req[t]
           g0 == [space |-> r.space, page |-> r.page, cnt |-> r.cnt]
<1>0. /\ req \in [Thread -> Request] /\ pc \in [Thread -> Stage] /\ cpu.runs \in Thread
      /\ pc[t] = "unlock" /\ UNCHANGED <<vbits, cpu>> /\ TypeInv
      /\ r \in Request /\ RequestSound(t)
      /\ req' = [req EXCEPT ![t] = NoReq] /\ pc' = [pc EXCEPT ![t] = "user"]
  BY DEF IInv, TypeInv, Unlock, At, Goto
<1>1. /\ req' \in [Thread -> Request] /\ pc' \in [Thread -> Stage]
      /\ \A u \in Thread \ {t} : req'[u] = req[u] /\ pc'[u] = pc[u]
      /\ req'[t] = NoReq /\ pc'[t] = "user"
  BY <1>0, NoReqIs DEF Stage
<1>2. ~Reserves(t)' /\ RequestSound(t)'
  BY <1>1, MemoryAssumption DEF Reserves, RequestSound, Mapping, NoReq
<1>3. CASE UNCHANGED <<got, pte, garbled>>
  BY <1>0, <1>1, <1>2, <1>3, OwnStep
<1>4. CASE /\ ~r.at /\ r.done = r.cnt /\ got' = got \cup {g0}
           /\ \E pages : /\ pte' = Zeroed(pages) /\ garbled \subseteq garbled'
                         /\ TablesAt(pages) \subseteq garbled'
  <2>0. /\ pte' = [s \in Space |-> pte'[s]]
        /\ \A s \in Space : /\ pte'[s] \in [0 .. VaddrLen(s) - 1 -> Nat]
                             /\ \A v \in 0 .. VaddrLen(s) - 1 : Entered(s, v) => Entered(s, v)'
    BY <1>0, <1>4, ZeroedKeeps
  <2>13. ASSUME NEW x, x.space \in Space, x.page \in Nat, x.cnt \in Nat, Inside(x),
                NEW v \in Wanted(x), Entered(x.space, v)
         PROVE  Entered(x.space, v)'
    BY <2>0, <2>13, LenType DEF Inside, Wanted
  <2>1. Reserves(t)
    BY <1>0, <1>4 DEF Reserves
  <2>2. /\ g0 \in [space : Space, page : Nat, cnt : Nat]
        /\ g0.space = r.space /\ g0.page = r.page /\ g0.cnt = r.cnt
    BY <1>0 DEF Request
  <2> HIDE DEF g0
  <2>3. Wanted(g0) = Wanted(r) /\ (Inside(g0) <=> Inside(r))
    BY <2>2 DEF Wanted, Inside
  <2>4. GrantSound(g0)
    <3>1. \A v \in Wanted(r) : v < r.page + r.done
      BY <1>0, <1>4 DEF Wanted, Request
    <3> QED BY <1>0, <2>1, <2>2, <2>3, <3>1 DEF RequestSound, GrantSound
  <2>5. ASSUME NEW u \in Thread \ {t}
        PROVE  /\ RequestSound(u)' /\ (Reserves(u)' => Reserves(u))
               /\ Reserves(u) => Apart(g0, req[u])
    <3>1. RequestSound(u) /\ (Reserves(u)' <=> Reserves(u))
      BY <1>1 DEF IInv, Reserves
    <3>2. RequestSound(u)'
      <4>1. /\ req[u].space \in Space /\ req[u].page \in Nat /\ req[u].cnt \in Nat
            /\ req'[u] = req[u] /\ pc'[u] = pc[u]
        BY <1>0, <1>1 DEF Request
      <4>2. Reserves(u) => \A v \in Wanted(req[u]) : v < req[u].page + req[u].done
                                                      => Entered(req[u].space, v)'
        BY <2>13, <3>1, <4>1 DEF RequestSound
      <4> QED BY <1>0, <3>1, <4>1, <4>2 DEF RequestSound, Inside
    <3>3. Reserves(u) => Apart(r, req[u])
      BY <2>1 DEF IInv
    <3> QED BY <2>2, <2>3, <3>1, <3>2, <3>3 DEF Apart
  <2>6. \A g \in got : Apart(g, g0) /\ Apart(g0, g)
    BY <2>1, <2>2, <2>3 DEF IInv, Apart
  <2>7. TypeInv'
    BY <1>0, <1>1, <1>4, <2>0, <2>2 DEF IInv, TypeInv
  <2>8. \A g \in got' : GrantSound(g)'
    <3>1. \A g \in got' : GrantSound(g)
      BY <1>4, <2>4 DEF IInv
    <3>2. \A g \in got' : g.space \in Space /\ g.page \in Nat /\ g.cnt \in Nat
      BY <1>4, <2>2 DEF IInv, TypeInv
    <3> QED BY <1>0, <2>13, <3>1, <3>2 DEF GrantSound, Inside
  <2>9. \A g \in got', u \in Thread : Reserves(u)' => Apart(g, req'[u])
    <3> SUFFICES ASSUME NEW g \in got', NEW u \in Thread, Reserves(u)'
                 PROVE  Apart(g, req'[u])
      OBVIOUS
    <3>1. u # t
      BY <1>2
    <3>2. Reserves(u) /\ Apart(g0, req[u]) /\ req'[u] = req[u]
      BY <1>1, <2>5, <3>1
    <3>3. CASE g = g0
      BY <3>2, <3>3
    <3>4. CASE g # g0
      BY <1>4, <3>2, <3>4 DEF IInv
    <3> QED BY <3>3, <3>4
  <2>10. \A g, h \in got' : g # h => Apart(g, h)
    BY <1>4, <2>6 DEF IInv
  <2>11. \A u, w \in Thread : u # w /\ Reserves(u)' /\ Reserves(w)' => Apart(req'[u], req'[w])
    <3> SUFFICES ASSUME NEW u \in Thread, NEW w \in Thread, u # w, Reserves(u)', Reserves(w)'
                 PROVE  Apart(req'[u], req'[w])
      OBVIOUS
    <3>1. u # t /\ w # t
      BY <1>2
    <3>2. Reserves(u) /\ Reserves(w) /\ req'[u] = req[u] /\ req'[w] = req[w]
      BY <1>1, <2>5, <3>1
    <3> QED BY <3>2 DEF IInv
  <2>12. \A u \in Thread : RequestSound(u)'
    <3> TAKE u \in Thread
    <3>1. CASE u = t
      BY <1>2, <3>1
    <3>2. CASE u # t
      BY <2>5, <3>2
    <3> QED BY <3>1, <3>2
  <2> QED BY <2>12, <2>7, <2>8, <2>9, <2>10, <2>11 DEF IInv
<1>5. \/ UNCHANGED <<got, pte, garbled>>
      \/ /\ ~r.at /\ r.done = r.cnt /\ got' = got \cup {g0}
         /\ \E pages : /\ pte' = Zeroed(pages) /\ garbled \subseteq garbled'
                       /\ TablesAt(pages) \subseteq garbled'
  <2> DEFINE mine == {pte[r.space][v] : v \in Wanted(r)}
  <2>1. \/ UNCHANGED <<got, pte, garbled>>
        \/ /\ ~r.at /\ r.done = r.cnt /\ got' = got \cup {g0}
           /\ pte' = Zeroed(mine) /\ garbled' = garbled \cup TablesAt(mine)
    BY Zenon DEF Unlock
  <2> HIDE DEF mine
  <2> QED BY <2>1
<1> QED BY <1>3, <1>4, <1>5

\* What is given back was nobody else's.
LEMMA MfreePageKeeps ==
  ASSUME IInv, NEW t \in Thread, NEW g \in got, MfreePage(t, g)
  PROVE  IInv'
<1>a. CASE \E v \in Wanted(g) : Spoilt(g.space, v)
  <2>1. /\ UNCHANGED <<vbits, pte, garbled, got, cpu, pc, req>>
        /\ req \in [Thread -> Request] /\ pc \in [Thread -> Stage] /\ cpu.runs \in Thread
        /\ RequestSound(t)
    BY <1>a DEF IInv, TypeInv, MfreePage, Stop, memVars
  <2> QED BY <2>1, EnteredSame, OwnStep DEF Reserves, RequestSound, Inside
<1> SUFFICES ASSUME ~\E v \in Wanted(g) : Spoilt(g.space, v) PROVE IInv'
  BY <1>a
<1>0. /\ req \in [Thread -> Request] /\ pc \in [Thread -> Stage] /\ cpu.runs \in Thread
      /\ vbits \in [Space -> SUBSET Nat] /\ UNCHANGED <<cpu, garbled, pc, req>>
      /\ pte = [s \in Space |-> pte[s]] /\ \A s \in Space : pte[s] \in [0 .. VaddrLen(s) - 1 -> Nat]
      /\ g.space \in Space /\ got' = got \ {g}
      /\ vbits' = [vbits EXCEPT ![g.space] = @ \ Wanted(g)]
      /\ pte' = [pte EXCEPT ![g.space] =
                    [v \in DOMAIN @ |-> IF v \in Wanted(g) THEN 0 ELSE @[v]]]
  BY DEF IInv, TypeInv, MfreePage
<1>1. /\ vbits' \in [Space -> SUBSET Nat]
      /\ \A s \in Space \ {g.space} : vbits'[s] = vbits[s]
      /\ vbits'[g.space] = vbits[g.space] \ Wanted(g)
  BY <1>0
<1>2. /\ pte' = [s \in Space |-> pte'[s]]
      /\ \A s \in Space \ {g.space} : pte'[s] = pte[s]
      /\ pte'[g.space] = [v \in 0 .. VaddrLen(g.space) - 1 |->
                             IF v \in Wanted(g) THEN 0 ELSE pte[g.space][v]]
  BY <1>0
<1>3. \A s \in Space : pte'[s] \in [0 .. VaddrLen(s) - 1 -> Nat]
  BY <1>0, <1>2
<1>4. TypeInv'
  BY <1>0, <1>1, <1>2, <1>3 DEF IInv, TypeInv
<1>5. ASSUME NEW x, x.space \in Space, x.page \in Nat, x.cnt \in Nat, Inside(x), Apart(g, x),
             NEW v \in Wanted(x)
      PROVE  /\ v \in vbits[x.space] => v \in vbits'[x.space]
             /\ Entered(x.space, v) => Entered(x.space, v)'
  <2>1. v \in 0 .. VaddrLen(x.space) - 1
    BY <1>5, LenType DEF Inside, Wanted
  <2>2. x.space = g.space => v \notin Wanted(g)
    BY <1>5 DEF Apart
  <2>3. CASE x.space = g.space
    <3>1. v \in 0 .. VaddrLen(g.space) - 1 /\ v \notin Wanted(g)
      BY <2>1, <2>2, <2>3
    <3>2. pte'[g.space][v] = pte[g.space][v]
      BY <1>2, <3>1
    <3>3. v \in vbits[g.space] => v \in vbits'[g.space]
      BY <1>1, <3>1
    <3> QED BY <1>0, <2>3, <3>2, <3>3 DEF Entered, Spoilt
  <2>4. CASE x.space # g.space
    <3>1. vbits'[x.space] = vbits[x.space] /\ pte'[x.space] = pte[x.space]
      BY <1>1, <1>2, <1>5, <2>4
    <3> QED BY <1>0, <3>1 DEF Entered, Spoilt
  <2> QED BY <2>3, <2>4
<1>6. ASSUME NEW u \in Thread PROVE RequestSound(u)'
  <2>1. RequestSound(u) /\ (Reserves(u)' <=> Reserves(u))
    BY <1>0 DEF IInv, Reserves
  <2>2. req[u].space \in Space /\ req[u].page \in Nat /\ req[u].cnt \in Nat
    BY <1>0 DEF Request
  <2>3. Reserves(u) => Inside(req[u]) /\ Apart(g, req[u])
    BY <2>1 DEF IInv, RequestSound
  <2>4. Reserves(u) => \A v \in Wanted(req[u]) :
                          /\ v \in vbits'[req[u].space]
                          /\ v < req[u].page + req[u].done => Entered(req[u].space, v)'
    BY <1>0, <1>5, <2>1, <2>2, <2>3 DEF RequestSound
  <2> QED BY <1>0, <2>1, <2>4 DEF RequestSound, Inside
<1>7. ASSUME NEW h \in got' PROVE GrantSound(h)'
  <2>1. /\ h \in got /\ h # g /\ GrantSound(h) /\ Apart(g, h)
        /\ h.space \in Space /\ h.page \in Nat /\ h.cnt \in Nat
    BY <1>0 DEF IInv, TypeInv
  <2> QED BY <1>5, <2>1 DEF GrantSound, Inside
<1>8. /\ \A u, w \in Thread : u # w /\ Reserves(u)' /\ Reserves(w)' => Apart(req'[u], req'[w])
      /\ \A h \in got', u \in Thread : Reserves(u)' => Apart(h, req'[u])
      /\ \A h, k \in got' : h # k => Apart(h, k)
  BY <1>0 DEF IInv, Reserves
<1> QED BY <1>4, <1>6, <1>7, <1>8 DEF IInv

\* fork comes back with the parent's page directory; only addresses that it
\* did not reserve are concerned.
LEMMA SwitchKeeps ==
  ASSUME IInv, NEW t \in Thread, Switch(t)
  PROVE  IInv'
<1> PICK c \in Thread : c = cpu.runs
  BY DEF IInv, TypeInv
<1>0. /\ req \in [Thread -> Request] /\ pc \in [Thread -> Stage] /\ c \in Thread
      /\ UNCHANGED <<vbits, pte, garbled, got, pc>> /\ cpu'.runs = t
      /\ req' = IF req[c].space = Child THEN [req EXCEPT ![c].space = c] ELSE req
      /\ RequestSound(c)
  BY DEF IInv, TypeInv, Switch, memVars
<1>1. CASE req[c].space # Child
  BY <1>0, <1>1, EnteredSame, OwnStep DEF RequestSound, Reserves, Inside
<1>2. CASE req[c].space = Child
  <2>1. c \in Space \ {Child, Kernel} /\ req[c].at
    BY <1>0, <1>2, MemoryAssumption DEF RequestSound, Space
  <2>2. /\ req' \in [Thread -> Request]
        /\ \A u \in Thread \ {c} : req'[u] = req[u]
        /\ req'[c].space = c /\ req'[c].page = req[c].page /\ req'[c].cnt = req[c].cnt
        /\ req'[c].done = req[c].done /\ req'[c].frame = req[c].frame
        /\ req'[c].at = req[c].at
    <3>1. req' = [req EXCEPT ![c].space = c]
      BY <1>0, <1>2
    <3>2. req' \in [Thread -> Request]
      BY <1>0, <2>1, <3>1 DEF Request
    <3>3. /\ \A u \in Thread \ {c} : req'[u] = req[u]
          /\ req'[c] = [req[c] EXCEPT !.space = c]
      BY <1>0, <3>1
    <3>4. req[c] \in Request
      BY <1>0
    <3> QED BY <3>2, <3>3, <3>4 DEF Request
  <2>3. ~Reserves(c)'
    BY <2>1, <2>2 DEF Reserves
  <2>4. Inside(req[c]) => Inside(req'[c])
    BY <1>2, <2>1, <2>2, MemoryAssumption DEF Inside, VaddrLen
  <2>5. RequestSound(c)'
    BY <1>0, <2>1, <2>2, <2>3, <2>4 DEF RequestSound
  <2> QED BY <1>0, <2>2, <2>3, <2>5, OwnStep
<1> QED BY <1>1, <1>2

\* The invariant is inductive.
LEMMA NextIInv == IInv /\ [Next]_vars => IInv'
<1> SUFFICES ASSUME IInv, [Next]_vars PROVE IInv'
  OBVIOUS
<1>1. CASE UNCHANGED vars
  BY <1>1, EnteredSame DEF vars, IInv, TypeInv, RequestSound, Reserves, GrantSound, Inside
<1>2. ASSUME NEW t \in Thread, NEW pf \in {"kernel", "user"}, NEW n \in 1 .. MaxReq,
             GetPages(t, pf, n)
      PROVE  IInv'
  BY <1>2, GetPagesKeeps
<1>3. ASSUME NEW t \in Thread, NEW v \in 1 .. UserLen - 1, GetAPage(t, v) PROVE IInv'
  BY <1>3, GetAPageKeeps
<1>4. ASSUME NEW t \in Thread, Acquire(t) PROVE IInv'
  BY <1>4, AcquireKeeps
<1>5. ASSUME NEW t \in Thread, PallocScan(t) PROVE IInv'
  BY <1>5, PallocScanKeeps
<1>6. ASSUME NEW t \in Thread, PallocSet(t) PROVE IInv'
  BY <1>6, PallocSetKeeps
<1>7. ASSUME NEW t \in Thread, TableScan(t) PROVE IInv'
  BY <1>7, TableScanKeeps
<1>14. ASSUME NEW t \in Thread, TableSet(t) PROVE IInv'
  BY <1>14, TableSetKeeps
<1>8. ASSUME NEW t \in Thread, Map(t) PROVE IInv'
  BY <1>8, MapKeeps
<1>9. ASSUME NEW t \in Thread, Unlock(t) PROVE IInv'
  BY <1>9, UnlockKeeps
<1>10. ASSUME NEW t \in Thread, Switch(t) PROVE IInv'
  BY <1>10, SwitchKeeps
<1>11. ASSUME NEW t \in Thread, NEW g \in got, MfreePage(t, g) PROVE IInv'
  BY <1>11, MfreePageKeeps
<1>12. ASSUME NEW v \in 0 .. UserLen - 1, ForkPage(v) PROVE IInv'
  BY <1>12, ForkPageKeeps
<1>13. CASE Stopped
  BY <1>1, <1>13 DEF Stopped
<1> QED
  BY <1>1, <1>2, <1>3, <1>4, <1>5, <1>6, <1>7, <1>8, <1>9, <1>10, <1>11, <1>12, <1>13, <1>14 DEF Next

\* Hence it always holds.
LEMMA MemoryInvariant == Spec => []IInv
BY InitIInv, NextIInv, PTL DEF Spec

\* What was granted stays reserved until it is given back, and mapped, whatever fails
\* and whoever is preempted.  Only the pages of a process under a page table whose
\* page another owner got as well may lose their entries.
THEOREM GrantsStay == Spec => []GrantsMapped
<1>1. IInv => GrantsMapped
  BY DEF IInv, GrantSound, GrantsMapped, Entered
<1> QED BY <1>1, MemoryInvariant, PTL

\* bitmap_scan is first fit on every bitmap the allocator comes to have.
THEOREM ScanCorrect == Spec => []ScanIsFirstFit
<1>1. IInv => ScanIsFirstFit
  <2> SUFFICES ASSUME IInv PROVE ScanIsFirstFit
    OBVIOUS
  <2>1. ASSUME NEW pf \in {"kernel", "user"}
        PROVE  FirstFit(Own(bits, Pool(pf)), Pool(pf).len, 1)
    <3>1. Pool(pf).len \in Nat /\ Own(bits, Pool(pf)) \in SUBSET Nat
      BY PoolTypes DEF Pool, Own
    <3>2. 1 \in Nat \ {0}
      OBVIOUS
    <3> QED BY <3>1, <3>2, ScanFirstFit
  <2>2. ASSUME NEW s \in Space, NEW n \in 1 .. MaxReq
        PROVE  FirstFit(vbits[s], VaddrLen(s), n)
    <3>1. VaddrLen(s) \in Nat /\ vbits[s] \in SUBSET Nat
      BY LenType DEF IInv, TypeInv
    <3>2. n \in Nat \ {0}
      BY MemoryAssumption
    <3> QED BY <3>1, <3>2, ScanFirstFit
  <2> QED BY <2>1, <2>2 DEF ScanIsFirstFit
<1> QED BY <1>1, MemoryInvariant, PTL

-----------------------------------------------------------------------------
(***************************************************************************)
(* Physical pages.  FramesExact is proved from who holds each page of a    *)
(* pool (Owners) and what each request has in hand on its way (Claim).     *)
(***************************************************************************)
\* The pages of the kernel pool fill the bytes of its bitmap: else pfree gives
\* back the first page of the user pool by another bit than palloc took.
WholeBytes == (((AllMem - UsedMem) % 2^16) \div 2) % 8 = 0

\* The frames of a pool, and the bit of each
FramesOf(pf) == Pages(Pool(pf))
Bit(pf, f) == BitOf(Pool(pf), f)
PoolOf(s) == IF s = Kernel THEN "kernel" ELSE "user"

\* The user pool is only used with its lock held; the kernel pool is also
\* used without, which is safe as long as nobody is preempted in between.
Locked(pf) == pf = "user" \/ cpu.cut = 0

\* The pages of the user pool are in the entries of page tables, and safe as long as
\* no page table has another owner.
Guarded(pf) == IF pf = "user" THEN garbled = {} ELSE cpu.cut = 0
Busy == Mapping \cup {"unlock"}

FrameTypes ==
    /\ \A s \in Space : \A v \in 0 .. VaddrLen(s) - 1 : pte[s][v] \in FramesOf(PoolOf(s)) \cup {0}
    /\ table = [s \in Space \ {Kernel} |-> table[s]]
    /\ \A s \in Space \ {Kernel} :
          table[s] \in [0 .. Dir(UserLen - 1) -> FramesOf("kernel") \cup {0}]
    /\ lock \in [{"kernel", "user"} -> Thread \cup {None}]
    /\ cpu \in [runs : Thread, cut : Nat]

\* The directory entry of the page request r is about to map
Missing(r) == table[r.space][Dir(r.page + r.done)] = 0

\* What thread t has in hand
Claim(t) ==
    /\ req[t].pf = PoolOf(req[t].space)
    /\ pc[t] \in Busy => lock[req[t].pf] = t
    /\ pc[t] \in Busy /\ cpu.cut = 0 => cpu.runs = t
    /\ pc[t] \in Mapping \ {"scan"} => req[t].frame \in FramesOf(req[t].pf)
    /\ pc[t] \in {"tscan", "tset"} => /\ req[t].space # Kernel
                                      /\ cpu.cut = 0 => Missing(req[t])
    /\ pc[t] = "tset" => req[t].tframe \in FramesOf("kernel")
    /\ pc[t] = "set" /\ Locked(req[t].pf) => Bit(req[t].pf, req[t].frame) \notin bits
    /\ pc[t] = "tset" /\ cpu.cut = 0 => Bit("kernel", req[t].tframe) \notin bits

\* Every page of a pool that is held is held in one place, and its bit is set as
\* long as it is.
Owners(pf) ==
    /\ \A x \in Places : Held(x) \in FramesOf(pf) =>
          Bit(pf, Held(x)) \in bits /\ Bit(pf, Held(x)) \notin Taken
    /\ \A x, y \in Places : Held(x) \in FramesOf(pf) /\ Held(x) = Held(y) => x = y
    /\ \A f \in FramesOf(pf) : Bit(pf, f) \in bits =>
          Bit(pf, f) \in Taken \/ \E x \in Places : Held(x) = f
    /\ \A f \in FramesOf(pf) : Bit(pf, f) \in Taken => Bit(pf, f) \in bits

FrameInv == fault = "no" =>
    /\ FrameTypes
    /\ \A t \in Thread : Claim(t)
    /\ cpu.cut = 0 => garbled = {}
    /\ \A pf \in {"kernel", "user"} : Guarded(pf) => Owners(pf)

-----------------------------------------------------------------------------
(* The pools once more: which frames and which bits are whose *)

LEMMA FramesAre ==
  \A pf \in {"kernel", "user"} :
     /\ FramesOf(pf) \subseteq Nat \ {0}
     /\ \A f, g \in FramesOf(pf) : Bit(pf, f) = Bit(pf, g) => f = g
<1> DEFINE free == (AllMem - UsedMem) % 2^16
           kernel == free \div 2
<1>1. UsedMem = 512
  BY DEF UsedMem
<1>2. free \in Nat
  BY <1>1, MemoryAssumption
<1>3. /\ L.kernel = [start |-> 512, base |-> 0, len |-> 8 * (kernel \div 8)]
      /\ L.user = [start |-> 512 + kernel, base |-> 8 * (kernel \div 8),
                   len |-> 8 * ((free - kernel) \div 8)]
  BY <1>1 DEF mem_pool_init, L
<1> HIDE DEF free
<1> QED BY <1>2, <1>3 DEF FramesOf, Bit, Pool, Pages, BitOf

\* The pools share neither frames nor bits.
LEMMA PoolsApart ==
  \A f \in FramesOf("kernel"), g \in FramesOf("user") :
     f # g /\ Bit("kernel", f) # Bit("user", g)
<1>1. AllMem \in Nat /\ AllMem >= UsedMem
  BY MemoryAssumption DEF UsedMem
<1> QED BY <1>1, PoolsGiveBack DEF L, FramesOf, Bit, Pool

\* A page is given back by its own bit.
LEMMA PfreeIs ==
  ASSUME WholeBytes, NEW pf \in {"kernel", "user"}, NEW f \in FramesOf(pf)
  PROVE  pfree(L, f) = Bit(pf, f)
<1>1. AllMem \in Nat /\ AllMem >= UsedMem
  BY MemoryAssumption DEF UsedMem
<1> QED BY <1>1, PoolsGiveBack DEF L, FramesOf, Bit, Pool, WholeBytes

\* palloc finds a frame of its pool that is not taken, or none.
LEMMA PallocFinds ==
  ASSUME NEW pf \in {"kernel", "user"}, palloc(bits, Pool(pf)) # 0
  PROVE  /\ palloc(bits, Pool(pf)) \in FramesOf(pf)
         /\ Bit(pf, palloc(bits, Pool(pf))) \notin bits
<1> DEFINE pool == Pool(pf)
           own == Own(bits, pool)
           i == bitmap_scan(own, pool.len, 1)
<1>1. /\ own \in SUBSET Nat /\ pool.len \in Nat /\ pool.start \in Nat
      /\ \A k \in 0 .. pool.len - 1 : k \notin own => pool.base + k \notin bits
  BY PoolTypes DEF Own, Pool
<1>2. i # -1 /\ palloc(bits, Pool(pf)) = pool.start + i
  BY DEF palloc
<1> HIDE DEF pool
<1>3. i \in Nat /\ i + 1 =< pool.len /\ i \notin own
  <2> HIDE DEF own
  <2>1. i \in Nat /\ i + 1 =< pool.len /\ \A k \in i .. i + 1 - 1 : k \notin own
    BY <1>1, <1>2, ScanFinds
  <2> QED BY <2>1
<1> HIDE DEF i, own
<1>4. BitOf(pool, pool.start + i) = pool.base + i
  BY <1>1, <1>3, PoolTypes DEF BitOf, pool, Pool
<1>5. pool.start + i \in Pages(pool)
  BY <1>1, <1>3 DEF Pages
<1> QED BY <1>1, <1>2, <1>3, <1>4, <1>5 DEF FramesOf, Bit, pool

-----------------------------------------------------------------------------
(* The places that hold pages *)

PageAt(s, v) == <<"page", s, v>>
TableAt(s, d) == <<"table", s, d>>
InHand(t) == <<"request", t, 0>>
Holding == {"tscan", "tset", "map"}

LEMMA PlacesAre ==
  /\ \A s \in Space : \A v \in 0 .. VaddrLen(s) - 1 : PageAt(s, v) \in Places
  /\ \A s \in Space \ {Kernel}, d \in 0 .. Dir(UserLen - 1) : TableAt(s, d) \in Places
  /\ \A t \in Thread : InHand(t) \in Places
  /\ \A x \in Places :
        \/ \E s \in Space : \E v \in 0 .. VaddrLen(s) - 1 : x = PageAt(s, v)
        \/ \E s \in Space \ {Kernel}, d \in 0 .. Dir(UserLen - 1) : x = TableAt(s, d)
        \/ \E t \in Thread : x = InHand(t)
<1>1. ASSUME NEW x \in UNION {{"page"} \X {s} \X (0 .. VaddrLen(s) - 1) : s \in Space}
      PROVE  \E s \in Space : \E v \in 0 .. VaddrLen(s) - 1 : x = PageAt(s, v)
  BY DEF PageAt
<1>2. ASSUME NEW x \in {"table"} \X (Space \ {Kernel}) \X (0 .. Dir(UserLen - 1))
      PROVE  \E s \in Space \ {Kernel}, d \in 0 .. Dir(UserLen - 1) : x = TableAt(s, d)
  BY DEF TableAt
<1>3. ASSUME NEW x \in {"request"} \X Thread \X {0}
      PROVE  \E t \in Thread : x = InHand(t)
  BY DEF InHand
<1>4. ASSUME NEW s \in Space, NEW v \in 0 .. VaddrLen(s) - 1
      PROVE  PageAt(s, v) \in UNION {{"page"} \X {r} \X (0 .. VaddrLen(r) - 1) : r \in Space}
  <2>1. PageAt(s, v) \in {"page"} \X {s} \X (0 .. VaddrLen(s) - 1)
    BY DEF PageAt
  <2> QED BY <2>1
<1>5. ASSUME NEW s \in Space \ {Kernel}, NEW d \in 0 .. Dir(UserLen - 1)
      PROVE  TableAt(s, d) \in {"table"} \X (Space \ {Kernel}) \X (0 .. Dir(UserLen - 1))
  BY DEF TableAt
<1>6. ASSUME NEW t \in Thread PROVE InHand(t) \in {"request"} \X Thread \X {0}
  BY DEF InHand
<1> DEFINE pages == UNION {{"page"} \X {s} \X (0 .. VaddrLen(s) - 1) : s \in Space}
           tables == {"table"} \X (Space \ {Kernel}) \X (0 .. Dir(UserLen - 1))
           requests == {"request"} \X Thread \X {0}
<1>7. Places = pages \cup tables \cup requests
  BY DEF Places
<1>8. /\ \A s \in Space : \A v \in 0 .. VaddrLen(s) - 1 : PageAt(s, v) \in pages
      /\ \A s \in Space \ {Kernel}, d \in 0 .. Dir(UserLen - 1) : TableAt(s, d) \in tables
      /\ \A t \in Thread : InHand(t) \in requests
  BY <1>4, <1>5, <1>6
<1>9. /\ \A x \in pages : \E s \in Space : \E v \in 0 .. VaddrLen(s) - 1 : x = PageAt(s, v)
      /\ \A x \in tables : \E s \in Space \ {Kernel}, d \in 0 .. Dir(UserLen - 1) : x = TableAt(s, d)
      /\ \A x \in requests : \E t \in Thread : x = InHand(t)
  <2>1. \A x \in pages : \E s \in Space : \E v \in 0 .. VaddrLen(s) - 1 : x = PageAt(s, v)
    BY <1>1
  <2>2. \A x \in tables : \E s \in Space \ {Kernel}, d \in 0 .. Dir(UserLen - 1) : x = TableAt(s, d)
    BY <1>2
  <2>3. \A x \in requests : \E t \in Thread : x = InHand(t)
    BY <1>3
  <2> QED BY <2>1, <2>2, <2>3
<1> HIDE DEF pages, tables, requests
<1> QED BY <1>7, <1>8, <1>9

LEMMA PlacesDiffer ==
  /\ \A s, v, r, w : PageAt(s, v) = PageAt(r, w) => s = r /\ v = w
  /\ \A s, v, r, w : TableAt(s, v) = TableAt(r, w) => s = r /\ v = w
  /\ \A t, u : InHand(t) = InHand(u) => t = u
  /\ \A s, v, r, w : PageAt(s, v) # TableAt(r, w)
  /\ \A s, v, t : PageAt(s, v) # InHand(t)
  /\ \A s, v, t : TableAt(s, v) # InHand(t)
BY DEF PageAt, TableAt, InHand

LEMMA HeldIs ==
  /\ \A s, v : Held(PageAt(s, v)) = pte[s][v] /\ Held(PageAt(s, v))' = pte'[s][v]
  /\ \A s, d : Held(TableAt(s, d)) = table[s][d] /\ Held(TableAt(s, d))' = table'[s][d]
  /\ \A t : /\ Held(InHand(t)) = IF pc[t] \in Holding THEN req[t].frame ELSE 0
            /\ Held(InHand(t))' = IF pc'[t] \in Holding THEN req'[t].frame ELSE 0
BY DEF Held, PageAt, TableAt, InHand, Holding

-----------------------------------------------------------------------------
(* Owners, under the four ways in which pages change hands *)

\* Nothing of this pool does.
LEMMA OwnersStay ==
  ASSUME NEW pf \in {"kernel", "user"}, Owners(pf),
         \A x \in Places : Held(x) \in FramesOf(pf) \/ Held(x)' \in FramesOf(pf)
                              => Held(x)' = Held(x),
         \A f \in FramesOf(pf) : Bit(pf, f) \in bits' <=> Bit(pf, f) \in bits
  PROVE  Owners(pf)'
BY DEF Owners

\* A page whose bit was clear gets a place.
LEMMA OwnersTake ==
  ASSUME NEW pf \in {"kernel", "user"}, Owners(pf),
         NEW x0 \in Places, NEW f0 \in FramesOf(pf),
         Held(x0) \notin FramesOf(pf), Held(x0)' = f0,
         \A x \in Places \ {x0} : Held(x)' = Held(x),
         Bit(pf, f0) \notin bits, bits' = bits \cup {Bit(pf, f0)}
  PROVE  Owners(pf)'
<1>1. \A f, g \in FramesOf(pf) : Bit(pf, f) = Bit(pf, g) => f = g
  BY FramesAre
<1>2. \A x \in Places : Held(x) # f0
  BY DEF Owners
<1>3. Bit(pf, f0) \notin Taken
  BY DEF Owners
<1> QED BY <1>1, <1>2, <1>3 DEF Owners

\* A page goes from one place to another.
LEMMA OwnersMove ==
  ASSUME NEW pf \in {"kernel", "user"}, Owners(pf),
         NEW x0 \in Places, NEW x1 \in Places, x0 # x1,
         Held(x0) \in FramesOf(pf), Held(x1) \notin FramesOf(pf),
         Held(x1)' = Held(x0), Held(x0)' \notin FramesOf(pf),
         \A x \in Places \ {x0, x1} : Held(x)' = Held(x),
         bits' = bits
  PROVE  Owners(pf)'
BY DEF Owners

\* The pages of some places are given back.
LEMMA OwnersFree ==
  ASSUME NEW pf \in {"kernel", "user"}, Owners(pf),
         NEW S \in SUBSET Places,
         \A x \in S : Held(x) \in FramesOf(pf) /\ Held(x)' \notin FramesOf(pf),
         \A x \in Places \ S : Held(x)' = Held(x),
         bits' = bits \ {Bit(pf, Held(x)) : x \in S}
  PROVE  Owners(pf)'
<1>1. \A f, g \in FramesOf(pf) : Bit(pf, f) = Bit(pf, g) => f = g
  BY FramesAre
<1>2. \A x \in Places : Held(x)' \in FramesOf(pf) => x \notin S /\ Held(x)' = Held(x)
  OBVIOUS
<1>3. \A f \in FramesOf(pf) : Bit(pf, f) \in bits' <=>
                                 Bit(pf, f) \in bits /\ \A x \in S : Held(x) # f
  BY <1>1
<1>4. ASSUME NEW x \in Places, Held(x)' \in FramesOf(pf)
      PROVE  Bit(pf, Held(x)') \in bits' /\ Bit(pf, Held(x)') \notin Taken
  <2>1. x \notin S /\ Held(x)' = Held(x)
    BY <1>2, <1>4
  <2>2. \A y \in S : Held(y) # Held(x)
    BY <1>4, <2>1 DEF Owners
  <2> QED BY <1>3, <1>4, <2>1, <2>2 DEF Owners
<1>5. \A x, y \in Places : Held(x)' \in FramesOf(pf) /\ Held(x)' = Held(y)' => x = y
  BY <1>2 DEF Owners
<1>6. ASSUME NEW f \in FramesOf(pf), Bit(pf, f) \in bits', Bit(pf, f) \notin Taken
      PROVE  \E x \in Places : Held(x)' = f
  <2>1. PICK x \in Places : Held(x) = f
    BY <1>3, <1>6 DEF Owners
  <2>2. x \notin S
    BY <1>3, <1>6, <2>1
  <2> QED BY <2>1, <2>2
<1>7. ASSUME NEW f \in FramesOf(pf), Bit(pf, f) \in Taken
      PROVE  Bit(pf, f) \in bits'
  <2>1. \A x \in S : Held(x) # f
    BY <1>7 DEF Owners
  <2> QED BY <1>3, <1>7, <2>1 DEF Owners
<1> QED BY <1>4, <1>5, <1>6, <1>7 DEF Owners

-----------------------------------------------------------------------------
(* What the steps of one thread leave of the claims of the others *)

LEMMA OtherClaims ==
  ASSUME IInv, fault = "no", FrameInv,
         NEW t \in Thread, NEW u \in Thread \ {t}, cpu.runs = t, cpu' = cpu,
         req'[u] = req[u], pc'[u] = pc[u],
         \A pf \in {"kernel", "user"} : lock[pf] \notin {t, None} => lock'[pf] = lock[pf],
         \A f \in FramesOf("user") : Bit("user", f) \in bits' =>
            Bit("user", f) \in bits \/ lock["user"] = t
  PROVE  Claim(u)'
<1>1. Claim(u) /\ req[u].pf \in {"kernel", "user"}
  BY DEF FrameInv, IInv, TypeInv, Request
<1>2. cpu.cut = 0 => pc[u] \notin Busy
  BY <1>1 DEF Claim
<1>3. pc[u] \in Busy => lock'[req[u].pf] = u
  <2>1. None # u
    BY MemoryAssumption
  <2> QED BY <1>1, <2>1 DEF Claim
<1>4. pc[u] = "set" /\ Locked(req[u].pf)' => Bit(req[u].pf, req[u].frame) \notin bits'
  <2> SUFFICES ASSUME pc[u] = "set", Locked(req[u].pf)'
               PROVE  Bit(req[u].pf, req[u].frame) \notin bits'
    OBVIOUS
  <2>1. pc[u] \in Busy
    BY DEF Busy, Mapping
  <2>2. req[u].pf = "user" /\ lock["user"] = u
    BY <1>1, <1>2, <2>1 DEF Claim, Locked
  <2>3. req[u].frame \in FramesOf("user") /\ Bit("user", req[u].frame) \notin bits
    BY <1>1, <2>2 DEF Claim, Mapping, Locked
  <2> QED BY <2>2, <2>3
<1>5. "tset" \in Busy /\ "tscan" \in Busy
  BY DEF Busy, Mapping
<1> QED BY <1>1, <1>2, <1>3, <1>4, <1>5 DEF Claim, Missing

\* A step of thread t that changes no bitmap and no page table, nor what it
\* holds on its way to one.
LEMMA QuietStep ==
  ASSUME IInv, fault = "no", FrameInv,
         NEW t \in Thread, cpu.runs = t, UNCHANGED <<bits, pte, table, garbled, cpu>>,
         lock' \in [{"kernel", "user"} -> Thread \cup {None}],
         \A pf \in {"kernel", "user"} : lock[pf] \notin {t, None} => lock'[pf] = lock[pf],
         \A u \in Thread \ {t} : req'[u] = req[u] /\ pc'[u] = pc[u],
         pc[t] \in Holding <=> pc'[t] \in Holding,
         pc[t] \in Holding => req'[t].frame = req[t].frame,
         Claim(t)'
  PROVE  FrameInv'
<1>1. ASSUME NEW u \in Thread PROVE Claim(u)'
  BY OtherClaims
<1>2. \A x \in Places : Held(x)' = Held(x)
  <2>1. \A s \in Space : \A v \in 0 .. VaddrLen(s) - 1 : Held(PageAt(s, v))' = Held(PageAt(s, v))
    BY HeldIs
  <2>2. \A s \in Space \ {Kernel}, d \in 0 .. Dir(UserLen - 1) :
           Held(TableAt(s, d))' = Held(TableAt(s, d))
    BY HeldIs
  <2>3. \A u \in Thread : Held(InHand(u))' = Held(InHand(u))
    BY HeldIs
  <2> QED BY <2>1, <2>2, <2>3, PlacesAre
<1>3. ASSUME NEW pf \in {"kernel", "user"}, Guarded(pf)' PROVE Owners(pf)'
  <2>1. Owners(pf)
    BY <1>3 DEF FrameInv, Guarded
  <2> QED BY <1>2, <2>1, OwnersStay
<1>4. FrameTypes'
  BY DEF FrameInv, FrameTypes
<1>5. cpu'.cut = 0 => garbled' = {}
  BY DEF FrameInv
<1> QED BY <1>1, <1>3, <1>4, <1>5 DEF FrameInv

LEMMA AskFrames ==
  ASSUME IInv, FrameInv, NEW t \in Thread, NEW r \in Request, Ask(t, r),
         r.pf = PoolOf(r.space)
  PROVE  FrameInv'
<1>1. /\ req' = [req EXCEPT ![t] = r] /\ pc' = [pc EXCEPT ![t] = "lock"]
      /\ UNCHANGED <<bits, pte, table, garbled, lock, cpu>>
      /\ fault = "no" /\ cpu.runs = t /\ pc[t] = "user"
  BY DEF Ask, Goto, memVars, At
<1>2. req \in [Thread -> Request] /\ pc \in [Thread -> Stage]
  BY DEF IInv, TypeInv
<1>3. /\ req'[t] = r /\ pc'[t] = "lock"
      /\ \A u \in Thread \ {t} : req'[u] = req[u] /\ pc'[u] = pc[u]
  BY <1>1, <1>2
<1>4. Claim(t)'
  BY <1>3 DEF Claim, Busy, Mapping
<1>5. pc[t] \notin Holding /\ pc'[t] \notin Holding
  BY <1>1, <1>3 DEF Holding
<1>6. lock \in [{"kernel", "user"} -> Thread \cup {None}]
  BY <1>1 DEF FrameInv, FrameTypes
<1> QED BY <1>1, <1>3, <1>4, <1>5, <1>6, QuietStep

LEMMA GetPagesFrames ==
  ASSUME IInv, FrameInv, NEW t \in Thread, NEW pf \in {"kernel", "user"},
         NEW n \in 1 .. MaxReq, GetPages(t, pf, n)
  PROVE  FrameInv'
<1> DEFINE r == [NoReq EXCEPT !.pf = pf, !.cnt = n,
                              !.space = IF pf = "kernel" THEN Kernel ELSE t]
<1>1. Ask(t, r) /\ (pf = "user" => t \in Process)
  BY DEF GetPages
<1>2. r.pf = pf /\ r.space = (IF pf = "kernel" THEN Kernel ELSE t) /\ r \in Request
  <2>1. n \in Nat
    BY MemoryAssumption
  <2> QED BY <1>1, <2>1 DEF NoReq, Request, Space
<1>3. t # Kernel
  BY MemoryAssumption
<1> HIDE DEF r
<1> QED BY <1>1, <1>2, <1>3, AskFrames DEF PoolOf

LEMMA GetAPageFrames ==
  ASSUME IInv, FrameInv, NEW t \in Thread, NEW v \in 1 .. UserLen - 1, GetAPage(t, v)
  PROVE  FrameInv'
<1> DEFINE r == [NoReq EXCEPT !.pf = "user", !.space = t, !.at = TRUE,
                              !.reserve = TRUE, !.page = v, !.cnt = 1]
<1>1. Ask(t, r) /\ t \in Process
  BY DEF GetAPage
<1>2. r.pf = "user" /\ r.space = t /\ r \in Request
  <2>1. v \in Nat
    BY MemoryAssumption
  <2> QED BY <1>1, <2>1 DEF NoReq, Request, Space
<1>3. t # Kernel
  BY MemoryAssumption
<1> HIDE DEF r
<1> QED BY <1>1, <1>2, <1>3, AskFrames DEF PoolOf

LEMMA ForkPageFrames ==
  ASSUME IInv, FrameInv, NEW v \in 0 .. UserLen - 1, ForkPage(v)
  PROVE  FrameInv'
<1> DEFINE r == [NoReq EXCEPT !.pf = "user", !.space = Child, !.at = TRUE,
                              !.page = v, !.cnt = 1]
<1>1. Ask(Forker, r) /\ Forker \in Thread
  BY MemoryAssumption DEF ForkPage
<1>2. r.pf = "user" /\ r.space = Child /\ r \in Request
  <2>1. v \in Nat
    BY MemoryAssumption
  <2> QED BY <1>1, <2>1 DEF NoReq, Request, Space
<1>3. Child # Kernel
  BY MemoryAssumption
<1> HIDE DEF r
<1> QED BY <1>1, <1>2, <1>3, AskFrames DEF PoolOf

\* lock_acquire: whoever holds the lock is the only one inside.
LEMMA AcquireFrames ==
  ASSUME IInv, FrameInv, NEW t \in Thread, Acquire(t)
  PROVE  FrameInv'
<1> DEFINE pf == req[t].pf
<1>0. /\ req \in [Thread -> Request] /\ pc \in [Thread -> Stage] /\ req[t] \in Request
      /\ pc[t] = "lock" /\ lock[pf] = None /\ fault = "no" /\ cpu.runs = t
      /\ lock' = [lock EXCEPT ![pf] = t] /\ UNCHANGED <<bits, pte, table, garbled, cpu>>
      /\ lock \in [{"kernel", "user"} -> Thread \cup {None}] /\ Claim(t)
  BY DEF IInv, TypeInv, Acquire, At, FrameInv, FrameTypes
<1>1. pf \in {"kernel", "user"}
  BY <1>0 DEF Request
<1>2. \E i : /\ req' = req \/ req' = [req EXCEPT ![t].page = i]
             /\ pc' = [pc EXCEPT ![t] = "scan"] \/ pc' = [pc EXCEPT ![t] = "unlock"]
  BY Zenon DEF Acquire, Goto
<1>3. /\ \A u \in Thread \ {t} : req'[u] = req[u] /\ pc'[u] = pc[u]
      /\ pc'[t] \in {"scan", "unlock"}
      /\ req'[t].pf = pf /\ req'[t].space = req[t].space
  BY <1>0, <1>2 DEF Request
<1>4. /\ lock' \in [{"kernel", "user"} -> Thread \cup {None}] /\ lock'[pf] = t
      /\ \A qf \in {"kernel", "user"} : lock[qf] \notin {t, None} => lock'[qf] = lock[qf]
  BY <1>0, <1>1
<1>5. Claim(t)'
  BY <1>0, <1>3, <1>4 DEF Claim, Mapping, Busy
<1>6. pc[t] \notin Holding /\ pc'[t] \notin Holding
  BY <1>0, <1>3 DEF Holding
<1> QED BY <1>0, <1>3, <1>4, <1>5, <1>6, QuietStep

\* palloc finds a page, or gives up.
LEMMA PallocScanFrames ==
  ASSUME IInv, FrameInv, NEW t \in Thread, PallocScan(t)
  PROVE  FrameInv'
<1> DEFINE pf == req[t].pf
           f == palloc(bits, Pool(pf))
<1>0. /\ req \in [Thread -> Request] /\ pc \in [Thread -> Stage] /\ req[t] \in Request
      /\ pc[t] = "scan" /\ fault = "no" /\ cpu.runs = t
      /\ UNCHANGED <<bits, pte, table, garbled, lock, cpu>>
      /\ lock \in [{"kernel", "user"} -> Thread \cup {None}] /\ Claim(t)
  BY DEF IInv, TypeInv, PallocScan, At, FrameInv, FrameTypes, memVars
<1>1. pf \in {"kernel", "user"}
  BY <1>0 DEF Request
<1>2. f # 0 => f \in FramesOf(pf) /\ Bit(pf, f) \notin bits
  BY <1>1, PallocFinds
<1>3. /\ req' = [req EXCEPT ![t].frame = f]
      /\ \/ f # 0 /\ pc' = [pc EXCEPT ![t] = "set"]
         \/ fault' # "no"
         \/ pc' = [pc EXCEPT ![t] = "unlock"]
  <2>1. "oom" # "no"
    OBVIOUS
  <2> HIDE DEF f
  <2> QED BY <2>1, Zenon DEF PallocScan, Stop, Goto, f
<1> HIDE DEF f
<1>4. CASE fault' # "no"
  BY <1>4 DEF FrameInv
<1>5. CASE \/ f # 0 /\ pc' = [pc EXCEPT ![t] = "set"]
           \/ pc' = [pc EXCEPT ![t] = "unlock"]
  <2>1. /\ \A u \in Thread \ {t} : req'[u] = req[u] /\ pc'[u] = pc[u]
        /\ pc'[t] = "unlock" \/ (f # 0 /\ pc'[t] = "set")
        /\ req'[t].pf = pf /\ req'[t].space = req[t].space /\ req'[t].frame = f
    BY <1>0, <1>3, <1>5 DEF Request
  <2>2. Claim(t)'
    BY <1>0, <1>2, <2>1 DEF Claim, Mapping, Busy, Locked
  <2>3. pc[t] \notin Holding /\ pc'[t] \notin Holding
    BY <1>0, <2>1 DEF Holding
  <2> QED BY <1>0, <2>1, <2>2, <2>3, QuietStep
<1> QED BY <1>3, <1>4, <1>5

LEMMA TableScanFrames ==
  ASSUME IInv, FrameInv, NEW t \in Thread, TableScan(t)
  PROVE  FrameInv'
<1> DEFINE f == palloc(bits, Pool("kernel"))
<1>0. /\ req \in [Thread -> Request] /\ pc \in [Thread -> Stage] /\ req[t] \in Request
      /\ pc[t] = "tscan" /\ fault = "no" /\ cpu.runs = t
      /\ UNCHANGED <<bits, pte, table, garbled, lock, cpu>>
      /\ lock \in [{"kernel", "user"} -> Thread \cup {None}] /\ Claim(t)
  BY DEF IInv, TypeInv, TableScan, At, FrameInv, FrameTypes, memVars
<1>2. f # 0 => f \in FramesOf("kernel") /\ Bit("kernel", f) \notin bits
  BY PallocFinds
<1>3. /\ req' = [req EXCEPT ![t].tframe = f]
      /\ \/ f # 0 /\ pc' = [pc EXCEPT ![t] = "tset"]
         \/ fault' # "no"
  <2>1. "wild" # "no" /\ Pool("kernel") = L.kernel
    BY DEF Pool
  <2> HIDE DEF f
  <2> QED BY <2>1, Zenon DEF TableScan, Stop, Goto, f
<1> HIDE DEF f
<1>4. CASE fault' # "no"
  BY <1>4 DEF FrameInv
<1>5. CASE f # 0 /\ pc' = [pc EXCEPT ![t] = "tset"]
  <2>1. /\ \A u \in Thread \ {t} : req'[u] = req[u] /\ pc'[u] = pc[u]
        /\ pc'[t] = "tset"
        /\ req'[t].pf = req[t].pf /\ req'[t].space = req[t].space
        /\ req'[t].frame = req[t].frame /\ req'[t].tframe = f
        /\ req'[t].page = req[t].page /\ req'[t].done = req[t].done
    BY <1>0, <1>3, <1>5 DEF Request
  <2>2. Claim(t)'
    BY <1>0, <1>2, <1>5, <2>1 DEF Claim, Mapping, Busy, Missing
  <2>3. pc[t] \in Holding /\ pc'[t] \in Holding
    BY <1>0, <2>1 DEF Holding
  <2> QED BY <1>0, <2>1, <2>2, <2>3, QuietStep
<1> QED BY <1>3, <1>4, <1>5

\* Without preemption no page that was granted is a page table, and so lock_release
\* comes after a memset that takes no entries.
LEMMA GrantedApart ==
  ASSUME IInv, fault = "no", FrameInv, cpu.cut = 0,
         NEW s \in Space, NEW v \in 0 .. VaddrLen(s) - 1
  PROVE  TablesAt({pte[s][v]}) = {}
<1> SUFFICES ASSUME NEW x \in (Space \ {Kernel}) \X (0 .. Dir(UserLen - 1)),
                    table[x[1]][x[2]] = pte[s][v], pte[s][v] # 0
             PROVE  FALSE
  BY DEF TablesAt
<1>1. PICK q \in Space \ {Kernel}, d \in 0 .. Dir(UserLen - 1) : x = <<q, d>>
  OBVIOUS
<1>2. table[q][d] = pte[s][v] /\ table[q][d] \in FramesOf("kernel")
  <2>1. table[q] \in [0 .. Dir(UserLen - 1) -> FramesOf("kernel") \cup {0}]
    BY DEF FrameInv, FrameTypes
  <2>2. table[q][d] \in FramesOf("kernel") \cup {0}
    BY <2>1
  <2> QED BY <1>1, <2>2
<1>3. Owners("kernel")
  BY DEF FrameInv, Guarded
<1>4. /\ TableAt(q, d) \in Places /\ PageAt(s, v) \in Places
      /\ Held(TableAt(q, d)) = table[q][d] /\ Held(PageAt(s, v)) = pte[s][v]
      /\ TableAt(q, d) # PageAt(s, v)
  BY PlacesAre, PlacesDiffer, HeldIs
<1> QED BY <1>2, <1>3, <1>4 DEF Owners

\* The memset of pages that are no page tables changes no entry.
LEMMA ZeroedNone ==
  ASSUME TypeInv, NEW pages, TablesAt(pages) = {}
  PROVE  Zeroed(pages) = pte
<1>1. /\ pte = [s \in Space |-> pte[s]]
      /\ \A s \in Space : pte[s] \in [0 .. VaddrLen(s) - 1 -> Nat]
  BY DEF TypeInv
<1>2. ASSUME NEW s \in Space PROVE Zeroed(pages)[s] = pte[s]
  <2>1. \A v \in 0 .. VaddrLen(s) - 1 : Zeroed(pages)[s][v] = pte[s][v]
    BY ZeroedIs
  <2> DEFINE D == 0 .. VaddrLen(s) - 1
  <2>2. Zeroed(pages)[s] \in [D -> Nat]
    BY ZeroedIs
  <2>3. pte[s] \in [D -> Nat] /\ \A v \in D : Zeroed(pages)[s][v] = pte[s][v]
    BY <1>1, <2>1
  <2> HIDE DEF D
  <2>4. ASSUME NEW f \in [D -> Nat], NEW g \in [D -> Nat], \A v \in D : f[v] = g[v]
        PROVE  f = g
    BY <2>4
  <2> QED BY <2>2, <2>3, <2>4
<1>3. Zeroed(pages) = [s \in Space |-> Zeroed(pages)[s]]
  BY ZeroedIs
<1> QED BY <1>1, <1>2, <1>3

\* A step after which some page table has another owner: only what threads have in
\* hand is still known.
LEMMA SpoiltStep ==
  ASSUME IInv, FrameTypes, cpu.cut # 0, UNCHANGED cpu, garbled' # {},
         NEW pages, pte' = Zeroed(pages),
         table' = [s \in Space \ {Kernel} |-> table'[s]],
         \A s \in Space \ {Kernel} :
            table'[s] \in [0 .. Dir(UserLen - 1) -> FramesOf("kernel") \cup {0}],
         lock' \in [{"kernel", "user"} -> Thread \cup {None}],
         \A t \in Thread : Claim(t)'
  PROVE  FrameInv'
<1>1. ASSUME NEW s \in Space, NEW v \in 0 .. VaddrLen(s) - 1
      PROVE  pte'[s][v] \in FramesOf(PoolOf(s)) \cup {0}
  <2>1. pte[s][v] \in FramesOf(PoolOf(s)) \cup {0}
    BY DEF FrameTypes
  <2>2. pte'[s][v] = pte[s][v] \/ pte'[s][v] = 0
    <3>1. Zeroed(pages)[s][v] \in {0, pte[s][v]}
      BY ZeroedIn DEF IInv
    <3> QED BY <3>1
  <2> QED BY <2>1, <2>2
<1>2. FrameTypes'
  BY <1>1 DEF FrameTypes
<1>3. \A pf \in {"kernel", "user"} : ~Guarded(pf)'
  BY DEF Guarded
<1> QED BY <1>2, <1>3 DEF FrameInv

\* The memset and lock_release
LEMMA UnlockFrames ==
  ASSUME IInv, FrameInv, NEW t \in Thread, Unlock(t)
  PROVE  FrameInv'
<1> DEFINE pf == req[t].pf
           r == req[t]
           mine == {pte[r.space][v] : v \in Wanted(r)}
<1>0. /\ req \in [Thread -> Request] /\ pc \in [Thread -> Stage] /\ req[t] \in Request
      /\ pc[t] = "unlock" /\ fault = "no" /\ cpu.runs = t
      /\ UNCHANGED <<bits, table, cpu>> /\ lock' = [lock EXCEPT ![pf] = None]
      /\ req' = [req EXCEPT ![t] = NoReq] /\ pc' = [pc EXCEPT ![t] = "user"]
      /\ lock \in [{"kernel", "user"} -> Thread \cup {None}] /\ Claim(t) /\ FrameTypes
      /\ TypeInv /\ RequestSound(t)
  BY DEF IInv, TypeInv, Unlock, At, Goto, FrameInv, FrameTypes
<1>1. pf \in {"kernel", "user"} /\ lock[pf] = t
  BY <1>0 DEF Request, Claim, Busy
<1>2. /\ \A u \in Thread \ {t} : req'[u] = req[u] /\ pc'[u] = pc[u]
      /\ pc'[t] = "user" /\ req'[t] = NoReq
  BY <1>0
<1>3. /\ lock' \in [{"kernel", "user"} -> Thread \cup {None}]
      /\ \A qf \in {"kernel", "user"} : lock[qf] \notin {t, None} => lock'[qf] = lock[qf]
  BY <1>0, <1>1
<1>4. Claim(t)'
  BY <1>2 DEF Claim, Mapping, Busy, NoReq, PoolOf
<1>5. pc[t] \notin Holding /\ pc'[t] \notin Holding
  BY <1>0, <1>2 DEF Holding
<1>6. CASE UNCHANGED <<pte, garbled>>
  BY <1>0, <1>2, <1>3, <1>4, <1>5, <1>6, QuietStep
<1>7. CASE /\ r.done = r.cnt /\ ~r.at
           /\ pte' = Zeroed(mine) /\ garbled' = garbled \cup TablesAt(mine)
  <2>1. Wanted(r) \subseteq 0 .. VaddrLen(r.space) - 1 /\ r.space \in Space
    <3>1. r.space \in Space /\ VaddrLen(r.space) \in Nat /\ r.page \in Nat /\ r.cnt \in Nat
      BY <1>0, LenType DEF Request
    <3>2. Inside(r)
      BY <1>0, <1>7 DEF RequestSound, Reserves
    <3> QED BY <3>1, <3>2 DEF Inside, Wanted
  <2>2. cpu.cut = 0 => TablesAt(mine) = {}
    <3> SUFFICES ASSUME cpu.cut = 0, NEW v \in Wanted(r)
                 PROVE  TablesAt({pte[r.space][v]}) = {}
      BY DEF TablesAt
    <3> QED BY <1>0, <2>1, GrantedApart
  <2> HIDE DEF mine
  <2>3. CASE TablesAt(mine) = {}
    <3>1. UNCHANGED <<pte, garbled>>
      BY <1>0, <1>7, <2>3, ZeroedNone
    <3> QED BY <1>6, <3>1
  <2>4. CASE TablesAt(mine) # {}
    <3>1. ASSUME NEW u \in Thread PROVE Claim(u)'
      BY <1>0, <1>2, <1>3, <1>4, OtherClaims
    <3>2. /\ table' = [s \in Space \ {Kernel} |-> table'[s]]
          /\ \A s \in Space \ {Kernel} :
                table'[s] \in [0 .. Dir(UserLen - 1) -> FramesOf("kernel") \cup {0}]
      BY <1>0 DEF FrameTypes
    <3>3. cpu.cut # 0 /\ garbled' # {}
      BY <1>7, <2>2, <2>4
    <3> QED BY <1>0, <1>3, <1>7, <3>1, <3>2, <3>3, SpoiltStep
  <2> QED BY <2>3, <2>4
<1>8. \/ UNCHANGED <<pte, garbled>>
      \/ /\ r.done = r.cnt /\ ~r.at
         /\ pte' = Zeroed(mine) /\ garbled' = garbled \cup TablesAt(mine)
  <2> HIDE DEF mine
  <2> QED BY Zenon DEF Unlock, mine
<1> QED BY <1>6, <1>7, <1>8

\* The rest of palloc: the page is the request's.
LEMMA PallocSetFrames ==
  ASSUME IInv, FrameInv, NEW t \in Thread, PallocSet(t)
  PROVE  FrameInv'
<1> DEFINE r == req[t]
           pf == r.pf
           missing == r.space # Kernel /\ table[r.space][Dir(r.page + r.done)] = 0
<1>0. /\ pc \in [Thread -> Stage] /\ r \in Request
      /\ pc[t] = "set" /\ fault = "no" /\ cpu.runs = t
      /\ UNCHANGED <<pte, table, garbled, lock, cpu, req>>
      /\ bits' = bits \cup {Bit(pf, r.frame)}
      /\ pc' = [pc EXCEPT ![t] = IF missing THEN "tscan" ELSE "map"]
      /\ Claim(t)
  BY DEF IInv, TypeInv, PallocSet, At, Goto, FrameInv, bitmap_set, Bit
<1>1. /\ pf \in {"kernel", "user"} /\ r.frame \in FramesOf(pf) /\ lock[pf] = t
      /\ Locked(pf) => Bit(pf, r.frame) \notin bits
  BY <1>0 DEF Request, Claim, Mapping, Busy
<1>2. /\ \A u \in Thread \ {t} : req'[u] = req[u] /\ pc'[u] = pc[u]
      /\ pc'[t] = IF missing THEN "tscan" ELSE "map"
  <2> DEFINE where == IF missing THEN "tscan" ELSE "map"
  <2>1. pc' = [pc EXCEPT ![t] = where]
    BY <1>0
  <2> HIDE DEF where
  <2>2. pc'[t] = where /\ \A u \in Thread \ {t} : pc'[u] = pc[u]
    BY <1>0, <2>1
  <2> QED BY <1>0, <2>2 DEF where
<1>3. Claim(t)'
  <2>1. pc'[t] \in {"tscan", "map"} /\ (pc'[t] = "tscan" => missing)
    BY <1>2
  <2>2. /\ r.pf = PoolOf(r.space)
        /\ lock'[r.pf] = t /\ cpu'.runs = t
        /\ r.frame \in FramesOf(r.pf)
        /\ pc'[t] = "tscan" => r.space # Kernel /\ table'[r.space][Dir(r.page + r.done)] = 0
    BY <1>0, <1>1, <2>1 DEF Claim
  <2> HIDE DEF missing
  <2> QED BY <1>0, <2>1, <2>2 DEF Claim, Missing
<1>4. \A f \in FramesOf("user") : Bit("user", f) \in bits' =>
         Bit("user", f) \in bits \/ lock["user"] = t
  BY <1>0, <1>1, PoolsApart
<1>5. ASSUME NEW u \in Thread PROVE Claim(u)'
  BY <1>0, <1>2, <1>3, <1>4, OtherClaims
<1>6. /\ InHand(t) \in Places
      /\ Held(InHand(t)) = 0 /\ Held(InHand(t))' = r.frame
      /\ \A x \in Places \ {InHand(t)} : Held(x)' = Held(x)
  <2>1. pc[t] \notin Holding /\ pc'[t] \in Holding
    BY <1>0, <1>2 DEF Holding
  <2>2. \A s \in Space : \A v \in 0 .. VaddrLen(s) - 1 : Held(PageAt(s, v))' = Held(PageAt(s, v))
    BY <1>0, HeldIs
  <2>3. \A s \in Space \ {Kernel}, d \in 0 .. Dir(UserLen - 1) :
           Held(TableAt(s, d))' = Held(TableAt(s, d))
    BY <1>0, HeldIs
  <2>4. \A u \in Thread \ {t} : Held(InHand(u))' = Held(InHand(u))
    BY <1>2, HeldIs
  <2> QED BY <1>0, <2>1, <2>2, <2>3, <2>4, HeldIs, PlacesAre
<1>7. ASSUME NEW qf \in {"kernel", "user"}, Guarded(qf)' PROVE Owners(qf)'
  <2>1. Owners(qf) /\ Guarded(qf)
    BY <1>0, <1>7 DEF FrameInv, Guarded
  <2>2. CASE qf = pf
    <3>1. Held(InHand(t)) \notin FramesOf(pf)
      BY <1>1, <1>6, FramesAre
    <3>2. Bit(pf, r.frame) \notin bits
      BY <1>1, <2>1, <2>2 DEF Guarded, Locked
    <3> QED BY <1>0, <1>1, <1>6, <2>1, <2>2, <3>1, <3>2, OwnersTake
  <2>3. CASE qf # pf
    <3>1. \A f \in FramesOf(qf) : f # r.frame /\ Bit(qf, f) # Bit(pf, r.frame)
      BY <1>1, <2>3, PoolsApart
    <3>2. 0 \notin FramesOf(qf)
      BY FramesAre
    <3> QED BY <1>0, <1>6, <2>1, <3>1, <3>2, OwnersStay
  <2> QED BY <2>2, <2>3
<1>8. FrameTypes'
  BY <1>0 DEF FrameInv, FrameTypes
<1>9. cpu'.cut = 0 => garbled' = {}
  BY <1>0 DEF FrameInv
<1> QED BY <1>5, <1>7, <1>8, <1>9 DEF FrameInv

\* page_table_add enters the new page table into the directory.
LEMMA TableSetFrames ==
  ASSUME IInv, FrameInv, NEW t \in Thread, TableSet(t)
  PROVE  FrameInv'
<1> DEFINE r == req[t]
<1> PICK s0, d0, f0 : s0 = r.space /\ d0 = Dir(r.page + r.done) /\ f0 = r.tframe
  OBVIOUS
<1>0. /\ pc \in [Thread -> Stage] /\ r \in Request
      /\ pc[t] = "tset" /\ fault = "no" /\ cpu.runs = t
      /\ UNCHANGED <<lock, cpu, req>> /\ TypeInv
      /\ bits' = bits \cup {Bit("kernel", f0)}
      /\ table' = [table EXCEPT ![s0][d0] = f0]
      /\ pc' = [pc EXCEPT ![t] = "map"]
      /\ Claim(t) /\ RequestSound(t) /\ FrameTypes
      /\ pte' = Zeroed({f0})
      /\ garbled \subseteq garbled' /\ TablesAt({f0}) \subseteq garbled'
      /\ TablesAt({f0}) = {} /\ f0 \notin Owned => garbled' = garbled
  BY DEF IInv, TypeInv, TableSet, At, Goto, FrameInv, bitmap_set, Bit, Pool
<1>1. /\ f0 \in FramesOf("kernel") /\ r.frame \in FramesOf(r.pf) /\ lock[r.pf] = t
      /\ s0 \in Space \ {Kernel} /\ r.pf = PoolOf(s0)
      /\ cpu.cut = 0 => table[s0][d0] = 0 /\ Bit("kernel", f0) \notin bits
  BY <1>0 DEF Request, Claim, Mapping, Busy, Missing
<1>2. /\ \A u \in Thread \ {t} : req'[u] = req[u] /\ pc'[u] = pc[u]
      /\ pc'[t] = "map"
  BY <1>0
<1>3. Claim(t)'
  BY <1>0, <1>1, <1>2 DEF Claim
<1>4. \A f \in FramesOf("user") : Bit("user", f) \in bits' => Bit("user", f) \in bits
  BY <1>0, <1>1, PoolsApart
<1>5. ASSUME NEW u \in Thread PROVE Claim(u)'
  <2>1. CASE u # t
    <3>1. \A qf \in {"kernel", "user"} : lock'[qf] = lock[qf]
      BY <1>0
    <3> QED BY <1>0, <1>2, <1>4, <2>1, <3>1, OtherClaims
  <2> QED BY <1>3, <2>1
<1>6. d0 \in 0 .. Dir(UserLen - 1)
  <2>1. r.page + r.done \in 0 .. UserLen - 1
    <3>1. Inside(r) /\ r.done < r.cnt /\ VaddrLen(s0) = UserLen
      BY <1>0, <1>1 DEF RequestSound, Mapping, VaddrLen
    <3> QED BY <1>0, <3>1, MemoryAssumption DEF Inside, Request
  <2> QED BY <2>1, DirIn
<1>7. /\ table' = [s \in Space \ {Kernel} |-> table'[s]]
      /\ \A s \in Space \ {Kernel} :
            table'[s] \in [0 .. Dir(UserLen - 1) -> FramesOf("kernel") \cup {0}]
      /\ table'[s0][d0] = f0
      /\ \A s \in Space \ {Kernel}, d \in 0 .. Dir(UserLen - 1) :
            s # s0 \/ d # d0 => table'[s][d] = table[s][d]
  <2>1. /\ table = [s \in Space \ {Kernel} |-> table[s]]
        /\ \A s \in Space \ {Kernel} :
              table[s] \in [0 .. Dir(UserLen - 1) -> FramesOf("kernel") \cup {0}]
    BY <1>0 DEF FrameTypes
  <2>2. /\ table' = [s \in Space \ {Kernel} |-> table'[s]]
        /\ table'[s0] = [table[s0] EXCEPT ![d0] = f0]
        /\ \A s \in Space \ {Kernel, s0} : table'[s] = table[s]
    BY <1>0, <1>1, <2>1
  <2>3. /\ table'[s0] \in [0 .. Dir(UserLen - 1) -> FramesOf("kernel") \cup {0}]
        /\ table'[s0][d0] = f0
        /\ \A d \in 0 .. Dir(UserLen - 1) : d # d0 => table'[s0][d] = table[s0][d]
    <3> DEFINE D == 0 .. Dir(UserLen - 1)
               F == FramesOf("kernel") \cup {0}
    <3>1. table[s0] \in [D -> F] /\ d0 \in D /\ f0 \in F
      BY <1>1, <1>6, <2>1
    <3> HIDE DEF D, F
    <3>2. /\ table'[s0] \in [D -> F] /\ table'[s0][d0] = f0
          /\ \A d \in D : d # d0 => table'[s0][d] = table[s0][d]
      BY <2>2, <3>1
    <3> QED BY <3>2 DEF D, F
  <2> QED BY <2>1, <2>2, <2>3
<1>8. ASSUME cpu.cut = 0 PROVE garbled' = {}
  <2>1. Owners("kernel") /\ Bit("kernel", f0) \notin bits /\ garbled = {}
    BY <1>0, <1>1, <1>8 DEF FrameInv, Guarded
  <2>2. \A x \in Places : Held(x) # f0
    BY <1>1, <2>1 DEF Owners
  <2>3. TablesAt({f0}) = {}
    <3>1. \A s \in Space \ {Kernel}, d \in 0 .. Dir(UserLen - 1) : table[s][d] # f0
      BY <2>2, PlacesAre, HeldIs
    <3> QED BY <3>1 DEF TablesAt
  <2>4. f0 \notin Owned
    <3> SUFFICES ASSUME NEW g \in got, g.space = Kernel, NEW v \in Wanted(g)
                 PROVE  pte[Kernel][v] # f0
      BY DEF Owned
    <3>1. g.page \in Nat /\ g.cnt \in Nat /\ Kernel \in Space /\ Inside(g)
      BY <1>0 DEF IInv, TypeInv, GrantSound, Space
    <3>2. v \in 0 .. VaddrLen(Kernel) - 1
      BY <3>1, LenType DEF Inside, Wanted
    <3> QED BY <2>2, <3>1, <3>2, PlacesAre, HeldIs
  <2> QED BY <1>0, <2>1, <2>3, <2>4
<1>9. CASE garbled' # {}
  <2>1. cpu.cut # 0
    BY <1>8, <1>9
  <2> QED BY <1>0, <1>5, <1>7, <1>9, <2>1, SpoiltStep DEF FrameTypes
<1> SUFFICES ASSUME garbled' = {} PROVE FrameInv'
  BY <1>9
<1>10. pte' = pte /\ garbled' = garbled
  BY <1>0, ZeroedNone
<1>11. /\ TableAt(s0, d0) \in Places
      /\ Held(TableAt(s0, d0)) = table[s0][d0] /\ Held(TableAt(s0, d0))' = f0
      /\ \A x \in Places \ {TableAt(s0, d0)} : Held(x)' = Held(x)
  <2>1. \A s \in Space : \A v \in 0 .. VaddrLen(s) - 1 : Held(PageAt(s, v))' = Held(PageAt(s, v))
    BY <1>10, HeldIs
  <2>2. \A s \in Space \ {Kernel}, d \in 0 .. Dir(UserLen - 1) :
           s # s0 \/ d # d0 => Held(TableAt(s, d))' = Held(TableAt(s, d))
    BY <1>7, HeldIs
  <2>3. \A u \in Thread : Held(InHand(u))' = Held(InHand(u))
    <3>1. pc[t] \in Holding /\ pc'[t] \in Holding /\ req' = req
      BY <1>0, <1>2 DEF Holding
    <3> QED BY <1>2, <3>1, HeldIs
  <2> QED BY <1>1, <1>6, <1>7, <2>1, <2>2, <2>3, HeldIs, PlacesAre
<1>12. ASSUME NEW qf \in {"kernel", "user"}, Guarded(qf)' PROVE Owners(qf)'
  <2>1. Owners(qf) /\ Guarded(qf)
    BY <1>0, <1>12, <1>10 DEF FrameInv, Guarded
  <2>2. CASE qf = "kernel"
    <3>1. table[s0][d0] = 0 /\ Bit("kernel", f0) \notin bits
      BY <1>1, <2>1, <2>2 DEF Guarded
    <3>2. Held(TableAt(s0, d0)) \notin FramesOf("kernel")
      BY <1>11, <3>1, FramesAre
    <3> QED BY <1>0, <1>1, <1>11, <2>1, <2>2, <3>1, <3>2, OwnersTake
  <2>3. CASE qf = "user"
    <3>1. \A f \in FramesOf("user") : f # f0 /\ Bit("user", f) # Bit("kernel", f0)
      BY <1>1, PoolsApart
    <3>2. table[s0][d0] \in FramesOf("kernel") \cup {0}
      BY <1>0, <1>1, <1>6 DEF FrameTypes
    <3>3. table[s0][d0] \notin FramesOf("user")
      BY <3>2, PoolsApart, FramesAre
    <3> QED BY <1>0, <1>11, <2>1, <2>3, <3>1, <3>3, OwnersStay
  <2> QED BY <2>2, <2>3
<1>13. FrameTypes'
  BY <1>0, <1>7, <1>10 DEF FrameTypes
<1> QED BY <1>5, <1>12, <1>13 DEF FrameInv

\* page_table_add: the page goes from the request to the page table.
LEMMA MapFrames ==
  ASSUME IInv, FrameInv, NEW t \in Thread, Map(t)
  PROVE  FrameInv'
<1> DEFINE r == req[t]
           where == IF r.done + 1 = r.cnt THEN "unlock" ELSE "scan"
<1> PICK s0, v0, f0, pf :
       s0 = r.space /\ v0 = r.page + r.done /\ f0 = r.frame /\ pf = r.pf
  OBVIOUS
<1>0. /\ pc \in [Thread -> Stage] /\ req \in [Thread -> Request] /\ r \in Request
      /\ pc[t] = "map" /\ fault = "no" /\ cpu.runs = t
      /\ UNCHANGED <<bits, table, garbled, lock, cpu>>
      /\ Claim(t) /\ RequestSound(t) /\ FrameTypes
      /\ pte = [s \in Space |-> pte[s]] /\ \A s \in Space : pte[s] \in [0 .. VaddrLen(s) - 1 -> Nat]
  BY DEF IInv, TypeInv, Map, At, FrameInv
<1>1. /\ pf \in {"kernel", "user"} /\ pf = PoolOf(s0) /\ s0 \in Space
      /\ f0 \in FramesOf(pf) /\ lock[pf] = t
  BY <1>0 DEF Request, Claim, Mapping, Busy
<1>2. v0 \in 0 .. VaddrLen(s0) - 1
  BY <1>0, <1>1, LenType DEF Request, RequestSound, Mapping, Inside
<1>3. \/ fault' # "no"
      \/ /\ pte[s0][v0] = 0
         /\ pte' = [pte EXCEPT ![s0][v0] = f0]
         /\ req' = [req EXCEPT ![t].done = @ + 1]
         /\ pc' = [pc EXCEPT ![t] = where]
  <2>1. "assert" # "no" /\ "wild" # "no"
    OBVIOUS
  <2> QED BY <2>1, Zenon DEF Map, Stop, Goto
<1>4. CASE fault' # "no"
  BY <1>4 DEF FrameInv
<1>5. CASE /\ pte[s0][v0] = 0
           /\ pte' = [pte EXCEPT ![s0][v0] = f0]
           /\ req' = [req EXCEPT ![t].done = @ + 1]
           /\ pc' = [pc EXCEPT ![t] = where]
  <2>1. where \in {"unlock", "scan"}
    OBVIOUS
  <2> HIDE DEF where
  <2>2. /\ \A u \in Thread \ {t} : req'[u] = req[u] /\ pc'[u] = pc[u]
        /\ pc'[t] = where
        /\ req'[t].pf = pf /\ req'[t].space = s0
    BY <1>0, <1>5 DEF Request
  <2>3. Claim(t)'
    BY <1>0, <1>1, <2>1, <2>2 DEF Claim, Mapping, Busy
  <2>4. ASSUME NEW u \in Thread PROVE Claim(u)'
    <3>1. CASE u # t
      <4>1. \A qf \in {"kernel", "user"} : lock'[qf] = lock[qf]
        BY <1>0
      <4> QED BY <1>0, <2>2, <3>1, <4>1, OtherClaims
    <3> QED BY <2>3, <3>1
  <2>5. /\ pte'[s0][v0] = f0
        /\ \A s \in Space : \A v \in 0 .. VaddrLen(s) - 1 :
              s # s0 \/ v # v0 => pte'[s][v] = pte[s][v]
    <3>1. /\ pte'[s0] = [pte[s0] EXCEPT ![v0] = f0]
          /\ \A s \in Space \ {s0} : pte'[s] = pte[s]
      BY <1>0, <1>1, <1>5
    <3>2. pte[s0] \in [0 .. VaddrLen(s0) - 1 -> Nat]
      BY <1>0, <1>1
    <3>3. pte'[s0][v0] = f0 /\ \A v \in 0 .. VaddrLen(s0) - 1 : v # v0 => pte'[s0][v] = pte[s0][v]
      BY <1>2, <3>1, <3>2
    <3> QED BY <3>1, <3>3
  <2>6. /\ InHand(t) \in Places /\ PageAt(s0, v0) \in Places /\ InHand(t) # PageAt(s0, v0)
        /\ Held(InHand(t)) = f0 /\ Held(InHand(t))' = 0
        /\ Held(PageAt(s0, v0)) = 0 /\ Held(PageAt(s0, v0))' = f0
        /\ \A x \in Places \ {InHand(t), PageAt(s0, v0)} : Held(x)' = Held(x)
    <3>1. pc[t] \in Holding /\ pc'[t] \notin Holding
      BY <1>0, <2>1, <2>2 DEF Holding
    <3>2. \A s \in Space : \A v \in 0 .. VaddrLen(s) - 1 :
             s # s0 \/ v # v0 => Held(PageAt(s, v))' = Held(PageAt(s, v))
      BY <2>5, HeldIs
    <3>3. \A s \in Space \ {Kernel}, d \in 0 .. Dir(UserLen - 1) :
             Held(TableAt(s, d))' = Held(TableAt(s, d))
      BY <1>0, HeldIs
    <3>4. \A u \in Thread \ {t} : Held(InHand(u))' = Held(InHand(u))
      BY <2>2, HeldIs
    <3>5. \A x \in Places \ {InHand(t), PageAt(s0, v0)} : Held(x)' = Held(x)
      BY <3>2, <3>3, <3>4, PlacesAre
    <3>6. InHand(t) \in Places /\ PageAt(s0, v0) \in Places /\ InHand(t) # PageAt(s0, v0)
      BY <1>1, <1>2, PlacesAre, PlacesDiffer
    <3>7. Held(InHand(t)) = f0 /\ Held(InHand(t))' = 0
      BY <3>1, HeldIs
    <3>8. Held(PageAt(s0, v0)) = 0 /\ Held(PageAt(s0, v0))' = f0
      BY <1>5, <2>5, HeldIs
    <3> QED BY <3>5, <3>6, <3>7, <3>8
  <2>7. ASSUME NEW qf \in {"kernel", "user"}, Guarded(qf)' PROVE Owners(qf)'
    <3>1. Owners(qf) /\ 0 \notin FramesOf(qf)
      BY <1>0, <2>7, FramesAre DEF FrameInv, Guarded
    <3>2. CASE qf = pf
      BY <1>0, <1>1, <2>6, <3>1, <3>2, OwnersMove
    <3>3. CASE qf # pf
      <4>1. f0 \notin FramesOf(qf)
        BY <1>1, <3>3, PoolsApart
      <4> QED BY <1>0, <2>6, <3>1, <4>1, OwnersStay
    <3> QED BY <3>2, <3>3
  <2>8. FrameTypes'
    <3>1. ASSUME NEW s \in Space, NEW v \in 0 .. VaddrLen(s) - 1
          PROVE  pte'[s][v] \in FramesOf(PoolOf(s)) \cup {0}
      <4>1. pte[s][v] \in FramesOf(PoolOf(s)) \cup {0}
        BY <1>0 DEF FrameTypes
      <4> QED BY <1>1, <2>5, <4>1
    <3> QED BY <1>0, <3>1 DEF FrameTypes
  <2>9. cpu'.cut = 0 => garbled' = {}
    BY <1>0 DEF FrameInv
  <2> QED BY <2>4, <2>7, <2>8, <2>9 DEF FrameInv
<1> QED BY <1>3, <1>4, <1>5

\* mfree_page gives the pages of a grant back, by the bits they were taken by.
LEMMA MfreePageFrames ==
  ASSUME WholeBytes, IInv, FrameInv, NEW t \in Thread, NEW g \in got, MfreePage(t, g)
  PROVE  FrameInv'
<1> DEFINE s0 == g.space
           pf == PoolOf(s0)
           freed == {pte[s0][v] : v \in Wanted(g)}
           S == {PageAt(s0, v) : v \in Wanted(g)}
<1>a. CASE \E v \in Wanted(g) : Spoilt(g.space, v)
  <2>1. fault' # "no"
    BY <1>a DEF MfreePage, Stop
  <2> QED BY <2>1 DEF FrameInv
<1> SUFFICES ASSUME ~\E v \in Wanted(g) : Spoilt(g.space, v) PROVE FrameInv'
  BY <1>a
<1>0. /\ fault = "no" /\ cpu.runs = t
      /\ UNCHANGED <<table, garbled, lock, cpu, pc, req>>
      /\ bits' = bits \ {pfree(L, pte[s0][v]) : v \in Wanted(g)}
      /\ pte' = [pte EXCEPT ![s0] = [v \in DOMAIN @ |-> IF v \in Wanted(g) THEN 0 ELSE @[v]]]
      /\ FrameTypes /\ GrantSound(g)
      /\ s0 \in Space /\ g.page \in Nat /\ g.cnt \in Nat
      /\ pte = [s \in Space |-> pte[s]] /\ \A s \in Space : pte[s] \in [0 .. VaddrLen(s) - 1 -> Nat]
  BY DEF IInv, TypeInv, MfreePage, At, FrameInv
<1>1. pf \in {"kernel", "user"}
  BY DEF PoolOf
<1>2. Wanted(g) \subseteq 0 .. VaddrLen(s0) - 1
  BY <1>0, LenType DEF GrantSound, Inside, Wanted
<1>3. \A v \in Wanted(g) : pte[s0][v] \in FramesOf(pf)
  BY <1>0, <1>2 DEF FrameTypes, GrantSound, Entered
<1>4. /\ \A s \in Space \ {s0} : pte'[s] = pte[s]
      /\ pte'[s0] = [v \in 0 .. VaddrLen(s0) - 1 |-> IF v \in Wanted(g) THEN 0 ELSE pte[s0][v]]
  BY <1>0
<1>5. /\ \A v \in Wanted(g) : pte'[s0][v] = 0
      /\ \A s \in Space : \A v \in 0 .. VaddrLen(s) - 1 :
            s # s0 \/ v \notin Wanted(g) => pte'[s][v] = pte[s][v]
  BY <1>2, <1>4
<1>6. \A v \in Wanted(g) : pfree(L, pte[s0][v]) = Bit(pf, pte[s0][v])
  BY <1>1, <1>3, PfreeIs
<1>7. /\ S \subseteq Places
      /\ \A x \in S : Held(x) \in FramesOf(pf) /\ Held(x)' = 0
      /\ \A x \in Places \ S : Held(x)' = Held(x)
      /\ {pfree(L, pte[s0][v]) : v \in Wanted(g)} = {Bit(pf, Held(x)) : x \in S}
  <2>1. \A v \in Wanted(g) : /\ PageAt(s0, v) \in Places
                             /\ Held(PageAt(s0, v)) = pte[s0][v]
                             /\ Held(PageAt(s0, v))' = 0
    <3> TAKE v \in Wanted(g)
    <3>1. PageAt(s0, v) \in Places
      BY <1>0, <1>2, PlacesAre
    <3> QED BY <1>5, <3>1, HeldIs
  <2>2. ASSUME NEW s \in Space, NEW v \in 0 .. VaddrLen(s) - 1, PageAt(s, v) \notin S
        PROVE  Held(PageAt(s, v))' = Held(PageAt(s, v))
    <3>1. s # s0 \/ v \notin Wanted(g)
      BY <2>2
    <3> QED BY <1>5, <3>1, HeldIs
  <2>3. \A s \in Space \ {Kernel}, d \in 0 .. Dir(UserLen - 1) :
           Held(TableAt(s, d))' = Held(TableAt(s, d))
    BY <1>0, HeldIs
  <2>4. \A u \in Thread : Held(InHand(u))' = Held(InHand(u))
    BY <1>0, HeldIs
  <2>5. \A x \in Places \ S : Held(x)' = Held(x)
    BY <2>2, <2>3, <2>4, PlacesAre
  <2>6. {pfree(L, pte[s0][v]) : v \in Wanted(g)} = {Bit(pf, Held(x)) : x \in S}
    BY <1>6, <2>1
  <2> QED BY <1>3, <2>1, <2>5, <2>6
<1>8. ASSUME NEW u \in Thread PROVE Claim(u)'
  <2>1. Claim(u)
    BY <1>0 DEF FrameInv
  <2>2. bits' \subseteq bits
    BY <1>0
  <2> QED BY <1>0, <2>1, <2>2 DEF Claim, Missing, Locked
<1>9. ASSUME NEW qf \in {"kernel", "user"}, Guarded(qf)' PROVE Owners(qf)'
  <2>1. Owners(qf) /\ 0 \notin FramesOf(qf)
    BY <1>0, <1>9, FramesAre DEF FrameInv, Guarded
  <2>2. CASE qf = pf
    <3>1. /\ S \in SUBSET Places
          /\ \A x \in S : Held(x) \in FramesOf(qf) /\ Held(x)' \notin FramesOf(qf)
          /\ \A x \in Places \ S : Held(x)' = Held(x)
          /\ bits' = bits \ {Bit(qf, Held(x)) : x \in S}
      BY <1>0, <1>7, <2>1, <2>2
    <3>2. PICK R \in SUBSET Places : R = S
      BY <3>1
    <3> HIDE DEF S
    <3> QED BY <2>1, <3>1, <3>2, OwnersFree
  <2>3. CASE qf # pf
    <3>1. \A x \in S : Held(x) \notin FramesOf(qf)
      BY <1>1, <1>7, <2>3, PoolsApart
    <3>2. \A f \in FramesOf(qf), x \in S : Bit(qf, f) # Bit(pf, Held(x))
      BY <1>1, <1>7, <2>3, PoolsApart
    <3>3. \A f \in FramesOf(qf) : Bit(qf, f) \in bits' <=> Bit(qf, f) \in bits
      <4> HIDE DEF S
      <4> QED BY <1>0, <1>7, <3>2
    <3>4. \A x \in Places : Held(x) \in FramesOf(qf) \/ Held(x)' \in FramesOf(qf)
                               => Held(x)' = Held(x)
      <4> HIDE DEF S
      <4> QED BY <1>7, <2>1, <3>1
    <3> QED BY <2>1, <3>3, <3>4, OwnersStay
  <2> QED BY <2>2, <2>3
<1>10. FrameTypes'
  <2>1. ASSUME NEW s \in Space, NEW v \in 0 .. VaddrLen(s) - 1
        PROVE  pte'[s][v] \in FramesOf(PoolOf(s)) \cup {0}
    <3>1. pte[s][v] \in FramesOf(PoolOf(s)) \cup {0}
      BY <1>0 DEF FrameTypes
    <3> QED BY <1>5, <3>1
  <2> QED BY <1>0, <2>1 DEF FrameTypes
<1>11. cpu'.cut = 0 => garbled' = {}
  BY <1>0 DEF FrameInv
<1> QED BY <1>8, <1>9, <1>10, <1>11 DEF FrameInv

\* The thread that is left is in its own code or waits for a lock; or it is
\* preempted, and the kernel pool is no longer guarded.
LEMMA SwitchFrames ==
  ASSUME IInv, FrameInv, NEW t \in Thread, Switch(t)
  PROVE  FrameInv'
<1> PICK c \in Thread : c = cpu.runs
  BY DEF IInv, TypeInv
<1> DEFINE leaves == pc[c] = "user" \/ (pc[c] = "lock" /\ lock[req[c].pf] # None)
<1>0. /\ fault = "no" /\ req \in [Thread -> Request] /\ pc \in [Thread -> Stage]
      /\ UNCHANGED <<bits, pte, table, garbled, lock, pc>>
      /\ cpu' = [runs |-> t, cut |-> IF leaves THEN cpu.cut ELSE cpu.cut + 1]
      /\ req' = IF req[c].space = Child THEN [req EXCEPT ![c].space = c] ELSE req
      /\ leaves \/ (c \in Preemptible /\ cpu.cut < MaxCuts)
      /\ FrameTypes /\ cpu.cut \in Nat /\ RequestSound(c)
  BY DEF IInv, TypeInv, Switch, memVars, FrameInv, FrameTypes
<1>1. cpu'.cut \in Nat /\ (cpu'.cut = 0 => leaves /\ cpu.cut = 0)
  BY <1>0
<1>2. \A u \in Thread : /\ req'[u].pf = req[u].pf /\ req'[u].frame = req[u].frame
                        /\ req'[u].tframe = req[u].tframe
                        /\ req'[u].page = req[u].page /\ req'[u].done = req[u].done
                        /\ u # c => req'[u] = req[u]
  BY <1>0 DEF Request
<1>3. \A u \in Thread : \/ req'[u].space = req[u].space
                        \/ /\ u = c /\ c = Forker /\ leaves
                           /\ req[c].space = Child /\ req'[c].space = c
  <2>1. CASE req[c].space = Child
    <3>1. c = Forker /\ leaves
      BY <1>0, <2>1, MemoryAssumption DEF RequestSound
    <3>2. req'[c].space = c
      BY <1>0, <2>1 DEF Request
    <3> QED BY <1>2, <2>1, <3>1, <3>2
  <2>2. CASE req[c].space # Child
    BY <1>0, <2>2
  <2> QED BY <2>1, <2>2
<1>4. ASSUME NEW u \in Thread PROVE Claim(u)'
  <2>1. Claim(u)
    BY <1>0 DEF FrameInv
  <2>2. leaves => pc[c] \notin Busy
    BY DEF Busy, Mapping
  <2>3. cpu'.cut = 0 => pc[u] \notin Busy
    BY <1>1, <2>1, <2>2 DEF Claim
  <2>4. PoolOf(req'[u].space) = PoolOf(req[u].space)
    BY <1>3, MemoryAssumption DEF PoolOf
  <2>5. pc[u] \in Busy => req'[u].space = req[u].space
    BY <1>3, <2>2
  <2>6. /\ pc[u] \in {"set", "tscan", "tset"} => pc[u] \in Busy
        /\ Locked(req[u].pf)' => Locked(req[u].pf) \/ cpu'.cut = 0
    BY <1>2 DEF Busy, Mapping, Locked
  <2>7. /\ req'[u].pf = PoolOf(req'[u].space)
        /\ pc'[u] \in Busy => lock'[req'[u].pf] = u
        /\ pc'[u] \in Busy /\ cpu'.cut = 0 => cpu'.runs = u
    BY <1>0, <1>2, <2>1, <2>3, <2>4 DEF Claim
  <2>8. pc'[u] \in Mapping \ {"scan"} => req'[u].frame \in FramesOf(req'[u].pf)
    BY <1>0, <1>2, <2>1 DEF Claim
  <2>9. pc'[u] \in {"tscan", "tset"} => /\ req'[u].space # Kernel
                                        /\ cpu'.cut = 0 => Missing(req[u])'
    BY <1>0, <2>1, <2>3, <2>5, <2>6 DEF Claim
  <2>10. pc'[u] = "tset" => req'[u].tframe \in FramesOf("kernel")
    BY <1>0, <1>2, <2>1 DEF Claim
  <2>11. pc'[u] = "set" /\ Locked(req[u].pf)' => Bit(req'[u].pf, req'[u].frame) \notin bits'
    BY <1>0, <1>2, <2>1, <2>3, <2>6 DEF Claim
  <2>12. pc'[u] = "tset" /\ cpu'.cut = 0 => Bit("kernel", req'[u].tframe) \notin bits'
    BY <1>0, <2>3, <2>6
  <2> QED BY <2>7, <2>8, <2>9, <2>10, <2>11, <2>12 DEF Claim
<1>5. \A x \in Places : Held(x)' = Held(x)
  <2>1. \A s \in Space : \A v \in 0 .. VaddrLen(s) - 1 : Held(PageAt(s, v))' = Held(PageAt(s, v))
    BY <1>0, HeldIs
  <2>2. \A s \in Space \ {Kernel}, d \in 0 .. Dir(UserLen - 1) :
           Held(TableAt(s, d))' = Held(TableAt(s, d))
    BY <1>0, HeldIs
  <2>3. \A u \in Thread : Held(InHand(u))' = Held(InHand(u))
    BY <1>0, <1>2, HeldIs
  <2> QED BY <2>1, <2>2, <2>3, PlacesAre
<1>6. ASSUME NEW qf \in {"kernel", "user"}, Guarded(qf)' PROVE Owners(qf)'
  <2>1. Owners(qf)
    BY <1>0, <1>1, <1>6 DEF FrameInv, Guarded
  <2> QED BY <1>0, <1>5, <2>1, OwnersStay
<1>7. FrameTypes'
  BY <1>0, <1>1 DEF FrameTypes
<1>8. cpu'.cut = 0 => garbled' = {}
  BY <1>0, <1>1 DEF FrameInv
<1> QED BY <1>4, <1>6, <1>7, <1>8 DEF FrameInv

\* Initially nobody holds a page.
LEMMA InitFrames == Init => FrameInv
<1> SUFFICES ASSUME Init PROVE FrameInv
  OBVIOUS
<1>1. \A x \in Places : Held(x) = 0
  <2>1. \A s \in Space : \A v \in 0 .. VaddrLen(s) - 1 : Held(PageAt(s, v)) = 0
    BY HeldIs DEF Init
  <2>2. \A s \in Space \ {Kernel}, d \in 0 .. Dir(UserLen - 1) : Held(TableAt(s, d)) = 0
    BY HeldIs DEF Init
  <2>3. \A u \in Thread : Held(InHand(u)) = 0
    BY HeldIs DEF Init, Holding
  <2> QED BY <2>1, <2>2, <2>3, PlacesAre
<1>2. ASSUME NEW pf \in {"kernel", "user"} PROVE Owners(pf)
  <2>1. bits = Taken /\ 0 \notin FramesOf(pf)
    BY FramesAre DEF Init
  <2> QED BY <1>1, <2>1 DEF Owners
<1>3. \A t \in Thread : Claim(t)
  BY DEF Init, Claim, Busy, Mapping, NoReq, PoolOf
<1>4. FrameTypes
  BY DEF Init, FrameTypes
<1>5. garbled = {}
  BY DEF Init
<1> QED BY <1>2, <1>3, <1>4, <1>5 DEF FrameInv

LEMMA NextFrames ==
  ASSUME WholeBytes, IInv, FrameInv, [Next]_vars
  PROVE  FrameInv'
<1>1. CASE UNCHANGED vars
  <2>1. /\ UNCHANGED <<bits, pte, table, garbled, lock, cpu, pc, req, fault>>
    BY <1>1 DEF vars
  <2>2. FrameTypes => FrameTypes'
    BY <2>1 DEF FrameTypes
  <2>3. ASSUME NEW t \in Thread, Claim(t) PROVE Claim(t)'
    BY <2>1, <2>3 DEF Claim, Missing, Locked
  <2>4. \A x \in Places : Held(x)' = Held(x)
    BY <2>1 DEF Held
  <2>5. ASSUME NEW pf \in {"kernel", "user"}, Owners(pf) PROVE Owners(pf)'
    BY <2>1, <2>4, <2>5, OwnersStay
  <2>6. ASSUME NEW pf \in {"kernel", "user"} PROVE Guarded(pf)' <=> Guarded(pf)
    BY <2>1 DEF Guarded
  <2> QED BY <2>1, <2>2, <2>3, <2>5, <2>6 DEF FrameInv
<1>2. ASSUME NEW t \in Thread, NEW pf \in {"kernel", "user"}, NEW n \in 1 .. MaxReq,
             GetPages(t, pf, n)
      PROVE  FrameInv'
  BY <1>2, GetPagesFrames
<1>3. ASSUME NEW t \in Thread, NEW v \in 1 .. UserLen - 1, GetAPage(t, v) PROVE FrameInv'
  BY <1>3, GetAPageFrames
<1>4. ASSUME NEW t \in Thread, Acquire(t) PROVE FrameInv'
  BY <1>4, AcquireFrames
<1>5. ASSUME NEW t \in Thread, PallocScan(t) PROVE FrameInv'
  BY <1>5, PallocScanFrames
<1>6. ASSUME NEW t \in Thread, PallocSet(t) PROVE FrameInv'
  BY <1>6, PallocSetFrames
<1>7. ASSUME NEW t \in Thread, TableScan(t) PROVE FrameInv'
  BY <1>7, TableScanFrames
<1>8. ASSUME NEW t \in Thread, TableSet(t) PROVE FrameInv'
  BY <1>8, TableSetFrames
<1>9. ASSUME NEW t \in Thread, Map(t) PROVE FrameInv'
  BY <1>9, MapFrames
<1>10. ASSUME NEW t \in Thread, Unlock(t) PROVE FrameInv'
  BY <1>10, UnlockFrames
<1>11. ASSUME NEW t \in Thread, Switch(t) PROVE FrameInv'
  BY <1>11, SwitchFrames
<1>12. ASSUME NEW t \in Thread, NEW g \in got, MfreePage(t, g) PROVE FrameInv'
  BY <1>12, MfreePageFrames
<1>13. ASSUME NEW v \in 0 .. UserLen - 1, ForkPage(v) PROVE FrameInv'
  BY <1>13, ForkPageFrames
<1>14. CASE Stopped
  BY <1>1, <1>14 DEF Stopped
<1> QED
  BY <1>1, <1>2, <1>3, <1>4, <1>5, <1>6, <1>7, <1>8, <1>9, <1>10, <1>11, <1>12, <1>13,
     <1>14 DEF Next

-----------------------------------------------------------------------------
(* From who holds each page to the counts of FramesExact *)

\* Pages of both pools, or of one
LEMMA OwnersExact ==
  ASSUME NEW K \in SUBSET {"kernel", "user"}, \A pf \in K : Owners(pf)
  PROVE  Exact(UNION {FramesOf(pf) : pf \in K})
<1> DEFINE F == UNION {FramesOf(pf) : pf \in K}
           use == {x \in Places : Held(x) \in F}
           held == {Held(x) : x \in use}
<1>1. \A x \in use : \E pf \in K : Held(x) \in FramesOf(pf)
  OBVIOUS
<1>2. \A x, y \in use : Held(x) = Held(y) => x = y
  BY <1>1 DEF Owners
<1>3. ASSUME NEW bm, NEW pf \in {"kernel", "user"}, NEW f \in FramesOf(pf)
      PROVE  f \in PagesOf(bm) <=> Bit(pf, f) \in bm
  <2>1. \A qf \in {"kernel", "user"} : f \in FramesOf(qf) => qf = pf
    BY <1>3, PoolsApart
  <2>2. f \in PagesOf(bm) <=> \E qf \in {"kernel", "user"} : f \in FramesOf(qf) /\ Bit(qf, f) \in bm
    BY DEF PagesOf, FramesOf, Bit
  <2> QED BY <1>3, <2>1, <2>2
<1>4. held \cap TakenPages = {}
  <2> SUFFICES ASSUME NEW x \in use PROVE Held(x) \notin TakenPages
    OBVIOUS
  <2>1. PICK pf \in K : Held(x) \in FramesOf(pf)
    BY <1>1
  <2> QED BY <1>3, <2>1 DEF Owners, TakenPages
<1>5. PagesOf(bits) \cap F = held \cup (TakenPages \cap F)
  <2> SUFFICES ASSUME NEW pf \in K, NEW f \in FramesOf(pf)
               PROVE  f \in PagesOf(bits) <=> f \in held \/ f \in TakenPages
    OBVIOUS
  <2>1. /\ f \in PagesOf(bits) <=> Bit(pf, f) \in bits
        /\ f \in TakenPages <=> Bit(pf, f) \in Taken
    BY <1>3 DEF TakenPages
  <2>2. f \in held <=> \E x \in Places : Held(x) = f
    OBVIOUS
  <2> HIDE DEF held
  <2> QED BY <2>1, <2>2 DEF Owners
<1>6. Cardinality(use) = Cardinality(held)
  <2> DEFINE h == [x \in use |-> Held(x)]
  <2>1. h \in [use -> held] /\ \A y \in held : \E x \in use : h[x] = y
    OBVIOUS
  <2>2. \A x, y \in use : h[x] = h[y] => x = y
    BY <1>2
  <2>3. IsFiniteSet(held)
    <3>1. \A pf \in {"kernel", "user"} : IsFiniteSet(FramesOf(pf))
      <4> SUFFICES ASSUME NEW pf \in {"kernel", "user"} PROVE IsFiniteSet(FramesOf(pf))
        OBVIOUS
      <4>1. Pool(pf).start \in Int /\ Pool(pf).start + Pool(pf).len - 1 \in Int
        BY PoolTypes DEF Pool
      <4> QED BY <4>1, FS_Interval DEF FramesOf, Pages
    <3>2. IsFiniteSet(FramesOf("kernel") \cup FramesOf("user"))
      BY <3>1, FS_Union
    <3>3. held \subseteq FramesOf("kernel") \cup FramesOf("user")
      BY <1>1
    <3> HIDE DEF held
    <3> QED BY <3>2, <3>3, FS_Subset
  <2> HIDE DEF h, use, held
  <2>4. h \in Bijection(use, held) /\ h \in Injection(use, held)
    BY <2>1, <2>2 DEF Bijection, Injection, Surjection, IsInjective
  <2>5. ExistsBijection(use, held)
    BY <2>4 DEF ExistsBijection
  <2>6. IsFiniteSet(use)
    BY <2>3, <2>4, FS_Injection
  <2> QED BY <2>5, <2>6, FS_Bijection
<1> QED BY <1>4, <1>5, <1>6 DEF Exact

\* A page of physical memory is in one place at a time, and its bit is set exactly
\* as long: without preemption all pages are, and no page table ever gets another
\* owner; under preemption the pages of processes are, until one does.
THEOREM FramesStayExact ==
  ASSUME WholeBytes
  PROVE  Spec => []FramesExact
<1>1. FrameInv => FramesExact
  <2> SUFFICES ASSUME FrameInv, fault = "no"
               PROVE  /\ cpu.cut = 0 => garbled = {} /\ Exact(Frame)
                      /\ garbled = {} => Exact(Pages(L.user))
    BY DEF FramesExact
  <2>1. ASSUME garbled = {} PROVE Exact(Pages(L.user))
    <3>1. UNION {FramesOf(pf) : pf \in {"user"}} = Pages(L.user)
      BY DEF FramesOf, Pool
    <3>2. \A pf \in {"user"} : Owners(pf)
      BY <2>1 DEF FrameInv, Guarded
    <3>3. {"user"} \in SUBSET {"kernel", "user"}
      OBVIOUS
    <3> QED BY <3>1, <3>2, <3>3, OwnersExact
  <2>2. ASSUME cpu.cut = 0 PROVE garbled = {} /\ Exact(Frame)
    <3>1. UNION {FramesOf(pf) : pf \in {"kernel", "user"}} = Frame
      BY DEF FramesOf, Pool, Frame
    <3>2. \A pf \in {"kernel", "user"} : Owners(pf)
      BY <2>2 DEF FrameInv, Guarded
    <3>3. garbled = {}
      BY <2>2 DEF FrameInv
    <3> QED BY <3>1, <3>2, <3>3, OwnersExact
  <2> QED BY <2>1, <2>2
<1>2. IInv /\ FrameInv /\ [Next]_vars => FrameInv'
  BY NextFrames
<1> QED BY <1>1, <1>2, InitFrames, MemoryInvariant, PTL DEF Spec

-----------------------------------------------------------------------------
(* What a process has in memory: module UserSpace *)

VPage == 0 .. ProcPages - 1
Blocks == VPage \X (0 .. PerArena - 1)
Arena == [kind : {"mine", "inherited", "large"}, cnt : Nat]

\* The pages of the arena that begins in page i, and the blocks of B in page i
Span(ar, i) == i .. i + (IF ar[i].kind = "large" THEN ar[i].cnt ELSE 1) - 1
InPage(B, i) == {b \in B : b[1] = i}

\* A heap: arenas ar in the pages mp, free list fl, blocks in use ow
Arenas(ar, mp) ==
    /\ DOMAIN ar \subseteq VPage /\ ar \in [DOMAIN ar -> Arena]
    /\ \A i \in DOMAIN ar : Span(ar, i) \subseteq mp /\ i \in Span(ar, i)
    /\ \A i, j \in DOMAIN ar : i # j => Span(ar, i) \cap Span(ar, j) = {}
NoRepeats(fl) == fl \in Seq(Blocks) /\ \A j, k \in DOMAIN fl : j # k => fl[j] # fl[k]
FreeList(ar, fl) ==
    /\ NoRepeats(fl)
    /\ \A b \in Range(fl) : b[1] \in DOMAIN ar /\ ar[b[1]].kind = "mine"
InUse(ar, fl, ow) ==
    /\ ow \subseteq Blocks /\ Range(fl) \cap ow = {}
    /\ \A b \in ow : b[1] \in DOMAIN ar /\ (ar[b[1]].kind = "large" => b[2] = 0)
Counts(ar, fl, ow) == \A i \in DOMAIN ar : ar[i].kind = "mine" =>
    /\ ar[i].cnt = Cardinality(InPage(Range(fl), i)) /\ ar[i].cnt < PerArena
    /\ InPage(Range(fl), i) \cup InPage(ow, i) = Range(Block(i))
Heap(ar, fl, ow, mp) == Arenas(ar, mp) /\ FreeList(ar, fl) /\ InUse(ar, fl, ow) /\ Counts(ar, fl, ow)

\* Page p of the tables says what the bitmap says
SameBits(bm, mp, tb, h) == /\ mp \subseteq bm /\ (mp # bm => h)
                           /\ {Pde(v) : v \in mp} \subseteq tb
Holdings(lf, tb) ==
    CASE lf = "none" -> {}
      [] lf = "hang" -> {<<"task", 0>>, <<"directory", 0>>}
      [] OTHER -> {<<"task", 0>>, <<"directory", 0>>}
                  \cup {"bitmap"} \X (1 .. BitmapPages) \cup {"table"} \X tb
Holds(lf, tb) ==
    CASE lf = "none" -> 0 [] lf = "hang" -> 2 [] OTHER -> 2 + BitmapPages + Cardinality(tb)

SpaceTypes ==
    /\ life \in [Proc -> {"none", "run", "spoilt", "hang"}]
    /\ vaddr_bitmap \in [Proc -> SUBSET VPage] /\ mapped \in [Proc -> SUBSET VPage]
    /\ page_tables \in [Proc -> SUBSET VPage] /\ holed \in [Proc -> BOOLEAN]
    /\ arena = [p \in Proc |-> arena[p]] /\ free_list = [p \in Proc |-> free_list[p]]
    /\ owned = [p \in Proc |-> owned[p]]
    /\ kfree \in Nat /\ lost \in Nat /\ halt \in {"no", "oom", "wild", "hole"}
HeapsKept == \A p \in Proc : life[p] = "run" =>
                 Heap(arena[p], free_list[p], owned[p], mapped[p])
SpaceInv == SpaceTypes /\ BitsAreTables /\ KernelPagesExact /\ HeapsKept

-----------------------------------------------------------------------------
(* Free lists *)

\* The constants of UserSpace
LEMMA SpaceConstants ==
  /\ ProcPages \in Nat \ {0} /\ PerTable \in Nat \ {0} /\ PerArena \in Nat \ {0}
  /\ MaxPages \in Nat /\ UserPages \in Nat /\ KernelPages \in Nat /\ Losses \subseteq Nat
  /\ IsFiniteSet(Proc) /\ First \in Proc
  /\ \A g \in Programs : g \subseteq 1 .. ProcPages - 1
BY UserSpaceAssumption

\* A process has finitely many pages,
LEMMA PagesFinite ==
  ASSUME NEW S \in SUBSET VPage
  PROVE  IsFiniteSet(S) /\ Cardinality(S) \in Nat
<1>1. IsFiniteSet(VPage)
  <2>1. 0 \in Int /\ ProcPages - 1 \in Int
    BY SpaceConstants
  <2> QED BY <2>1, FS_Interval DEF VPage
<1>2. IsFiniteSet(S)
  BY <1>1, FS_Subset
<1> QED BY <1>2, FS_CardinalityType

\* and its heap finitely many blocks.
LEMMA BlocksFinite ==
  ASSUME NEW B \in SUBSET Blocks
  PROVE  IsFiniteSet(B) /\ Cardinality(B) \in Nat
<1>1. IsFiniteSet(VPage) /\ IsFiniteSet(0 .. PerArena - 1)
  <2>1. 0 \in Int /\ PerArena - 1 \in Int
    BY SpaceConstants
  <2> QED BY <2>1, FS_Interval, PagesFinite
<1>2. IsFiniteSet(Blocks)
  BY <1>1, FS_Product DEF Blocks
<1>3. IsFiniteSet(B)
  BY <1>2, FS_Subset
<1> QED BY <1>3, FS_CardinalityType

\* The free list: its blocks, and what taking the first, adding one and
\* removing some do to it
LEMMA ListIs ==
  ASSUME NEW fl \in Seq(Blocks)
  PROVE  /\ Len(fl) \in Nat /\ DOMAIN fl = 1 .. Len(fl) /\ fl \in [1 .. Len(fl) -> Blocks]
         /\ Range(fl) \subseteq Blocks
         /\ \A b : b \in Range(fl) <=> \E j \in 1 .. Len(fl) : b = fl[j]
<1>1. Len(fl) \in Nat /\ DOMAIN fl = 1 .. Len(fl) /\ fl \in [1 .. Len(fl) -> Blocks]
  BY LenProperties
<1> QED BY <1>1 DEF Range

\* list_pop takes the first block off, which is listed nowhere else.
LEMMA PopList ==
  ASSUME NEW fl, NoRepeats(fl), fl # <<>>
  PROVE  /\ NoRepeats(Tail(fl)) /\ Head(fl) \in Range(fl)
         /\ Range(Tail(fl)) = Range(fl) \ {Head(fl)}
<1>1. fl \in Seq(Blocks) /\ \A j, k \in 1 .. Len(fl) : j # k => fl[j] # fl[k]
  BY ListIs DEF NoRepeats
<1> DEFINE n == Len(fl)
           t == Tail(fl)
<1>2. n \in Nat \ {0} /\ Head(fl) = fl[1]
  BY <1>1, EmptySeq
<1>3. t \in Seq(Blocks) /\ Len(t) = n - 1 /\ \A i \in 1 .. n - 1 : t[i] = fl[i + 1]
  BY <1>1, HeadTailProperties
<1>4. /\ DOMAIN t = 1 .. n - 1
      /\ \A b : b \in Range(t) <=> \E j \in 1 .. n - 1 : b = t[j]
      /\ \A b : b \in Range(fl) <=> \E j \in 1 .. n : b = fl[j]
  <2> HIDE DEF t
  <2>1. DOMAIN t = 1 .. Len(t) /\ \A b : b \in Range(t) <=> \E j \in 1 .. Len(t) : b = t[j]
    BY <1>3, ListIs
  <2> QED BY <1>1, <1>3, <2>1, ListIs
<1> HIDE DEF t, n
<1>5. ASSUME NEW j \in 1 .. n - 1, NEW k \in 1 .. n - 1, j # k PROVE t[j] # t[k]
  BY <1>1, <1>2, <1>3, <1>5 DEF n
<1>6. NoRepeats(t)
  BY <1>3, <1>4, <1>5 DEF NoRepeats
<1>7. ASSUME NEW b PROVE b \in Range(t) <=> b \in Range(fl) /\ b # fl[1]
  <2>1. ASSUME b \in Range(t) PROVE b \in Range(fl) /\ b # fl[1]
    <3>1. PICK j \in 1 .. n - 1 : b = fl[j + 1]
      BY <1>3, <1>4, <2>1
    <3>2. j + 1 \in 1 .. n /\ j + 1 # 1 /\ 1 \in 1 .. n
      BY <1>2
    <3> QED BY <1>1, <1>4, <3>1, <3>2 DEF n
  <2>2. ASSUME b \in Range(fl), b # fl[1] PROVE b \in Range(t)
    <3>1. PICK j \in 1 .. n : b = fl[j]
      BY <1>4, <2>2
    <3>2. j - 1 \in 1 .. n - 1 /\ j - 1 + 1 = j
      BY <1>2, <2>2, <3>1
    <3> QED BY <1>3, <1>4, <3>1, <3>2
  <2> QED BY <2>1, <2>2
<1>8. 1 \in 1 .. n
  BY <1>2
<1> QED BY <1>2, <1>4, <1>6, <1>7, <1>8 DEF t

\* list_append puts a block at the end that was not listed.
LEMMA PushList ==
  ASSUME NEW fl, NoRepeats(fl), NEW b \in Blocks, b \notin Range(fl)
  PROVE  NoRepeats(Append(fl, b)) /\ Range(Append(fl, b)) = Range(fl) \cup {b}
<1>1. fl \in Seq(Blocks) /\ \A j, k \in 1 .. Len(fl) : j # k => fl[j] # fl[k]
  BY ListIs DEF NoRepeats
<1> DEFINE n == Len(fl)
           t == Append(fl, b)
<1>2. n \in Nat /\ \A x : x \in Range(fl) <=> \E j \in 1 .. n : x = fl[j]
  BY <1>1, ListIs
<1>3. t \in Seq(Blocks) /\ Len(t) = n + 1 /\ (\A i \in 1 .. n : t[i] = fl[i]) /\ t[n + 1] = b
  BY <1>1, AppendProperties
<1>4. DOMAIN t = 1 .. n + 1 /\ \A x : x \in Range(t) <=> \E j \in 1 .. n + 1 : x = t[j]
  <2> HIDE DEF t
  <2>1. DOMAIN t = 1 .. Len(t) /\ \A x : x \in Range(t) <=> \E j \in 1 .. Len(t) : x = t[j]
    BY <1>3, ListIs
  <2> QED BY <1>3, <2>1
<1> HIDE DEF t, n
<1>5. \A j \in 1 .. n + 1 : j \in 1 .. n \/ j = n + 1
  BY <1>2
<1>6. ASSUME NEW j \in 1 .. n + 1, NEW k \in 1 .. n + 1, j # k PROVE t[j] # t[k]
  BY <1>1, <1>2, <1>3, <1>5, <1>6 DEF n
<1>7. 1 .. n \subseteq 1 .. n + 1 /\ n + 1 \in 1 .. n + 1
  BY <1>2
<1> QED BY <1>2, <1>3, <1>4, <1>5, <1>6, <1>7 DEF t, NoRepeats

\* The k-th number kept, for every k: the numbers counted up to each are different,
\* and there are as many of them.
LEMMA NthIs ==
  ASSUME NEW S \in SUBSET Nat, IsFiniteSet(S), NEW j \in 1 .. Cardinality(S)
  PROVE  \E k \in S : Cardinality({l \in S : l =< k}) = j
<1> DEFINE upto(k) == {l \in S : l =< k}
           n == Cardinality(S)
           rank == [k \in S |-> Cardinality(upto(k))]
<1>1. n \in Nat
  BY FS_CardinalityType
<1>2. ASSUME NEW k \in S
      PROVE  IsFiniteSet(upto(k)) /\ Cardinality(upto(k)) \in 1 .. n
  <2>1. upto(k) \in SUBSET S /\ k \in upto(k)
    OBVIOUS
  <2>2. IsFiniteSet(upto(k)) /\ Cardinality(upto(k)) =< n
    BY <2>1, FS_Subset
  <2>3. Cardinality(upto(k)) \in Nat /\ Cardinality(upto(k)) # 0
    BY <2>1, <2>2, FS_CardinalityType, FS_EmptySet
  <2> QED BY <1>1, <2>2, <2>3
<1>3. ASSUME NEW k \in S, NEW m \in S, k < m PROVE rank[k] # rank[m]
  <2>1. upto(k) \in SUBSET upto(m) /\ m \in upto(m) /\ m \notin upto(k)
    <3>1. k \in Nat /\ m \in Nat /\ \A l \in S : l \in Nat
      OBVIOUS
    <3>2. (\A l \in S : l =< k => l =< m) /\ m =< m /\ ~(m =< k)
      BY <1>3, <3>1
    <3> QED BY <3>2
  <2>2. Cardinality(upto(m)) # Cardinality(upto(k))
    BY <1>2, <2>1, FS_Subset
  <2> QED BY <2>2
<1>4. rank \in [S -> 1 .. n]
  BY <1>2
<1>5. rank \in Injection(S, 1 .. n)
  <2>1. ASSUME NEW k \in S, NEW m \in S, k # m PROVE rank[k] # rank[m]
    <3> HIDE DEF rank
    <3>1. k < m \/ m < k
      BY <2>1
    <3> QED BY <1>3, <3>1
  <2> HIDE DEF rank
  <2> QED BY <1>4, <2>1 DEF Injection, IsInjective
<1>6. IsFiniteSet(1 .. n) /\ Cardinality(1 .. n) = n
  <2>1. 1 \in Int /\ n \in Int /\ (1 > n => n = 0)
    BY <1>1
  <2> QED BY <1>1, <2>1, FS_Interval
<1>7. rank \in Surjection(S, 1 .. n)
  <2> HIDE DEF rank
  <2> QED BY <1>5, <1>6, FS_Injection
<1>8. PICK k \in S : rank[k] = j
  BY <1>7 DEF Surjection
<1> QED BY <1>8

\* Removing the blocks of a set leaves the others, each once.
LEMMA RemoveFromList ==
  ASSUME NEW fl, NoRepeats(fl), NEW gone
  PROVE  NoRepeats(Without(fl, gone)) /\ Range(Without(fl, gone)) = Range(fl) \ gone
<1> DEFINE n == Len(fl)
           kept == {k \in DOMAIN fl : fl[k] \notin gone}
           upto(k) == {l \in kept : l =< k}
           Nth(j) == CHOOSE k \in kept : Cardinality(upto(k)) = j
           c == Cardinality(kept)
           t == [j \in 1 .. c |-> fl[Nth(j)]]
<1>1. /\ fl \in Seq(Blocks) /\ \A j, k \in 1 .. n : j # k => fl[j] # fl[k]
      /\ n \in Nat /\ DOMAIN fl = 1 .. n /\ fl \in [1 .. n -> Blocks]
      /\ \A x : x \in Range(fl) <=> \E j \in 1 .. n : x = fl[j]
  BY ListIs DEF NoRepeats
<1>2. kept \in SUBSET Nat /\ IsFiniteSet(kept) /\ c \in Nat
  <2>1. kept \in SUBSET (1 .. n) /\ 1 \in Int /\ n \in Int
    BY <1>1
  <2>2. IsFiniteSet(1 .. n)
    BY <2>1, FS_Interval
  <2>3. IsFiniteSet(kept)
    BY <2>1, <2>2, FS_Subset
  <2> QED BY <2>1, <2>3, FS_CardinalityType
<1>3. ASSUME NEW j \in 1 .. c PROVE Nth(j) \in kept /\ Cardinality(upto(Nth(j))) = j
  <2>1. \E k \in kept : Cardinality(upto(k)) = j
    <3> HIDE DEF kept
    <3> QED BY <1>2, NthIs
  <2> QED BY <2>1
<1>4. ASSUME NEW k \in kept PROVE Cardinality(upto(k)) \in 1 .. c
  <2>1. upto(k) \in SUBSET kept /\ k \in upto(k)
    <3>1. k \in Nat
      BY <1>2
    <3> QED BY <3>1
  <2> HIDE DEF kept
  <2>2. IsFiniteSet(upto(k)) /\ Cardinality(upto(k)) =< c
    BY <1>2, <2>1, FS_Subset
  <2>3. Cardinality(upto(k)) \in Nat /\ Cardinality(upto(k)) # 0
    BY <2>1, <2>2, FS_CardinalityType, FS_EmptySet
  <2> QED BY <1>2, <2>2, <2>3
<1>5. ASSUME NEW k \in kept PROVE Nth(Cardinality(upto(k))) = k
  <2> DEFINE m == Nth(Cardinality(upto(k)))
  <2>1. m \in kept /\ Cardinality(upto(m)) = Cardinality(upto(k))
    BY <1>3, <1>4
  <2> HIDE DEF m
  <2>2. m \in Nat /\ k \in Nat /\ \A l \in kept : l \in Nat
    BY <1>2, <2>1
  <2> HIDE DEF kept
  <2>3. ASSUME NEW a \in kept, NEW b \in kept, a < b PROVE Cardinality(upto(a)) # Cardinality(upto(b))
    <3>1. a \in Nat /\ b \in Nat /\ \A l \in kept : l \in Nat
      BY <1>2
    <3>2. upto(a) \in SUBSET upto(b) /\ b \in upto(b) /\ b \notin upto(a) /\ upto(b) \in SUBSET kept
      <4>1. (\A l \in kept : l =< a => l =< b) /\ b =< b /\ ~(b =< a)
        BY <2>3, <3>1
      <4> QED BY <4>1
    <3>3. IsFiniteSet(upto(b))
      BY <1>2, <3>2, FS_Subset
    <3> QED BY <3>2, <3>3, FS_Subset
  <2>4. ~(m < k) /\ ~(k < m)
    BY <2>1, <2>3
  <2>5. m = k
    BY <2>2, <2>4
  <2> QED BY <2>5 DEF m
<1>6. ASSUME NEW j \in 1 .. c PROVE t[j] \in Blocks /\ t[j] \in Range(fl) \ gone
  BY <1>1, <1>3
<1>7. t \in Seq(Blocks) /\ DOMAIN t = 1 .. c
  <2>1. t \in [1 .. c -> Blocks]
    BY <1>6
  <2> HIDE DEF t
  <2> QED BY <1>2, <2>1, SeqDef
<1>8. ASSUME NEW j \in 1 .. c, NEW k \in 1 .. c, j # k PROVE t[j] # t[k]
  <2>1. Nth(j) \in 1 .. n /\ Nth(k) \in 1 .. n /\ Nth(j) # Nth(k)
    <3>1. Cardinality(upto(Nth(j))) = j /\ Cardinality(upto(Nth(k))) = k /\ Nth(j) \in kept /\ Nth(k) \in kept
      BY <1>3
    <3>2. kept \subseteq 1 .. n
      BY <1>1
    <3> HIDE DEF Nth, kept
    <3> QED BY <1>8, <3>1, <3>2
  <2> HIDE DEF Nth
  <2> QED BY <1>1, <2>1
<1>9. Range(t) = Range(fl) \ gone
  <2>1. ASSUME NEW x \in Range(fl) \ gone PROVE x \in Range(t)
    <3>1. PICK k \in 1 .. n : x = fl[k]
      BY <1>1
    <3>2. k \in kept
      BY <1>1, <3>1
    <3>3. Cardinality(upto(k)) \in 1 .. c /\ t[Cardinality(upto(k))] = x
      <4>1. Cardinality(upto(k)) \in 1 .. c /\ Nth(Cardinality(upto(k))) = k
        BY <1>4, <1>5, <3>2
      <4> HIDE DEF Nth, upto, c
      <4> QED BY <3>1, <4>1
    <3> HIDE DEF t, upto
    <3> QED BY <1>7, <3>3 DEF Range
  <2>2. ASSUME NEW x \in Range(t) PROVE x \in Range(fl) \ gone
    <3>1. PICK j \in 1 .. c : x = t[j]
      <4> HIDE DEF t, c
      <4> QED BY <1>7, <2>2 DEF Range
    <3> HIDE DEF t, c
    <3> QED BY <1>6, <3>1
  <2> HIDE DEF t
  <2> QED BY <2>1, <2>2
<1>10. Without(fl, gone) = t
  BY DEF Without
<1> HIDE DEF t, c
<1> QED BY <1>7, <1>8, <1>9, <1>10 DEF NoRepeats

-----------------------------------------------------------------------------
(* Heaps *)

\* An empty list lists nothing.
LEMMA EmptyList == NoRepeats(<<>>) /\ Range(<<>>) = {} /\ \A i : InPage({}, i) = {}
<1>1. <<>> \in Seq(Blocks) /\ Len(<<>>) = 0
  BY EmptySeq
<1>2. DOMAIN <<>> = 1 .. 0 /\ 1 .. 0 = {}
  BY <1>1, ListIs
<1> QED BY <1>1, <1>2 DEF NoRepeats, Range, InPage

\* A heap with no arena
LEMMA EmptyHeap ==
  ASSUME NEW mp
  PROVE  Heap(NoArenas, <<>>, {}, mp)
<1>1. DOMAIN NoArenas = {} /\ NoArenas = [i \in {} |-> 0]
  BY DEF NoArenas
<1>2. NoArenas \in [DOMAIN NoArenas -> Arena]
  BY <1>1
<1>3. Arenas(NoArenas, mp)
  BY <1>1, <1>2 DEF Arenas
<1> QED BY <1>1, <1>3, EmptyList DEF Heap, FreeList, InUse, Counts

\* A heap stays one when the process gets more pages.
LEMMA HeapGrows ==
  ASSUME NEW ar, NEW fl, NEW ow, NEW mp, NEW mq, Heap(ar, fl, ow, mp),
         \A i \in DOMAIN ar : Span(ar, i) \subseteq mp => Span(ar, i) \subseteq mq
  PROVE  Heap(ar, fl, ow, mq)
BY DEF Heap, Arenas

\* copy_process: the child has the arenas and the blocks in use, and no list.
LEMMA HeapCopied ==
  ASSUME NEW ar, NEW fl, NEW ow, NEW mp, Heap(ar, fl, ow, mp)
  PROVE  Heap([i \in DOMAIN ar |-> Inherited(ar[i])], <<>>, ow, mp)
<1> DEFINE as == [i \in DOMAIN ar |-> Inherited(ar[i])]
<1>1. ASSUME NEW i \in DOMAIN ar
      PROVE  /\ as[i] \in Arena /\ as[i].kind # "mine" /\ as[i].cnt = ar[i].cnt
             /\ as[i].kind = "large" <=> ar[i].kind = "large"
  <2>1. ar[i] \in Arena
    BY DEF Heap, Arenas
  <2>2. PICK a : a = ar[i]
    OBVIOUS
  <2>3. as[i] = Inherited(a)
    BY <2>2
  <2> HIDE DEF as
  <2>4. CASE a.kind = "mine"
    <3>1. PICK new : new = [a EXCEPT !.kind = "inherited"]
      OBVIOUS
    <3>2. new = [kind |-> "inherited", cnt |-> a.cnt]
      BY <2>1, <2>2, <3>1 DEF Arena
    <3> QED BY <2>1, <2>2, <2>3, <2>4, <3>1, <3>2 DEF Inherited, Arena
  <2>5. CASE a.kind # "mine"
    BY <2>1, <2>2, <2>3, <2>5 DEF Inherited
  <2> QED BY <2>4, <2>5
<1>2. DOMAIN as = DOMAIN ar /\ as \in [DOMAIN as -> Arena]
  BY <1>1
<1> HIDE DEF as
<1>3. \A i \in DOMAIN ar : Span(as, i) = Span(ar, i)
  BY <1>1 DEF Span
<1>4. Arenas(as, mp)
  BY <1>2, <1>3 DEF Heap, Arenas
<1>5. FreeList(as, <<>>) /\ InUse(as, <<>>, ow)
  BY <1>1, <1>2, EmptyList DEF Heap, InUse, FreeList
<1>6. Counts(as, <<>>, ow)
  BY <1>1, <1>2 DEF Counts
<1> QED BY <1>4, <1>5, <1>6 DEF Heap, as

\* A new arena in pages that were not mapped
LEMMA ArenaAdded ==
  ASSUME NEW ar, NEW mp, NEW i, NEW as, Arenas(ar, mp),
         i \notin DOMAIN ar, DOMAIN as = DOMAIN ar \cup {i}, as \in [DOMAIN as -> Arena],
         \A j \in DOMAIN ar : as[j] = ar[j],
         Span(as, i) \subseteq VPage, Span(as, i) \cap mp = {}, i \in Span(as, i)
  PROVE  Arenas(as, mp \cup Span(as, i))
<1>1. \A j \in DOMAIN ar : Span(as, j) = Span(ar, j)
  BY DEF Span
<1>2. DOMAIN as \subseteq VPage
  BY DEF Arenas
<1>3. \A j \in DOMAIN as : Span(as, j) \subseteq mp \cup Span(as, i) /\ j \in Span(as, j)
  BY <1>1 DEF Arenas
<1>4. ASSUME NEW j \in DOMAIN as, NEW k \in DOMAIN as, j # k
      PROVE  Span(as, j) \cap Span(as, k) = {}
  BY <1>1, <1>4 DEF Arenas
<1> QED BY <1>2, <1>3, <1>4 DEF Arenas

\* A large arena: its one block is in use.
LEMMA LargeAdded ==
  ASSUME NEW ar, NEW fl, NEW ow, NEW mp, NEW i \in VPage, NEW n \in Nat \ {0},
         Heap(ar, fl, ow, mp), i .. i + n - 1 \subseteq VPage, (i .. i + n - 1) \cap mp = {}
  PROVE  Heap(With(ar, i, "large", n), fl, ow \cup {<<i, 0>>}, mp \cup i .. i + n - 1)
<1> DEFINE as == With(ar, i, "large", n)
           uses == ow \cup {<<i, 0>>}
<1>1. /\ Arenas(as, mp \cup i .. i + n - 1)
      /\ i \notin DOMAIN ar /\ DOMAIN as = DOMAIN ar \cup {i}
      /\ as[i].kind = "large"
      /\ \A j \in DOMAIN ar : as[j] = ar[j]
  <2>1. Arenas(ar, mp) /\ i \in i .. i + n - 1 /\ n \in Nat
    BY DEF Heap, VPage
  <2>2. i \notin DOMAIN ar /\ ar \in [DOMAIN ar -> Arena]
    BY <2>1 DEF Arenas
  <2>3. /\ DOMAIN as = DOMAIN ar \cup {i} /\ as \in [DOMAIN as -> Arena]
        /\ as[i].kind = "large" /\ as[i].cnt = n
        /\ \A j \in DOMAIN ar : as[j] = ar[j]
    <3>1. /\ DOMAIN as = DOMAIN ar \cup {i} /\ as = [v \in DOMAIN as |-> as[v]]
          /\ as[i].kind = "large" /\ as[i].cnt = n /\ as[i] \in Arena
          /\ \A j \in DOMAIN ar : as[j] = ar[j]
      BY <2>1, <2>2 DEF With, Arena
    <3> HIDE DEF as
    <3>2. \A j \in DOMAIN as : as[j] \in Arena
      BY <2>2, <3>1
    <3> QED BY <3>1, <3>2
  <2> HIDE DEF as
  <2>4. Span(as, i) = i .. i + n - 1
    BY <2>3 DEF Span
  <2>5. Arenas(as, mp \cup Span(as, i))
    BY <2>1, <2>2, <2>3, <2>4, ArenaAdded
  <2> QED BY <2>2, <2>3, <2>4, <2>5
<1>2. <<i, 0>> \in Blocks /\ <<i, 0>>[1] = i /\ <<i, 0>>[2] = 0
  BY SpaceConstants DEF Blocks
<1> HIDE DEF as
<1>3. FreeList(as, fl)
  BY <1>1 DEF Heap, FreeList
<1>4. InUse(as, fl, uses)
  <2>1. \A b \in Range(fl) : b[1] # i
    BY <1>1 DEF Heap, FreeList
  <2>2. Range(fl) \cap uses = {}
    BY <1>2, <2>1 DEF Heap, InUse
  <2> QED BY <1>1, <1>2, <2>2 DEF Heap, InUse
<1>5. Counts(as, fl, uses)
  <2>1. \A j \in DOMAIN ar : InPage(uses, j) = InPage(ow, j)
    BY <1>1, <1>2 DEF InPage
  <2> HIDE DEF uses
  <2> QED BY <1>1, <2>1 DEF Heap, Counts
<1> QED BY <1>1, <1>3, <1>4, <1>5 DEF Heap, as

\* The blocks of one arena
LEMMA BlockIs ==
  ASSUME NEW i \in VPage
  PROVE  /\ Block(i) \in Seq(Blocks) /\ Block(i) # <<>> /\ NoRepeats(Block(i))
         /\ Block(i)[1] = <<i, 0>>
         /\ Range(Block(i)) = {i} \X (0 .. PerArena - 1)
         /\ Range(Block(i)) \subseteq Blocks
         /\ IsFiniteSet(Range(Block(i))) /\ Cardinality(Range(Block(i))) = PerArena
         /\ \A b \in Range(Block(i)) : b[1] = i
<1> DEFINE t == Block(i)
<1>1. PerArena \in Nat \ {0} /\ t = [k \in 1 .. PerArena |-> <<i, k - 1>>]
  BY SpaceConstants DEF Block
<1>2. t \in [1 .. PerArena -> Blocks]
  <2>1. \A k \in 1 .. PerArena : <<i, k - 1>> \in Blocks
    BY <1>1 DEF Blocks
  <2> QED BY <1>1, <2>1
<1>3. t \in Seq(Blocks) /\ DOMAIN t = 1 .. PerArena /\ Len(t) = PerArena
  <2> HIDE DEF t
  <2>1. t \in Seq(Blocks)
    BY <1>1, <1>2, SeqDef
  <2>2. DOMAIN t = 1 .. PerArena /\ DOMAIN t = 1 .. Len(t) /\ Len(t) \in Nat
    BY <1>2, <2>1, ListIs
  <2> QED BY <1>1, <2>1, <2>2
<1>4. t # <<>> /\ 1 \in 1 .. PerArena
  <2>1. Len(<<>>) = 0 /\ Len(t) # 0
    BY <1>1, <1>3, EmptySeq
  <2> HIDE DEF t
  <2> QED BY <1>1, <2>1
<1>5. \A k \in 1 .. PerArena : t[k] = <<i, k - 1>>
  BY <1>1
<1> HIDE DEF t
<1>6. NoRepeats(t)
  <2>1. ASSUME NEW j \in 1 .. PerArena, NEW k \in 1 .. PerArena, j # k PROVE t[j] # t[k]
    <3>1. j - 1 # k - 1
      BY <1>1, <2>1
    <3> QED BY <1>5, <3>1
  <2> QED BY <1>3, <2>1 DEF NoRepeats
<1>7. Range(t) = {i} \X (0 .. PerArena - 1)
  <2>1. ASSUME NEW k \in 0 .. PerArena - 1 PROVE <<i, k>> \in Range(t)
    <3>1. k + 1 \in 1 .. PerArena /\ k + 1 - 1 = k
      BY <1>1
    <3> QED BY <1>3, <1>5, <3>1 DEF Range
  <2>2. ASSUME NEW b \in Range(t) PROVE b \in {i} \X (0 .. PerArena - 1)
    <3>1. PICK k \in 1 .. PerArena : b = t[k]
      BY <1>3, <2>2 DEF Range
    <3>2. k - 1 \in 0 .. PerArena - 1
      BY <1>1
    <3>3. b = <<i, k - 1>>
      BY <1>5, <3>1
    <3> QED BY <3>2, <3>3
  <2> QED BY <2>1, <2>2
<1>8. IsFiniteSet(Range(t)) /\ Cardinality(Range(t)) = PerArena
  <2>1. 0 \in Int /\ PerArena - 1 \in Int /\ ~(0 > PerArena - 1) /\ PerArena - 1 - 0 + 1 = PerArena
    BY <1>1
  <2>2. IsFiniteSet(0 .. PerArena - 1) /\ Cardinality(0 .. PerArena - 1) = PerArena
    BY <2>1, FS_Interval
  <2>3. IsFiniteSet({i}) /\ Cardinality({i}) = 1
    BY FS_Singleton
  <2>4. Cardinality({i} \X (0 .. PerArena - 1)) = 1 * PerArena /\ IsFiniteSet({i} \X (0 .. PerArena - 1))
    BY <2>2, <2>3, FS_Product
  <2>5. 1 * PerArena = PerArena
    BY <1>1
  <2> QED BY <1>7, <2>4, <2>5
<1>9. t[1] = <<i, 0>>
  BY <1>4, <1>5
<1> QED BY <1>3, <1>4, <1>6, <1>7, <1>8, <1>9, ListIs DEF t

\* A new arena: its first block is in use, the others are the free list.
LEMMA SmallAdded ==
  ASSUME NEW ar, NEW ow, NEW mp, NEW i \in VPage, Heap(ar, <<>>, ow, mp), i \notin mp
  PROVE  Heap(With(ar, i, "mine", PerArena - 1), Tail(Block(i)), ow \cup {Block(i)[1]},
              mp \cup i .. i + 1 - 1)
<1> DEFINE as == With(ar, i, "mine", PerArena - 1)
           b == Block(i)[1]
           uses == ow \cup {b}
           list == Tail(Block(i))
<1>1. /\ Arenas(as, mp \cup i .. i + 1 - 1)
      /\ i \notin DOMAIN ar /\ DOMAIN as = DOMAIN ar \cup {i}
      /\ as[i].kind = "mine" /\ as[i].cnt = PerArena - 1
      /\ \A j \in DOMAIN ar : as[j] = ar[j]
  <2>1. Arenas(ar, mp) /\ i .. i + 1 - 1 = {i} /\ PerArena - 1 \in Nat
    BY SpaceConstants DEF Heap, VPage
  <2>2. i \notin DOMAIN ar /\ ar \in [DOMAIN ar -> Arena]
    BY <2>1 DEF Arenas
  <2>3. /\ DOMAIN as = DOMAIN ar \cup {i} /\ as \in [DOMAIN as -> Arena]
        /\ as[i].kind = "mine" /\ as[i].cnt = PerArena - 1
        /\ \A j \in DOMAIN ar : as[j] = ar[j]
    <3>1. /\ DOMAIN as = DOMAIN ar \cup {i} /\ as = [v \in DOMAIN as |-> as[v]]
          /\ as[i].kind = "mine" /\ as[i].cnt = PerArena - 1 /\ as[i] \in Arena
          /\ \A j \in DOMAIN ar : as[j] = ar[j]
      BY <2>1, <2>2 DEF With, Arena
    <3> HIDE DEF as
    <3>2. \A j \in DOMAIN as : as[j] \in Arena
      BY <2>2, <3>1
    <3> QED BY <3>1, <3>2
  <2> HIDE DEF as
  <2>4. Span(as, i) = {i} /\ Span(as, i) = i .. i + 1 - 1
    BY <2>1, <2>3 DEF Span
  <2>5. Arenas(as, mp \cup Span(as, i))
    <3>1. Span(as, i) \subseteq VPage /\ Span(as, i) \cap mp = {} /\ i \in Span(as, i)
      BY <2>4
    <3> QED BY <2>1, <2>2, <2>3, <3>1, ArenaAdded
  <2> QED BY <2>2, <2>3, <2>4, <2>5
<1>2. /\ b = <<i, 0>> /\ b \in Blocks /\ b[1] = i /\ Head(Block(i)) = b
      /\ NoRepeats(list) /\ b \in Range(Block(i))
      /\ Range(list) = Range(Block(i)) \ {b}
      /\ \A x \in Range(Block(i)) : x[1] = i
      /\ Cardinality(Range(list)) = PerArena - 1
  <2>1. Head(Block(i)) = b
    BY BlockIs
  <2>2. NoRepeats(list) /\ Range(list) = Range(Block(i)) \ {b} /\ b \in Range(Block(i))
    BY <2>1, BlockIs, PopList
  <2>3. Cardinality(Range(list)) = PerArena - 1
    <3> HIDE DEF list, b
    <3> QED BY <2>2, BlockIs, FS_RemoveElement
  <2> QED BY <2>1, <2>2, <2>3, BlockIs
<1>3. InPage(Range(list), i) = Range(list) /\ \A j \in DOMAIN ar : InPage(Range(list), j) = {}
  BY <1>1, <1>2 DEF InPage
<1>4. \A x \in ow : x \in Blocks /\ x[1] \in DOMAIN ar /\ x[1] # i
  BY <1>1 DEF Heap, InUse
<1>5. InPage(uses, i) = {b} /\ \A j \in DOMAIN ar : InPage(uses, j) = InPage(ow, j)
  BY <1>1, <1>2, <1>4 DEF InPage
<1> HIDE DEF as, b, uses, list
<1>6. FreeList(as, list)
  BY <1>1, <1>2 DEF FreeList
<1>7. InUse(as, list, uses)
  <2>1. Range(list) \cap uses = {}
    BY <1>2, <1>4 DEF uses
  <2>2. \A x \in ow : as[x[1]].kind = "large" => x[2] = 0
    BY <1>1, <1>4 DEF Heap, InUse
  <2> QED BY <1>1, <1>2, <1>4, <2>1, <2>2 DEF InUse, uses
<1>8. Counts(as, list, uses)
  <2>1. \A j \in DOMAIN ar : ar[j].kind = "mine" =>
            ar[j].cnt = Cardinality({}) /\ ar[j].cnt < PerArena
            /\ {} \cup InPage(ow, j) = Range(Block(j))
    BY EmptyList DEF Heap, Counts
  <2>2. \A j \in DOMAIN ar : as[j].kind = "mine" =>
            as[j].cnt = Cardinality(InPage(Range(list), j)) /\ as[j].cnt < PerArena
            /\ InPage(Range(list), j) \cup InPage(uses, j) = Range(Block(j))
    BY <1>1, <1>3, <1>5, <2>1
  <2>3. /\ as[i].cnt = Cardinality(InPage(Range(list), i)) /\ as[i].cnt < PerArena
        /\ InPage(Range(list), i) \cup InPage(uses, i) = Range(Block(i))
    <3>1. PerArena - 1 < PerArena
      BY SpaceConstants
    <3>2. InPage(Range(list), i) \cup InPage(uses, i) = Range(Block(i))
      BY <1>2, <1>3, <1>5
    <3>3. as[i].cnt = PerArena - 1 /\ InPage(Range(list), i) = Range(list)
      BY <1>1, <1>3
    <3> QED BY <1>2, <3>1, <3>2, <3>3
  <2> QED BY <1>1, <2>2, <2>3 DEF Counts
<1> QED BY <1>1, <1>6, <1>7, <1>8 DEF Heap, as, b, uses, list

\* A free block is taken or given back: the count of its arena changes.
LEMMA Recounted ==
  ASSUME NEW ar, NEW mp, Arenas(ar, mp), NEW i \in DOMAIN ar, ar[i].kind = "mine",
         NEW as, DOMAIN as = DOMAIN ar, as = [v \in DOMAIN as |-> as[v]],
         as[i] \in Arena, as[i].kind = "mine", \A j \in DOMAIN ar \ {i} : as[j] = ar[j]
  PROVE  Arenas(as, mp)
<1>1. \A j \in DOMAIN ar : Span(as, j) = Span(ar, j)
  BY DEF Span
<1>2. \A j \in DOMAIN as : as[j] \in Arena
  BY DEF Arenas
<1>3. as \in [DOMAIN as -> Arena]
  BY <1>2
<1> QED BY <1>1, <1>3 DEF Arenas

\* malloc from the free list
LEMMA BlockTaken ==
  ASSUME NEW ar, NEW fl, NEW ow, NEW mp, Heap(ar, fl, ow, mp), fl # <<>>,
         NEW as, as = [ar EXCEPT ![Head(fl)[1]].cnt = @ - 1]
  PROVE  Heap(as, Tail(fl), ow \cup {Head(fl)}, mp)
<1> DEFINE b == Head(fl)
           i == b[1]
           list == Tail(fl)
           uses == ow \cup {b}
<1>1. /\ NoRepeats(list) /\ b \in Range(fl) /\ Range(list) = Range(fl) \ {b}
      /\ Range(fl) \subseteq Blocks
  BY PopList, ListIs DEF Heap, FreeList, NoRepeats
<1>2. i \in DOMAIN ar /\ ar[i].kind = "mine" /\ ar[i] \in Arena /\ ar \in [DOMAIN ar -> Arena]
  BY <1>1 DEF Heap, FreeList, Arenas
<1>3. as = [ar EXCEPT ![i].cnt = @ - 1]
  OBVIOUS
<1> HIDE DEF b, list
<1>4. ar[i].cnt = Cardinality(InPage(Range(fl), i)) /\ ar[i].cnt < PerArena
      /\ InPage(Range(fl), i) \cup InPage(ow, i) = Range(Block(i))
  BY <1>2 DEF Heap, Counts
<1>5. /\ InPage(Range(list), i) = InPage(Range(fl), i) \ {b} /\ b \in InPage(Range(fl), i)
      /\ InPage(uses, i) = InPage(ow, i) \cup {b}
      /\ \A j \in DOMAIN ar \ {i} : /\ InPage(Range(list), j) = InPage(Range(fl), j)
                                    /\ InPage(uses, j) = InPage(ow, j)
  BY <1>1 DEF InPage
<1>6. /\ Cardinality(InPage(Range(list), i)) = Cardinality(InPage(Range(fl), i)) - 1
      /\ Cardinality(InPage(Range(list), i)) \in Nat
  <2>1. InPage(Range(fl), i) \in SUBSET Blocks /\ InPage(Range(list), i) \in SUBSET Blocks
    BY <1>1 DEF InPage
  <2>2. IsFiniteSet(InPage(Range(fl), i)) /\ Cardinality(InPage(Range(list), i)) \in Nat
    BY <2>1, BlocksFinite
  <2> QED BY <1>5, <2>2, FS_RemoveElement
<1>7. /\ DOMAIN as = DOMAIN ar /\ as = [v \in DOMAIN as |-> as[v]]
      /\ as[i].kind = "mine" /\ as[i].cnt = ar[i].cnt - 1
      /\ as[i] = [kind |-> "mine", cnt |-> ar[i].cnt - 1]
      /\ \A j \in DOMAIN ar \ {i} : as[j] = ar[j]
  <2> HIDE DEF i
  <2> QED BY <1>2, <1>3 DEF Arena
<1>12. i = b[1]
  OBVIOUS
<1> HIDE DEF i
<1>8. as[i] \in Arena
  <2>1. ar[i].cnt - 1 \in Nat
    BY <1>4, <1>6
  <2> QED BY <1>7, <2>1 DEF Arena
<1>9. Arenas(as, mp)
  BY <1>2, <1>7, <1>8, Recounted DEF Heap
<1>10. FreeList(as, list) /\ InUse(as, list, uses)
  <2>1. \A j \in DOMAIN ar : as[j].kind = ar[j].kind
    BY <1>2, <1>7
  <2>2. FreeList(as, list)
    BY <1>1, <1>7, <2>1 DEF Heap, FreeList
  <2>3. uses \subseteq Blocks /\ Range(list) \cap uses = {}
    BY <1>1 DEF Heap, InUse
  <2>4. \A x \in uses : x[1] \in DOMAIN as /\ (as[x[1]].kind = "large" => x[2] = 0)
    <3>1. b[1] \in DOMAIN as /\ as[b[1]].kind # "large"
      BY <1>2, <1>7, <1>12
    <3>2. \A x \in ow : x[1] \in DOMAIN as /\ (as[x[1]].kind = "large" => x[2] = 0)
      BY <1>7, <2>1 DEF Heap, InUse
    <3> QED BY <3>1, <3>2
  <2> QED BY <2>2, <2>3, <2>4 DEF InUse
<1>11. Counts(as, list, uses)
  <2>1. /\ as[i].cnt = Cardinality(InPage(Range(list), i)) /\ as[i].cnt < PerArena
    <3>1. ar[i].cnt \in Nat /\ PerArena \in Nat
      BY <1>2, SpaceConstants DEF Arena
    <3>2. as[i].cnt = Cardinality(InPage(Range(list), i))
      BY <1>4, <1>6, <1>7
    <3>3. ar[i].cnt - 1 < PerArena
      BY <1>4, <3>1
    <3> QED BY <1>7, <3>2, <3>3
  <2>2. InPage(Range(list), i) \cup InPage(uses, i) = Range(Block(i))
    BY <1>4, <1>5
  <2> HIDE DEF uses
  <2> QED BY <1>5, <1>7, <2>1, <2>2 DEF Heap, Counts
<1> QED BY <1>9, <1>10, <1>11 DEF Heap, list, uses, b

\* free, when the arena has other blocks in use
LEMMA BlockGiven ==
  ASSUME NEW ar, NEW fl, NEW ow, NEW mp, Heap(ar, fl, ow, mp), NEW b \in ow,
         ar[b[1]].kind = "mine", ar[b[1]].cnt + 1 < PerArena,
         NEW as, as = [ar EXCEPT ![b[1]].cnt = @ + 1]
  PROVE  Heap(as, Append(fl, b), ow \ {b}, mp)
<1> DEFINE i == b[1]
           list == Append(fl, b)
           uses == ow \ {b}
<1>1. b \in Blocks /\ b \notin Range(fl) /\ NoRepeats(fl) /\ i \in DOMAIN ar
  BY DEF Heap, FreeList, InUse
<1>2. NoRepeats(list) /\ Range(list) = Range(fl) \cup {b} /\ Range(list) \subseteq Blocks
  BY <1>1, PushList, ListIs DEF NoRepeats
<1>3. ar[i].kind = "mine" /\ ar[i] \in Arena /\ ar \in [DOMAIN ar -> Arena]
  BY <1>1 DEF Heap, Arenas
<1>4. as = [ar EXCEPT ![i].cnt = @ + 1] /\ ar[i].cnt + 1 < PerArena
  OBVIOUS
<1> HIDE DEF list
<1>5. ar[i].cnt = Cardinality(InPage(Range(fl), i))
      /\ InPage(Range(fl), i) \cup InPage(ow, i) = Range(Block(i))
  BY <1>1, <1>3 DEF Heap, Counts
<1>6. /\ InPage(Range(list), i) = InPage(Range(fl), i) \cup {b} /\ b \notin InPage(Range(fl), i)
      /\ InPage(uses, i) = InPage(ow, i) \ {b} /\ b \in InPage(ow, i)
      /\ \A j \in DOMAIN ar \ {i} : /\ InPage(Range(list), j) = InPage(Range(fl), j)
                                    /\ InPage(uses, j) = InPage(ow, j)
  BY <1>1, <1>2 DEF InPage
<1>7. /\ Cardinality(InPage(Range(list), i)) = Cardinality(InPage(Range(fl), i)) + 1
      /\ Cardinality(InPage(Range(list), i)) \in Nat
  <2>1. InPage(Range(fl), i) \in SUBSET Blocks /\ InPage(Range(list), i) \in SUBSET Blocks
    BY <1>2 DEF InPage
  <2>2. IsFiniteSet(InPage(Range(fl), i)) /\ Cardinality(InPage(Range(list), i)) \in Nat
    BY <2>1, BlocksFinite
  <2> QED BY <1>6, <2>2, FS_AddElement
<1>8. /\ DOMAIN as = DOMAIN ar /\ as = [v \in DOMAIN as |-> as[v]]
      /\ as[i].kind = "mine" /\ as[i].cnt = ar[i].cnt + 1
      /\ as[i] = [kind |-> "mine", cnt |-> ar[i].cnt + 1]
      /\ \A j \in DOMAIN ar \ {i} : as[j] = ar[j]
  <2> HIDE DEF i
  <2> QED BY <1>1, <1>3, <1>4 DEF Arena
<1>9. as[i] \in Arena
  <2>1. ar[i].cnt + 1 \in Nat
    BY <1>5, <1>7
  <2> QED BY <1>8, <2>1 DEF Arena
<1>10. Arenas(as, mp)
  <2> HIDE DEF i
  <2> QED BY <1>1, <1>3, <1>8, <1>9, Recounted DEF Heap
<1>11. FreeList(as, list) /\ InUse(as, list, uses)
  <2>1. \A j \in DOMAIN ar : as[j].kind = ar[j].kind
    BY <1>3, <1>8
  <2>2. FreeList(as, list)
    BY <1>1, <1>2, <1>3, <1>8, <2>1 DEF Heap, FreeList
  <2> QED BY <1>1, <1>2, <1>8, <2>1, <2>2 DEF Heap, InUse
<1>12. Counts(as, list, uses)
  <2>1. /\ as[i].cnt = Cardinality(InPage(Range(list), i)) /\ as[i].cnt < PerArena
    BY <1>4, <1>5, <1>7, <1>8
  <2>2. InPage(Range(list), i) \cup InPage(uses, i) = Range(Block(i))
    BY <1>5, <1>6
  <2> HIDE DEF uses, i
  <2> QED BY <1>6, <1>8, <2>1, <2>2 DEF Heap, Counts
<1> QED BY <1>10, <1>11, <1>12 DEF Heap, list

\* An arena and its pages go; the others and theirs stay.
LEMMA ArenaRemoved ==
  ASSUME NEW ar, NEW mp, Arenas(ar, mp), NEW i \in DOMAIN ar,
         NEW as, as = [v \in DOMAIN ar \ {i} |-> ar[v]]
  PROVE  /\ Arenas(as, mp \ Span(ar, i))
         /\ DOMAIN as = DOMAIN ar \ {i} /\ \A j \in DOMAIN as : as[j] = ar[j]
<1>1. DOMAIN as = DOMAIN ar \ {i} /\ \A j \in DOMAIN as : as[j] = ar[j]
  OBVIOUS
<1>2. as \in [DOMAIN as -> Arena]
  BY DEF Arenas
<1>3. \A j \in DOMAIN as : Span(as, j) = Span(ar, j)
  BY <1>1 DEF Span
<1> QED BY <1>1, <1>2, <1>3 DEF Arenas

\* A large block is freed: its arena is gone, and had no other block.
LEMMA LargeFreed ==
  ASSUME NEW ar, NEW fl, NEW ow, NEW mp, Heap(ar, fl, ow, mp), NEW b \in ow,
         ar[b[1]].kind = "large",
         NEW as, as = [v \in DOMAIN ar \ {b[1]} |-> ar[v]]
  PROVE  Heap(as, fl, ow \ {b}, mp \ Span(ar, b[1]))
<1> DEFINE i == b[1]
           uses == ow \ {b}
<1>1. b \in Blocks /\ i \in DOMAIN ar /\ b[2] = 0 /\ ar[i].kind = "large"
  BY DEF Heap, InUse
<1>2. /\ Arenas(as, mp \ Span(ar, i))
      /\ DOMAIN as = DOMAIN ar \ {i} /\ \A j \in DOMAIN as : as[j] = ar[j]
  BY <1>1, ArenaRemoved DEF Heap
<1>3. \A x \in uses : x[1] # i
  <2>1. SUFFICES ASSUME NEW x \in ow, x[1] = i PROVE x = b
    OBVIOUS
  <2>2. x \in Blocks /\ x[2] = 0
    BY <1>1, <2>1 DEF Heap, InUse
  <2> QED BY <1>1, <2>1, <2>2 DEF Blocks
<1>4. FreeList(as, fl)
  BY <1>1, <1>2 DEF Heap, FreeList
<1>5. InUse(as, fl, uses)
  BY <1>2, <1>3 DEF Heap, InUse
<1>6. Counts(as, fl, uses)
  <2>1. \A j \in DOMAIN as : InPage(uses, j) = InPage(ow, j)
    BY <1>2 DEF InPage
  <2> HIDE DEF uses, i
  <2> QED BY <1>2, <2>1 DEF Heap, Counts
<1> QED BY <1>2, <1>4, <1>5, <1>6 DEF Heap

\* The last block of an arena is freed: the others are all in the list, and
\* the arena goes with them.
LEMMA ArenaFreed ==
  ASSUME NEW ar, NEW fl, NEW ow, NEW mp, Heap(ar, fl, ow, mp), NEW b \in ow,
         ar[b[1]].kind = "mine", ar[b[1]].cnt + 1 = PerArena,
         NEW as, as = [v \in DOMAIN ar \ {b[1]} |-> ar[v]]
  PROVE  /\ Range(Block(b[1])) \subseteq Range(Append(fl, b))
         /\ Heap(as, Without(Append(fl, b), Range(Block(b[1]))), ow \ {b}, mp \ Span(ar, b[1]))
<1> DEFINE i == b[1]
           uses == ow \ {b}
           list == Without(Append(fl, b), Range(Block(i)))
<1>1. /\ b \in Blocks /\ i \in DOMAIN ar /\ i \in VPage /\ b \notin Range(fl)
      /\ NoRepeats(fl) /\ Range(fl) \subseteq Blocks /\ ar[i].kind = "mine" /\ ow \subseteq Blocks
  BY ListIs DEF Heap, InUse, Arenas, FreeList, NoRepeats
<1>2. /\ ar[i].cnt = Cardinality(InPage(Range(fl), i)) /\ ar[i].cnt + 1 = PerArena
      /\ InPage(Range(fl), i) \cup InPage(ow, i) = Range(Block(i))
  BY <1>1 DEF Heap, Counts
<1>3. /\ NoRepeats(Append(fl, b)) /\ Range(Append(fl, b)) = Range(fl) \cup {b}
  BY <1>1, PushList
<1>4. NoRepeats(list) /\ Range(list) = (Range(fl) \cup {b}) \ Range(Block(i))
  <2> HIDE DEF i
  <2> QED BY <1>3, RemoveFromList
<1>5. /\ Arenas(as, mp \ Span(ar, i))
      /\ DOMAIN as = DOMAIN ar \ {i} /\ \A j \in DOMAIN as : as[j] = ar[j]
  BY <1>1, ArenaRemoved DEF Heap
<1> HIDE DEF list
\* counting: the blocks of the arena in the list and b are all it has
<1>6. InPage(Range(fl), i) \cup {b} = Range(Block(i))
  <2> DEFINE F == InPage(Range(fl), i)
             T == F \cup {b}
  <2>1. F \in SUBSET Blocks /\ T \subseteq Range(Block(i)) /\ b \notin F
    BY <1>1, <1>2 DEF InPage
  <2>2. IsFiniteSet(F) /\ Cardinality(F) \in Nat /\ IsFiniteSet(Range(Block(i)))
        /\ Cardinality(Range(Block(i))) = PerArena
    BY <1>1, <2>1, BlocksFinite, BlockIs
  <2>3. Cardinality(F \cup {b}) = Cardinality(F) + 1
    BY <2>1, <2>2, FS_AddElement
  <2>4. Cardinality(T) = Cardinality(Range(Block(i)))
    BY <1>2, <2>2, <2>3
  <2> HIDE DEF T
  <2>5. T = Range(Block(i))
    BY <2>1, <2>2, <2>4, FS_Subset
  <2> QED BY <2>5 DEF T
<1>7. Range(Block(i)) \subseteq Range(Append(fl, b))
  BY <1>3, <1>6 DEF InPage
<1>8. \A x \in uses : x[1] # i
  <2>1. SUFFICES ASSUME NEW x \in ow, x[1] = i PROVE x = b
    OBVIOUS
  <2>2. x \in Range(Block(i)) /\ x \notin Range(fl)
    BY <1>2, <2>1 DEF InPage, Heap, InUse
  <2> QED BY <1>6, <2>2 DEF InPage
<1>9. \A x \in Range(list) : x \in Range(fl) /\ x[1] # i
  <2>1. SUFFICES ASSUME NEW x \in Range(fl), x[1] = i PROVE x \in Range(Block(i))
    BY <1>4, <1>6
  <2> QED BY <1>2, <2>1 DEF InPage
<1>10. FreeList(as, list) /\ InUse(as, list, uses)
  BY <1>1, <1>4, <1>5, <1>8, <1>9 DEF Heap, FreeList, InUse
<1>11. Counts(as, list, uses)
  <2>1. \A j \in DOMAIN as : /\ InPage(uses, j) = InPage(ow, j)
                             /\ InPage(Range(list), j) = InPage(Range(fl), j)
    <3> TAKE j \in DOMAIN as
    <3>1. j # i /\ \A x \in Range(Block(i)) : x[1] = i
      BY <1>1, <1>5, BlockIs
    <3> QED BY <1>4, <1>9, <3>1 DEF InPage
  <2> HIDE DEF uses, i
  <2> QED BY <1>5, <2>1 DEF Heap, Counts
<1> QED BY <1>5, <1>7, <1>10, <1>11 DEF Heap, list

-----------------------------------------------------------------------------
(* Pages of the kernel pool *)

\* The bitmap takes 23 pages, and 22 of them are given back.
LEMMA BitmapPagesAre == BitmapPages = 23 /\ BitmapFreed = 22
BY DEF BitmapPages, BitmapFreed, btmap_bytes_len

\* Finitely many finite sets have a finite union.
LEMMA UnionFinite ==
  ASSUME NEW S, IsFiniteSet(S), NEW F, DOMAIN F = S, \A x \in S : IsFiniteSet(F[x])
  PROVE  IsFiniteSet(UNION {F[x] : x \in S})
<1> DEFINE T == {F[x] : x \in S}
           f == [x \in S |-> F[x]]
<1>1. f \in Surjection(S, T)
  BY DEF Surjection
<1>2. IsFiniteSet(T)
  <2> HIDE DEF f, T
  <2> QED BY <1>1, FS_Surjection
<1>3. \A X \in T : IsFiniteSet(X)
  OBVIOUS
<1> HIDE DEF T
<1>4. IsFiniteSet(UNION T)
  BY <1>2, <1>3, FS_UNION
<1> QED BY <1>4 DEF T

\* A finite set for each process: when that of p changes, the total changes as much.
LEMMA TotalIs ==
  ASSUME NEW K, DOMAIN K = Proc, \A q \in Proc : IsFiniteSet(K[q]), NEW p \in Proc
  PROVE  LET rest == UNION {{q} \X K[q] : q \in Proc \ {p}}
             total == UNION {{q} \X K[q] : q \in Proc}
         IN  /\ IsFiniteSet(rest) /\ Cardinality(rest) \in Nat
             /\ IsFiniteSet(total) /\ Cardinality(total) \in Nat
             /\ Cardinality(K[p]) \in Nat
             /\ Cardinality(total) = Cardinality(rest) + Cardinality(K[p])
<1> DEFINE rest == UNION {{q} \X K[q] : q \in Proc \ {p}}
           total == UNION {{q} \X K[q] : q \in Proc}
           mine == {p} \X K[p]
           F == [q \in Proc \ {p} |-> {q} \X K[q]]
<1>1. ASSUME NEW q \in Proc PROVE IsFiniteSet({q} \X K[q])
  <2>1. IsFiniteSet({q}) /\ IsFiniteSet(K[q])
    BY FS_Singleton
  <2> QED BY <2>1, FS_Product
<1>2. IsFiniteSet(Proc \ {p})
  BY SpaceConstants, FS_RemoveElement
<1>3. IsFiniteSet(rest)
  <2>1. /\ DOMAIN F = Proc \ {p} /\ \A q \in Proc \ {p} : F[q] = {q} \X K[q]
        /\ rest = UNION {F[q] : q \in Proc \ {p}}
    OBVIOUS
  <2>2. \A q \in Proc \ {p} : IsFiniteSet(F[q])
    BY <1>1, <2>1
  <2> HIDE DEF F, rest
  <2>3. IsFiniteSet(UNION {F[q] : q \in Proc \ {p}})
    BY <1>2, <2>1, <2>2, UnionFinite
  <2> QED BY <2>1, <2>3
<1>4. total = rest \cup mine /\ rest \cap mine = {}
  OBVIOUS
<1>5. IsFiniteSet(mine) /\ Cardinality(mine) = Cardinality(K[p]) /\ Cardinality(K[p]) \in Nat
  <2>1. IsFiniteSet({p}) /\ Cardinality({p}) = 1 /\ IsFiniteSet(K[p])
    BY FS_Singleton
  <2>2. Cardinality(K[p]) \in Nat /\ Cardinality(mine) = 1 * Cardinality(K[p]) /\ IsFiniteSet(mine)
    BY <2>1, FS_Product, FS_CardinalityType
  <2> QED BY <2>2
<1> HIDE DEF rest, total, mine
<1>6. /\ IsFiniteSet(total) /\ Cardinality(rest) \in Nat
      /\ Cardinality(total) = Cardinality(rest) + Cardinality(mine)
  <2>1. IsFiniteSet(rest \cup mine) /\ Cardinality(rest) \in Nat /\ Cardinality(mine) \in Nat
        /\ Cardinality(rest \cup mine) = Cardinality(rest) + Cardinality(mine) - Cardinality(rest \cap mine)
    BY <1>3, <1>5, FS_Union, FS_CardinalityType
  <2>2. Cardinality(rest \cap mine) = 0
    BY <1>4, FS_EmptySet
  <2> QED BY <1>4, <2>1, <2>2
<1> QED BY <1>3, <1>5, <1>6 DEF rest, total

Total(K) == Cardinality(UNION {{q} \X K[q] : q \in Proc})

\* When what one process has changes, the total changes as much.
LEMMA TotalChanges ==
  ASSUME NEW K, NEW M, DOMAIN K = Proc, DOMAIN M = Proc, NEW p \in Proc,
         \A q \in Proc : IsFiniteSet(K[q]) /\ IsFiniteSet(M[q]),
         \A q \in Proc \ {p} : M[q] = K[q]
  PROVE  /\ Total(K) \in Nat /\ Total(M) = Total(K) - Cardinality(K[p]) + Cardinality(M[p])
         /\ Cardinality(K[p]) \in Nat /\ Cardinality(M[p]) \in Nat
<1> DEFINE restK == UNION {{q} \X K[q] : q \in Proc \ {p}}
           restM == UNION {{q} \X M[q] : q \in Proc \ {p}}
           totalK == UNION {{q} \X K[q] : q \in Proc}
           totalM == UNION {{q} \X M[q] : q \in Proc}
<1>1. /\ Cardinality(restK) \in Nat /\ Cardinality(K[p]) \in Nat /\ Cardinality(totalK) \in Nat
      /\ Cardinality(totalK) = Cardinality(restK) + Cardinality(K[p])
  BY TotalIs
<1>2. /\ Cardinality(restM) \in Nat /\ Cardinality(M[p]) \in Nat
      /\ Cardinality(totalM) = Cardinality(restM) + Cardinality(M[p])
  BY TotalIs
<1>3. restK = restM
  OBVIOUS
<1> HIDE DEF restK, restM, totalK, totalM
<1>4. Cardinality(totalM) = Cardinality(totalK) - Cardinality(K[p]) + Cardinality(M[p])
  BY <1>1, <1>2, <1>3
<1> QED BY <1>1, <1>2, <1>4 DEF totalK, totalM, Total

\* The kernel pages of a process
LEMMA HoldingsCount ==
  ASSUME NEW lf, NEW tb \in SUBSET VPage
  PROVE  IsFiniteSet(Holdings(lf, tb)) /\ Cardinality(Holdings(lf, tb)) = Holds(lf, tb)
<1> DEFINE one == {<<"task", 0>>}
           two == one \cup {<<"directory", 0>>}
           bm == {"bitmap"} \X (1 .. BitmapPages)
           pt == {"table"} \X tb
<1>1. IsFiniteSet(two) /\ Cardinality(two) = 2
  <2>1. IsFiniteSet(one) /\ Cardinality(one) = 1 /\ <<"directory", 0>> \notin one
    BY FS_Singleton
  <2> HIDE DEF one
  <2> QED BY <2>1, FS_AddElement
<1>2. IsFiniteSet(bm) /\ Cardinality(bm) = BitmapPages
  <2>1. IsFiniteSet(1 .. BitmapPages) /\ Cardinality(1 .. BitmapPages) = BitmapPages
    <3>1. 1 \in Int /\ BitmapPages \in Int /\ ~(1 > BitmapPages) /\ BitmapPages - 1 + 1 = BitmapPages
      BY BitmapPagesAre
    <3> QED BY <3>1, FS_Interval
  <2>2. IsFiniteSet({"bitmap"}) /\ Cardinality({"bitmap"}) = 1
    BY FS_Singleton
  <2>3. IsFiniteSet(bm) /\ Cardinality(bm) = 1 * BitmapPages
    BY <2>1, <2>2, FS_Product
  <2> QED BY <2>3, BitmapPagesAre
<1>3. IsFiniteSet(pt) /\ Cardinality(pt) = Cardinality(tb) /\ Cardinality(tb) \in Nat
  <2>1. IsFiniteSet({"table"}) /\ Cardinality({"table"}) = 1
    BY FS_Singleton
  <2>2. IsFiniteSet(tb) /\ Cardinality(tb) \in Nat
    BY PagesFinite
  <2>3. IsFiniteSet(pt) /\ Cardinality(pt) = 1 * Cardinality(tb)
    BY <2>1, <2>2, FS_Product
  <2> QED BY <2>2, <2>3
<1>4. two \cap bm = {} /\ (two \cup bm) \cap pt = {}
  OBVIOUS
<1>5. two = {<<"task", 0>>, <<"directory", 0>>}
  OBVIOUS
<1> HIDE DEF two, bm, pt
<1>6. IsFiniteSet(two \cup bm) /\ Cardinality(two \cup bm) = 2 + BitmapPages
  <2>1. Cardinality(two \cap bm) = 0
    BY <1>4, FS_EmptySet
  <2>2. IsFiniteSet(two \cup bm)
        /\ Cardinality(two \cup bm) = Cardinality(two) + Cardinality(bm) - Cardinality(two \cap bm)
    BY <1>1, <1>2, FS_Union
  <2> QED BY <1>1, <1>2, <2>1, <2>2, BitmapPagesAre
<1>7. IsFiniteSet(two \cup bm \cup pt) /\ Cardinality(two \cup bm \cup pt) = 2 + BitmapPages + Cardinality(tb)
  <2> DEFINE tb2 == two \cup bm
  <2> HIDE DEF tb2
  <2>1. Cardinality(tb2 \cap pt) = 0
    BY <1>4, FS_EmptySet DEF tb2
  <2>2. IsFiniteSet(tb2) /\ Cardinality(tb2) = 2 + BitmapPages
    BY <1>6 DEF tb2
  <2>3. IsFiniteSet(tb2 \cup pt)
        /\ Cardinality(tb2 \cup pt) = Cardinality(tb2) + Cardinality(pt) - Cardinality(tb2 \cap pt)
    BY <1>3, <2>2, FS_Union
  <2>4. Cardinality(tb2 \cup pt) = 2 + BitmapPages + Cardinality(tb)
    BY <1>3, <2>1, <2>2, <2>3, BitmapPagesAre
  <2> QED BY <2>3, <2>4 DEF tb2
<1>8. CASE lf = "none"
  BY <1>8, FS_EmptySet DEF Holdings, Holds
<1>9. CASE lf = "hang"
  BY <1>1, <1>5, <1>9 DEF Holdings, Holds
<1>10. CASE lf # "none" /\ lf # "hang"
  <2>1. Holdings(lf, tb) = two \cup bm \cup pt /\ Holds(lf, tb) = 2 + BitmapPages + Cardinality(tb)
    BY <1>5, <1>10 DEF Holdings, Holds, bm, pt
  <2> QED BY <1>7, <2>1
<1> QED BY <1>8, <1>9, <1>10

\* What a process holds is a number.
LEMMA HoldsType ==
  ASSUME NEW lf, NEW tb \in SUBSET VPage
  PROVE  Holds(lf, tb) \in Nat /\ Cardinality(tb) \in Nat
BY PagesFinite, BitmapPagesAre DEF Holds

\* One process changes what it holds, and the pool and the losses make up for it.
LEMMA KernelStep ==
  ASSUME SpaceTypes, KernelPagesExact, NEW p \in Proc,
         page_tables' \in [Proc -> SUBSET VPage], kfree' \in Int, lost' \in Int,
         \A q \in Proc \ {p} : life'[q] = life[q] /\ page_tables'[q] = page_tables[q],
         kfree' + lost' + Holds(life'[p], page_tables'[p])
         = kfree + lost + Holds(life[p], page_tables[p])
  PROVE  KernelPagesExact'
<1> DEFINE K == [q \in Proc |-> Holdings(life[q], page_tables[q])]
           M == [q \in Proc |-> Holdings(life'[q], page_tables'[q])]
<1>1. \A q \in Proc : page_tables[q] \in SUBSET VPage /\ page_tables'[q] \in SUBSET VPage
  BY DEF SpaceTypes
<1>2. /\ \A q \in Proc : IsFiniteSet(K[q]) /\ IsFiniteSet(M[q])
      /\ Cardinality(K[p]) = Holds(life[p], page_tables[p])
      /\ Cardinality(M[p]) = Holds(life'[p], page_tables'[p])
  BY <1>1, HoldingsCount
<1>3. DOMAIN K = Proc /\ DOMAIN M = Proc /\ \A q \in Proc \ {p} : M[q] = K[q]
  OBVIOUS
<1>4. /\ Cardinality(UNION {Kept(q) : q \in Proc}) = Total(K)
      /\ Cardinality(UNION {Kept(q) : q \in Proc})' = Total(M)
  <2>1. /\ UNION {Kept(q) : q \in Proc} = UNION {{q} \X K[q] : q \in Proc}
        /\ (UNION {Kept(q) : q \in Proc})' = UNION {{q} \X M[q] : q \in Proc}
    BY DEF Kept, Holdings
  <2> HIDE DEF K, M
  <2> QED BY <2>1 DEF Total
<1> HIDE DEF K, M
<1> DEFINE totalK == Total(K)
           totalM == Total(M)
<1>5. /\ totalK \in Nat /\ totalM = totalK - Cardinality(K[p]) + Cardinality(M[p])
      /\ Cardinality(K[p]) \in Nat /\ Cardinality(M[p]) \in Nat
  BY <1>2, <1>3, TotalChanges
<1>6. kfree + totalK + lost = KernelPages /\ kfree \in Nat /\ lost \in Nat
  BY <1>4 DEF KernelPagesExact, SpaceTypes
<1> HIDE DEF totalK, totalM
<1>7. kfree' + totalM + lost' = KernelPages
  BY <1>2, <1>5, <1>6
<1> QED BY <1>4, <1>7 DEF KernelPagesExact, totalM

\* There are no more page tables than pages.
LEMMA PdeIn == \A v \in VPage : Pde(v) \in VPage
<1>1. SUFFICES ASSUME NEW v \in VPage PROVE v \div PerTable \in VPage
  BY DEF Pde
<1> DEFINE a == v \div PerTable
<1>2. v \in Nat /\ v =< ProcPages - 1 /\ ProcPages \in Nat /\ PerTable \in Nat \ {0}
  BY SpaceConstants DEF VPage
<1>3. a \in Nat /\ PerTable * a =< v
  BY <1>2
<1>4. a =< v
  <2> HIDE DEF a
  <2>1. a =< PerTable * a
    BY <1>2, <1>3
  <2> QED BY <1>2, <1>3, <2>1
<1> HIDE DEF a
<1>5. a \in VPage
  BY <1>2, <1>3, <1>4 DEF VPage
<1> QED BY <1>5 DEF a

\* A step that changes one process, and the pool
LEMMA OneChanges ==
  ASSUME SpaceInv, halt = "no", halt' = "no", SpaceTypes', NEW p \in Proc,
         \A q \in Proc \ {p} :
            /\ life'[q] = life[q] /\ vaddr_bitmap'[q] = vaddr_bitmap[q] /\ mapped'[q] = mapped[q]
            /\ page_tables'[q] = page_tables[q] /\ arena'[q] = arena[q]
            /\ free_list'[q] = free_list[q] /\ owned'[q] = owned[q] /\ holed'[q] = holed[q],
         SameBits(vaddr_bitmap'[p], mapped'[p], page_tables'[p], holed'[p]),
         life'[p] = "run" => Heap(arena'[p], free_list'[p], owned'[p], mapped'[p]),
         kfree' + lost' + Holds(life'[p], page_tables'[p])
         = kfree + lost + Holds(life[p], page_tables[p])
  PROVE  SpaceInv'
<1>1. KernelPagesExact'
  <2>1. page_tables' \in [Proc -> SUBSET VPage] /\ kfree' \in Int /\ lost' \in Int
    BY DEF SpaceTypes
  <2> QED BY <2>1, KernelStep DEF SpaceInv
<1>2. BitsAreTables'
  BY DEF SpaceInv, BitsAreTables, SameBits
<1>3. HeapsKept'
  BY DEF SpaceInv, HeapsKept
<1> QED BY <1>1, <1>2, <1>3 DEF SpaceInv

\* A step that only stops the system
LEMMA HaltKeeps ==
  ASSUME SpaceInv, NEW what \in {"oom", "wild", "hole"},
         what = "hole" => \E p \in Proc : holed[p], Halt(what)
  PROVE  SpaceInv'
<1>1. UNCHANGED <<life, vaddr_bitmap, mapped, page_tables, arena, free_list, owned, holed, kfree, lost>>
      /\ halt' = what
  BY DEF Halt, spaceVars
<1>2. SpaceTypes' /\ HeapsKept' /\ BitsAreTables'
  BY <1>1 DEF SpaceInv, SpaceTypes, HeapsKept, BitsAreTables
<1>3. KernelPagesExact'
  BY <1>1 DEF SpaceInv, KernelPagesExact, Kept
<1> QED BY <1>2, <1>3 DEF SpaceInv

\* page_table_add, when the pool has the page tables it needs
LEMMA TablesAdded ==
  ASSUME SpaceTypes, BitsAreTables, NEW p \in Proc, NEW vs \in SUBSET VPage,
         Cardinality(NewTables(p, vs)) =< kfree, page_table_add(p, vs)
  PROVE  /\ mapped' \in [Proc -> SUBSET VPage] /\ page_tables' \in [Proc -> SUBSET VPage]
         /\ kfree' \in Nat
         /\ mapped'[p] = mapped[p] \cup vs
         /\ {Pde(v) : v \in mapped'[p]} \subseteq page_tables'[p]
         /\ kfree' + Cardinality(page_tables'[p]) = kfree + Cardinality(page_tables[p])
         /\ \A q \in Proc \ {p} : mapped'[q] = mapped[q] /\ page_tables'[q] = page_tables[q]
<1> DEFINE new == NewTables(p, vs)
<1>1. /\ mapped \in [Proc -> SUBSET VPage] /\ page_tables \in [Proc -> SUBSET VPage] /\ kfree \in Nat
      /\ mapped' = [mapped EXCEPT ![p] = mapped[p] \cup vs]
      /\ page_tables' = [page_tables EXCEPT ![p] = page_tables[p] \cup new]
      /\ kfree' = kfree - Cardinality(new)
  BY DEF SpaceTypes, page_table_add
<1>2. new \in SUBSET VPage /\ page_tables[p] \in SUBSET VPage /\ new \cap page_tables[p] = {}
      /\ \A v \in vs : Pde(v) \in new \cup page_tables[p]
  <2>1. \A v \in vs : Pde(v) \in VPage
    BY PdeIn
  <2> QED BY <1>1, <2>1 DEF NewTables
<1>3. Cardinality(new) =< kfree
  OBVIOUS
<1> HIDE DEF new
<1>4. IsFiniteSet(new) /\ Cardinality(new) \in Nat
      /\ IsFiniteSet(page_tables[p]) /\ Cardinality(page_tables[p]) \in Nat
  BY <1>2, PagesFinite
<1>5. Cardinality(page_tables[p] \cup new) = Cardinality(page_tables[p]) + Cardinality(new)
  <2>1. Cardinality(page_tables[p] \cup new)
        = Cardinality(page_tables[p]) + Cardinality(new) - Cardinality(page_tables[p] \cap new)
    BY <1>4, FS_Union
  <2>2. Cardinality(page_tables[p] \cap new) = 0
    BY <1>2, FS_EmptySet
  <2> QED BY <1>4, <2>1, <2>2
<1>6. mapped' \in [Proc -> SUBSET VPage] /\ page_tables' \in [Proc -> SUBSET VPage]
      /\ mapped'[p] = mapped[p] \cup vs /\ page_tables'[p] = page_tables[p] \cup new
      /\ \A q \in Proc \ {p} : mapped'[q] = mapped[q] /\ page_tables'[q] = page_tables[q]
  BY <1>1, <1>2
<1>7. kfree' \in Nat /\ kfree' + Cardinality(page_tables'[p]) = kfree + Cardinality(page_tables[p])
  BY <1>1, <1>3, <1>4, <1>5, <1>6
<1>8. {Pde(v) : v \in mapped'[p]} \subseteq page_tables'[p]
  <2>1. \A v \in mapped[p] : Pde(v) \in page_tables[p]
    BY DEF BitsAreTables
  <2> QED BY <1>2, <1>6, <2>1
<1> QED BY <1>6, <1>7, <1>8

-----------------------------------------------------------------------------
(* What the operations do to a process *)

\* The free pages of the user pool are a number.
LEMMA UserFreeType == SpaceTypes => UserFree \in Int
<1> SUFFICES ASSUME SpaceTypes PROVE UserFree \in Int
  OBVIOUS
<1>1. /\ First \in Proc /\ DOMAIN mapped = Proc
      /\ \A q \in Proc : mapped[q] \in SUBSET VPage
  BY SpaceConstants DEF SpaceTypes
<1>2. \A q \in Proc : IsFiniteSet(mapped[q])
  BY <1>1, PagesFinite
<1>3. PICK K : K = mapped
  OBVIOUS
<1>4. Total(K) \in Nat
  BY <1>1, <1>2, <1>3, TotalChanges
<1> QED BY <1>3, <1>4, SpaceConstants DEF UserFree, Total

\* vaddr_get finds addresses that are free, and pages there that are not mapped.
LEMMA VaddrGets ==
  ASSUME SpaceTypes, BitsAreTables, NEW p \in Proc, NEW n \in Nat \ {0},
         NEW i, i = VaddrGet(p, n), i # -1
  PROVE  /\ i \in VPage /\ i .. i + n - 1 \subseteq VPage
         /\ (i .. i + n - 1) \cap mapped[p] = {}
<1> DEFINE bs == vaddr_bitmap[p]
<1>1. ProcPages \in Nat /\ bs \in SUBSET Nat /\ mapped[p] \subseteq bs
  BY SpaceConstants DEF SpaceTypes, VPage, BitsAreTables
<1>2. bitmap_scan(bs, ProcPages, n) = i
  BY DEF VaddrGet
<1> HIDE DEF bs
<1>3. i \in Nat /\ i + n =< ProcPages /\ \A k \in i .. i + n - 1 : k \notin bs
  <2> HIDE DEF VaddrGet
  <2>1. bitmap_scan(bs, ProcPages, n) # -1
    BY <1>2
  <2>2. LET j == bitmap_scan(bs, ProcPages, n)
        IN  j \in Nat /\ j + n =< ProcPages /\ \A k \in j .. j + n - 1 : k \notin bs
    BY <1>1, <2>1, ScanFinds
  <2> QED BY <1>2, <2>2
<1>4. i \in VPage /\ i .. i + n - 1 \subseteq VPage
  BY <1>1, <1>3 DEF VPage
<1> QED BY <1>1, <1>3, <1>4

\* malloc_page, with or without enough pages
LEMMA PagesGot ==
  ASSUME SpaceTypes, BitsAreTables, NEW p \in Proc, NEW n \in Nat \ {0}, NEW i \in VPage,
         i .. i + n - 1 \subseteq VPage, ~Wild(p, i, n), MallocPage(p, i, n)
  PROVE  /\ mapped' \in [Proc -> SUBSET VPage] /\ page_tables' \in [Proc -> SUBSET VPage]
         /\ vaddr_bitmap' \in [Proc -> SUBSET VPage] /\ holed' \in [Proc -> BOOLEAN]
         /\ kfree' \in Nat
         /\ kfree' + Cardinality(page_tables'[p]) = kfree + Cardinality(page_tables[p])
         /\ SameBits(vaddr_bitmap'[p], mapped'[p], page_tables'[p], holed'[p])
         /\ mapped[p] \subseteq mapped'[p]
         /\ UserFree >= n => mapped'[p] = mapped[p] \cup i .. i + n - 1
         /\ \A q \in Proc \ {p} :
               /\ vaddr_bitmap'[q] = vaddr_bitmap[q] /\ mapped'[q] = mapped[q]
               /\ page_tables'[q] = page_tables[q] /\ holed'[q] = holed[q]
<1> DEFINE all == i .. i + n - 1
           some == i .. i + (IF UserFree < n THEN UserFree ELSE n) - 1
<1>1. UserFree \in Int /\ i \in Nat /\ kfree \in Nat
  BY UserFreeType DEF SpaceTypes, VPage
<1>2. some \subseteq all /\ (UserFree >= n => some = all)
  <2> HIDE DEF UserFree
  <2>1. CASE UserFree < n
    <3>1. some = i .. i + UserFree - 1
      BY <2>1
    <3> QED BY <1>1, <2>1, <3>1
  <2>2. CASE ~(UserFree < n)
    BY <1>1, <2>2
  <2> QED BY <2>1, <2>2
<1>3. /\ vaddr_bitmap' = [vaddr_bitmap EXCEPT ![p] = vaddr_bitmap[p] \cup all]
      /\ page_table_add(p, some)
      /\ holed' = [holed EXCEPT ![p] = holed[p] \/ UserFree < n]
  BY DEF MallocPage
<1>4. ~(Cardinality(NewTables(p, all)) > kfree) /\ all \in SUBSET VPage
  BY DEF Wild
<1> HIDE DEF some, all
<1>5. Cardinality(NewTables(p, some)) =< kfree /\ some \in SUBSET VPage
  <2>1. NewTables(p, some) \in SUBSET NewTables(p, all)
    BY <1>2 DEF NewTables
  <2>2. NewTables(p, all) \in SUBSET VPage
    BY <1>4, PdeIn DEF NewTables
  <2>3. /\ IsFiniteSet(NewTables(p, all)) /\ Cardinality(NewTables(p, all)) \in Nat
        /\ Cardinality(NewTables(p, some)) \in Nat
    BY <2>1, <2>2, PagesFinite
  <2>4. Cardinality(NewTables(p, some)) =< Cardinality(NewTables(p, all))
    BY <2>1, <2>3, FS_Subset
  <2> QED BY <1>1, <1>2, <1>4, <2>3, <2>4
<1>6. /\ mapped' \in [Proc -> SUBSET VPage] /\ page_tables' \in [Proc -> SUBSET VPage]
      /\ kfree' \in Nat
      /\ mapped'[p] = mapped[p] \cup some
      /\ {Pde(v) : v \in mapped'[p]} \subseteq page_tables'[p]
      /\ kfree' + Cardinality(page_tables'[p]) = kfree + Cardinality(page_tables[p])
      /\ \A q \in Proc \ {p} : mapped'[q] = mapped[q] /\ page_tables'[q] = page_tables[q]
  BY <1>3, <1>5, TablesAdded
<1>7. /\ vaddr_bitmap' \in [Proc -> SUBSET VPage] /\ holed' \in [Proc -> BOOLEAN]
      /\ vaddr_bitmap'[p] = vaddr_bitmap[p] \cup all
      /\ holed'[p] <=> holed[p] \/ UserFree < n
      /\ \A q \in Proc \ {p} : vaddr_bitmap'[q] = vaddr_bitmap[q] /\ holed'[q] = holed[q]
  <2>1. vaddr_bitmap \in [Proc -> SUBSET VPage] /\ holed \in [Proc -> BOOLEAN]
    BY DEF SpaceTypes
  <2>2. (holed[p] \/ UserFree < n) \in BOOLEAN
    OBVIOUS
  <2> HIDE DEF UserFree
  <2> QED BY <1>3, <1>4, <2>1, <2>2
<1>8. SameBits(vaddr_bitmap'[p], mapped'[p], page_tables'[p], holed'[p])
  <2>1. mapped[p] \subseteq vaddr_bitmap[p] /\ (mapped[p] # vaddr_bitmap[p] => holed[p])
    BY DEF BitsAreTables
  <2>2. mapped'[p] \subseteq vaddr_bitmap'[p]
    BY <1>2, <1>6, <1>7, <2>1
  <2>3. ASSUME mapped'[p] # vaddr_bitmap'[p] PROVE holed'[p]
    <3>1. UserFree < n \/ some = all
      BY <1>1, <1>2
    <3> QED BY <1>6, <1>7, <2>1, <2>3, <3>1
  <2> QED BY <1>6, <2>2, <2>3 DEF SameBits
<1> QED BY <1>2, <1>6, <1>7, <1>8 DEF all

\* What a process that works is, and what keeps it working
LEMMA WorksIs ==
  ASSUME SpaceInv, NEW p \in Proc, Runs(p)
  PROVE  /\ halt = "no" /\ life[p] = "run" /\ SpaceTypes /\ BitsAreTables
         /\ Heap(arena[p], free_list[p], owned[p], mapped[p])
         /\ SameBits(vaddr_bitmap[p], mapped[p], page_tables[p], holed[p])
BY DEF SpaceInv, Runs, HeapsKept, BitsAreTables, SameBits

\* A process that lives on pays for its page tables.
LEMMA TablesPaid ==
  ASSUME SpaceTypes, SpaceTypes', NEW p \in Proc, lost' = lost,
         life[p] \in {"run", "spoilt"}, life'[p] \in {"run", "spoilt"},
         kfree' + Cardinality(page_tables'[p]) = kfree + Cardinality(page_tables[p])
  PROVE  kfree' + lost' + Holds(life'[p], page_tables'[p])
         = kfree + lost + Holds(life[p], page_tables[p])
<1>1. /\ page_tables[p] \in SUBSET VPage /\ page_tables'[p] \in SUBSET VPage
      /\ kfree \in Nat /\ kfree' \in Nat /\ lost \in Nat
  BY DEF SpaceTypes
<1>2. Cardinality(page_tables[p]) \in Nat /\ Cardinality(page_tables'[p]) \in Nat
  BY <1>1, PagesFinite
<1>3. /\ Holds(life[p], page_tables[p]) = 2 + BitmapPages + Cardinality(page_tables[p])
      /\ Holds(life'[p], page_tables'[p]) = 2 + BitmapPages + Cardinality(page_tables'[p])
  BY DEF Holds
<1>4. PICK a, b : a = Holds(life[p], page_tables[p]) /\ b = Holds(life'[p], page_tables'[p])
  OBVIOUS
<1>5. a = 25 + Cardinality(page_tables[p]) /\ b = 25 + Cardinality(page_tables'[p])
  BY <1>2, <1>3, <1>4, BitmapPagesAre
<1>6. kfree' + lost + b = kfree + lost + a
  BY <1>1, <1>2, <1>5
<1> QED BY <1>4, <1>6

\* malloc of more than 1024 bytes
LEMMA MallocLargeKeeps ==
  ASSUME SpaceInv, NEW p \in Proc, NEW n \in 1 .. MaxPages, MallocLarge(p, n)
  PROVE  SpaceInv'
<1> DEFINE i == VaddrGet(p, n)
<1>1. Works(p) /\ i # -1 /\ Runs(p) /\ n \in Nat \ {0}
  BY SpaceConstants DEF MallocLarge, Works
<1>2. /\ halt = "no" /\ life[p] = "run" /\ SpaceTypes /\ BitsAreTables
      /\ Heap(arena[p], free_list[p], owned[p], mapped[p])
  BY <1>1, WorksIs
<1>3. i \in VPage /\ i .. i + n - 1 \subseteq VPage /\ (i .. i + n - 1) \cap mapped[p] = {}
  <2> HIDE DEF i
  <2>1. i = VaddrGet(p, n)
    BY DEF i
  <2> QED BY <1>1, <1>2, <2>1, VaddrGets
<1>4. CASE Wild(p, i, n)
  BY <1>4, HaltKeeps DEF MallocLarge
<1>5. CASE ~Wild(p, i, n)
  <2>1. /\ MallocPage(p, i, n) /\ UNCHANGED <<life, parent, free_list, lost, halt>>
        /\ \/ UserFree < n /\ UNCHANGED <<arena, owned>>
           \/ /\ ~(UserFree < n)
              /\ arena' = [arena EXCEPT ![p] = With(arena[p], i, "large", n)]
              /\ owned' = [owned EXCEPT ![p] = owned[p] \cup {<<i, 0>>}]
    BY <1>5 DEF MallocLarge
  <2> HIDE DEF i
  <2>2. /\ mapped' \in [Proc -> SUBSET VPage] /\ page_tables' \in [Proc -> SUBSET VPage]
        /\ vaddr_bitmap' \in [Proc -> SUBSET VPage] /\ holed' \in [Proc -> BOOLEAN]
        /\ kfree' \in Nat
        /\ kfree' + Cardinality(page_tables'[p]) = kfree + Cardinality(page_tables[p])
        /\ SameBits(vaddr_bitmap'[p], mapped'[p], page_tables'[p], holed'[p])
        /\ mapped[p] \subseteq mapped'[p]
        /\ UserFree >= n => mapped'[p] = mapped[p] \cup i .. i + n - 1
        /\ \A q \in Proc \ {p} :
              /\ vaddr_bitmap'[q] = vaddr_bitmap[q] /\ mapped'[q] = mapped[q]
              /\ page_tables'[q] = page_tables[q] /\ holed'[q] = holed[q]
    BY <1>1, <1>2, <1>3, <1>5, <2>1, PagesGot
  <2>3. SpaceTypes'
    <3>1. arena' = [q \in Proc |-> arena'[q]] /\ owned' = [q \in Proc |-> owned'[q]]
      BY <1>2, <2>1 DEF SpaceTypes
    <3> QED BY <1>2, <2>1, <2>2, <3>1 DEF SpaceTypes
  <2>4. \A q \in Proc \ {p} : arena'[q] = arena[q] /\ owned'[q] = owned[q]
    BY <1>2, <2>1 DEF SpaceTypes
  <2>5. Heap(arena'[p], free_list'[p], owned'[p], mapped'[p])
    <3>1. CASE UserFree < n
      <4>1. arena' = arena /\ owned' = owned /\ free_list' = free_list
        BY <2>1, <3>1
      <4>2. Heap(arena[p], free_list[p], owned[p], mapped'[p])
        BY <1>2, <2>2, HeapGrows
      <4> QED BY <4>1, <4>2
    <3>2. CASE ~(UserFree < n)
      <4>1. /\ arena'[p] = With(arena[p], i, "large", n)
            /\ owned'[p] = owned[p] \cup {<<i, 0>>} /\ free_list' = free_list
        BY <1>2, <2>1, <3>2 DEF SpaceTypes
      <4>2. UserFree \in Int /\ n \in Nat
        BY <1>1, <1>2, UserFreeType
      <4>3. mapped'[p] = mapped[p] \cup i .. i + n - 1
        <5> HIDE DEF UserFree
        <5> QED BY <2>2, <3>2, <4>2
      <4>4. Heap(With(arena[p], i, "large", n), free_list[p], owned[p] \cup {<<i, 0>>},
                 mapped[p] \cup i .. i + n - 1)
        BY <1>1, <1>2, <1>3, LargeAdded
      <4> QED BY <4>1, <4>3, <4>4
    <3> QED BY <3>1, <3>2
  <2>6. kfree' + lost' + Holds(life'[p], page_tables'[p])
        = kfree + lost + Holds(life[p], page_tables[p])
    BY <1>2, <2>1, <2>2, <2>3, TablesPaid
  <2> QED BY <1>2, <2>1, <2>2, <2>3, <2>4, <2>5, <2>6, OneChanges
<1> QED BY <1>4, <1>5

\* malloc from the free list
LEMMA MallocSmallKeeps ==
  ASSUME SpaceInv, NEW p \in Proc, MallocSmall(p)
  PROVE  SpaceInv'
<1>1. /\ Runs(p) /\ free_list[p] # <<>>
      /\ UNCHANGED <<life, vaddr_bitmap, mapped, page_tables, kfree, holed, lost, halt>>
  BY DEF MallocSmall, Works, spaceVars
<1>2. /\ halt = "no" /\ life[p] = "run" /\ SpaceTypes
      /\ Heap(arena[p], free_list[p], owned[p], mapped[p])
      /\ SameBits(vaddr_bitmap[p], mapped[p], page_tables[p], holed[p])
  BY <1>1, WorksIs
<1>3. PICK b : b = Head(free_list[p])
  OBVIOUS
<1>4. /\ owned' = [owned EXCEPT ![p] = owned[p] \cup {b}]
      /\ arena' = [arena EXCEPT ![p][b[1]].cnt = @ - 1]
      /\ free_list' = [free_list EXCEPT ![p] = Tail(free_list[p])]
  BY <1>3 DEF MallocSmall
<1>5. /\ owned'[p] = owned[p] \cup {b} /\ free_list'[p] = Tail(free_list[p])
      /\ arena'[p] = [arena[p] EXCEPT ![b[1]].cnt = @ - 1]
      /\ \A q \in Proc \ {p} : arena'[q] = arena[q] /\ owned'[q] = owned[q] /\ free_list'[q] = free_list[q]
      /\ arena' = [q \in Proc |-> arena'[q]] /\ owned' = [q \in Proc |-> owned'[q]]
      /\ free_list' = [q \in Proc |-> free_list'[q]]
  BY <1>2, <1>4 DEF SpaceTypes
<1>6. Heap(arena'[p], free_list'[p], owned'[p], mapped'[p])
  <2>1. Heap(arena'[p], Tail(free_list[p]), owned[p] \cup {Head(free_list[p])}, mapped[p])
    BY <1>1, <1>2, <1>3, <1>5, BlockTaken
  <2> QED BY <1>1, <1>3, <1>5, <2>1
<1>7. SpaceTypes'
  BY <1>1, <1>2, <1>5 DEF SpaceTypes
<1>8. kfree' + lost' + Holds(life'[p], page_tables'[p])
      = kfree + lost + Holds(life[p], page_tables[p])
  BY <1>1
<1> QED BY <1>1, <1>2, <1>5, <1>6, <1>7, <1>8, OneChanges

\* malloc that begins an arena
LEMMA MallocArenaKeeps ==
  ASSUME SpaceInv, NEW p \in Proc, MallocArena(p)
  PROVE  SpaceInv'
<1> DEFINE i == VaddrGet(p, 1)
<1>1. Works(p) /\ i # -1 /\ Runs(p) /\ free_list[p] = <<>> /\ 1 \in Nat \ {0}
  BY DEF MallocArena, Works
<1>2. /\ halt = "no" /\ life[p] = "run" /\ SpaceTypes /\ BitsAreTables
      /\ Heap(arena[p], free_list[p], owned[p], mapped[p])
  BY <1>1, WorksIs
<1>3. i \in VPage /\ i .. i + 1 - 1 \subseteq VPage /\ (i .. i + 1 - 1) \cap mapped[p] = {}
  <2> HIDE DEF i
  <2>1. i = VaddrGet(p, 1)
    BY DEF i
  <2> QED BY <1>1, <1>2, <2>1, VaddrGets
<1>4. CASE Wild(p, i, 1)
  BY <1>4, HaltKeeps DEF MallocArena
<1>5. CASE ~Wild(p, i, 1)
  <2>1. /\ MallocPage(p, i, 1) /\ UNCHANGED <<life, parent, lost, halt>>
        /\ \/ UserFree < 1 /\ UNCHANGED <<arena, free_list, owned>>
           \/ /\ ~(UserFree < 1)
              /\ arena' = [arena EXCEPT ![p] = With(arena[p], i, "mine", PerArena - 1)]
              /\ free_list' = [free_list EXCEPT ![p] = Tail(Block(i))]
              /\ owned' = [owned EXCEPT ![p] = owned[p] \cup {Block(i)[1]}]
    BY <1>5 DEF MallocArena
  <2> HIDE DEF i
  <2>2. /\ mapped' \in [Proc -> SUBSET VPage] /\ page_tables' \in [Proc -> SUBSET VPage]
        /\ vaddr_bitmap' \in [Proc -> SUBSET VPage] /\ holed' \in [Proc -> BOOLEAN]
        /\ kfree' \in Nat
        /\ kfree' + Cardinality(page_tables'[p]) = kfree + Cardinality(page_tables[p])
        /\ SameBits(vaddr_bitmap'[p], mapped'[p], page_tables'[p], holed'[p])
        /\ mapped[p] \subseteq mapped'[p]
        /\ UserFree >= 1 => mapped'[p] = mapped[p] \cup i .. i + 1 - 1
        /\ \A q \in Proc \ {p} :
              /\ vaddr_bitmap'[q] = vaddr_bitmap[q] /\ mapped'[q] = mapped[q]
              /\ page_tables'[q] = page_tables[q] /\ holed'[q] = holed[q]
    BY <1>1, <1>2, <1>3, <1>5, <2>1, PagesGot
  <2>3. SpaceTypes'
    <3>1. /\ arena' = [q \in Proc |-> arena'[q]] /\ owned' = [q \in Proc |-> owned'[q]]
          /\ free_list' = [q \in Proc |-> free_list'[q]]
      BY <1>2, <2>1 DEF SpaceTypes
    <3> QED BY <1>2, <2>1, <2>2, <3>1 DEF SpaceTypes
  <2>4. \A q \in Proc \ {p} : arena'[q] = arena[q] /\ owned'[q] = owned[q] /\ free_list'[q] = free_list[q]
    BY <1>2, <2>1 DEF SpaceTypes
  <2>5. Heap(arena'[p], free_list'[p], owned'[p], mapped'[p])
    <3>1. CASE UserFree < 1
      <4>1. arena' = arena /\ owned' = owned /\ free_list' = free_list
        BY <2>1, <3>1
      <4>2. Heap(arena[p], free_list[p], owned[p], mapped'[p])
        BY <1>2, <2>2, HeapGrows
      <4> QED BY <4>1, <4>2
    <3>2. CASE ~(UserFree < 1)
      <4>1. /\ arena'[p] = With(arena[p], i, "mine", PerArena - 1)
            /\ owned'[p] = owned[p] \cup {Block(i)[1]} /\ free_list'[p] = Tail(Block(i))
        BY <1>2, <2>1, <3>2 DEF SpaceTypes
      <4>2. UserFree \in Int
        BY <1>2, UserFreeType
      <4>3. mapped'[p] = mapped[p] \cup i .. i + 1 - 1
        <5> HIDE DEF UserFree
        <5> QED BY <2>2, <3>2, <4>2
      <4>4. i \notin mapped[p]
        BY <1>3 DEF VPage
      <4>5. Heap(arena[p], <<>>, owned[p], mapped[p])
        BY <1>1, <1>2
      <4>6. Heap(With(arena[p], i, "mine", PerArena - 1), Tail(Block(i)), owned[p] \cup {Block(i)[1]},
                 mapped[p] \cup i .. i + 1 - 1)
        BY <1>3, <4>4, <4>5, SmallAdded
      <4> QED BY <4>1, <4>3, <4>6
    <3> QED BY <3>1, <3>2
  <2>6. kfree' + lost' + Holds(life'[p], page_tables'[p])
        = kfree + lost + Holds(life[p], page_tables[p])
    BY <1>2, <2>1, <2>2, <2>3, TablesPaid
  <2> QED BY <1>2, <2>1, <2>2, <2>3, <2>4, <2>5, <2>6, OneChanges
<1> QED BY <1>4, <1>5

\* mfree_page gives the pages of an arena back, in the bitmap and in the tables.
LEMMA PagesFreed ==
  ASSUME SpaceTypes, BitsAreTables, NEW p \in Proc, NEW i, NEW n, mfree_page(p, i, n)
  PROVE  /\ mapped' \in [Proc -> SUBSET VPage] /\ vaddr_bitmap' \in [Proc -> SUBSET VPage]
         /\ page_tables' = page_tables /\ kfree' = kfree
         /\ arena' = [q \in Proc |-> arena'[q]]
         /\ arena'[p] = [v \in DOMAIN arena[p] \ {i} |-> arena[p][v]]
         /\ mapped'[p] = mapped[p] \ (i .. i + n - 1)
         /\ SameBits(vaddr_bitmap'[p], mapped'[p], page_tables[p], holed[p])
         /\ \A q \in Proc \ {p} : /\ vaddr_bitmap'[q] = vaddr_bitmap[q] /\ mapped'[q] = mapped[q]
                                  /\ arena'[q] = arena[q]
<1> DEFINE vs == i .. i + n - 1
<1>1. /\ vaddr_bitmap' = [vaddr_bitmap EXCEPT ![p] = vaddr_bitmap[p] \ vs]
      /\ mapped' = [mapped EXCEPT ![p] = mapped[p] \ vs]
      /\ arena' = [arena EXCEPT ![p] = [v \in DOMAIN arena[p] \ {i} |-> arena[p][v]]]
      /\ page_tables' = page_tables /\ kfree' = kfree
  BY DEF mfree_page
<1> HIDE DEF vs
<1>2. /\ vaddr_bitmap \in [Proc -> SUBSET VPage] /\ mapped \in [Proc -> SUBSET VPage]
      /\ arena = [q \in Proc |-> arena[q]]
  BY DEF SpaceTypes
<1>3. /\ vaddr_bitmap' \in [Proc -> SUBSET VPage] /\ mapped' \in [Proc -> SUBSET VPage]
      /\ vaddr_bitmap'[p] = vaddr_bitmap[p] \ vs /\ mapped'[p] = mapped[p] \ vs
      /\ \A q \in Proc \ {p} : vaddr_bitmap'[q] = vaddr_bitmap[q] /\ mapped'[q] = mapped[q]
  BY <1>1, <1>2
<1>4. /\ arena' = [q \in Proc |-> arena'[q]]
      /\ arena'[p] = [v \in DOMAIN arena[p] \ {i} |-> arena[p][v]]
      /\ \A q \in Proc \ {p} : arena'[q] = arena[q]
  BY <1>1, <1>2
<1>5. SameBits(vaddr_bitmap'[p], mapped'[p], page_tables[p], holed[p])
  <2>1. /\ mapped[p] \subseteq vaddr_bitmap[p] /\ (mapped[p] # vaddr_bitmap[p] => holed[p])
        /\ \A v \in mapped[p] : Pde(v) \in page_tables[p]
    BY DEF BitsAreTables
  <2> QED BY <1>3, <2>1 DEF SameBits
<1> QED BY <1>1, <1>3, <1>4, <1>5 DEF vs

\* sys_free of a block, of the last block in its arena, of a large block
LEMMA FreeKeeps ==
  ASSUME SpaceInv, NEW p \in Proc, NEW b \in owned[p], Free(p, b)
  PROVE  SpaceInv'
<1> DEFINE a == arena[p][b[1]]
           list == Append(free_list[p], b)
           whole == Range(Block(b[1]))
<1>1. /\ Runs(p) /\ UNCHANGED <<life, holed, lost>>
      /\ owned' = [owned EXCEPT ![p] = owned[p] \ {b}]
  BY DEF Free, Works
<1>2. /\ halt = "no" /\ life[p] = "run" /\ SpaceTypes /\ BitsAreTables
      /\ Heap(arena[p], free_list[p], owned[p], mapped[p])
      /\ SameBits(vaddr_bitmap[p], mapped[p], page_tables[p], holed[p])
  BY <1>1, WorksIs
<1>3. /\ owned'[p] = owned[p] \ {b} /\ owned' = [q \in Proc |-> owned'[q]]
      /\ \A q \in Proc \ {p} : owned'[q] = owned[q]
  BY <1>1, <1>2 DEF SpaceTypes
<1>4. CASE a.kind = "large" /\ mfree_page(p, b[1], a.cnt) /\ UNCHANGED <<free_list, halt>>
  <2>1. /\ mapped' \in [Proc -> SUBSET VPage] /\ vaddr_bitmap' \in [Proc -> SUBSET VPage]
        /\ page_tables' = page_tables /\ kfree' = kfree
        /\ arena' = [q \in Proc |-> arena'[q]]
        /\ arena'[p] = [v \in DOMAIN arena[p] \ {b[1]} |-> arena[p][v]]
        /\ mapped'[p] = mapped[p] \ (b[1] .. b[1] + a.cnt - 1)
        /\ SameBits(vaddr_bitmap'[p], mapped'[p], page_tables[p], holed[p])
        /\ \A q \in Proc \ {p} : /\ vaddr_bitmap'[q] = vaddr_bitmap[q] /\ mapped'[q] = mapped[q]
                                 /\ arena'[q] = arena[q]
    BY <1>2, <1>4, PagesFreed
  <2>2. Span(arena[p], b[1]) = b[1] .. b[1] + a.cnt - 1
    BY <1>4 DEF Span
  <2>3. Heap(arena'[p], free_list[p], owned[p] \ {b}, mapped[p] \ Span(arena[p], b[1]))
    <3>1. arena[p][b[1]].kind = "large"
      BY <1>4
    <3> QED BY <1>2, <2>1, <3>1, LargeFreed
  <2>4. Heap(arena'[p], free_list'[p], owned'[p], mapped'[p])
    BY <1>3, <1>4, <2>1, <2>2, <2>3
  <2>5. SpaceTypes'
    BY <1>1, <1>2, <1>3, <1>4, <2>1 DEF SpaceTypes
  <2> HIDE DEF a
  <2> QED BY <1>1, <1>2, <1>3, <1>4, <2>1, <2>4, <2>5, OneChanges
<1>5. CASE /\ a.kind = "mine" /\ a.cnt + 1 < PerArena
           /\ free_list' = [free_list EXCEPT ![p] = list]
           /\ arena' = [arena EXCEPT ![p][b[1]].cnt = @ + 1]
           /\ UNCHANGED <<spaceVars, halt>>
  <2>1. UNCHANGED <<vaddr_bitmap, mapped, page_tables, kfree, halt>>
    BY <1>5 DEF spaceVars
  <2>2. /\ free_list'[p] = list
        /\ arena'[p] = [arena[p] EXCEPT ![b[1]].cnt = @ + 1]
        /\ \A q \in Proc \ {p} : arena'[q] = arena[q] /\ free_list'[q] = free_list[q]
        /\ arena' = [q \in Proc |-> arena'[q]] /\ free_list' = [q \in Proc |-> free_list'[q]]
    BY <1>2, <1>5 DEF SpaceTypes
  <2>3. Heap(arena'[p], list, owned[p] \ {b}, mapped[p])
    BY <1>2, <1>5, <2>2, BlockGiven
  <2>4. SpaceTypes'
    BY <1>1, <1>2, <1>3, <2>1, <2>2 DEF SpaceTypes
  <2> HIDE DEF a, list
  <2> QED BY <1>1, <1>2, <1>3, <2>1, <2>2, <2>3, <2>4, OneChanges
<1>6. CASE /\ a.kind = "mine" /\ a.cnt + 1 = PerArena
           /\ free_list' = [free_list EXCEPT ![p] = Without(list, whole)]
           /\ halt' = IF whole \subseteq Range(list) THEN "no" ELSE "assert"
           /\ mfree_page(p, b[1], 1)
  <2>1. /\ mapped' \in [Proc -> SUBSET VPage] /\ vaddr_bitmap' \in [Proc -> SUBSET VPage]
        /\ page_tables' = page_tables /\ kfree' = kfree
        /\ arena' = [q \in Proc |-> arena'[q]]
        /\ arena'[p] = [v \in DOMAIN arena[p] \ {b[1]} |-> arena[p][v]]
        /\ mapped'[p] = mapped[p] \ (b[1] .. b[1] + 1 - 1)
        /\ SameBits(vaddr_bitmap'[p], mapped'[p], page_tables[p], holed[p])
        /\ \A q \in Proc \ {p} : /\ vaddr_bitmap'[q] = vaddr_bitmap[q] /\ mapped'[q] = mapped[q]
                                 /\ arena'[q] = arena[q]
    BY <1>2, <1>6, PagesFreed
  <2>2. Span(arena[p], b[1]) = b[1] .. b[1] + 1 - 1
    BY <1>6 DEF Span
  <2>3. /\ whole \subseteq Range(list)
        /\ Heap(arena'[p], Without(list, whole), owned[p] \ {b}, mapped[p] \ Span(arena[p], b[1]))
    BY <1>2, <1>6, <2>1, ArenaFreed
  <2>4. /\ free_list'[p] = Without(list, whole) /\ free_list' = [q \in Proc |-> free_list'[q]]
        /\ \A q \in Proc \ {p} : free_list'[q] = free_list[q]
    <3> HIDE DEF list, whole
    <3> QED BY <1>2, <1>6 DEF SpaceTypes
  <2>5. halt' = "no"
    BY <1>6, <2>3
  <2> HIDE DEF list, whole
  <2>6. Heap(arena'[p], free_list'[p], owned'[p], mapped'[p])
    BY <1>3, <2>1, <2>2, <2>3, <2>4
  <2>7. SpaceTypes'
    BY <1>1, <1>2, <1>3, <2>1, <2>4, <2>5 DEF SpaceTypes
  <2> HIDE DEF a
  <2> QED BY <1>1, <1>2, <1>3, <2>1, <2>4, <2>5, <2>6, <2>7, OneChanges
<1> QED BY <1>4, <1>5, <1>6 DEF Free

\* segment_load: what was not mapped is, and the bitmap says so.
LEMMA PagesLoaded ==
  ASSUME SpaceTypes, BitsAreTables, NEW p \in Proc, NEW vs \in SUBSET VPage, Loads(p, vs)
  PROVE  /\ mapped' \in [Proc -> SUBSET VPage] /\ page_tables' \in [Proc -> SUBSET VPage]
         /\ vaddr_bitmap' \in [Proc -> SUBSET VPage] /\ kfree' \in Nat
         /\ kfree' + Cardinality(page_tables'[p]) = kfree + Cardinality(page_tables[p])
         /\ SameBits(vaddr_bitmap'[p], mapped'[p], page_tables'[p], holed[p])
         /\ mapped[p] \subseteq mapped'[p]
         /\ \A q \in Proc \ {p} : /\ vaddr_bitmap'[q] = vaddr_bitmap[q] /\ mapped'[q] = mapped[q]
                                  /\ page_tables'[q] = page_tables[q]
<1> DEFINE more == vs \ mapped[p]
<1>1. /\ Cardinality(NewTables(p, more)) =< kfree /\ page_table_add(p, more)
      /\ vaddr_bitmap' = [vaddr_bitmap EXCEPT ![p] = vaddr_bitmap[p] \cup vs]
      /\ more \in SUBSET VPage /\ mapped[p] \cup more = mapped[p] \cup vs
  BY DEF Loads, Load
<1> HIDE DEF more
<1>2. /\ mapped' \in [Proc -> SUBSET VPage] /\ page_tables' \in [Proc -> SUBSET VPage]
      /\ kfree' \in Nat
      /\ mapped'[p] = mapped[p] \cup more
      /\ {Pde(v) : v \in mapped'[p]} \subseteq page_tables'[p]
      /\ kfree' + Cardinality(page_tables'[p]) = kfree + Cardinality(page_tables[p])
      /\ \A q \in Proc \ {p} : mapped'[q] = mapped[q] /\ page_tables'[q] = page_tables[q]
  BY <1>1, TablesAdded
<1>3. /\ vaddr_bitmap' \in [Proc -> SUBSET VPage]
      /\ vaddr_bitmap'[p] = vaddr_bitmap[p] \cup vs
      /\ \A q \in Proc \ {p} : vaddr_bitmap'[q] = vaddr_bitmap[q]
  <2>1. vaddr_bitmap \in [Proc -> SUBSET VPage]
    BY DEF SpaceTypes
  <2> QED BY <1>1, <2>1
<1>4. SameBits(vaddr_bitmap'[p], mapped'[p], page_tables'[p], holed[p])
  <2>1. mapped[p] \subseteq vaddr_bitmap[p] /\ (mapped[p] # vaddr_bitmap[p] => holed[p])
    BY DEF BitsAreTables
  <2> QED BY <1>1, <1>2, <1>3, <2>1 DEF SameBits
<1> QED BY <1>1, <1>2, <1>3, <1>4

\* exec: the old heap is forgotten, its pages are not.
LEMMA ExecKeeps ==
  ASSUME SpaceInv, NEW p \in Proc, NEW g \in Programs, Exec(p, g)
  PROVE  SpaceInv'
<1>1. Runs(p) /\ g \in SUBSET VPage
  BY SpaceConstants DEF Exec, Works, VPage
<1>2. halt = "no" /\ life[p] = "run" /\ SpaceTypes /\ BitsAreTables
  BY <1>1, WorksIs
<1>3. CASE LoadStops(p, g)
  <2>1. PICK what \in {"oom", "wild"} : Halt(what)
    BY <1>3 DEF LoadStops
  <2> QED BY <2>1, HaltKeeps
<1>4. CASE ~LoadStops(p, g)
  <2>1. /\ Loads(p, g) /\ UNCHANGED <<life, holed, lost, halt>>
        /\ arena' = [arena EXCEPT ![p] = NoArenas]
        /\ free_list' = [free_list EXCEPT ![p] = <<>>]
        /\ owned' = [owned EXCEPT ![p] = {}]
    BY <1>4 DEF Exec
  <2>2. /\ mapped' \in [Proc -> SUBSET VPage] /\ page_tables' \in [Proc -> SUBSET VPage]
        /\ vaddr_bitmap' \in [Proc -> SUBSET VPage] /\ kfree' \in Nat
        /\ kfree' + Cardinality(page_tables'[p]) = kfree + Cardinality(page_tables[p])
        /\ SameBits(vaddr_bitmap'[p], mapped'[p], page_tables'[p], holed[p])
        /\ \A q \in Proc \ {p} : /\ vaddr_bitmap'[q] = vaddr_bitmap[q] /\ mapped'[q] = mapped[q]
                                 /\ page_tables'[q] = page_tables[q]
    BY <1>1, <1>2, <2>1, PagesLoaded
  <2>3. /\ arena'[p] = NoArenas /\ free_list'[p] = <<>> /\ owned'[p] = {}
        /\ arena' = [q \in Proc |-> arena'[q]] /\ owned' = [q \in Proc |-> owned'[q]]
        /\ free_list' = [q \in Proc |-> free_list'[q]]
        /\ \A q \in Proc \ {p} : /\ arena'[q] = arena[q] /\ free_list'[q] = free_list[q]
                                 /\ owned'[q] = owned[q]
    BY <1>2, <2>1 DEF SpaceTypes
  <2>4. Heap(arena'[p], free_list'[p], owned'[p], mapped'[p])
    BY <2>3, EmptyHeap
  <2>5. SpaceTypes'
    BY <1>2, <2>1, <2>2, <2>3 DEF SpaceTypes
  <2>6. kfree' + lost' + Holds(life'[p], page_tables'[p])
        = kfree + lost + Holds(life[p], page_tables[p])
    BY <1>2, <2>1, <2>2, <2>5, TablesPaid
  <2> QED BY <1>2, <2>1, <2>2, <2>3, <2>4, <2>5, <2>6, OneChanges
<1> QED BY <1>3, <1>4

\* An exec that fails after some pages are loaded leaves the heap alone or spoilt.
LEMMA ExecFailsKeeps ==
  ASSUME SpaceInv, NEW p \in Proc, NEW vs \in SUBSET VPage, ExecFails(p, vs)
  PROVE  SpaceInv'
<1>1. /\ Runs(p) /\ Loads(p, vs)
      /\ UNCHANGED <<arena, free_list, owned, holed, lost, halt>>
  BY DEF ExecFails, Works
<1>2. /\ halt = "no" /\ life[p] = "run" /\ SpaceTypes /\ BitsAreTables
      /\ Heap(arena[p], free_list[p], owned[p], mapped[p])
  BY <1>1, WorksIs
<1>3. /\ life' \in [Proc -> {"none", "run", "spoilt", "hang"}] /\ life'[p] \in {"run", "spoilt"}
      /\ \A q \in Proc \ {p} : life'[q] = life[q]
  <2>1. life \in [Proc -> {"none", "run", "spoilt", "hang"}]
    BY <1>2 DEF SpaceTypes
  <2>2. PICK lf \in {"spoilt", life[p]} : life' = [life EXCEPT ![p] = lf]
    BY DEF ExecFails
  <2> QED BY <1>2, <2>1, <2>2
<1>4. /\ mapped' \in [Proc -> SUBSET VPage] /\ page_tables' \in [Proc -> SUBSET VPage]
      /\ vaddr_bitmap' \in [Proc -> SUBSET VPage] /\ kfree' \in Nat
      /\ kfree' + Cardinality(page_tables'[p]) = kfree + Cardinality(page_tables[p])
      /\ SameBits(vaddr_bitmap'[p], mapped'[p], page_tables'[p], holed[p])
      /\ mapped[p] \subseteq mapped'[p]
      /\ \A q \in Proc \ {p} : /\ vaddr_bitmap'[q] = vaddr_bitmap[q] /\ mapped'[q] = mapped[q]
                               /\ page_tables'[q] = page_tables[q]
  BY <1>1, <1>2, PagesLoaded
<1>5. Heap(arena[p], free_list[p], owned[p], mapped'[p])
  BY <1>2, <1>4, HeapGrows
<1>6. SpaceTypes'
  BY <1>1, <1>2, <1>3, <1>4 DEF SpaceTypes
<1>7. kfree' + lost' + Holds(life'[p], page_tables'[p])
      = kfree + lost + Holds(life[p], page_tables[p])
  BY <1>1, <1>2, <1>3, <1>4, <1>6, TablesPaid
<1> QED BY <1>1, <1>2, <1>3, <1>4, <1>5, <1>6, <1>7, OneChanges

\* fork: the child starts with copies.
LEMMA ForkKeeps ==
  ASSUME SpaceInv, NEW p \in Proc, NEW q \in Proc, Fork(p, q)
  PROVE  SpaceInv'
<1> DEFINE dirs == {Pde(v) : v \in vaddr_bitmap[p]}
<1>1. /\ Runs(p) /\ life[q] = "none" /\ vaddr_bitmap[p] \subseteq mapped[p]
      /\ kfree >= BitmapPages + 3 + Cardinality(dirs)
      /\ kfree' = kfree - (2 + BitmapPages + Cardinality(dirs))
      /\ lost' = lost /\ halt' = halt
      /\ life' = [life EXCEPT ![q] = "run"]
      /\ vaddr_bitmap' = [vaddr_bitmap EXCEPT ![q] = vaddr_bitmap[p]]
      /\ mapped' = [mapped EXCEPT ![q] = vaddr_bitmap[p]]
      /\ page_tables' = [page_tables EXCEPT ![q] = dirs]
      /\ holed' = [holed EXCEPT ![q] = holed[p]]
  BY DEF Fork
<1>2. /\ arena' = [arena EXCEPT ![q] = [i \in DOMAIN arena[p] |-> Inherited(arena[p][i])]]
      /\ owned' = [owned EXCEPT ![q] = owned[p]]
      /\ free_list' = [free_list EXCEPT ![q] = <<>>]
  BY DEF Fork
<1>3. /\ halt = "no" /\ SpaceTypes
      /\ Heap(arena[p], free_list[p], owned[p], mapped[p])
      /\ SameBits(vaddr_bitmap[p], mapped[p], page_tables[p], holed[p])
  BY <1>1, WorksIs
<1>4. /\ life \in [Proc -> {"none", "run", "spoilt", "hang"}]
      /\ vaddr_bitmap \in [Proc -> SUBSET VPage] /\ mapped \in [Proc -> SUBSET VPage]
      /\ page_tables \in [Proc -> SUBSET VPage] /\ holed \in [Proc -> BOOLEAN]
      /\ kfree \in Nat /\ lost \in Nat
      /\ arena = [x \in Proc |-> arena[x]] /\ owned = [x \in Proc |-> owned[x]]
      /\ free_list = [x \in Proc |-> free_list[x]]
  BY <1>3 DEF SpaceTypes
<1>5. dirs \in SUBSET VPage /\ Cardinality(dirs) \in Nat
  <2>1. dirs \in SUBSET VPage
    BY <1>4, PdeIn
  <2> QED BY <2>1, PagesFinite
<1>6. SameBits(vaddr_bitmap[p], vaddr_bitmap[p], dirs, holed[p]) /\ mapped[p] = vaddr_bitmap[p]
  BY <1>1, <1>3 DEF SameBits
<1> HIDE DEF dirs
<1>7. /\ life' \in [Proc -> {"none", "run", "spoilt", "hang"}]
      /\ vaddr_bitmap' \in [Proc -> SUBSET VPage] /\ mapped' \in [Proc -> SUBSET VPage]
      /\ page_tables' \in [Proc -> SUBSET VPage] /\ holed' \in [Proc -> BOOLEAN]
      /\ life'[q] = "run" /\ vaddr_bitmap'[q] = vaddr_bitmap[p] /\ mapped'[q] = vaddr_bitmap[p]
      /\ page_tables'[q] = dirs /\ holed'[q] = holed[p]
      /\ \A x \in Proc \ {q} : /\ life'[x] = life[x] /\ vaddr_bitmap'[x] = vaddr_bitmap[x]
                               /\ mapped'[x] = mapped[x] /\ page_tables'[x] = page_tables[x]
                               /\ holed'[x] = holed[x]
  BY <1>1, <1>4, <1>5
<1>8. /\ arena' = [x \in Proc |-> arena'[x]] /\ owned' = [x \in Proc |-> owned'[x]]
      /\ free_list' = [x \in Proc |-> free_list'[x]]
      /\ arena'[q] = [i \in DOMAIN arena[p] |-> Inherited(arena[p][i])]
      /\ owned'[q] = owned[p] /\ free_list'[q] = <<>>
      /\ \A x \in Proc \ {q} : /\ arena'[x] = arena[x] /\ owned'[x] = owned[x]
                               /\ free_list'[x] = free_list[x]
  BY <1>2, <1>4
<1>9. Heap(arena'[q], free_list'[q], owned'[q], mapped'[q])
  <2>1. Heap([i \in DOMAIN arena[p] |-> Inherited(arena[p][i])], <<>>, owned[p], mapped[p])
    BY <1>3, HeapCopied
  <2> QED BY <1>6, <1>7, <1>8, <2>1
<1>10. kfree' \in Nat /\ kfree' = kfree - (25 + Cardinality(dirs))
  BY <1>1, <1>4, <1>5, BitmapPagesAre
<1>11. SpaceTypes'
  BY <1>1, <1>3, <1>7, <1>8, <1>10 DEF SpaceTypes
<1>12. kfree' + lost' + Holds(life'[q], page_tables'[q])
       = kfree + lost + Holds(life[q], page_tables[q])
  <2>1. Holds(life[q], page_tables[q]) = 0
    BY <1>1 DEF Holds
  <2>2. Holds(life'[q], page_tables'[q]) = 25 + Cardinality(dirs)
    BY <1>5, <1>7, BitmapPagesAre DEF Holds
  <2> QED BY <1>1, <1>4, <1>5, <1>10, <2>1, <2>2
<1> QED BY <1>1, <1>3, <1>6, <1>7, <1>8, <1>9, <1>11, <1>12, OneChanges

\* A fork for which the kernel has too few pages loses those it took.
LEMMA ForkFailsKeeps ==
  ASSUME SpaceInv, NEW p \in Proc, NEW q \in Proc, ForkFails(p, q)
  PROVE  SpaceInv'
<1>1. /\ Runs(p) /\ kfree' = 0 /\ lost' = lost + kfree
      /\ UNCHANGED <<life, vaddr_bitmap, mapped, page_tables, arena, free_list, owned, holed, halt>>
  BY DEF ForkFails
<1>2. /\ halt = "no" /\ life[p] = "run" /\ SpaceTypes
      /\ Heap(arena[p], free_list[p], owned[p], mapped[p])
      /\ SameBits(vaddr_bitmap[p], mapped[p], page_tables[p], holed[p])
  BY <1>1, WorksIs
<1>3. SpaceTypes'
  BY <1>1, <1>2 DEF SpaceTypes
<1>4. kfree' + lost' + Holds(life'[p], page_tables'[p])
      = kfree + lost + Holds(life[p], page_tables[p])
  BY <1>1, <1>2 DEF SpaceTypes
<1> QED BY <1>1, <1>2, <1>3, <1>4, OneChanges

\* A fork that stops the system
LEMMA ForkStopsKeeps ==
  ASSUME SpaceInv, NEW p \in Proc, NEW q \in Proc, ForkStops(p, q)
  PROVE  SpaceInv'
<1>1. Runs(p)
  BY DEF ForkStops
<1>2. SameBits(vaddr_bitmap[p], mapped[p], page_tables[p], holed[p])
  BY <1>1, WorksIs
<1>3. PICK what \in {"oom", "wild", "hole"} :
         Halt(what) /\ (what = "hole" => ~(vaddr_bitmap[p] \subseteq mapped[p]))
  BY DEF ForkStops
<1>4. what = "hole" => holed[p]
  BY <1>2, <1>3 DEF SameBits
<1> QED BY <1>3, <1>4, HaltKeeps

\* exit gives back all but what the parent will.
LEMMA ExitKeeps ==
  ASSUME SpaceInv, NEW p \in Proc, Exit(p)
  PROVE  SpaceInv'
<1>1. /\ halt = "no" /\ halt' = "no" /\ life[p] \in {"run", "spoilt"} /\ SpaceTypes
      /\ mapped' = [mapped EXCEPT ![p] = {}] /\ page_tables' = [page_tables EXCEPT ![p] = {}]
      /\ vaddr_bitmap' = [vaddr_bitmap EXCEPT ![p] = {}] /\ arena' = [arena EXCEPT ![p] = NoArenas]
      /\ free_list' = [free_list EXCEPT ![p] = <<>>] /\ owned' = [owned EXCEPT ![p] = {}]
      /\ holed' = [holed EXCEPT ![p] = FALSE] /\ life' = [life EXCEPT ![p] = "hang"]
      /\ kfree' = kfree + (Cardinality(page_tables[p]) + 22) /\ lost' = lost + 23 - 22
  BY BitmapPagesAre DEF Exit, Released, SpaceInv
<1>2. /\ life \in [Proc -> {"none", "run", "spoilt", "hang"}]
      /\ vaddr_bitmap \in [Proc -> SUBSET VPage] /\ mapped \in [Proc -> SUBSET VPage]
      /\ page_tables \in [Proc -> SUBSET VPage] /\ holed \in [Proc -> BOOLEAN]
      /\ kfree \in Nat /\ lost \in Nat
      /\ arena = [x \in Proc |-> arena[x]] /\ owned = [x \in Proc |-> owned[x]]
      /\ free_list = [x \in Proc |-> free_list[x]]
  BY <1>1 DEF SpaceTypes
<1>3. page_tables[p] \in SUBSET VPage /\ Cardinality(page_tables[p]) \in Nat
  BY <1>2, PagesFinite
<1>4. /\ life' \in [Proc -> {"none", "run", "spoilt", "hang"}]
      /\ vaddr_bitmap' \in [Proc -> SUBSET VPage] /\ mapped' \in [Proc -> SUBSET VPage]
      /\ page_tables' \in [Proc -> SUBSET VPage] /\ holed' \in [Proc -> BOOLEAN]
      /\ life'[p] = "hang" /\ vaddr_bitmap'[p] = {} /\ mapped'[p] = {} /\ page_tables'[p] = {}
      /\ \A x \in Proc \ {p} : /\ life'[x] = life[x] /\ vaddr_bitmap'[x] = vaddr_bitmap[x]
                               /\ mapped'[x] = mapped[x] /\ page_tables'[x] = page_tables[x]
                               /\ holed'[x] = holed[x]
  BY <1>1, <1>2
<1>5. /\ arena' = [x \in Proc |-> arena'[x]] /\ owned' = [x \in Proc |-> owned'[x]]
      /\ free_list' = [x \in Proc |-> free_list'[x]]
      /\ \A x \in Proc \ {p} : /\ arena'[x] = arena[x] /\ owned'[x] = owned[x]
                               /\ free_list'[x] = free_list[x]
  BY <1>1, <1>2
<1>6. kfree' \in Nat /\ lost' = lost + 1 /\ lost' \in Nat
  BY <1>1, <1>2, <1>3
<1>7. SpaceTypes'
  BY <1>1, <1>4, <1>5, <1>6 DEF SpaceTypes
<1>8. kfree' + lost' + Holds(life'[p], page_tables'[p])
      = kfree + lost + Holds(life[p], page_tables[p])
  <2>1. Holds(life[p], page_tables[p]) = 25 + Cardinality(page_tables[p])
    BY <1>1, <1>3, BitmapPagesAre DEF Holds
  <2>2. Holds(life'[p], page_tables'[p]) = 2
    BY <1>4 DEF Holds
  <2> QED BY <1>1, <1>2, <1>3, <1>6, <2>1, <2>2
<1>9. SameBits(vaddr_bitmap'[p], mapped'[p], page_tables'[p], holed'[p])
  BY <1>4 DEF SameBits
<1> QED BY <1>1, <1>4, <1>5, <1>7, <1>8, <1>9, OneChanges

\* wait gives back the task and the page directory.
LEMMA WaitKeeps ==
  ASSUME SpaceInv, NEW p \in Proc, NEW q \in Proc, Wait(p, q)
  PROVE  SpaceInv'
<1>1. /\ halt = "no" /\ life[q] = "hang" /\ SpaceTypes
      /\ life' = [life EXCEPT ![q] = "none"] /\ kfree' = kfree + 2
      /\ UNCHANGED <<vaddr_bitmap, mapped, page_tables, arena, free_list, owned, holed, lost, halt>>
  BY DEF Wait, Runs, SpaceInv
<1>2. life \in [Proc -> {"none", "run", "spoilt", "hang"}] /\ kfree \in Nat /\ lost \in Nat
  BY <1>1 DEF SpaceTypes
<1>3. /\ life' \in [Proc -> {"none", "run", "spoilt", "hang"}] /\ life'[q] = "none"
      /\ \A x \in Proc \ {q} : life'[x] = life[x]
  BY <1>1, <1>2
<1>4. SpaceTypes'
  BY <1>1, <1>2, <1>3 DEF SpaceTypes
<1>5. SameBits(vaddr_bitmap[q], mapped[q], page_tables[q], holed[q])
  BY DEF SpaceInv, BitsAreTables, SameBits
<1>6. kfree' + lost' + Holds(life'[q], page_tables'[q])
      = kfree + lost + Holds(life[q], page_tables[q])
  <2>1. Holds(life[q], page_tables[q]) = 2 /\ Holds(life'[q], page_tables'[q]) = 0
    BY <1>1, <1>3 DEF Holds
  <2> QED BY <1>1, <1>2, <2>1
<1> QED BY <1>1, <1>3, <1>4, <1>5, <1>6, OneChanges

\* Initially there is init alone, with a page of stack.
LEMMA UserInitInv == UserInit => SpaceInv
<1> SUFFICES ASSUME UserInit PROVE SpaceInv
  OBVIOUS
<1>1. /\ Stack \in VPage /\ First \in Proc
      /\ lost \in Nat /\ lost + 26 =< KernelPages /\ KernelPages \in Nat
      /\ kfree = KernelPages - 26 - lost
  BY UserSpaceAssumption, SpaceConstants, BitmapPagesAre DEF UserInit, Stack, VPage
<1>2. /\ mapped = [p \in Proc |-> IF p = First THEN {Stack} ELSE {}] /\ vaddr_bitmap = mapped
      /\ page_tables = [p \in Proc |-> {Pde(v) : v \in mapped[p]}]
      /\ life = [p \in Proc |-> IF p = First THEN "run" ELSE "none"]
      /\ holed = [p \in Proc |-> FALSE] /\ halt = "no"
      /\ arena = [p \in Proc |-> NoArenas] /\ free_list = [p \in Proc |-> <<>>]
      /\ owned = [p \in Proc |-> {}]
  BY DEF UserInit
<1>3. /\ \A p \in Proc : mapped[p] \in SUBSET VPage /\ page_tables[p] = {Pde(v) : v \in mapped[p]}
      /\ \A p \in Proc : page_tables[p] \in SUBSET VPage
  <2>1. \A p \in Proc : mapped[p] \in SUBSET VPage
    BY <1>1, <1>2
  <2> QED BY <1>2, <2>1, PdeIn
<1>4. SpaceTypes
  <2>1. kfree \in Nat
    BY <1>1
  <2>2. /\ arena = [p \in Proc |-> arena[p]] /\ free_list = [p \in Proc |-> free_list[p]]
        /\ owned = [p \in Proc |-> owned[p]]
    BY <1>2
  <2>3. mapped \in [Proc -> SUBSET VPage] /\ page_tables \in [Proc -> SUBSET VPage]
    BY <1>2, <1>3
  <2> QED BY <1>1, <1>2, <2>1, <2>2, <2>3 DEF SpaceTypes
<1>5. BitsAreTables
  BY <1>2, <1>3 DEF BitsAreTables
<1>6. HeapsKept
  BY <1>2, EmptyHeap DEF HeapsKept
<1>7. KernelPagesExact
  <2> DEFINE K == [q \in Proc |-> Holdings(life[q], page_tables[q])]
  <2>1. \A q \in Proc : IsFiniteSet(K[q])
    BY <1>3, HoldingsCount
  <2>2. Cardinality(K[First]) = Holds("run", page_tables[First])
    BY <1>1, <1>2, <1>3, HoldingsCount
  <2>3. Holds("run", page_tables[First]) = 26
    <3>1. page_tables[First] = {Pde(Stack)}
      BY <1>1, <1>2
    <3>2. Cardinality(page_tables[First]) = 1
      BY <3>1, FS_Singleton
    <3> QED BY <3>2, BitmapPagesAre DEF Holds
  <2>4. \A q \in Proc \ {First} : K[q] = {}
    BY <1>2 DEF Holdings
  <2>5. UNION {Kept(q) : q \in Proc} = {First} \X K[First]
    <3>1. UNION {Kept(q) : q \in Proc} = UNION {{q} \X K[q] : q \in Proc}
      BY DEF Kept, Holdings
    <3> HIDE DEF K
    <3> QED BY <1>1, <2>4, <3>1
  <2> HIDE DEF K
  <2>6. Cardinality({First} \X K[First]) = 26
    <3>1. IsFiniteSet({First}) /\ Cardinality({First}) = 1
      BY FS_Singleton
    <3>2. Cardinality({First} \X K[First]) = 1 * Cardinality(K[First])
      BY <1>1, <2>1, <3>1, FS_Product
    <3> QED BY <2>2, <2>3, <3>2
  <2>7. PICK c \in {Cardinality(UNION {Kept(q) : q \in Proc})} : c = 26
    BY <2>5, <2>6
  <2>8. kfree + c + lost = KernelPages
    BY <1>1, <2>7
  <2> QED BY <2>7, <2>8 DEF KernelPagesExact
<1> QED BY <1>4, <1>5, <1>6, <1>7 DEF SpaceInv

\* Every step keeps the invariant.
LEMMA UserNextInv == SpaceInv /\ [UserNext]_userVars => SpaceInv'
<1>1. SUFFICES ASSUME SpaceInv, [UserNext]_userVars PROVE SpaceInv'
  OBVIOUS
<1>2. CASE UNCHANGED userVars
  BY <1>1, <1>2 DEF userVars, spaceVars, SpaceInv, SpaceTypes, BitsAreTables, HeapsKept,
                    KernelPagesExact, Kept
<1>3. ASSUME NEW p \in Proc, NEW n \in 1 .. MaxPages, MallocLarge(p, n) PROVE SpaceInv'
  BY <1>1, <1>3, MallocLargeKeeps
<1>4. ASSUME NEW p \in Proc, MallocSmall(p) \/ MallocArena(p) PROVE SpaceInv'
  BY <1>1, <1>4, MallocSmallKeeps, MallocArenaKeeps
<1>5. ASSUME NEW p \in Proc, MallocFails(p) PROVE UNCHANGED userVars
  BY <1>5 DEF MallocFails
<1>6. ASSUME NEW p \in Proc, NEW b \in owned[p], Free(p, b) PROVE SpaceInv'
  BY <1>1, <1>6, FreeKeeps
<1>7. ASSUME NEW p \in Proc, NEW g \in Programs, Exec(p, g) PROVE SpaceInv'
  BY <1>1, <1>7, ExecKeeps
<1>8. ASSUME NEW p \in Proc, NEW g \in Programs, NEW last \in g,
             ExecFails(p, {v \in g : v =< last})
      PROVE  SpaceInv'
  <2>1. {v \in g : v =< last} \in SUBSET VPage
    BY SpaceConstants DEF VPage
  <2> QED BY <1>1, <1>8, <2>1, ExecFailsKeeps
<1>9. ASSUME NEW p \in Proc, NEW q \in Proc,
             Fork(p, q) \/ ForkFails(p, q) \/ ForkStops(p, q) \/ Wait(p, q)
      PROVE  SpaceInv'
  BY <1>1, <1>9, ForkKeeps, ForkFailsKeeps, ForkStopsKeeps, WaitKeeps
<1>10. ASSUME NEW p \in Proc, Exit(p) PROVE SpaceInv'
  BY <1>1, <1>10, ExitKeeps
<1>11. ASSUME Halted PROVE UNCHANGED userVars
  BY <1>11 DEF Halted
<1> QED BY <1>1, <1>2, <1>3, <1>4, <1>5, <1>6, <1>7, <1>8, <1>9, <1>10, <1>11 DEF UserNext

\* The invariant holds throughout.
LEMMA SpaceInvariant == UserSpec => []SpaceInv
BY UserInitInv, UserNextInv, PTL DEF UserSpec

\* The vaddr_bitmap and the page tables of a process say the same, through
\* malloc, free, fork, exec, exit and wait, in every run: only a process that
\* had, or inherited, a malloc_page that failed half-way has bits without pages.
THEOREM SpaceBits == UserSpec => []BitsAreTables
<1>1. SpaceInv => BitsAreTables
  BY DEF SpaceInv
<1> QED BY <1>1, SpaceInvariant, PTL

\* Every page of the kernel pool is free, held by a process that has not been
\* waited for, or lost in one of the ways the model counts: the last page of the
\* bitmap of each process that exits, and what a failed fork took.
THEOREM SpaceKernelPages == UserSpec => []KernelPagesExact
<1>1. SpaceInv => KernelPagesExact
  BY DEF SpaceInv
<1> QED BY <1>1, SpaceInvariant, PTL

\* A program that works has a sound heap: malloc never finds the free list
\* broken, no block is both free and in use or listed twice, an arena counts
\* its free blocks, and its pages stay mapped until its last block is free.
THEOREM SpaceHeaps == UserSpec => []HeapExact
<1>1. SpaceInv => HeapExact
  <2> SUFFICES ASSUME SpaceInv PROVE HeapExact
    OBVIOUS
  <2>1. halt # "assert"
    BY DEF SpaceInv, SpaceTypes
  <2>2. ASSUME NEW p \in Proc, halt = "no", life[p] = "run"
        PROVE  LET listed == Range(free_list[p])
                   InArena(i) == {b \in listed : b[1] = i}
               IN  /\ \A j, k \in DOMAIN free_list[p] : j # k => free_list[p][j] # free_list[p][k]
                   /\ listed \cap owned[p] = {}
                   /\ \A b \in listed \cup owned[p] : b[1] \in DOMAIN arena[p]
                   /\ \A i \in DOMAIN arena[p] : LET a == arena[p][i] IN
                         /\ ArenaPages(p, i) \subseteq mapped[p]
                         /\ a.kind = "mine" =>
                               /\ a.cnt = Cardinality(InArena(i)) /\ a.cnt < PerArena
                               /\ InArena(i) \cup {b \in owned[p] : b[1] = i} = Range(Block(i))
    <3>1. Heap(arena[p], free_list[p], owned[p], mapped[p])
      BY <2>2 DEF SpaceInv, HeapsKept
    <3>2. \A i : ArenaPages(p, i) = Span(arena[p], i)
      BY DEF ArenaPages, Span
    <3>3. \A j, k \in DOMAIN free_list[p] : j # k => free_list[p][j] # free_list[p][k]
      BY <3>1 DEF Heap, FreeList, NoRepeats
    <3>4. Range(free_list[p]) \cap owned[p] = {}
      BY <3>1 DEF Heap, InUse
    <3>5. \A b \in Range(free_list[p]) \cup owned[p] : b[1] \in DOMAIN arena[p]
      BY <3>1 DEF Heap, FreeList, InUse
    <3>6. \A i \in DOMAIN arena[p] : ArenaPages(p, i) \subseteq mapped[p]
      BY <3>1, <3>2 DEF Heap, Arenas
    <3>7. \A i \in DOMAIN arena[p] : arena[p][i].kind = "mine" =>
             /\ arena[p][i].cnt = Cardinality({b \in Range(free_list[p]) : b[1] = i})
             /\ arena[p][i].cnt < PerArena
             /\ {b \in Range(free_list[p]) : b[1] = i} \cup {b \in owned[p] : b[1] = i}
                  = Range(Block(i))
      BY <3>1 DEF Heap, Counts, InPage
    <3> QED BY <3>3, <3>4, <3>5, <3>6, <3>7
  <2> QED BY <2>1, <2>2 DEF HeapExact
<1> QED BY <1>1, SpaceInvariant, PTL
=============================================================================
