------------------------------- MODULE Pools -------------------------------
(***************************************************************************)
(* Bitmaps, lib/bitmap.c, and the layout of the two pools of physical      *)
(* pages, kernel/memory.c.  A bitmap is the set of the indices of its set  *)
(* bits.  The bitmap of the kernel pool, that of the user pool and that of *)
(* the kernel's virtual addresses follow each other in memory from         *)
(* MEMORY_BITMAP_BASE on, so the index of a bit of one of them has a       *)
(* meaning in the next one too: a pool's base is the position of its bit 0 *)
(* in that row of bits.  Physical addresses are counted in pages.          *)
(***************************************************************************)
EXTENDS Integers

Least(S) == CHOOSE i \in S : \A j \in S : i =< j

\* last_bad_idx when the loop of bitmap_scan has come to bit i
LastBad(bs, i) ==
    IF \E j \in bs : j < i
    THEN CHOOSE j \in bs : j < i /\ \A k \in bs : k < i => k =< j
    ELSE -1

\* mutant: the run may begin at the set bit before it
ScanHitsEarly(bs, len, cnt) ==
    {i \in 0 .. len - 1 : i \notin bs /\ (cnt = 1 \/ i - LastBad(bs, i) = cnt - 1)}

\* The bits at which the loop returns, if it comes to them.
ScanHits(bs, len, cnt) ==
    {i \in 0 .. len - 1 : i \notin bs /\ (cnt = 1 \/ i - LastBad(bs, i) = cnt)}

bitmap_scan(bs, len, cnt) ==
    LET hits == ScanHits(bs, len, cnt)
    IN  IF hits = {} THEN -1
        ELSE IF cnt = 1 THEN Least(hits)
             ELSE LastBad(bs, Least(hits)) + 1

\* What callers of bitmap_scan expect: the first run of cnt clear bits
Fits(bs, len, cnt) == {i \in 0 .. len - cnt : \A k \in i .. i + cnt - 1 : k \notin bs}
FirstFit(bs, len, cnt) ==
    LET fits == Fits(bs, len, cnt)
    IN  bitmap_scan(bs, len, cnt) = IF fits = {} THEN -1 ELSE Least(fits)

bitmap_set(bs, i, v) == IF v = 1 THEN bs \cup {i} ELSE bs \ {i}

-----------------------------------------------------------------------------
\* Page tables and the first megabyte come before the pools.
UsedMem == 256 + 256

\* mutant: the bitmap of the user pool begins one byte later
mem_pool_init_gap(all) ==
    LET free == (all - UsedMem) % 2^16
        kernel == free \div 2
    IN  [kernel |-> [start |-> UsedMem, base |-> 0, len |-> 8 * (kernel \div 8)],
         user |-> [start |-> UsedMem + kernel, base |-> 8 * (kernel \div 8 + 1),
                   len |-> 8 * ((free - kernel) \div 8)]]

\* mem_pool_init(all): the page counts are uint16_t, the bitmap lengths bytes.
mem_pool_init(all) ==
    LET free == (all - UsedMem) % 2^16
        kernel == free \div 2
        user == free - kernel
    IN  [kernel |-> [start |-> UsedMem, base |-> 0, len |-> 8 * (kernel \div 8)],
         user |-> [start |-> UsedMem + kernel, base |-> 8 * (kernel \div 8),
                   len |-> 8 * (user \div 8)]]

\* The pages of a pool, and the bit palloc sets when it gives page f out.
Pages(pool) == pool.start .. pool.start + pool.len - 1
BitOf(pool, f) == pool.base + (f - pool.start)

\* The bits of a pool as its own bitmap, for bitmap_scan.
Own(bits, pool) == {i \in 0 .. pool.len - 1 : pool.base + i \in bits}

\* palloc(pool): the page it will give out, 0 (NULL) when there is none
palloc(bits, pool) ==
    LET i == bitmap_scan(Own(bits, pool), pool.len, 1)
    IN  IF i = -1 THEN 0 ELSE pool.start + i

\* pfree(f), free_a_phy_page(f): the bit that is cleared.  The comparison is
\* strict, so the first page of the user pool goes by the kernel pool.
pfree(l, f) == BitOf(IF f > l.user.start THEN l.user ELSE l.kernel, f)
=============================================================================
