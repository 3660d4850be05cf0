---------------------------- MODULE MCUserSpace ----------------------------
EXTENDS UserSpace, TLC

CONSTANTS init, p1, p2

\* A program of one page, and one of two that overlaps with the heap
MCPrograms == {{1}, {1, 2}}

Symmetry == Permutations({p1, p2})
\* The kernel pool as the first process finds it, when it holds one more
\* process, and with one page left; one process later the story ends.
MCLosses == {0, 29, 55}
Bounded == \E l \in MCLosses : lost \in l .. l + 1
=============================================================================
