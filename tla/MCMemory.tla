------------------------------ MODULE MCMemory ------------------------------
EXTENDS Memory

CONSTANTS p, q, k, child, kspace, KernelFree, UserFree

\* All but the first KernelFree and UserFree bits of the pools are set.
MCTaken == (KernelFree .. 7) \cup (8 + UserFree .. 15)
=============================================================================
