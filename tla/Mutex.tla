------------------------------- MODULE Mutex -------------------------------
(***************************************************************************)
(* What the locks of kernel/sync.c promise their callers, without the      *)
(* scheduler, the semaphore or the waiters: at most one thread owns a      *)
(* lock, only the owner goes deeper or back, and the lock is free again    *)
(* only after as many releases as acquires.                                *)
(***************************************************************************)
EXTENDS Naturals

CONSTANTS Thread, Lock, None

VARIABLES owner, depth

Init == owner = [l \in Lock |-> None] /\ depth = [l \in Lock |-> 0]

Acquire(t, l) == /\ owner[l] = None
                 /\ owner' = [owner EXCEPT ![l] = t]
                 /\ depth' = [depth EXCEPT ![l] = 1]

Reenter(t, l) == /\ owner[l] = t
                 /\ depth' = [depth EXCEPT ![l] = @ + 1]
                 /\ UNCHANGED owner

Leave(t, l) == /\ owner[l] = t
               /\ depth[l] > 0
               /\ depth' = [depth EXCEPT ![l] = @ - 1]
               /\ UNCHANGED owner

Free(t, l) == /\ owner[l] = t
              /\ depth[l] = 0
              /\ owner' = [owner EXCEPT ![l] = None]
              /\ UNCHANGED depth

Next == \E t \in Thread, l \in Lock :
          Acquire(t, l) \/ Reenter(t, l) \/ Leave(t, l) \/ Free(t, l)

Spec == Init /\ [][Next]_<<owner, depth>>
=============================================================================
