------------------------------- MODULE Locks -------------------------------
(***************************************************************************)
(* The locks of kernel/sync.c under arbitrary callers, from kernel threads *)
(* (preemptible at every point outside the semaphore bodies) and from      *)
(* system calls (interrupts off, so they lose the CPU only by sleeping or  *)
(* yielding).  A caller holds one lock at a time, as in the source, and    *)
(* acquires it again up to MaxRepeat deep.  Callers do not look at the     *)
(* lock's fields: nest[t][l] is the number of calls of lock_acquire that   *)
(* t's own code has made and not yet matched with a lock_release.          *)
(***************************************************************************)
EXTENDS Sync

CONSTANTS Main, First, MaxRepeat

\* thread_start's ASSERT keeps a thread from being on the ready list twice.
ASSUME LocksAssumption == /\ Main \in Thread \ {Idle}
                          /\ First \in Seq(Thread \ {Idle, Main})
                          /\ \A j, k \in DOMAIN First : First[j] = First[k] => j = k
                          /\ MaxRepeat \in Nat \ {0}
                          /\ Sema = Lock

VARIABLE nest

vars == <<schedVars, syncVars, nest>>

Client == Thread \ {Idle}

Init == /\ SchedInit(Main, First)
        /\ SyncInit
        /\ nest = [t \in Thread |-> [l \in Lock |-> 0]]

HoldsNone(t) == \A l \in Lock : nest[t][l] = 0

\* A system call gate turns interrupts off, its iretd on again.
EnterSyscall(t) == /\ InCaller(t)
                   /\ HoldsNone(t)
                   /\ intr[t]
                   /\ intr' = [intr EXCEPT ![t] = FALSE]
                   /\ UNCHANGED <<cpuVars, idle, syncVars, nest>>

LeaveSyscall(t) == /\ InCaller(t)
                   /\ HoldsNone(t)
                   /\ ~intr[t]
                   /\ intr' = [intr EXCEPT ![t] = TRUE]
                   /\ UNCHANGED <<cpuVars, idle, syncVars, nest>>

\* thread_yield(), with a lock held too (busy_wait of ide.c)
Yield(t) == InCaller(t) /\ ThreadYield /\ UNCHANGED <<intr, idle, syncVars, nest>>

Acquire(t, l) == /\ InCaller(t)
                 /\ HoldsNone(t) \/ nest[t][l] \in 1..MaxRepeat - 1
                 /\ nest' = [nest EXCEPT ![t][l] = @ + 1]
                 /\ LockAcquire(t, l)
                 /\ UNCHANGED schedVars

Release(t, l) == /\ InCaller(t)
                 /\ nest[t][l] > 0
                 /\ nest' = [nest EXCEPT ![t][l] = @ - 1]
                 /\ LockRelease(t, l)
                 /\ UNCHANGED <<cur, status, ready, ticks, intr, idle>>

Tick == TimerInterrupt /\ UNCHANGED <<syncVars, nest>>
IdleStep == (IdleBlock \/ IdleHalt) /\ UNCHANGED <<syncVars, nest>>

ClientStep(t) == \/ EnterSyscall(t)
                 \/ LeaveSyscall(t)
                 \/ Yield(t)
                 \/ \E l \in Lock : Acquire(t, l) \/ Release(t, l)
                 \/ SyncStep(t) /\ UNCHANGED nest

Next == (\E t \in Client : ClientStep(t)) \/ Tick \/ IdleStep

Spec == Init /\ [][Next]_vars

-----------------------------------------------------------------------------
TypeOK == /\ SchedTypeOK
          /\ SyncTypeOK
          /\ nest \in [Thread -> [Lock -> 0..MaxRepeat]]

\* None of the ASSERTs of schedule(), thread_unblock(), sema_up(),
\* lock_acquire() and lock_release() can fail, at whatever point of the lock
\* code a tick preempts its caller.
NoPanic == ~panicked

\* The lock counts what its owner counts, whoever reads it: a caller that has
\* acquired n times more than it released is the holder, with repeat = n, and
\* every other thread is not.  Inside the calls the caller is ahead of the lock.
NestAgrees ==
  \A t \in Thread, l \in Lock :
    /\ op[t] = "none" \/ on[t] # l =>
         /\ nest[t][l] > 0 <=> holder[l] = t
         /\ holder[l] = t => repeat[l] = nest[t][l]
    /\ on[t] = l => /\ op[t] \in {"down", "sleep", "took", "mine"} => nest[t][l] = 1
                    /\ op[t] \in {"drop", "up"} => nest[t][l] = 0

\* The locks implement the abstract mutex, whose depth is the owner's own
\* count: a lock that is freed before its owner's last release, or not by it,
\* or that is given to a second owner, is no step of it.
OwnerOf(l) == IF \E t \in Thread : Owns(t, l)
                THEN CHOOSE t \in Thread : Owns(t, l) ELSE None
DepthOf(l) == IF \E t \in Thread : Owns(t, l) THEN nest[OwnerOf(l)][l] ELSE 0

Mutexes == INSTANCE Mutex WITH owner <- [l \in Lock |-> OwnerOf(l)],
                               depth <- [l \in Lock |-> DepthOf(l)]
ImplementsMutex == Mutexes!Spec
=============================================================================
