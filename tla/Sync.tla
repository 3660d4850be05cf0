-------------------------------- MODULE Sync --------------------------------
(***************************************************************************)
(* Semaphores and reentrant locks, kernel/sync.c, on top of the scheduler. *)
(* A lock is a semaphore with a holder, so Lock \subseteq Sema.            *)
(*                                                                         *)
(* op[t] says where thread t is inside a call of this file and on[t] which *)
(* semaphore the call is about:                                            *)
(*   "none"            not in a call                                       *)
(*   "down"            sema_down, interrupts not yet off                   *)
(*   "sleep"           sema_down, in its loop, interrupts off              *)
(*   "took", "mine"    lock_acquire, after sema_down and after holder =    *)
(*   "drop", "up"      lock_release, before and after holder = NULL        *)
(* A caller's own code runs while op[t] = "none".  The semaphore bodies    *)
(* run with interrupts off and are one step up to the point where they     *)
(* block; the lock code around them is preemptible and is not.             *)
(***************************************************************************)
EXTENDS Sched

CONSTANTS Sema, Lock, None

ASSUME SyncAssumption == Sema # {} /\ Lock \subseteq Sema /\ None \notin Thread

VARIABLES value,    \* semaphore.value
          waiters,  \* semaphore.waiters, head first
          holder,   \* lock.holder
          repeat,   \* lock.holder_repeat_nr
          op, on,   \* the call each thread is in
          old       \* old_intr_status of a sema_down that sleeps

syncVars == <<value, waiters, holder, repeat, op, on, old>>

\* value is a uint8_t; sema_up's ASSERT keeps every semaphore binary.
SyncTypeOK == /\ value \in [Sema -> 0..1]
              /\ waiters \in [Sema -> Seq(Thread)]
              /\ holder \in [Lock -> Thread \cup {None}]
              /\ repeat \in [Lock -> Nat]
              /\ op \in [Thread -> {"none", "down", "sleep", "took", "mine",
                                    "drop", "up"}]
              /\ on \in [Thread -> Sema]
              /\ old \in [Thread -> BOOLEAN]

\* lock_init() for the locks, sema_init(&s, 0) for the other semaphores
SyncInit == /\ value = [s \in Sema |-> IF s \in Lock THEN 1 ELSE 0]
            /\ waiters = [s \in Sema |-> <<>>]
            /\ holder = [l \in Lock |-> None]
            /\ repeat = [l \in Lock |-> 0]
            /\ op = [t \in Thread |-> "none"]
            /\ on \in [Thread -> {CHOOSE s \in Sema : TRUE}]
            /\ old = [t \in Thread |-> FALSE]

\* Thread t runs the code of a caller.
InCaller(t) == Running(t) /\ op[t] = "none"

Enter(t, s, where) == op' = [op EXCEPT ![t] = where] /\ on' = [on EXCEPT ![t] = s]
Goto(t, where) == op' = [op EXCEPT ![t] = where] /\ UNCHANGED on

-----------------------------------------------------------------------------
(* Calls, made by the running thread t from its own code.                  *)

SemaDown(t, s) == /\ Enter(t, s, "down")
                  /\ UNCHANGED <<value, waiters, holder, repeat, old>>

\* lock_acquire: a holder only counts
LockAcquire(t, l) ==
  IF holder[l] # t
    THEN SemaDown(t, l)
    ELSE /\ repeat' = [repeat EXCEPT ![l] = @ + 1]
         /\ UNCHANGED <<value, waiters, holder, op, on, old>>

\* lock_release: its ASSERT and the countdown; the caller conjoins panicked'
LockReleaseAtOnce(t, l) ==  \* mutant: a nested release frees the lock
  IF holder[l] = t
    THEN /\ repeat' = [repeat EXCEPT ![l] = 0]
         /\ Enter(t, l, "drop")
         /\ UNCHANGED <<value, waiters, holder, old, panicked>>
    ELSE panicked' = TRUE /\ UNCHANGED syncVars

LockRelease(t, l) ==
  IF holder[l] = t
    THEN /\ repeat' = [repeat EXCEPT ![l] = @ - 1]
         /\ IF repeat[l] - 1 > 0 THEN UNCHANGED <<op, on>> ELSE Enter(t, l, "drop")
         /\ UNCHANGED <<value, waiters, holder, old, panicked>>
    ELSE panicked' = TRUE /\ UNCHANGED syncVars

-----------------------------------------------------------------------------
(* Steps inside the calls.                                                 *)

\* The loop of sema_down finds value > 0.
DownTakes(t) ==
  /\ value[on[t]] > 0
  /\ value' = [value EXCEPT ![on[t]] = @ - 1]
  /\ Goto(t, IF on[t] \in Lock THEN "took" ELSE "none")
  /\ intr' = [intr EXCEPT ![t] = IF op[t] = "sleep" THEN old[t] ELSE @]
  /\ UNCHANGED <<cpuVars, waiters, old>>

\* The loop of sema_down finds value = 0 and sleeps.
DownSleeps(t) ==
  /\ value[on[t]] = 0
  /\ waiters' = [waiters EXCEPT ![on[t]] = Append(@, t)]
  /\ ThreadBlock("BLOCKED")
  /\ Goto(t, "sleep")
  /\ old' = [old EXCEPT ![t] = IF op[t] = "down" THEN intr[t] ELSE @]
  /\ intr' = [intr EXCEPT ![t] = FALSE]
  /\ UNCHANGED value

\* sema_down, from its loop test on, interrupts off
DownOnce(t) ==  \* mutant: "if" for "while", a woken thread does not look again
  /\ Running(t)
  /\ op[t] \in {"down", "sleep"}
  /\ IF op[t] = "down" /\ value[on[t]] = 0
       THEN DownSleeps(t)
       ELSE /\ value' = [value EXCEPT ![on[t]] = IF @ = 0 THEN 255 ELSE @ - 1]
            /\ Goto(t, IF on[t] \in Lock THEN "took" ELSE "none")
            /\ intr' = [intr EXCEPT ![t] = IF op[t] = "sleep" THEN old[t] ELSE @]
            /\ UNCHANGED <<cpuVars, waiters, old>>
  /\ UNCHANGED <<holder, repeat, idle>>

Down(t) == /\ Running(t)
           /\ op[t] \in {"down", "sleep"}
           /\ DownTakes(t) \/ DownSleeps(t)
           /\ UNCHANGED <<holder, repeat, idle>>

SetHolder(t) == /\ Running(t)
                /\ op[t] = "took"
                /\ holder' = [holder EXCEPT ![on[t]] = t]
                /\ Goto(t, "mine")
                /\ UNCHANGED <<schedVars, value, waiters, repeat, old>>

\* lock_acquire's ASSERT(holder_repeat_nr == 0) and its last assignment
SetRepeat(t) ==
  /\ Running(t)
  /\ op[t] = "mine"
  /\ IF repeat[on[t]] = 0
       THEN /\ repeat' = [repeat EXCEPT ![on[t]] = 1]
            /\ Goto(t, "none")
            /\ UNCHANGED panicked
       ELSE panicked' = TRUE /\ UNCHANGED <<repeat, op, on>>
  /\ UNCHANGED <<cur, status, ready, ticks, intr, idle, value, waiters, holder, old>>

ClearHolder(t) == /\ Running(t)
                  /\ op[t] = "drop"
                  /\ holder' = [holder EXCEPT ![on[t]] = None]
                  /\ Goto(t, "up")
                  /\ UNCHANGED <<schedVars, value, waiters, repeat, old>>

\* sema_up's body: ASSERT(value == 0), and one waiter to the ready list
SemaUpWakesNone(s) ==  \* mutant: the waiter is not unblocked
  IF value[s] = 0
    THEN value' = [value EXCEPT ![s] = @ + 1] /\ UNCHANGED <<cpuVars, waiters>>
    ELSE Panic /\ UNCHANGED <<value, waiters>>

SemaUpWakesWhenFree(s) ==  \* mutant: the waiter stays on the waiters list
  /\ value' = [value EXCEPT ![s] = @ + 1]
  /\ IF waiters[s] = <<>> THEN UNCHANGED cpuVars ELSE ThreadUnblock(Head(waiters[s]))
  /\ UNCHANGED waiters

SemaUp(s) ==
  IF value[s] = 0
    THEN /\ value' = [value EXCEPT ![s] = @ + 1]
         /\ IF waiters[s] = <<>>
              THEN UNCHANGED <<cpuVars, waiters>>
              ELSE /\ waiters' = [waiters EXCEPT ![s] = Tail(@)]
                   /\ ThreadUnblock(Head(waiters[s]))
    ELSE Panic /\ UNCHANGED <<value, waiters>>

Up(t) == /\ Running(t)
         /\ op[t] = "up"
         /\ SemaUp(on[t])
         /\ Goto(t, "none")
         /\ UNCHANGED <<intr, idle, holder, repeat, old>>

SyncStep(t) == Down(t) \/ SetHolder(t) \/ SetRepeat(t) \/ ClearHolder(t) \/ Up(t)

-----------------------------------------------------------------------------
(* What the lock and its waiters promise.                                  *)

\* t owns lock l from the moment sema_down let it pass to the moment sema_up
\* lets the next one pass.
Owns(t, l) == holder[l] = t \/ (on[t] = l /\ op[t] \in {"took", "up"})

Waits(t, s) == op[t] = "sleep" /\ on[t] = s

MutualExclusion ==
  \A l \in Lock : \A t, u \in Thread : Owns(t, l) /\ Owns(u, l) => t = u

\* The lock's three fields agree with who is in the critical section.
LockFieldsAgree ==
  \A l \in Lock :
    /\ value[l] = 0 <=> \E t \in Thread : Owns(t, l)
    /\ \A t \in Thread : holder[l] = t =>
         (repeat[l] = 0 <=> op[t] \in {"mine", "drop"} /\ on[t] = l)
    /\ holder[l] = None => repeat[l] = 0

\* general_tag is one link field, for the ready list and for every waiters
\* list: a thread asleep in sema_down and not yet woken is on the list of its
\* semaphore, once, and on no other list; every other thread is on no waiters
\* list.
SleepersListed ==
  /\ \A t \in Thread, s \in Sema :
       (Waits(t, s) /\ status[t] = "BLOCKED") <=>
         \E j \in DOMAIN waiters[s] : waiters[s][j] = t
  /\ \A s \in Sema : \A j, k \in DOMAIN waiters[s] :
       waiters[s][j] = waiters[s][k] => j = k
  /\ \A t \in Thread, s \in Sema : Waits(t, s) /\ status[t] = "BLOCKED" => ~InReady(t)

\* A semaphore that could be taken while threads sleep on it has a wake-up on
\* its way: some thread was taken off the list and will look at value again.
NoLostWakeup ==
  \A s \in Sema : (value[s] > 0 /\ waiters[s] # <<>>) =>
    \E t \in Thread : Waits(t, s) /\ status[t] \in {"READY", "RUNNING"}
=============================================================================
