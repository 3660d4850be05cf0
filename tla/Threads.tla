------------------------------ MODULE Threads ------------------------------
(***************************************************************************)
(* The scheduler under arbitrary callers.  A thread other than the idle    *)
(* one is an unconstrained kernel client: while it runs it may turn        *)
(* interrupts off and on (a system call gate, intr_disable and             *)
(* intr_set_status), yield, block in any of the three blocking states,     *)
(* unblock a thread that waits, start a new one and reap a hanging one.    *)
(* Device interrupts unblock threads whenever IF is on.                    *)
(***************************************************************************)
EXTENDS Sched

CONSTANT MainThread, InitThread  \* main_thread, and the init process started before it

ASSUME ThreadsAssumption == /\ MainThread \in Thread \ {Idle}
                            /\ InitThread \in Thread \ {Idle, MainThread}

Caller == Thread \ {Idle}

\* thread_init(): process_execute(init), make_main_thread(), thread_start(idle)
ThreadsInit == SchedInit(MainThread, <<InitThread>>)

IntrDisable(t) == /\ Running(t)
                  /\ intr[t]
                  /\ intr' = [intr EXCEPT ![t] = FALSE]
                  /\ UNCHANGED <<cpuVars, idle>>

IntrEnable(t) == /\ Running(t)
                 /\ ~intr[t]
                 /\ intr' = [intr EXCEPT ![t] = TRUE]
                 /\ UNCHANGED <<cpuVars, idle>>

CallerYields(t) == Running(t) /\ ThreadYield /\ UNCHANGED <<intr, idle>>

Block(t, s) == Running(t) /\ ThreadBlock(s) /\ UNCHANGED <<intr, idle>>

\* A waiting thread is woken by its semaphore, by the keyboard queue or by the
\* exit of a child; a HANGING one never is.
Unblock(t, u) == /\ Running(t)
                 /\ status[u] \in {"BLOCKED", "WAITING"}
                 /\ ThreadUnblock(u)
                 /\ UNCHANGED <<intr, idle>>

\* The disk and keyboard handlers wake a thread and do not call schedule().
IrqUnblock(u) == /\ Interrupt
                 /\ status[u] = "BLOCKED"
                 /\ ThreadUnblock(u)
                 /\ UNCHANGED intr

Start(t, u) == /\ Running(t)
               /\ status[u] = "NONE"
               /\ ThreadStart(u)
               /\ intr' = [intr EXCEPT ![u] = TRUE]
               /\ UNCHANGED idle

\* thread_exit(u, false) by the parent that waited for u
ReapLeavesListed(t, u) ==  \* mutant: a thread that is not hanging is freed
  /\ Running(t)
  /\ status[u] \in {"HANGING", "READY"}
  /\ status' = [status EXCEPT ![u] = "NONE"]
  /\ UNCHANGED <<cur, ready, ticks, panicked, intr, idle>>

Reap(t, u) == /\ Running(t)
              /\ status[u] = "HANGING"
              /\ status' = [status EXCEPT ![u] = "NONE"]
              /\ IF InReady(u) THEN ready' = SelectSeq(ready, LAMBDA x : x # u)
                               ELSE UNCHANGED ready
              /\ UNCHANGED <<cur, ticks, panicked, intr, idle>>

CallerStep(t) == \/ IntrDisable(t)
                 \/ IntrEnable(t)
                 \/ CallerYields(t)
                 \/ \E s \in Blocking : Block(t, s)
                 \/ \E u \in Caller : \/ Unblock(t, u)
                                      \/ Start(t, u)
                                      \/ Reap(t, u)

ThreadsNext == \/ \E t \in Caller : CallerStep(t)
               \/ \E u \in Caller : IrqUnblock(u)
               \/ TimerInterrupt
               \/ IdleBlock
               \/ IdleHalt

(***************************************************************************)
(* Fairness.  The timer chip interrupts at 100 Hz, so a tick that IF lets  *)
(* through again and again is taken; code that runs with interrupts off    *)
(* turns them on again (every system call returns).  Nothing is assumed of *)
(* what threads do with the CPU.                                           *)
(***************************************************************************)
ThreadsFairness == /\ SF_schedVars(TimerInterrupt)
                   /\ WF_schedVars(\E t \in Caller : IntrEnable(t))

ThreadsSpec == ThreadsInit /\ [][ThreadsNext]_schedVars /\ ThreadsFairness

-----------------------------------------------------------------------------
\* Every variable keeps the type its C declaration gives it.
ThreadsType == SchedTypeOK

\* No ASSERT or PANIC of schedule(), thread_block() or thread_unblock() is
\* ever reached by callers that unblock only threads that wait: not when the
\* ready list runs empty, not when a timer tick races a wake-up.
NoSchedPanic == ~panicked

\* A thread is never overtaken by one that gives the CPU up after it: threads
\* that stay on the ready list keep their order, and one that joins behind
\* (yield, expired slice, start) is behind all that were there.  Only a wake-up
\* goes to the front.
Position(q, t) == CHOOSE i \in DOMAIN q : q[i] = t
NoOvertaking ==
  [][\A t \in Thread :
       (status[t] = "READY" /\ status'[t] = "READY") =>
         \A u \in Thread \ {t} :
            (/\ status'[u] = "READY"
             /\ status[u] \notin Blocking
             /\ (status[u] = "READY" => Position(ready, t) < Position(ready, u)))
            => Position(ready', t) < Position(ready', u)]_schedVars

\* Every thread on the ready list runs, however many wake-ups are pushed in
\* front of it and whatever the other threads do.
ReadyRuns == \A t \in Caller : status[t] = "READY" ~> status[t] = "RUNNING"
=============================================================================
