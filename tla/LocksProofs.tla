---------------------------- MODULE LocksProofs ----------------------------
(***************************************************************************)
(* Threads that call the scheduler and take locks.  First the scheduler's  *)
(* invariants and the order of its ready list, for any number of threads,  *)
(* any priorities and arbitrary callers.  Then mutual exclusion of the     *)
(* locks, their sleepers and the absence of failed ASSERTs, for any number *)
(* of threads and locks and any depth of reentrance, and the refinement of *)
(* the abstract mutex.                                                     *)
(***************************************************************************)
EXTENDS Threads, Locks, SyncProofs

-----------------------------------------------------------------------------
(* The scheduler under arbitrary callers *)

\* The inductive invariant of Threads.  NoSchedPanic alone is not inductive:
\* that schedule() can unblock the idle thread rests on the idle thread being
\* BLOCKED whenever it is neither running nor on the ready list, and that it is
\* rests on the list holding exactly the READY threads.
ThreadsInv == /\ ThreadsType
              /\ CpuInv
              /\ intr[Idle]

\* thread_init() leaves main running and init and the idle thread ready.
LEMMA ThreadsInitInv == ThreadsInit => ThreadsInv
<1> SUFFICES ASSUME ThreadsInit PROVE ThreadsInv
  OBVIOUS
<1> USE SchedAssumption, ThreadsAssumption
<1> DEFINE started == <<InitThread>>
<1>1. /\ started \in Seq(Thread \ {Idle, MainThread})
      /\ NoTwice(started)
      /\ SchedInit(MainThread, started)
  BY DEF ThreadsInit, NoTwice
<1> HIDE DEF started
<1>2. CpuInv
  BY <1>1, SchedInitCpuInv
<1>3. intr = [t \in Thread |-> TRUE] /\ idle = "block"
  BY <1>1 DEF SchedInit
<1> QED BY <1>2, <1>3 DEF ThreadsInv, ThreadsType, SchedTypeOK, CpuInv

\* A step of the scheduler that keeps its invariant and the flags' types.
LEMMA ThreadsKeep ==
  ASSUME CpuInv', intr' \in [Thread -> BOOLEAN], intr'[Idle],
         idle' \in {"block", "woken", "hlt"}
  PROVE  ThreadsInv'
  BY DEF ThreadsInv, ThreadsType, SchedTypeOK, CpuInv

\* What a running thread may ask of the scheduler.
LEMMA CallerStepInv ==
  ASSUME ThreadsInv, NEW t \in Caller, CallerStep(t)
  PROVE  ThreadsInv'
<1> USE SchedAssumption, ThreadsAssumption
<1>0. /\ CpuInv /\ t \in Thread /\ t # Idle
      /\ intr \in [Thread -> BOOLEAN] /\ intr[Idle]
      /\ idle \in {"block", "woken", "hlt"}
  BY DEF ThreadsInv, ThreadsType, SchedTypeOK, Caller
<1>1. CASE IntrDisable(t)
  <2>1. CpuInv'
    BY <1>0, <1>1, CpuInvUnchanged DEF IntrDisable
  <2>2. intr' = [intr EXCEPT ![t] = FALSE] /\ idle' = idle
    BY <1>1 DEF IntrDisable
  <2> QED BY <1>0, <2>1, <2>2, ThreadsKeep
<1>2. CASE IntrEnable(t)
  <2>1. CpuInv'
    BY <1>0, <1>2, CpuInvUnchanged DEF IntrEnable
  <2>2. intr' = [intr EXCEPT ![t] = TRUE] /\ idle' = idle
    BY <1>2 DEF IntrEnable
  <2> QED BY <1>0, <2>1, <2>2, ThreadsKeep
<1>3. CASE CallerYields(t)
  <2>1. CpuInv'
    BY <1>0, <1>3, YieldKeeps DEF CallerYields
  <2> QED BY <1>0, <1>3, <2>1, ThreadsKeep DEF CallerYields
<1>4. ASSUME NEW s \in Blocking, Block(t, s) PROVE ThreadsInv'
  <2>1. CpuInv'
    BY <1>0, <1>4, BlockKeeps DEF Block, Running
  <2> QED BY <1>0, <1>4, <2>1, ThreadsKeep DEF Block
<1>5. ASSUME NEW u \in Caller, Unblock(t, u) PROVE ThreadsInv'
  <2>1. CpuInv'
    BY <1>0, <1>5, UnblockKeeps DEF Unblock, Blocking, Caller
  <2> QED BY <1>0, <1>5, <2>1, ThreadsKeep DEF Unblock
<1>6. ASSUME NEW u \in Caller, Start(t, u) PROVE ThreadsInv'
  <2>1. CpuInv'
    BY <1>0, <1>6, StartKeeps DEF Start, Caller
  <2>2. intr' = [intr EXCEPT ![u] = TRUE] /\ idle' = idle
    BY <1>6 DEF Start
  <2> QED BY <1>0, <2>1, <2>2, ThreadsKeep DEF Caller
<1>7. ASSUME NEW u \in Caller, Reap(t, u) PROVE ThreadsInv'
  <2>1. /\ status[u] = "HANGING"
        /\ status' = [status EXCEPT ![u] = "NONE"]
        /\ UNCHANGED <<cur, ticks, panicked, intr, idle>>
        /\ u \in Thread /\ u # Idle
    BY <1>7 DEF Reap, Caller
  <2>2. ~InReady(u)
    BY <1>0, <2>1 DEF CpuInv, ReadyListExact
  <2>3. ready' = ready
    BY <1>7, <2>2 DEF Reap
  <2>4. /\ status' \in [Thread -> Status]
        /\ \A v \in Thread \ {u} : status'[v] = status[v]
        /\ status'[u] = "NONE"
    BY <1>0, <2>1 DEF CpuInv, Status
  <2>5. RunningIsCurrent'
    BY <1>0, <2>1, <2>4 DEF CpuInv, RunningIsCurrent
  <2>6. ReadyListExact'
    BY <1>0, <2>2, <2>3, <2>4 DEF CpuInv, ReadyListExact, InReady
  <2>7. CpuInv'
    BY <1>0, <2>1, <2>3, <2>4, <2>5, <2>6 DEF CpuInv
  <2> QED BY <1>0, <2>1, <2>7, ThreadsKeep
<1> QED BY <1>1, <1>2, <1>3, <1>4, <1>5, <1>6, <1>7 DEF CallerStep

\* Every step keeps the invariant: threads, interrupts and the idle thread.
LEMMA ThreadsStepInv == ThreadsInv /\ [ThreadsNext]_schedVars => ThreadsInv'
<1> SUFFICES ASSUME ThreadsInv, [ThreadsNext]_schedVars PROVE ThreadsInv'
  OBVIOUS
<1> USE SchedAssumption, ThreadsAssumption
<1>0. /\ CpuInv
      /\ intr \in [Thread -> BOOLEAN] /\ intr[Idle]
      /\ idle \in {"block", "woken", "hlt"}
  BY DEF ThreadsInv, ThreadsType, SchedTypeOK
<1>1. ASSUME NEW t \in Caller, CallerStep(t) PROVE ThreadsInv'
  BY <1>1, CallerStepInv
<1>2. ASSUME NEW u \in Caller, IrqUnblock(u) PROVE ThreadsInv'
  <2>1. CpuInv'
    BY <1>0, <1>2, UnblockKeeps DEF IrqUnblock, Blocking, Caller
  <2> QED BY <1>0, <1>2, <2>1, ThreadsKeep DEF IrqUnblock, Interrupt
<1>3. CASE TimerInterrupt
  <2>1. CpuInv'
    BY <1>0, <1>3, TickKeeps
  <2> QED BY <1>0, <1>3, <2>1, ThreadsKeep DEF TimerInterrupt, Interrupt
<1>4. CASE IdleBlock
  <2>1. CpuInv'
    BY <1>0, <1>4, IdleBlockKeeps
  <2> QED BY <1>0, <1>4, <2>1, ThreadsKeep DEF IdleBlock
<1>5. CASE IdleHalt
  <2>1. CpuInv'
    BY <1>0, <1>5, CpuInvUnchanged DEF IdleHalt
  <2> QED BY <1>0, <1>5, <2>1, ThreadsKeep DEF IdleHalt
<1>6. CASE UNCHANGED schedVars
  <2>1. UNCHANGED cpuVars /\ UNCHANGED intr /\ UNCHANGED idle
    BY <1>6 DEF schedVars, cpuVars
  <2>2. CpuInv'
    BY <1>0, <2>1, CpuInvUnchanged
  <2> QED BY <1>0, <2>1, <2>2, ThreadsKeep
<1> QED BY <1>1, <1>2, <1>3, <1>4, <1>5, <1>6 DEF ThreadsNext

\* The invariant holds in every reachable state.
THEOREM ThreadsInductive == ThreadsSpec => []ThreadsInv
  BY ThreadsInitInv, ThreadsStepInv, PTL DEF ThreadsSpec

\* Type correctness of the scheduler's fields.
THEOREM TypeCorrect == ThreadsSpec => []ThreadsType
<1>1. ThreadsInv => ThreadsType
  BY DEF ThreadsInv
<1> QED BY <1>1, ThreadsInductive, PTL

\* The CPU executes the thread marked RUNNING, and the ready list holds
\* exactly the READY threads, once each, whatever the callers of the
\* scheduler and the interrupts do.
THEOREM SchedulerConsistent == ThreadsSpec => []SchedInv
<1>1. ThreadsInv => SchedInv
  BY DEF ThreadsInv, CpuInv, SchedInv, IdleSound
<1> QED BY <1>1, ThreadsInductive, PTL

\* No ASSERT or PANIC of the scheduler is reached.
THEOREM SchedulerNeverPanics == ThreadsSpec => []NoSchedPanic
<1>1. ThreadsInv => NoSchedPanic
  BY DEF ThreadsInv, CpuInv, NoSchedPanic
<1> QED BY <1>1, ThreadsInductive, PTL

-----------------------------------------------------------------------------
(***************************************************************************)
(* The order of the ready list.                                            *)
(***************************************************************************)

\* In a list without repetitions Position finds the one place of an element.
LEMMA PositionIs ==
  ASSUME NEW q \in Seq(Thread), NoTwice(q), NEW i \in DOMAIN q
  PROVE  Position(q, q[i]) = i
<1>1. \A j \in DOMAIN q : q[j] = q[i] => j = i
  BY DEF NoTwice
<1>2. \E j \in DOMAIN q : q[j] = q[i]
  OBVIOUS
<1>3. Position(q, q[i]) \in DOMAIN q /\ q[Position(q, q[i])] = q[i]
  BY <1>2 DEF Position
<1> QED BY <1>1, <1>3

\* The place of an element is a number within the list.
LEMMA PositionIn ==
  ASSUME NEW q \in Seq(Thread), NoTwice(q), NEW u, On(u, q)
  PROVE  Position(q, u) \in 1..Len(q) /\ q[Position(q, u)] = u
<1>1. PICK i \in DOMAIN q : q[i] = u
  BY DEF On
<1>2. DOMAIN q = 1..Len(q)
  OBVIOUS
<1> QED BY <1>1, <1>2, PositionIs

\* list_append() puts the new element behind all others, which stay in place.
LEMMA AppendPosition ==
  ASSUME NEW q \in Seq(Thread), NoTwice(q), NEW t \in Thread, ~On(t, q)
  PROVE  /\ \A u : On(u, q) => Position(Append(q, t), u) = Position(q, u)
         /\ Position(Append(q, t), t) = Len(q) + 1
<1> DEFINE p == Append(q, t)
<1>1. /\ p \in Seq(Thread)
      /\ DOMAIN p = 1..Len(q) + 1
      /\ \A i \in 1..Len(q) : p[i] = q[i]
      /\ p[Len(q) + 1] = t
      /\ Len(q) \in Nat
  OBVIOUS
<1>2. NoTwice(p)
  BY AppendOn
<1> HIDE DEF p
<1>3. ASSUME NEW u, On(u, q) PROVE Position(p, u) = Position(q, u)
  <2>1. Position(q, u) \in 1..Len(q) /\ q[Position(q, u)] = u
    BY <1>3, PositionIn
  <2>2. Position(q, u) \in DOMAIN p /\ p[Position(q, u)] = u
    BY <1>1, <2>1
  <2> QED BY <1>1, <1>2, <2>2, PositionIs
<1>4. Position(p, t) = Len(q) + 1
  <2>1. Len(q) + 1 \in DOMAIN p
    BY <1>1
  <2> QED BY <1>1, <1>2, <2>1, PositionIs
<1> QED BY <1>3, <1>4 DEF p

\* list_pop() moves all that stay one place forward.
LEMMA PopPosition ==
  ASSUME NEW q \in Seq(Thread), NoTwice(q), q # <<>>
  PROVE  \A u : On(u, Tail(q)) => Position(Tail(q), u) = Position(q, u) - 1
<1> DEFINE p == Tail(q)
<1>1. /\ p \in Seq(Thread)
      /\ DOMAIN p = 1..Len(q) - 1
      /\ \A i \in 1..Len(q) - 1 : p[i] = q[i + 1]
      /\ DOMAIN q = 1..Len(q)
      /\ Len(q) \in Nat \ {0}
      /\ Len(p) = Len(q) - 1
  OBVIOUS
<1>2. NoTwice(p)
  BY PopOn
<1> HIDE DEF p
<1>3. ASSUME NEW u, On(u, p) PROVE Position(p, u) = Position(q, u) - 1
  <2>1. Position(p, u) \in 1..Len(p) /\ p[Position(p, u)] = u
    BY <1>1, <1>2, <1>3, PositionIn
  <2>2. Position(p, u) + 1 \in DOMAIN q /\ q[Position(p, u) + 1] = u
    BY <1>1, <2>1
  <2>3. Position(q, u) = Position(p, u) + 1
    BY <2>2, PositionIs
  <2> QED BY <1>1, <2>1, <2>3
<1> QED BY <1>3 DEF p

\* list_push() moves all that were there one place back.
LEMMA PushPosition ==
  ASSUME NEW q \in Seq(Thread), NoTwice(q), NEW t \in Thread, ~On(t, q)
  PROVE  \A u : On(u, q) => Position(<<t>> \o q, u) = Position(q, u) + 1
<1> DEFINE p == <<t>> \o q
<1>1. /\ p \in Seq(Thread)
      /\ DOMAIN p = 1..Len(q) + 1
      /\ \A i \in 2..Len(q) + 1 : p[i] = q[i - 1]
      /\ Len(q) \in Nat
  OBVIOUS
<1>2. NoTwice(p)
  BY PushOn
<1> HIDE DEF p
<1>3. ASSUME NEW u, On(u, q) PROVE Position(p, u) = Position(q, u) + 1
  <2>1. Position(q, u) \in 1..Len(q) /\ q[Position(q, u)] = u
    BY <1>3, PositionIn
  <2>2. Position(q, u) + 1 \in DOMAIN p /\ p[Position(q, u) + 1] = u
    BY <1>1, <2>1
  <2> QED BY <1>1, <1>2, <2>2, PositionIs
<1> QED BY <1>3 DEF p

\* The ways a step changes the ready list: a thread joins at the tail, a waiting
\* one is pushed at the head, the first is taken to run, with or without the
\* running one joining.
ReadyMoves ==
  \/ ready' = ready
  \/ \E x \in Thread : ~On(x, ready) /\ ready' = Append(ready, x)
  \/ \E x \in Thread : status[x] \in Blocking /\ ready' = <<x>> \o ready
  \/ ready # <<>> /\ ready' = Tail(ready)
  \/ ready' = Tail(Append(ready, cur))
  \/ ready' = <<>>

\* None of them lets a thread be overtaken by one that did not wait.
LEMMA MovesInOrder ==
  ASSUME CpuInv, CpuInv', ReadyMoves,
         NEW t \in Thread, NEW u \in Thread \ {t},
         status[t] = "READY", status'[t] = "READY", status'[u] = "READY",
         status[u] \notin Blocking,
         status[u] = "READY" => Position(ready, t) < Position(ready, u)
  PROVE  Position(ready', t) < Position(ready', u)
<1>1. /\ ready \in Seq(Thread) /\ NoTwice(ready)
      /\ On(t, ready)
      /\ On(u, ready) => Position(ready, t) < Position(ready, u)
      /\ cur \in Thread /\ ~On(cur, ready)
  BY ReadyExactOn DEF CpuInv, RunningIsCurrent
<1>2. /\ On(t, ready') /\ On(u, ready')
  BY DEF CpuInv, ReadyListExact, InReady, On
<1>3. /\ Position(ready, t) \in 1..Len(ready)
      /\ On(u, ready) => Position(ready, u) \in 1..Len(ready)
      /\ Len(ready) \in Nat
  BY <1>1, PositionIn
<1>4. CASE ready' = ready
  BY <1>1, <1>2, <1>4
<1>5. ASSUME NEW x \in Thread, ~On(x, ready), ready' = Append(ready, x)
      PROVE  Position(ready', t) < Position(ready', u)
  <2>1. /\ \A v : On(v, ready) => Position(ready', v) = Position(ready, v)
        /\ Position(ready', x) = Len(ready) + 1
    BY <1>1, <1>5, AppendPosition
  <2>2. On(u, ready) \/ u = x
    BY <1>1, <1>2, <1>5, AppendOn
  <2> QED BY <1>1, <1>3, <2>1, <2>2
<1>6. ASSUME NEW x \in Thread, status[x] \in Blocking, ready' = <<x>> \o ready
      PROVE  Position(ready', t) < Position(ready', u)
  <2>1. ~On(x, ready) /\ u # x
    BY <1>6, ReadyExactOn DEF CpuInv, Blocking
  <2>2. \A v : On(v, ready) => Position(ready', v) = Position(ready, v) + 1
    BY <1>1, <1>6, <2>1, PushPosition
  <2>3. On(u, ready)
    BY <1>1, <1>2, <1>6, <2>1, PushOn
  <2> QED BY <1>1, <1>3, <2>2, <2>3
<1>7. CASE ready # <<>> /\ ready' = Tail(ready)
  <2>1. \A v : On(v, ready') => Position(ready', v) = Position(ready, v) - 1
    BY <1>1, <1>7, PopPosition
  <2>2. On(u, ready)
    BY <1>1, <1>2, <1>7, PopOn
  <2> QED BY <1>1, <1>2, <1>3, <2>1, <2>2
<1>8. CASE ready' = Tail(Append(ready, cur))
  <2> DEFINE q == Append(ready, cur)
  <2>1. /\ \A v : On(v, ready) => Position(q, v) = Position(ready, v)
        /\ Position(q, cur) = Len(ready) + 1
    BY <1>1, AppendPosition
  <2>2. /\ q \in Seq(Thread) /\ q # <<>> /\ NoTwice(q)
        /\ \A v : On(v, q) <=> On(v, ready) \/ v = cur
    BY <1>1, AppendOn
  <2> HIDE DEF q
  <2>3. ready' = Tail(q)
    BY <1>8 DEF q
  <2>4. \A v : On(v, ready') => /\ On(v, q)
                                /\ Position(ready', v) = Position(q, v) - 1
    BY <2>2, <2>3, PopOn, PopPosition
  <2> QED BY <1>1, <1>2, <1>3, <2>1, <2>2, <2>4
<1>9. CASE ready' = <<>>
  BY <1>2, <1>9 DEF On
<1> QED BY <1>4, <1>5, <1>6, <1>7, <1>8, <1>9 DEF ReadyMoves

\* schedule() takes the first of the list, after the caller joined it or not.
LEMMA ScheduleMoves ==
  ASSUME CpuInv, NEW st, Schedule(st)
  PROVE  ReadyMoves
<1> DEFINE preempted == st[cur] = "RUNNING"
           queue == IF preempted THEN Append(ready, cur) ELSE ready
           from == IF queue = <<>> THEN <<Idle>> ELSE queue
<1>1. ready' = Tail(from) \/ ready' = ready
  BY DEF Schedule, Panic
<1>2. CASE queue = <<>>
  <2>1. from = <<Idle>>
    BY <1>2
  <2>2. Tail(<<Idle>>) = <<>>
    BY SchedAssumption
  <2> QED BY <1>1, <2>1, <2>2 DEF ReadyMoves
<1>3. CASE queue # <<>> /\ preempted
  BY <1>1, <1>3 DEF ReadyMoves
<1>4. CASE queue # <<>> /\ ~preempted
  BY <1>1, <1>4 DEF ReadyMoves
<1> QED BY <1>2, <1>3, <1>4

\* So does every step of the scheduler and its callers.
LEMMA StepMoves ==
  ASSUME ThreadsInv, ThreadsNext
  PROVE  ReadyMoves
<1>0. CpuInv
  BY DEF ThreadsInv
<1>1. ASSUME NEW t \in Caller, CallerStep(t) PROVE ReadyMoves
  <2>1. CASE IntrDisable(t) \/ IntrEnable(t)
    BY <2>1 DEF IntrDisable, IntrEnable, cpuVars, ReadyMoves
  <2>2. CASE CallerYields(t)
    BY <1>0, <2>2, ScheduleMoves DEF CallerYields, ThreadYield
  <2>3. ASSUME NEW s \in Blocking, Block(t, s) PROVE ReadyMoves
    <3>1. Schedule([status EXCEPT ![cur] = s]) \/ Panic
      BY <2>3 DEF Block, ThreadBlock
    <3> QED BY <1>0, <3>1, ScheduleMoves DEF Panic, ReadyMoves
  <2>4. ASSUME NEW u \in Caller, Unblock(t, u) PROVE ReadyMoves
    BY <2>4 DEF Unblock, ThreadUnblock, Panic, ReadyMoves, Caller
  <2>5. ASSUME NEW u \in Caller, Start(t, u) PROVE ReadyMoves
    BY <2>5 DEF Start, ThreadStart, Panic, ReadyMoves, Caller, InReady, On
  <2>6. ASSUME NEW u \in Caller, Reap(t, u) PROVE ReadyMoves
    <3>1. ~InReady(u)
      BY <1>0, <2>6 DEF Reap, CpuInv, ReadyListExact, Caller
    <3> QED BY <2>6, <3>1 DEF Reap, ReadyMoves
  <2> QED BY <1>1, <2>1, <2>2, <2>3, <2>4, <2>5, <2>6 DEF CallerStep
<1>2. ASSUME NEW u \in Caller, IrqUnblock(u) PROVE ReadyMoves
  BY <1>2 DEF IrqUnblock, ThreadUnblock, Panic, ReadyMoves, Caller, Blocking
<1>3. CASE TimerInterrupt
  <2>1. Schedule(status) \/ UNCHANGED ready
    BY <1>3 DEF TimerInterrupt
  <2> QED BY <1>0, <2>1, ScheduleMoves DEF ReadyMoves
<1>4. CASE IdleBlock
  <2>1. Schedule([status EXCEPT ![cur] = "BLOCKED"]) \/ Panic
    BY <1>4 DEF IdleBlock, ThreadBlock
  <2> QED BY <1>0, <2>1, ScheduleMoves DEF Panic, ReadyMoves
<1>5. CASE IdleHalt
  BY <1>5 DEF IdleHalt, cpuVars, ReadyMoves
<1> QED BY <1>1, <1>2, <1>3, <1>4, <1>5 DEF ThreadsNext

\* A thread on the ready list is never overtaken by one that gives the CPU up
\* after it; only thread_unblock() pushes to the front.
THEOREM NobodyOvertakes == ThreadsSpec => NoOvertaking
<1> DEFINE InOrder ==
      \A t \in Thread :
        (status[t] = "READY" /\ status'[t] = "READY") =>
          \A u \in Thread \ {t} :
            (/\ status'[u] = "READY"
             /\ status[u] \notin Blocking
             /\ (status[u] = "READY" => Position(ready, t) < Position(ready, u)))
            => Position(ready', t) < Position(ready', u)
<1>1. ThreadsInv /\ ThreadsInv' /\ [ThreadsNext]_schedVars => [InOrder]_schedVars
  <2> SUFFICES ASSUME ThreadsInv, ThreadsInv', ThreadsNext PROVE InOrder
    OBVIOUS
  <2>1. CpuInv /\ CpuInv' /\ ReadyMoves
    BY StepMoves DEF ThreadsInv
  <2> QED BY <2>1, MovesInOrder
<1>2. [][InOrder]_schedVars => NoOvertaking
  BY DEF NoOvertaking
<1> QED BY <1>1, <1>2, ThreadsInductive, PTL DEF ThreadsSpec

-----------------------------------------------------------------------------
(* The locks *)

\* The inductive invariant: that of Sync, and NestAgrees, which is what keeps a
\* caller that releases from being anyone but the holder.
IInv == /\ SyncInv
        /\ NestAgrees
        /\ nest \in [Thread -> [Lock -> 0..MaxRepeat]]
        /\ intr \in [Thread -> BOOLEAN]
        /\ idle \in {"block", "woken", "hlt"}

\* All locks are free.
LEMMA InitIInv == Init => IInv
<1> SUFFICES ASSUME Init PROVE IInv
  OBVIOUS
<1> USE SyncAssumption, LocksAssumption
<1>1. CpuInv
  BY SchedInitCpuInv DEF Init, NoTwice
<1>2. SyncInv
  BY <1>1, SyncInitInv DEF Init
<1>3. /\ nest = [t \in Thread |-> [l \in Lock |-> 0]]
      /\ holder = [l \in Lock |-> None]
      /\ op = [t \in Thread |-> "none"]
      /\ intr = [t \in Thread |-> TRUE] /\ idle = "block"
  BY DEF Init, SchedInit, SyncInit
<1>4. NestAgrees
  BY <1>3 DEF NestAgrees
<1> QED BY <1>2, <1>3, <1>4 DEF IInv

\* lock_acquire: which of its two branches it takes, a caller knows from its own
\* count.
LEMMA AcquireIInv ==
  ASSUME IInv, NEW t \in Client, NEW l \in Lock, Acquire(t, l)
  PROVE  /\ IInv'
         /\ SameOwners
         /\ nest' = [nest EXCEPT ![t][l] = @ + 1]
<1> USE SyncAssumption, LocksAssumption
<1>1. /\ t \in Thread \ {Idle} /\ op[t] = "none"
      /\ nest' = [nest EXCEPT ![t][l] = @ + 1]
      /\ LockAcquire(t, l) /\ UNCHANGED schedVars
      /\ nest[t][l] = 0 \/ nest[t][l] \in 1..MaxRepeat - 1
  BY DEF Client, Acquire, InCaller, HoldsNone
<1>2. UNCHANGED cpuVars /\ UNCHANGED intr /\ UNCHANGED idle
  BY <1>1 DEF schedVars, cpuVars
<1>3. SyncInv' /\ SameOwners
  BY <1>1, <1>2, AcquireKeeps DEF IInv
<1>4. SyncTypeOK
  BY DEF IInv, SyncInv, LockInv
<1>5. nest' \in [Thread -> [Lock -> 0..MaxRepeat]]
  <2>1. nest[t][l] + 1 \in 0..MaxRepeat
    BY <1>1
  <2> QED BY <1>1, <2>1 DEF IInv
<1>8. /\ nest'[t][l] = nest[t][l] + 1 /\ nest[t][l] \in Nat
      /\ \A u \in Thread, k \in Lock : ~(u = t /\ k = l) => nest'[u][k] = nest[u][k]
  BY <1>1 DEF IInv
<1>6. CASE holder[l] # t
  <2>1. /\ op' = [op EXCEPT ![t] = "down"] /\ on' = [on EXCEPT ![t] = l]
        /\ UNCHANGED <<value, holder, repeat>>
    BY <1>1, <1>6 DEF LockAcquire, SemaDown, Enter
  <2>2. nest[t][l] = 0
    BY <1>1, <1>6 DEF IInv, NestAgrees
  <2>3. /\ op'[t] = "down" /\ on'[t] = l
        /\ \A u \in Thread \ {t} : op'[u] = op[u] /\ on'[u] = on[u]
    BY <1>1, <1>4, <2>1 DEF SyncTypeOK
  <2>4. NestAgrees'
    BY <1>1, <1>6, <1>8, <2>1, <2>2, <2>3 DEF IInv, NestAgrees
  <2> QED BY <1>1, <1>2, <1>3, <1>5, <2>4 DEF IInv
<1>7. CASE holder[l] = t
  <2>1. /\ repeat' = [repeat EXCEPT ![l] = @ + 1]
        /\ UNCHANGED <<value, holder, op, on>>
    BY <1>1, <1>7 DEF LockAcquire
  <2>2. repeat'[l] = repeat[l] + 1 /\ \A k \in Lock \ {l} : repeat'[k] = repeat[k]
    BY <1>4, <2>1 DEF SyncTypeOK
  <2>3. repeat[l] = nest[t][l]
    BY <1>1, <1>7 DEF IInv, NestAgrees
  <2>4. NestAgrees'
    BY <1>1, <1>7, <1>8, <2>1, <2>2, <2>3 DEF IInv, NestAgrees
  <2> QED BY <1>1, <1>2, <1>3, <1>5, <2>4 DEF IInv
<1> QED BY <1>6, <1>7

\* lock_release: the caller is the holder, so its ASSERT holds; the last
\* release starts to free the lock.
LEMMA ReleaseIInv ==
  ASSUME IInv, NEW t \in Client, NEW l \in Lock, Release(t, l)
  PROVE  /\ IInv'
         /\ SameOwners
         /\ Owns(t, l)
         /\ nest[t][l] > 0
         /\ nest' = [nest EXCEPT ![t][l] = @ - 1]
<1> USE SyncAssumption, LocksAssumption
<1>1. /\ t \in Thread \ {Idle} /\ op[t] = "none" /\ nest[t][l] > 0
      /\ nest' = [nest EXCEPT ![t][l] = @ - 1]
      /\ LockRelease(t, l) /\ UNCHANGED <<cur, status, ready, ticks, intr, idle>>
  BY DEF Client, Release, InCaller
<1>2. holder[l] = t /\ repeat[l] = nest[t][l]
  BY <1>1 DEF IInv, NestAgrees
<1>3. /\ SyncInv' /\ SameOwners /\ repeat[l] > 0
      /\ repeat' = [repeat EXCEPT ![l] = @ - 1]
      /\ UNCHANGED <<value, waiters, holder, old, panicked>>
      /\ IF repeat[l] = 1 THEN Enter(t, l, "drop") ELSE UNCHANGED <<op, on>>
  BY <1>1, <1>2, ReleaseKeeps DEF IInv
<1>4. SyncTypeOK
  BY DEF IInv, SyncInv, LockInv
<1>5. nest' \in [Thread -> [Lock -> 0..MaxRepeat]]
  <2>1. nest[t][l] - 1 \in 0..MaxRepeat
    BY <1>1 DEF IInv
  <2> QED BY <1>1, <2>1 DEF IInv
<1>7. /\ nest'[t][l] = nest[t][l] - 1 /\ nest[t][l] \in Nat
      /\ \A u \in Thread, k \in Lock : ~(u = t /\ k = l) => nest'[u][k] = nest[u][k]
      /\ repeat'[l] = nest[t][l] - 1 /\ \A k \in Lock \ {l} : repeat'[k] = repeat[k]
  BY <1>1, <1>2, <1>3, <1>4 DEF IInv, SyncTypeOK
<1>6. NestAgrees'
  <2>1. CASE repeat[l] = 1
    <3>1. op' = [op EXCEPT ![t] = "drop"] /\ on' = [on EXCEPT ![t] = l]
      BY <1>3, <2>1 DEF Enter
    <3>2. /\ op'[t] = "drop" /\ on'[t] = l /\ nest'[t][l] = 0
          /\ \A u \in Thread \ {t} : op'[u] = op[u] /\ on'[u] = on[u]
      BY <1>1, <1>2, <1>4, <1>7, <2>1, <3>1 DEF SyncTypeOK
    <3>3. ASSUME NEW u \in Thread, NEW k \in Lock
          PROVE  /\ op'[u] = "none" \/ on'[u] # k =>
                      /\ nest'[u][k] > 0 <=> holder'[k] = u
                      /\ holder'[k] = u => repeat'[k] = nest'[u][k]
                 /\ on'[u] = k => /\ op'[u] \in {"down", "sleep", "took", "mine"} => nest'[u][k] = 1
                                  /\ op'[u] \in {"drop", "up"} => nest'[u][k] = 0
      <4>1. holder' = holder
        BY <1>3
      <4>2. CASE u = t /\ k = l
        BY <1>1, <1>2, <1>7, <3>2, <4>1, <4>2
      <4>3. CASE u = t /\ k # l
        BY <1>1, <1>2, <1>7, <3>2, <4>1, <4>3 DEF IInv, NestAgrees
      <4>4. CASE u # t
        <5>1. /\ op'[u] = op[u] /\ on'[u] = on[u] /\ nest'[u][k] = nest[u][k]
              /\ holder[k] = u => k # l /\ repeat'[k] = repeat[k]
          BY <1>2, <1>7, <3>2, <4>4
        <5> QED BY <4>1, <5>1 DEF IInv, NestAgrees
      <4> QED BY <4>2, <4>3, <4>4
    <3> QED BY <3>3 DEF NestAgrees
  <2>2. CASE repeat[l] # 1
    <3>1. UNCHANGED <<op, on>>
      BY <1>3, <2>2
    <3>2. nest'[t][l] > 0
      BY <1>2, <1>7, <2>2, <1>1
    <3>3. op' = op /\ on' = on /\ holder' = holder
      BY <1>3, <3>1
    <3> QED BY <1>1, <1>2, <1>7, <3>2, <3>3 DEF IInv, NestAgrees
  <2> QED BY <2>1, <2>2
<1> QED BY <1>1, <1>2, <1>3, <1>5, <1>6 DEF IInv, Owns

\* sema_down on a lock: it passes, and t is the owner, or it sleeps.
LEMMA DownIInv ==
  ASSUME IInv, NEW t \in Client, Down(t), UNCHANGED nest
  PROVE  /\ IInv'
         /\ \/ SameOwners
            \/ /\ on[t] \in Lock /\ nest[t][on[t]] = 1
               /\ \A u \in Thread : ~Owns(u, on[t])
               /\ \A u \in Thread, k \in Lock :
                    Owns(u, k)' <=> Owns(u, k) \/ (u = t /\ k = on[t])
<1> USE SyncAssumption, LocksAssumption
<1>1. /\ t \in Thread \ {Idle} /\ cur = t /\ op[t] \in {"down", "sleep"}
      /\ UNCHANGED <<holder, repeat, idle>>
      /\ DownTakes(t) \/ DownSleeps(t)
  BY DEF Client, Down, Running
<1>2. SyncTypeOK /\ on[t] \in Lock
  BY <1>1 DEF IInv, SyncInv, LockInv, SyncTypeOK
<1>3. intr' \in [Thread -> BOOLEAN]
  BY <1>1, <1>2 DEF IInv, SyncTypeOK, DownTakes, DownSleeps
<1>4. nest[t][on[t]] = 1
  BY <1>1, <1>2 DEF IInv, NestAgrees
<1>7. ASSUME NEW w \in {"sleep", "took"}, op' = [op EXCEPT ![t] = w], UNCHANGED on
      PROVE  NestAgrees'
  <2>1. op'[t] = w /\ \A u \in Thread \ {t} : op'[u] = op[u]
    BY <1>1, <1>2, <1>7 DEF SyncTypeOK
  <2> QED BY <1>1, <1>4, <1>7, <2>1 DEF IInv, NestAgrees
<1>5. CASE DownSleeps(t)
  <2>1. SyncInv' /\ SameOwners /\ op' = [op EXCEPT ![t] = "sleep"] /\ UNCHANGED on
    BY <1>1, <1>5, DownSleepsKeeps DEF IInv
  <2>2. NestAgrees'
    BY <1>7, <2>1
  <2> QED BY <1>1, <1>3, <2>1, <2>2 DEF IInv
<1>6. CASE DownTakes(t)
  <2>1. /\ SyncInv' /\ op' = [op EXCEPT ![t] = "took"] /\ UNCHANGED on
        /\ \A u \in Thread : ~Owns(u, on[t])
        /\ \A u \in Thread, k \in Lock :
             Owns(u, k)' <=> Owns(u, k) \/ (u = t /\ k = on[t])
    BY <1>1, <1>2, <1>6, DownTakesKeeps DEF IInv
  <2>2. NestAgrees'
    BY <1>7, <2>1
  <2> QED BY <1>1, <1>2, <1>3, <1>4, <2>1, <2>2 DEF IInv
<1> QED BY <1>1, <1>5, <1>6

\* The assignments to the lock's fields, before and after the semaphore's bodies
LEMMA FieldsIInv ==
  ASSUME IInv, NEW t \in Client, SetHolder(t) \/ SetRepeat(t) \/ ClearHolder(t),
         UNCHANGED nest
  PROVE  IInv' /\ SameOwners
<1> USE SyncAssumption
<1>1. t \in Thread \ {Idle} /\ t # None
  BY DEF Client
<1>2. SyncTypeOK /\ HolderLags
  BY DEF IInv, SyncInv, LockInv
<1>3. SyncInv' /\ SameOwners
  BY <1>1, SetHolderKeeps, SetRepeatKeeps, ClearHolderKeeps DEF IInv
<1>4. UNCHANGED <<intr, idle>>
  BY DEF SetHolder, SetRepeat, ClearHolder, schedVars
<1>5. CASE SetHolder(t)
  <2>1. /\ op[t] = "took" /\ on[t] \in Lock
        /\ holder' = [holder EXCEPT ![on[t]] = t]
        /\ op' = [op EXCEPT ![t] = "mine"]
        /\ UNCHANGED <<on, repeat>>
    BY <1>1, <1>2, <1>5 DEF SetHolder, Goto, HolderLags
  <2>2. holder[on[t]] = None
    <3>1. Owns(t, on[t]) /\ holder[on[t]] # t
      BY <1>1, <1>2, <2>1 DEF Owns, HolderLags
    <3> QED BY <1>1, <1>2, <2>1, <3>1 DEF Owns, SyncTypeOK, IInv, SyncInv, LockInv, MutualExclusion
  <2>3. NestAgrees'
    BY <1>1, <1>2, <2>1, <2>2 DEF IInv, SyncTypeOK, NestAgrees
  <2> QED BY <1>3, <1>4, <2>3 DEF IInv
<1>6. CASE SetRepeat(t)
  <2>1. /\ op[t] = "mine" /\ on[t] \in Lock /\ holder[on[t]] = t
        /\ repeat' = [repeat EXCEPT ![on[t]] = 1]
        /\ op' = [op EXCEPT ![t] = "none"]
        /\ UNCHANGED <<on, holder>>
    BY <1>1, <1>6, SetRepeatKeeps DEF IInv, SetRepeat
  <2>2. NestAgrees'
    BY <1>1, <1>2, <2>1 DEF IInv, SyncTypeOK, NestAgrees
  <2> QED BY <1>3, <1>4, <2>2 DEF IInv
<1>7. CASE ClearHolder(t)
  <2>1. /\ op[t] = "drop" /\ on[t] \in Lock /\ holder[on[t]] = t
        /\ holder' = [holder EXCEPT ![on[t]] = None]
        /\ op' = [op EXCEPT ![t] = "up"]
        /\ UNCHANGED <<on, repeat>>
    BY <1>1, <1>2, <1>7 DEF ClearHolder, Goto, HolderLags
  <2>2. NestAgrees'
    BY <1>1, <1>2, <2>1 DEF IInv, SyncTypeOK, NestAgrees
  <2> QED BY <1>3, <1>4, <2>2 DEF IInv
<1> QED BY <1>5, <1>6, <1>7

\* sema_up of the lock: t is no longer its owner.
LEMMA UpIInv ==
  ASSUME IInv, NEW t \in Client, Up(t), UNCHANGED nest
  PROVE  /\ IInv'
         /\ on[t] \in Lock /\ nest[t][on[t]] = 0 /\ Owns(t, on[t])
         /\ \A u \in Thread, k \in Lock :
              Owns(u, k)' <=> Owns(u, k) /\ ~(u = t /\ k = on[t])
<1> USE SyncAssumption
<1>1. t \in Thread \ {Idle} /\ op[t] = "up" /\ UNCHANGED <<intr, idle>>
  BY DEF Client, Up
<1>2. /\ SyncInv' /\ on[t] \in Lock /\ Owns(t, on[t])
      /\ op' = [op EXCEPT ![t] = "none"]
      /\ UNCHANGED <<on, holder, repeat>>
      /\ \A u \in Thread, k \in Lock :
           Owns(u, k)' <=> Owns(u, k) /\ ~(u = t /\ k = on[t])
  BY <1>1, UpKeeps DEF IInv
<1>3. SyncTypeOK /\ HolderLags
  BY DEF IInv, SyncInv, LockInv
<1>4. nest[t][on[t]] = 0 /\ holder[on[t]] # t
  BY <1>1, <1>2, <1>3 DEF IInv, NestAgrees, HolderLags
<1>5. NestAgrees'
  BY <1>1, <1>2, <1>3, <1>4 DEF IInv, SyncTypeOK, NestAgrees
<1> QED BY <1>1, <1>2, <1>4, <1>5 DEF IInv

\* Every other step leaves the locks alone.
LEMMA OtherIInv ==
  ASSUME IInv,
         Tick \/ IdleStep \/ UNCHANGED vars \/
         \E t \in Client : EnterSyscall(t) \/ LeaveSyscall(t) \/ Yield(t)
  PROVE  IInv' /\ SameOwners /\ UNCHANGED nest
<1>1. UNCHANGED syncVars /\ UNCHANGED nest
  BY DEF Tick, IdleStep, vars, EnterSyscall, LeaveSyscall, Yield
<1>2. TimerInterrupt \/ IdleBlock \/ IdleHalt \/ ThreadYield \/ UNCHANGED cpuVars
  BY DEF Tick, IdleStep, vars, schedVars, cpuVars, EnterSyscall, LeaveSyscall, Yield
<1>3. SyncInv' /\ SameOwners
  BY <1>1, <1>2, RestKeeps DEF IInv
<1>4. intr' \in [Thread -> BOOLEAN] /\ idle' \in {"block", "woken", "hlt"}
  BY DEF IInv, Tick, TimerInterrupt, Interrupt, IdleStep, IdleBlock, IdleHalt, vars, schedVars,
         EnterSyscall, LeaveSyscall, Yield
<1>5. NestAgrees'
  BY <1>1 DEF IInv, NestAgrees, syncVars
<1> QED BY <1>1, <1>3, <1>4, <1>5 DEF IInv

\* Every step keeps the invariant.
LEMMA StepIInv == IInv /\ [Next]_vars => IInv'
<1> SUFFICES ASSUME IInv, [Next]_vars PROVE IInv'
  OBVIOUS
<1>1. ASSUME NEW t \in Client, NEW l \in Lock, Acquire(t, l) PROVE IInv'
  BY <1>1, AcquireIInv
<1>2. ASSUME NEW t \in Client, NEW l \in Lock, Release(t, l) PROVE IInv'
  BY <1>2, ReleaseIInv
<1>3. ASSUME NEW t \in Client, SyncStep(t), UNCHANGED nest PROVE IInv'
  BY <1>3, DownIInv, FieldsIInv, UpIInv DEF SyncStep
<1>4. CASE Tick \/ IdleStep \/ UNCHANGED vars \/
           \E t \in Client : EnterSyscall(t) \/ LeaveSyscall(t) \/ Yield(t)
  BY <1>4, OtherIInv
<1> QED BY <1>1, <1>2, <1>3, <1>4 DEF Next, ClientStep

\* The invariant holds in every reachable state.
THEOREM Inductive == Spec => []IInv
  BY InitIInv, StepIInv, PTL DEF Spec

\* The variables keep their types; a reentrance count stays in its bound.
THEOREM LocksType == Spec => []TypeOK
<1>1. IInv => TypeOK
  BY DEF IInv, SyncInv, CpuInv, LockInv, SchedTypeOK, TypeOK
<1> QED BY <1>1, Inductive, PTL

\* No ASSERT of schedule(), thread_unblock(), sema_up(), lock_acquire() or
\* lock_release() fails.
THEOREM LocksNeverPanic == Spec => []NoPanic
<1>1. IInv => NoPanic
  BY DEF IInv, SyncInv, CpuInv, NoPanic
<1> QED BY <1>1, Inductive, PTL

\* At most one thread is between the sema_down and the sema_up of a lock.
THEOREM LocksExclude == Spec => []MutualExclusion
<1>1. IInv => MutualExclusion
  BY DEF IInv, SyncInv, LockInv
<1> QED BY <1>1, Inductive, PTL

\* The semaphore's value, the holder and the count of a lock agree with who
\* owns it at every point of lock_acquire and lock_release.
THEOREM LocksConsistent == Spec => []LockFieldsAgree
<1>1. IInv => LockFieldsAgree
  BY DEF IInv, SyncInv, LockInv
<1> QED BY <1>1, Inductive, PTL

\* A lock counts what its owner has acquired and not yet released.
THEOREM LocksCountRight == Spec => []NestAgrees
<1>1. IInv => NestAgrees
  BY DEF IInv
<1> QED BY <1>1, Inductive, PTL

\* The one list link of a thread is never on two lists: who sleeps on a
\* semaphore is on its waiters list, once, and on no other.
THEOREM LocksSleepersListed == Spec => []SleepersListed
<1>1. IInv => SleepersListed
  BY DEF IInv, SyncInv, SleepInv
<1> QED BY <1>1, Inductive, PTL

\* A lock that is free while threads sleep on it has one of them on its way.
THEOREM LocksLoseNoWakeup == Spec => []NoLostWakeup
<1>1. IInv => NoLostWakeup
  BY DEF IInv, SyncInv, SleepInv
<1> QED BY <1>1, Inductive, PTL

-----------------------------------------------------------------------------
(***************************************************************************)
(* Refinement.  The abstract acquire is the sema_down that passes, the     *)
(* abstract release the sema_up; the assignments to holder around them are *)
(* stutters.                                                               *)
(***************************************************************************)
ownerBar == [l \in Lock |-> OwnerOf(l)]
depthBar == [l \in Lock |-> DepthOf(l)]

OwnersSound ==
  \A l \in Lock : /\ OwnerOf(l) \in Thread \cup {None}
                  /\ \A t \in Thread : Owns(t, l) <=> OwnerOf(l) = t

\* OwnerOf is the owner, for the owner is one.
LEMMA OwnerIs == IInv => OwnersSound
<1> SUFFICES ASSUME IInv, NEW l \in Lock
             PROVE  /\ OwnerOf(l) \in Thread \cup {None}
                    /\ \A t \in Thread : Owns(t, l) <=> OwnerOf(l) = t
  BY DEF OwnersSound
<1>1. CASE \E t \in Thread : Owns(t, l)
  <2>1. OwnerOf(l) \in Thread /\ Owns(OwnerOf(l), l)
    BY <1>1 DEF OwnerOf
  <2>2. \A t, u \in Thread : Owns(t, l) /\ Owns(u, l) => t = u
    BY DEF IInv, SyncInv, LockInv, MutualExclusion
  <2> QED BY <2>1, <2>2
<1>2. CASE ~\E t \in Thread : Owns(t, l)
  <2>1. OwnerOf(l) = None
    BY <1>2 DEF OwnerOf
  <2> QED BY <1>2, <2>1, SyncAssumption
<1> QED BY <1>1, <1>2

\* The abstract depth is what the owner counts.
DepthSound ==
  \A l \in Lock : /\ \A t \in Thread : Owns(t, l) => DepthOf(l) = nest[t][l]
                  /\ (\A t \in Thread : ~Owns(t, l)) => DepthOf(l) = 0

\* It follows from what the invariant says of owners.
LEMMA DepthIs == IInv => DepthSound
  BY OwnerIs DEF OwnersSound, DepthSound, DepthOf

\* A step that changes no owner and no owner's count is a stutter.
LEMMA StutterMap ==
  ASSUME IInv, IInv', SameOwners,
         \A t \in Thread, l \in Lock : Owns(t, l) => nest'[t][l] = nest[t][l]
  PROVE  UNCHANGED <<ownerBar, depthBar>>
<1>1. OwnersSound /\ OwnersSound' /\ DepthSound /\ DepthSound'
  BY OwnerIs, DepthIs, PTL
<1>2. ASSUME NEW l \in Lock PROVE OwnerOf(l)' = OwnerOf(l)
  BY <1>1 DEF SameOwners, OwnersSound
<1>3. ASSUME NEW l \in Lock PROVE DepthOf(l)' = DepthOf(l)
  <2>1. CASE \E t \in Thread : Owns(t, l)
    <3>1. PICK t \in Thread : Owns(t, l) /\ Owns(t, l)'
      BY <2>1 DEF SameOwners
    <3> QED BY <1>1, <3>1 DEF DepthSound
  <2>2. CASE \A t \in Thread : ~Owns(t, l)
    BY <1>1, <2>2 DEF DepthSound, SameOwners
  <2> QED BY <2>1, <2>2
<1> QED BY <1>2, <1>3 DEF ownerBar, depthBar

\* The map of the initial state.
LEMMA InitMap == Init => Mutexes!Init
<1> SUFFICES ASSUME Init PROVE Mutexes!Init
  OBVIOUS
<1>1. \A l \in Lock, t \in Thread : ~Owns(t, l)
  BY SyncAssumption DEF Init, SyncInit, Owns
<1>2. \A l \in Lock : OwnerOf(l) = None /\ DepthOf(l) = 0
  BY <1>1 DEF OwnerOf, DepthOf
<1> QED BY <1>2 DEF Mutexes!Init

\* Every step is an abstract step or a stutter.
LEMMA StepMap ==
  ASSUME IInv, IInv', [Next]_vars
  PROVE  Mutexes!Next \/ UNCHANGED <<ownerBar, depthBar>>
<1> USE SyncAssumption
<1>a. \A k \in Lock : /\ OwnerOf(k) \in Thread \cup {None}
                      /\ \A t \in Thread : Owns(t, k) <=> OwnerOf(k) = t
                      /\ \A t \in Thread : Owns(t, k) => DepthOf(k) = nest[t][k]
                      /\ (\A t \in Thread : ~Owns(t, k)) => DepthOf(k) = 0
  BY OwnerIs, DepthIs DEF OwnersSound, DepthSound
<1>b. \A k \in Lock : /\ OwnerOf(k)' \in Thread \cup {None}
                      /\ \A t \in Thread : Owns(t, k)' <=> OwnerOf(k)' = t
                      /\ \A t \in Thread : Owns(t, k)' => DepthOf(k)' = nest'[t][k]
                      /\ (\A t \in Thread : ~Owns(t, k)') => DepthOf(k)' = 0
  <2>1. OwnersSound' /\ DepthSound'
    BY OwnerIs, DepthIs, PTL
  <2> QED BY <2>1 DEF OwnersSound, DepthSound
<1>d. nest \in [Thread -> [Lock -> 0..MaxRepeat]]
  BY DEF IInv
\* Owners and counts are as before for every lock but l.
<1>e. ASSUME NEW l \in Lock,
             \A u \in Thread, k \in Lock \ {l} :
               (Owns(u, k)' <=> Owns(u, k)) /\ nest'[u][k] = nest[u][k]
      PROVE  \A k \in Lock \ {l} : OwnerOf(k)' = OwnerOf(k) /\ DepthOf(k)' = DepthOf(k)
  <2> SUFFICES ASSUME NEW k \in Lock \ {l}
               PROVE  OwnerOf(k)' = OwnerOf(k) /\ DepthOf(k)' = DepthOf(k)
    OBVIOUS
  <2>1. OwnerOf(k)' = OwnerOf(k)
    BY <1>a, <1>b, <1>e
  <2>2. CASE \E u \in Thread : Owns(u, k)
    BY <1>a, <1>b, <1>e, <2>1, <2>2
  <2>3. CASE \A u \in Thread : ~Owns(u, k)
    BY <1>a, <1>b, <1>e, <2>1, <2>3
  <2> QED BY <2>1, <2>2, <2>3
<1>1. ASSUME NEW t \in Client, NEW l \in Lock, Acquire(t, l)
      PROVE  Mutexes!Next \/ UNCHANGED <<ownerBar, depthBar>>
  <2>1. /\ t \in Thread /\ SameOwners
        /\ nest' = [nest EXCEPT ![t][l] = @ + 1]
    BY <1>1, AcquireIInv DEF Client
  <2>2. CASE ~Owns(t, l)
    <3>1. \A u \in Thread, k \in Lock : Owns(u, k) => nest'[u][k] = nest[u][k]
      BY <1>d, <2>1, <2>2
    <3> QED BY <2>1, <3>1, StutterMap
  <2>3. CASE Owns(t, l)
    <3>1. OwnerOf(l) = t /\ OwnerOf(l)' = t
      BY <1>a, <1>b, <2>1, <2>3 DEF SameOwners
    <3>2. DepthOf(l)' = DepthOf(l) + 1
      BY <1>a, <1>b, <1>d, <2>1, <3>1
    <3>3. \A k \in Lock \ {l} : OwnerOf(k)' = OwnerOf(k) /\ DepthOf(k)' = DepthOf(k)
      BY <1>d, <1>e, <2>1 DEF SameOwners
    <3>4. Mutexes!Reenter(t, l)
      BY <3>1, <3>2, <3>3 DEF Mutexes!Reenter
    <3> QED BY <2>1, <3>4 DEF Mutexes!Next
  <2> QED BY <2>2, <2>3
<1>2. ASSUME NEW t \in Client, NEW l \in Lock, Release(t, l)
      PROVE  Mutexes!Next
  <2>1. /\ t \in Thread /\ SameOwners /\ Owns(t, l)
        /\ nest[t][l] > 0
        /\ nest' = [nest EXCEPT ![t][l] = @ - 1]
    BY <1>2, ReleaseIInv DEF Client
  <2>2. OwnerOf(l) = t /\ OwnerOf(l)' = t
    BY <1>a, <1>b, <2>1 DEF SameOwners
  <2>3. DepthOf(l)' = DepthOf(l) - 1 /\ DepthOf(l) > 0
    BY <1>a, <1>b, <1>d, <2>1, <2>2
  <2>4. \A k \in Lock \ {l} : OwnerOf(k)' = OwnerOf(k) /\ DepthOf(k)' = DepthOf(k)
    BY <1>d, <1>e, <2>1 DEF SameOwners
  <2>5. Mutexes!Leave(t, l)
    BY <2>2, <2>3, <2>4 DEF Mutexes!Leave
  <2> QED BY <2>1, <2>5 DEF Mutexes!Next
<1>3. ASSUME NEW t \in Client, Down(t), UNCHANGED nest
      PROVE  Mutexes!Next \/ UNCHANGED <<ownerBar, depthBar>>
  <2>0. t \in Thread
    BY DEF Client
  <2>1. CASE SameOwners
    BY <1>3, <2>1, StutterMap
  <2>2. CASE ~SameOwners
    <3>1. PICK l \in Lock :
            /\ nest[t][l] = 1
            /\ \A u \in Thread : ~Owns(u, l)
            /\ \A u \in Thread, k \in Lock :
                 Owns(u, k)' <=> Owns(u, k) \/ (u = t /\ k = l)
      BY <1>3, <2>2, DownIInv
    <3>2. OwnerOf(l) = None /\ OwnerOf(l)' = t /\ DepthOf(l)' = 1
      BY <1>a, <1>b, <1>3, <2>0, <3>1
    <3>3. \A k \in Lock \ {l} : OwnerOf(k)' = OwnerOf(k) /\ DepthOf(k)' = DepthOf(k)
      BY <1>e, <1>3, <3>1
    <3>4. Mutexes!Acquire(t, l)
      BY <3>2, <3>3 DEF Mutexes!Acquire
    <3> QED BY <2>0, <3>4 DEF Mutexes!Next
  <2> QED BY <2>1, <2>2
<1>4. ASSUME NEW t \in Client, SetHolder(t) \/ SetRepeat(t) \/ ClearHolder(t), UNCHANGED nest
      PROVE  UNCHANGED <<ownerBar, depthBar>>
  BY <1>4, FieldsIInv, StutterMap
<1>5. ASSUME NEW t \in Client, Up(t), UNCHANGED nest
      PROVE  Mutexes!Next
  <2>0. t \in Thread /\ t # None
    BY DEF Client
  <2>1. PICK l \in Lock :
          /\ nest[t][l] = 0 /\ Owns(t, l)
          /\ \A u \in Thread, k \in Lock :
               Owns(u, k)' <=> Owns(u, k) /\ ~(u = t /\ k = l)
    BY <1>5, UpIInv
  <2>2. OwnerOf(l) = t /\ OwnerOf(l)' = None
    BY <1>a, <1>b, <2>0, <2>1
  <2>3. \A k \in Lock \ {l} : OwnerOf(k)' = OwnerOf(k) /\ DepthOf(k)' = DepthOf(k)
    BY <1>e, <1>5, <2>1
  <2>4. DepthOf(l) = 0
    BY <1>a, <2>0, <2>1
  <2>5. \A u \in Thread : ~Owns(u, l)'
    BY <1>a, <2>0, <2>1, <2>2
  <2>6. DepthOf(l)' = 0
    BY <1>b, <2>5
  <2>7. Mutexes!Free(t, l)
    BY <2>2, <2>3, <2>4, <2>6 DEF Mutexes!Free
  <2> QED BY <2>0, <2>7 DEF Mutexes!Next
<1>6. CASE Tick \/ IdleStep \/ UNCHANGED vars \/
           \E t \in Client : EnterSyscall(t) \/ LeaveSyscall(t) \/ Yield(t)
  BY <1>6, OtherIInv, StutterMap
<1> QED BY <1>1, <1>2, <1>3, <1>4, <1>5, <1>6 DEF Next, ClientStep, SyncStep

\* The locks implement the abstract mutex: acquire and release as the callers
\* see them are atomic, only the owner goes deeper or back, and a lock is free
\* again only after its owner's last release.
THEOREM LocksImplementMutex == Spec => ImplementsMutex
<1>1. [Next]_vars /\ IInv /\ IInv' => [Mutexes!Next]_<<ownerBar, depthBar>>
  BY StepMap
<1> QED BY <1>1, InitMap, Inductive, PTL DEF Spec, ImplementsMutex, Mutexes!Spec, ownerBar, depthBar
=============================================================================
