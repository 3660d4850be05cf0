----------------------------- MODULE SyncProofs -----------------------------
(***************************************************************************)
(* First what the operators of Sched do to the ready list and to the       *)
(* scheduler's invariant; every module built on Sched cites these lemmas.  *)
(* Then what the operators of Sync do to the locks' invariant and to that  *)
(* of the waiters lists, for any number of threads, locks and semaphores.  *)
(* Locks, IoQueue and Ide are built on Sync, and their proofs cite these   *)
(* lemmas; an operator is used where its caller may use it, and what that  *)
(* takes is a hypothesis of its lemma.                                     *)
(***************************************************************************)
EXTENDS Sync, TLAPS

-----------------------------------------------------------------------------
(***************************************************************************)
(* The scheduler                                                           *)
(***************************************************************************)

\* t is on the list q; q has no element twice.
On(t, q) == \E i \in DOMAIN q : q[i] = t
NoTwice(q) == \A i, j \in DOMAIN q : q[i] = q[j] => i = j

\* list_append adds one element at the end.
LEMMA AppendOn ==
  ASSUME NEW q \in Seq(Thread), NEW t \in Thread
  PROVE  /\ Append(q, t) \in Seq(Thread)
         /\ Append(q, t) # <<>>
         /\ \A u : On(u, Append(q, t)) <=> On(u, q) \/ u = t
         /\ NoTwice(q) /\ ~On(t, q) => NoTwice(Append(q, t))
<1>1. /\ Append(q, t) \in Seq(Thread)
      /\ Len(Append(q, t)) = Len(q) + 1
      /\ DOMAIN Append(q, t) = 1..Len(q) + 1
      /\ \A i \in 1..Len(q) : Append(q, t)[i] = q[i]
      /\ Append(q, t)[Len(q) + 1] = t
      /\ DOMAIN q = 1..Len(q)
      /\ Len(q) \in Nat
  OBVIOUS
<1>2. Append(q, t) # <<>>
  BY <1>1
<1>3. ASSUME NEW u PROVE On(u, Append(q, t)) <=> On(u, q) \/ u = t
  BY <1>1 DEF On
<1>4. ASSUME NoTwice(q), ~On(t, q) PROVE NoTwice(Append(q, t))
  BY <1>1, <1>4 DEF NoTwice, On
<1> QED BY <1>1, <1>2, <1>3, <1>4

\* list_pop takes the first element off.
LEMMA PopOn ==
  ASSUME NEW q \in Seq(Thread), q # <<>>
  PROVE  /\ Head(q) \in Thread
         /\ Tail(q) \in Seq(Thread)
         /\ On(Head(q), q)
         /\ NoTwice(q) => /\ NoTwice(Tail(q))
                          /\ \A u : On(u, Tail(q)) <=> On(u, q) /\ u # Head(q)
<1>1. /\ Len(q) \in Nat \ {0}
      /\ DOMAIN q = 1..Len(q)
      /\ Head(q) = q[1]
      /\ Tail(q) \in Seq(Thread)
      /\ Len(Tail(q)) = Len(q) - 1
      /\ DOMAIN Tail(q) = 1..Len(q) - 1
      /\ \A i \in 1..Len(q) - 1 : Tail(q)[i] = q[i + 1]
  OBVIOUS
<1>2. Head(q) \in Thread /\ On(Head(q), q)
  BY <1>1 DEF On
<1>3. ASSUME NoTwice(q) PROVE NoTwice(Tail(q))
  BY <1>1, <1>3 DEF NoTwice
<1>4. ASSUME NoTwice(q), NEW u
      PROVE  On(u, Tail(q)) <=> On(u, q) /\ u # Head(q)
  <2>1. ASSUME On(u, Tail(q)) PROVE On(u, q) /\ u # Head(q)
    <3>1. PICK i \in 1..Len(q) - 1 : Tail(q)[i] = u
      BY <1>1, <2>1 DEF On
    <3>2. q[i + 1] = u /\ i + 1 \in 1..Len(q) /\ i + 1 # 1
      BY <1>1, <3>1
    <3> QED BY <1>1, <1>4, <3>2 DEF On, NoTwice
  <2>2. ASSUME On(u, q), u # Head(q) PROVE On(u, Tail(q))
    <3>1. PICK i \in 1..Len(q) : q[i] = u
      BY <1>1, <2>2 DEF On
    <3>2. i # 1 /\ i - 1 \in 1..Len(q) - 1 /\ Tail(q)[i - 1] = q[i]
      BY <1>1, <2>2, <3>1
    <3> QED BY <1>1, <3>1, <3>2 DEF On
  <2> QED BY <2>1, <2>2
<1> QED BY <1>1, <1>2, <1>3, <1>4

\* list_push adds one element in front.
LEMMA PushOn ==
  ASSUME NEW q \in Seq(Thread), NEW t \in Thread
  PROVE  /\ <<t>> \o q \in Seq(Thread)
         /\ \A u : On(u, <<t>> \o q) <=> On(u, q) \/ u = t
         /\ NoTwice(q) /\ ~On(t, q) => NoTwice(<<t>> \o q)
<1> DEFINE p == <<t>> \o q
<1>1. /\ p \in Seq(Thread)
      /\ Len(p) = Len(q) + 1
      /\ DOMAIN p = 1..Len(q) + 1
      /\ p[1] = t
      /\ \A i \in 2..Len(q) + 1 : p[i] = q[i - 1]
      /\ DOMAIN q = 1..Len(q)
      /\ Len(q) \in Nat
  OBVIOUS
<1> HIDE DEF p
<1>2. \A i \in 1..Len(q) : p[i + 1] = q[i]
  <2> TAKE i \in 1..Len(q)
  <2>1. i + 1 \in 2..Len(q) + 1 /\ (i + 1) - 1 = i
    BY <1>1
  <2> QED BY <1>1, <2>1
<1>3. ASSUME NEW u PROVE On(u, p) <=> On(u, q) \/ u = t
  <2>1. ASSUME On(u, p) PROVE On(u, q) \/ u = t
    <3>1. PICK i \in 1..Len(q) + 1 : p[i] = u
      BY <1>1, <2>1 DEF On
    <3>2. CASE i = 1
      BY <1>1, <3>1, <3>2
    <3>3. CASE i # 1
      <4>1. i - 1 \in 1..Len(q) /\ i \in 2..Len(q) + 1
        BY <1>1, <3>3
      <4>2. q[i - 1] = u
        BY <1>1, <3>1, <4>1
      <4> QED BY <1>1, <4>1, <4>2 DEF On
    <3> QED BY <3>2, <3>3
  <2>2. ASSUME On(u, q) PROVE On(u, p)
    BY <1>1, <1>2, <2>2 DEF On
  <2>3. On(t, p)
    BY <1>1 DEF On
  <2> QED BY <2>1, <2>2, <2>3
<1>4. ASSUME NoTwice(q), ~On(t, q) PROVE NoTwice(p)
  <2> SUFFICES ASSUME NEW i \in 1..Len(q) + 1, NEW j \in 1..Len(q) + 1, p[i] = p[j]
               PROVE  i = j
    BY <1>1 DEF NoTwice
  <2>1. CASE i = 1 /\ j = 1
    BY <2>1
  <2>2. CASE i # 1 /\ j # 1
    <3>1. i - 1 \in DOMAIN q /\ j - 1 \in DOMAIN q /\ q[i - 1] = q[j - 1]
      BY <1>1, <2>2
    <3> QED BY <1>1, <1>4, <3>1 DEF NoTwice
  <2>3. CASE i # 1 /\ j = 1
    <3>1. i - 1 \in DOMAIN q /\ q[i - 1] = t
      BY <1>1, <2>3
    <3> QED BY <1>4, <3>1 DEF On
  <2>4. CASE i = 1 /\ j # 1
    <3>1. j - 1 \in DOMAIN q /\ q[j - 1] = t
      BY <1>1, <2>4
    <3> QED BY <1>4, <3>1 DEF On
  <2> QED BY <2>1, <2>2, <2>3, <2>4
<1> QED BY <1>1, <1>3, <1>4 DEF p

-----------------------------------------------------------------------------
(***************************************************************************)
(* The part of the scheduler's invariant that its own operators preserve,  *)
(* the absence of a failed ASSERT included: schedule() may unblock the     *)
(* idle thread because a thread that is neither RUNNING nor READY blocks.  *)
(***************************************************************************)
CpuInv == /\ cur \in Thread
          /\ status \in [Thread -> Status]
          /\ ready \in Seq(Thread)
          /\ ticks \in [Thread -> 0..255]
          /\ panicked = FALSE
          /\ RunningIsCurrent
          /\ ReadyListExact
          /\ status[Idle] \in {"RUNNING", "READY", "BLOCKED"}

\* A step that leaves the scheduler's variables alone keeps the invariant.
LEMMA CpuInvUnchanged ==
  ASSUME CpuInv, UNCHANGED cpuVars
  PROVE  CpuInv'
<1>1. UNCHANGED cur /\ UNCHANGED status /\ UNCHANGED ready /\ UNCHANGED ticks
      /\ UNCHANGED panicked
  BY DEF cpuVars
<1>2. RunningIsCurrent' /\ ReadyListExact'
  BY <1>1 DEF CpuInv, RunningIsCurrent, ReadyListExact, InReady
<1> QED BY <1>1, <1>2 DEF CpuInv

\* ReadyListExact in terms of On and NoTwice
LEMMA ReadyExactOn ==
  ReadyListExact <=> /\ \A t \in Thread : status[t] = "READY" <=> On(t, ready)
                     /\ NoTwice(ready)
  BY DEF ReadyListExact, InReady, On, NoTwice

\* schedule() after the caller left the thread RUNNING or gave it a blocking
\* status; the idle thread only ever blocks as BLOCKED.
LEMMA ScheduleKeeps ==
  ASSUME CpuInv, NEW s \in {"RUNNING"} \cup Blocking,
         cur = Idle => s \in {"RUNNING", "BLOCKED"},
         Schedule([status EXCEPT ![cur] = s])
  PROVE  CpuInv'
<1> DEFINE st == [status EXCEPT ![cur] = s]
           preempted == st[cur] = "RUNNING"
           queue == IF preempted THEN Append(ready, cur) ELSE ready
           none == queue = <<>>
           from == IF none THEN <<Idle>> ELSE queue
           next == Head(from)
           mid == [st EXCEPT ![cur] = IF preempted THEN "READY" ELSE @]
<1> USE SchedAssumption
<1>1. /\ cur \in Thread
      /\ status \in [Thread -> Status]
      /\ ready \in Seq(Thread)
      /\ st[cur] = s
      /\ st \in [Thread -> Status]
      /\ status[cur] = "RUNNING"
      /\ \A t \in Thread \ {cur} : st[t] = status[t] /\ status[t] # "RUNNING"
      /\ \A t \in Thread : status[t] = "READY" <=> On(t, ready)
      /\ NoTwice(ready)
      /\ ~On(cur, ready)
  BY ReadyExactOn DEF CpuInv, RunningIsCurrent, Status, Blocking
<1>2. /\ queue \in Seq(Thread)
      /\ NoTwice(queue)
      /\ \A t : On(t, queue) <=> On(t, ready) \/ (preempted /\ t = cur)
  BY <1>1, AppendOn
<1>3. /\ mid \in [Thread -> Status]
      /\ mid[cur] = IF preempted THEN "READY" ELSE s
      /\ \A t \in Thread \ {cur} : mid[t] = status[t]
      /\ \A t \in Thread : mid[t] # "RUNNING"
      /\ \A t \in Thread : mid[t] = "READY" <=> On(t, queue)
  <2>1. mid \in [Thread -> Status]
    BY <1>1 DEF Status
  <2>2. mid[cur] = IF preempted THEN "READY" ELSE s
    BY <1>1
  <2>3. \A t \in Thread \ {cur} : mid[t] = status[t]
    BY <1>1
  <2>4. \A t \in Thread : mid[t] # "RUNNING"
    BY <1>1, <2>2, <2>3
  <2>5. mid[cur] = "READY" <=> preempted
    BY <1>1, <2>2 DEF Blocking
  <2>6. ASSUME NEW t \in Thread PROVE mid[t] = "READY" <=> On(t, queue)
    <3>1. CASE t = cur
      BY <1>1, <1>2, <2>5, <3>1
    <3>2. CASE t # cur
      BY <1>1, <1>2, <2>3, <3>2
    <3> QED BY <3>1, <3>2
  <2> QED BY <2>1, <2>2, <2>3, <2>4, <2>6
<1>4. none => mid[Idle] \in Blocking /\ st[Idle] = mid[Idle]
  <2> SUFFICES ASSUME none PROVE mid[Idle] \in Blocking /\ st[Idle] = mid[Idle]
    OBVIOUS
  <2>1. ~preempted
    BY <1>1, AppendOn
  <2>2. mid[Idle] # "READY"
    <3>1. ~On(Idle, queue)
      BY DEF On
    <3> QED BY <1>3, <3>1
  <2>3. mid[Idle] = st[Idle]
    BY <1>1, <2>1
  <2>4. CASE cur = Idle
    BY <1>1, <1>3, <2>1, <2>3, <2>4 DEF Blocking
  <2>5. CASE cur # Idle
    BY <1>3, <2>2, <2>3, <2>5 DEF CpuInv, Blocking
  <2> QED BY <2>4, <2>5
<1>5. /\ from \in Seq(Thread)
      /\ from # <<>>
      /\ NoTwice(from)
      /\ \A t \in Thread : On(t, from) <=> mid[t] = "READY" \/ (none /\ t = Idle)
  <2>1. CASE none
    <3>1. from = <<Idle>> /\ from \in Seq(Thread) /\ from # <<>>
      BY <2>1
    <3>2. NoTwice(<<Idle>>) /\ \A t : On(t, <<Idle>>) <=> t = Idle
      BY DEF NoTwice, On
    <3>3. \A t : ~On(t, queue)
      <4> HIDE DEF queue
      <4> QED BY <2>1 DEF On, none
    <3>4. \A t \in Thread : mid[t] # "READY"
      BY <1>3, <3>3
    <3> QED BY <2>1, <3>1, <3>2, <3>4
  <2>2. CASE ~none
    BY <1>2, <1>3, <2>2
  <2> QED BY <2>1, <2>2
<1>6. /\ cur' = next
      /\ ready' = Tail(from)
      /\ status' = [st EXCEPT ![cur] = IF preempted THEN "READY" ELSE @,
                              ![next] = "RUNNING"]
      /\ ticks' = IF preempted THEN [ticks EXCEPT ![cur] = Priority[cur]] ELSE ticks
      /\ UNCHANGED panicked
  <2>1. preempted => ~InReady(cur)
    BY <1>1 DEF InReady, On
  <2>2. none => st[Idle] \in Blocking
    BY <1>4
  <2>3. Schedule(st)
    OBVIOUS
  <2> QED BY <2>1, <2>2, <2>3 DEF Schedule
<1>7. /\ next \in Thread
      /\ Tail(from) \in Seq(Thread)
      /\ On(next, from)
      /\ NoTwice(Tail(from))
      /\ \A t \in Thread : On(t, Tail(from)) <=> On(t, from) /\ t # next
  <2> HIDE DEF from
  <2> QED BY <1>5, PopOn
<1>8. /\ status' \in [Thread -> Status]
      /\ status'[next] = "RUNNING"
      /\ \A t \in Thread \ {next} : status'[t] = mid[t]
  BY <1>1, <1>3, <1>6, <1>7 DEF Status
<1>9. RunningIsCurrent'
  BY <1>3, <1>6, <1>7, <1>8 DEF RunningIsCurrent
<1>10. ReadyListExact'
  <2>1. ASSUME NEW t \in Thread PROVE status'[t] = "READY" <=> On(t, Tail(from))
    <3>1. CASE t = next
      BY <1>7, <1>8, <3>1
    <3>2. CASE t # next
      <4>1. ~(none /\ t = Idle)
        <5>1. none => next = Idle
          OBVIOUS
        <5> QED BY <3>2, <5>1
      <4> QED BY <1>5, <1>7, <1>8, <3>2, <4>1
    <3> QED BY <3>1, <3>2
  <2>2. NoTwice(Tail(from))
    BY <1>7
  <2> QED BY <1>6, <2>1, <2>2 DEF ReadyListExact, InReady, On, NoTwice
<1>11. status'[Idle] \in {"RUNNING", "READY", "BLOCKED"}
  <2>1. mid[Idle] \in {"RUNNING", "READY", "BLOCKED"}
    <3>1. CASE cur = Idle
      BY <1>3, <3>1
    <3>2. CASE cur # Idle
      BY <1>3, <3>2 DEF CpuInv
    <3> QED BY <3>1, <3>2
  <2> QED BY <1>7, <1>8, <2>1
<1>12. ticks' \in [Thread -> 0..255]
  BY <1>1, <1>6 DEF CpuInv
<1>13. panicked' = FALSE /\ cur' \in Thread /\ ready' \in Seq(Thread)
  BY <1>6, <1>7 DEF CpuInv
<1> QED BY <1>8, <1>9, <1>10, <1>11, <1>12, <1>13 DEF CpuInv

\* thread_block()
LEMMA BlockKeeps ==
  ASSUME CpuInv, NEW s \in Blocking, cur = Idle => s = "BLOCKED", ThreadBlock(s)
  PROVE  CpuInv'
<1>1. status[cur] = "RUNNING"
  BY DEF CpuInv, RunningIsCurrent
<1>2. Schedule([status EXCEPT ![cur] = s])
  BY <1>1 DEF ThreadBlock
<1> QED BY <1>2, ScheduleKeeps

\* thread_yield(): the running thread goes to the tail of the list.
LEMMA YieldKeeps ==
  ASSUME CpuInv, ThreadYield
  PROVE  CpuInv'
<1>1. status = [status EXCEPT ![cur] = "RUNNING"]
  BY DEF CpuInv, RunningIsCurrent
<1>2. Schedule([status EXCEPT ![cur] = "RUNNING"])
  BY <1>1 DEF ThreadYield
<1> QED BY <1>2, ScheduleKeeps

\* thread_unblock() of a thread that waits
LEMMA UnblockKeeps ==
  ASSUME CpuInv, NEW t \in Thread \ {Idle}, status[t] \in Blocking, ThreadUnblock(t)
  PROVE  CpuInv'
<1>1. /\ status[t] # "READY" /\ status[t] # "RUNNING"
      /\ ~On(t, ready) /\ NoTwice(ready)
      /\ \A u \in Thread : status[u] = "READY" <=> On(u, ready)
      /\ ready \in Seq(Thread) /\ status \in [Thread -> Status]
  BY ReadyExactOn DEF CpuInv, Blocking
<1>2. /\ ready' = <<t>> \o ready
      /\ status' = [status EXCEPT ![t] = "READY"]
      /\ UNCHANGED <<cur, ticks, panicked>>
  BY <1>1 DEF ThreadUnblock, InReady, On
<1>3. /\ ready' \in Seq(Thread)
      /\ NoTwice(ready')
      /\ \A u : On(u, ready') <=> On(u, ready) \/ u = t
  BY <1>1, <1>2, PushOn
<1>4. \A u \in Thread : status'[u] = "READY" <=> On(u, ready')
  BY <1>1, <1>2, <1>3
<1>5. ReadyListExact'
  BY <1>3, <1>4 DEF ReadyListExact, InReady, On, NoTwice
<1>6. RunningIsCurrent'
  BY <1>1, <1>2 DEF CpuInv, RunningIsCurrent
<1> QED BY <1>1, <1>2, <1>3, <1>5, <1>6, SchedAssumption DEF CpuInv, Status

\* thread_start() of a new thread
LEMMA StartKeeps ==
  ASSUME CpuInv, NEW t \in Thread \ {Idle}, status[t] = "NONE", ThreadStart(t)
  PROVE  CpuInv'
<1>1. /\ ~On(t, ready) /\ NoTwice(ready)
      /\ \A u \in Thread : status[u] = "READY" <=> On(u, ready)
      /\ ready \in Seq(Thread) /\ status \in [Thread -> Status]
  BY ReadyExactOn DEF CpuInv
<1>2. /\ ready' = Append(ready, t)
      /\ status' = [status EXCEPT ![t] = "READY"]
      /\ ticks' = [ticks EXCEPT ![t] = Priority[t]]
      /\ UNCHANGED <<cur, panicked>>
  BY <1>1 DEF ThreadStart, InReady, On
<1>3. /\ ready' \in Seq(Thread)
      /\ NoTwice(ready')
      /\ \A u : On(u, ready') <=> On(u, ready) \/ u = t
  BY <1>1, <1>2, AppendOn
<1>4. \A u \in Thread : status'[u] = "READY" <=> On(u, ready')
  BY <1>1, <1>2, <1>3
<1>5. ReadyListExact'
  BY <1>3, <1>4 DEF ReadyListExact, InReady, On, NoTwice
<1>6. RunningIsCurrent'
  BY <1>1, <1>2 DEF CpuInv, RunningIsCurrent
<1>7. ticks' \in [Thread -> 0..255]
  BY <1>2, SchedAssumption DEF CpuInv
<1> QED BY <1>1, <1>2, <1>3, <1>5, <1>6, <1>7, SchedAssumption DEF CpuInv, Status

\* the timer interrupt, whether it ends the slice or not
LEMMA TickKeeps ==
  ASSUME CpuInv, TimerInterrupt
  PROVE  CpuInv'
<1>1. CASE ticks[cur] = 0
  BY <1>1, YieldKeeps DEF TimerInterrupt, ThreadYield
<1>2. CASE ticks[cur] # 0
  <2>1. /\ ticks' = [ticks EXCEPT ![cur] = @ - 1]
        /\ UNCHANGED <<cur, status, ready, panicked>>
    BY <1>2 DEF TimerInterrupt
  <2>2. ticks[cur] - 1 \in 0..255
    <3>1. ticks[cur] \in 0..255
      BY DEF CpuInv
    <3> QED BY <1>2, <3>1
  <2>3. ticks' \in [Thread -> 0..255]
    BY <2>1, <2>2 DEF CpuInv
  <2> QED BY <2>1, <2>3 DEF CpuInv, RunningIsCurrent, ReadyListExact, InReady
<1> QED BY <1>1, <1>2

\* idle()
LEMMA IdleBlockKeeps ==
  ASSUME CpuInv, IdleBlock
  PROVE  CpuInv'
  BY BlockKeeps DEF IdleBlock, Running, Blocking

\* What SchedInit sets up
LEMMA SchedInitCpuInv ==
  ASSUME NEW main \in Thread \ {Idle}, NEW started \in Seq(Thread \ {Idle, main}),
         NoTwice(started), SchedInit(main, started)
  PROVE  CpuInv
<1> USE SchedAssumption
<1>1. started \in Seq(Thread) /\ ~On(Idle, started) /\ ~On(main, started)
  <2>1. started \in Seq(Thread) /\ \A i \in DOMAIN started : started[i] \in Thread \ {Idle, main}
    OBVIOUS
  <2> QED BY <2>1 DEF On
<1>2. /\ ready \in Seq(Thread)
      /\ NoTwice(ready)
      /\ \A u : On(u, ready) <=> On(u, started) \/ u = Idle
  BY <1>1, AppendOn DEF SchedInit
<1>3. status \in [Thread -> Status]
  BY DEF SchedInit, Status
<1>4. \A t \in Thread : status[t] = "READY" <=> On(t, ready)
  BY <1>1, <1>2 DEF SchedInit, On
<1>5. RunningIsCurrent
  BY DEF SchedInit, RunningIsCurrent
<1>6. ReadyListExact
  BY <1>2, <1>4, ReadyExactOn
<1> QED BY <1>2, <1>3, <1>5, <1>6 DEF CpuInv, SchedInit

-----------------------------------------------------------------------------
(***************************************************************************)
(* Who sleeps and who may run: switching threads moves threads between     *)
(* RUNNING and READY, and never touches one that is blocked.               *)
(***************************************************************************)
Awake == {"RUNNING", "READY"}

\* t stays awake, or stays in the blocking status it has.
Undisturbed(t) == IF status[t] \in Awake THEN status'[t] \in Awake
                                         ELSE status'[t] = status[t]

\* What schedule() does to the statuses: the thread that calls it gets s, unless
\* it is chosen again or was preempted, and the one chosen was on the list.
LEMMA ScheduleStatus ==
  ASSUME CpuInv, NEW s \in {"RUNNING"} \cup Blocking,
         cur = Idle => s \in {"RUNNING", "BLOCKED"},
         Schedule([status EXCEPT ![cur] = s]),
         NEW t \in Thread \ {Idle}
  PROVE  IF t = cur
         THEN IF s = "RUNNING" THEN status'[t] \in Awake ELSE status'[t] = s
         ELSE Undisturbed(t)
<1> DEFINE st == [status EXCEPT ![cur] = s]
           preempted == st[cur] = "RUNNING"
           queue == IF preempted THEN Append(ready, cur) ELSE ready
           none == queue = <<>>
           from == IF none THEN <<Idle>> ELSE queue
           next == Head(from)
<1>1. /\ cur \in Thread
      /\ status \in [Thread -> Status]
      /\ ready \in Seq(Thread)
      /\ st[cur] = s
      /\ \A u \in Thread : status[u] = "READY" <=> On(u, ready)
      /\ panicked = FALSE
      /\ status[cur] = "RUNNING"
      /\ \A u \in Thread \ {cur} : status[u] # "RUNNING"
  BY ReadyExactOn DEF CpuInv, RunningIsCurrent
<1>2. panicked' = FALSE
  BY ScheduleKeeps DEF CpuInv
<1>3. status' = [st EXCEPT ![cur] = IF preempted THEN "READY" ELSE @,
                           ![next] = "RUNNING"]
  BY <1>2 DEF Schedule, Panic
<1>4. next = Idle \/ (next \in Thread /\ (status[next] = "READY" \/ (preempted /\ next = cur)))
  <2>1. CASE none
    BY <2>1
  <2>2. CASE ~none
    <3>1. queue \in Seq(Thread) /\ queue # <<>> /\ next = Head(queue)
      BY <1>1, <2>2, AppendOn
    <3>2. On(next, queue) /\ next \in Thread
      <4> HIDE DEF queue
      <4> QED BY <3>1, PopOn
    <3>3. On(next, ready) \/ (preempted /\ next = cur)
      BY <1>1, <3>2, AppendOn
    <3> QED BY <1>1, <3>2, <3>3
  <2> QED BY <2>1, <2>2
<1> HIDE DEF next
<1>5. CASE t = cur
  <2>1. CASE s = "RUNNING"
    BY <1>1, <1>3, <1>5, <2>1 DEF Awake
  <2>2. CASE s # "RUNNING"
    <3>1. next # t
      BY <1>1, <1>4, <1>5, <2>2
    <3> QED BY <1>1, <1>3, <1>5, <2>2, <3>1
  <2> QED BY <1>5, <2>1, <2>2
<1>6. CASE t # cur
  <2>1. CASE t = next
    BY <1>1, <1>3, <1>4, <1>6, <2>1 DEF Undisturbed, Awake
  <2>2. CASE t # next
    BY <1>1, <1>3, <1>6, <2>2 DEF Undisturbed
  <2> QED BY <1>6, <2>1, <2>2
<1> QED BY <1>5, <1>6

\* thread_block() puts its caller to sleep, and nobody else.
LEMMA BlockStatus ==
  ASSUME CpuInv, NEW s \in Blocking, cur = Idle => s = "BLOCKED", ThreadBlock(s),
         NEW t \in Thread \ {Idle}
  PROVE  IF t = cur THEN status'[t] = s ELSE Undisturbed(t)
<1>1. status[cur] = "RUNNING" /\ s # "RUNNING"
  BY DEF CpuInv, RunningIsCurrent, Blocking
<1>2. Schedule([status EXCEPT ![cur] = s])
  BY <1>1 DEF ThreadBlock
<1> QED BY <1>1, <1>2, ScheduleStatus

\* thread_yield() puts nobody to sleep and wakes nobody.
LEMMA YieldStatus ==
  ASSUME CpuInv, ThreadYield, NEW t \in Thread \ {Idle}
  PROVE  Undisturbed(t)
<1>1. status = [status EXCEPT ![cur] = "RUNNING"] /\ status[cur] = "RUNNING"
  BY DEF CpuInv, RunningIsCurrent
<1>2. Schedule([status EXCEPT ![cur] = "RUNNING"])
  BY <1>1 DEF ThreadYield
<1>3. IF t = cur THEN status'[t] \in Awake ELSE Undisturbed(t)
  BY <1>2, ScheduleStatus
<1> QED BY <1>1, <1>3 DEF Undisturbed, Awake

\* Neither does a timer tick.
LEMMA TickStatus ==
  ASSUME CpuInv, TimerInterrupt, NEW t \in Thread \ {Idle}
  PROVE  Undisturbed(t)
<1>1. CASE ticks[cur] = 0
  BY <1>1, YieldStatus DEF TimerInterrupt, ThreadYield
<1>2. CASE ticks[cur] # 0
  BY <1>2 DEF TimerInterrupt, Undisturbed
<1> QED BY <1>1, <1>2

\* Nor does the idle thread that blocks.
LEMMA IdleBlockStatus ==
  ASSUME CpuInv, IdleBlock, NEW t \in Thread \ {Idle}
  PROVE  Undisturbed(t)
  BY BlockStatus DEF IdleBlock, Running, Blocking

\* thread_unblock() of a thread that sleeps makes it READY.
LEMMA UnblockStatus ==
  ASSUME CpuInv, NEW t \in Thread, status[t] \in Blocking, ThreadUnblock(t)
  PROVE  status' = [status EXCEPT ![t] = "READY"] /\ UNCHANGED cur
<1>1. ~InReady(t)
  BY DEF CpuInv, ReadyListExact, Blocking
<1> QED BY <1>1 DEF ThreadUnblock

-----------------------------------------------------------------------------
(***************************************************************************)
(* Semaphores and locks                                                    *)
(***************************************************************************)

\* A lock is taken and given up in two steps each, with the holder as it was
\* before in the first window and as it will be in the last.
HolderLags ==
  /\ \A l \in Lock, t \in Thread : on[t] = l =>
       /\ op[t] \in {"mine", "drop"} => holder[l] = t
       /\ op[t] \in {"down", "sleep", "took", "up"} => holder[l] # t
  /\ \A t \in Thread : op[t] \in {"took", "mine", "drop", "up"} => on[t] \in Lock

\* The locks.  Mutual exclusion alone is not inductive: it follows from value,
\* which is 1 when nobody owns the lock and 0 as long as somebody does, also in
\* the windows where the owner is not yet, or no longer, the holder.
LockInv == SyncTypeOK /\ MutualExclusion /\ LockFieldsAgree /\ HolderLags

\* The waiters lists.  The idle thread does not sleep on a semaphore.
SleepInv == SleepersListed /\ NoLostWakeup /\ op[Idle] = "none"

SyncInv == CpuInv /\ LockInv /\ SleepInv

\* A step that changes no lock's owner.
SameOwners == \A u \in Thread, k \in Lock : Owns(u, k)' <=> Owns(u, k)

\* What a waiters list with an element more, or less, holds
LEMMA WaitersOn ==
  SleepersListed <=>
    /\ \A t \in Thread, s \in Sema :
         (Waits(t, s) /\ status[t] = "BLOCKED") <=> On(t, waiters[s])
    /\ \A s \in Sema : NoTwice(waiters[s])
    /\ \A t \in Thread, s \in Sema : Waits(t, s) /\ status[t] = "BLOCKED" => ~On(t, ready)
  BY DEF SleepersListed, InReady, On, NoTwice

-----------------------------------------------------------------------------
(***************************************************************************)
(* Steps of the scheduler                                                  *)
(***************************************************************************)

\* The threads asleep on semaphores stay asleep, those woken stay awake.
SleepersUndisturbed == \A t \in Thread : op[t] = "sleep" => Undisturbed(t)

\* The waiters lists are not affected by what threads do that are not in
\* sema_down, as long as no call of theirs begins or ends there.
LEMMA SleepKeeps ==
  ASSUME SyncInv, CpuInv', SleepersUndisturbed,
         UNCHANGED <<value, waiters>>,
         \A t \in Thread, s \in Sema : Waits(t, s)' <=> Waits(t, s),
         op'[Idle] = "none"
  PROVE  SleepInv'
<1>1. \A t \in Thread, s \in Sema : Waits(t, s) =>
        /\ status'[t] = "BLOCKED" <=> status[t] = "BLOCKED"
        /\ status[t] \in {"READY", "RUNNING"} => status'[t] \in {"READY", "RUNNING"}
  BY DEF SleepersUndisturbed, Undisturbed, Awake, Waits
<1>2. \A t \in Thread : status'[t] = "BLOCKED" => ~InReady(t)'
  BY DEF CpuInv, ReadyListExact
<1>3. SleepersListed'
  BY <1>1, <1>2 DEF SyncInv, SleepInv, SleepersListed
<1>4. NoLostWakeup'
  <2> SUFFICES ASSUME NEW s \in Sema, value'[s] > 0, waiters'[s] # <<>>
               PROVE  \E t \in Thread : Waits(t, s)' /\ status'[t] \in {"READY", "RUNNING"}
    BY DEF NoLostWakeup
  <2>1. PICK t \in Thread : Waits(t, s) /\ status[t] \in {"READY", "RUNNING"}
    BY DEF SyncInv, SleepInv, NoLostWakeup
  <2> QED BY <1>1, <2>1
<1> QED BY <1>3, <1>4 DEF SleepInv

\* The locks are not affected by the scheduler.
LEMMA LockInvUnchanged ==
  ASSUME LockInv, UNCHANGED syncVars
  PROVE  LockInv' /\ SameOwners
  BY DEF LockInv, SyncTypeOK, MutualExclusion, LockFieldsAgree, HolderLags, Owns,
         SameOwners, syncVars

\* Switching threads keeps the invariant.
LEMMA SwitchKeeps ==
  ASSUME SyncInv, CpuInv', SleepersUndisturbed, UNCHANGED syncVars
  PROVE  SyncInv' /\ SameOwners
<1>1. UNCHANGED value /\ UNCHANGED waiters /\ UNCHANGED op /\ UNCHANGED on
  BY DEF syncVars
<1>2. \A t \in Thread, s \in Sema : Waits(t, s)' <=> Waits(t, s)
  BY <1>1 DEF Waits
<1>3. SleepInv'
  BY <1>1, <1>2, SleepKeeps DEF SyncInv, SleepInv
<1> QED BY <1>3, LockInvUnchanged DEF SyncInv

\* The timer tick and the idle thread, whatever the threads are doing, and a
\* thread that yields
LEMMA RestKeeps ==
  ASSUME SyncInv, TimerInterrupt \/ IdleBlock \/ IdleHalt \/ ThreadYield \/ UNCHANGED cpuVars,
         UNCHANGED syncVars
  PROVE  SyncInv' /\ SameOwners
<1> USE DEF SyncInv
<1>1. CASE TimerInterrupt \/ IdleBlock \/ ThreadYield
  <2>1. CpuInv'
    BY <1>1, TickKeeps, IdleBlockKeeps, YieldKeeps
  <2>2. \A t \in Thread \ {Idle} : Undisturbed(t)
    BY <1>1, TickStatus, IdleBlockStatus, YieldStatus
  <2>3. SleepersUndisturbed
    BY <2>2 DEF SleepersUndisturbed, SleepInv
  <2> QED BY <2>1, <2>3, SwitchKeeps
<1>2. CASE IdleHalt \/ UNCHANGED cpuVars
  <2>1. UNCHANGED cpuVars
    BY <1>2 DEF IdleHalt
  <2>2. CpuInv' /\ UNCHANGED status
    BY <2>1, CpuInvUnchanged DEF cpuVars
  <2>3. SleepersUndisturbed
    BY <2>2 DEF SleepersUndisturbed, Undisturbed
  <2> QED BY <2>2, <2>3, SwitchKeeps
<1> QED BY <1>1, <1>2

\* The system starts with all locks free and nobody asleep.
LEMMA SyncInitInv ==
  ASSUME CpuInv, SyncInit
  PROVE  SyncInv /\ \A t \in Thread, l \in Lock : ~Owns(t, l)
<1> USE SyncAssumption, SchedAssumption
<1>1. /\ value = [s \in Sema |-> IF s \in Lock THEN 1 ELSE 0]
      /\ waiters = [s \in Sema |-> <<>>]
      /\ holder = [l \in Lock |-> None]
      /\ repeat = [l \in Lock |-> 0]
      /\ op = [t \in Thread |-> "none"]
      /\ on \in [Thread -> Sema]
      /\ old = [t \in Thread |-> FALSE]
  BY DEF SyncInit
<1>2. SyncTypeOK
  BY <1>1 DEF SyncTypeOK
<1>3. \A l \in Lock, t \in Thread : ~Owns(t, l)
  BY <1>1 DEF Owns
<1>4. MutualExclusion /\ LockFieldsAgree /\ HolderLags
  <2>1. MutualExclusion
    BY <1>3 DEF MutualExclusion
  <2>2. LockFieldsAgree
    BY <1>1, <1>3 DEF LockFieldsAgree
  <2>3. HolderLags
    BY <1>1 DEF HolderLags
  <2> QED BY <2>1, <2>2, <2>3
<1>5. SleepersListed
  <2>1. \A t, s : ~Waits(t, s) \/ t \notin Thread
    BY <1>1 DEF Waits
  <2>2. \A s \in Sema : DOMAIN waiters[s] = {}
    BY <1>1
  <2> QED BY <2>1, <2>2 DEF SleepersListed
<1>6. NoLostWakeup
  BY <1>1 DEF NoLostWakeup
<1> QED BY <1>1, <1>2, <1>3, <1>4, <1>5, <1>6 DEF SyncInv, LockInv, SleepInv

-----------------------------------------------------------------------------
(* Calls.                                                                  *)

\* No thread's sleep begins or ends, and no thread changes its status.
LEMMA CallKeepsSleep ==
  ASSUME SyncInv, UNCHANGED cpuVars, UNCHANGED <<value, waiters>>,
         NEW t \in Thread, op[t] # "sleep", op'[t] # "sleep",
         \A u \in Thread \ {t} : op'[u] = op[u] /\ on'[u] = on[u],
         t = Idle => op'[t] = "none"
  PROVE  CpuInv' /\ SleepInv'
<1>1. CpuInv' /\ UNCHANGED status
  BY CpuInvUnchanged DEF SyncInv, cpuVars
<1>2. \A u \in Thread, s \in Sema : Waits(u, s)' <=> Waits(u, s)
  BY DEF Waits
<1>3. SleepersUndisturbed
  BY <1>1 DEF SleepersUndisturbed, Undisturbed
<1>4. op'[Idle] = "none"
  BY SchedAssumption DEF SyncInv, SleepInv
<1> QED BY <1>1, <1>2, <1>3, <1>4, SleepKeeps

\* sema_down of a semaphore, or of a lock of which t is not the holder
LEMMA SemaDownKeeps ==
  ASSUME SyncInv, NEW t \in Thread \ {Idle}, NEW s \in Sema, op[t] = "none",
         s \in Lock => holder[s] # t,
         SemaDown(t, s), UNCHANGED cpuVars
  PROVE  SyncInv' /\ SameOwners
<1> USE SyncAssumption DEF SyncInv, LockInv
<1>1. /\ op' = [op EXCEPT ![t] = "down"] /\ on' = [on EXCEPT ![t] = s]
      /\ UNCHANGED <<value, waiters, holder, repeat, old>>
  BY DEF SemaDown, Enter
<1>2. /\ op'[t] = "down" /\ on'[t] = s
      /\ \A u \in Thread \ {t} : op'[u] = op[u] /\ on'[u] = on[u]
  BY <1>1 DEF SyncTypeOK
<1>3. SameOwners
  BY <1>1, <1>2 DEF SameOwners, Owns
<1>4. SyncTypeOK' /\ MutualExclusion'
  BY <1>1, <1>3 DEF SyncTypeOK, MutualExclusion, SameOwners
<1>5. LockFieldsAgree'
  BY <1>1, <1>2, <1>3 DEF LockFieldsAgree, SameOwners
<1>6. HolderLags'
  BY <1>1, <1>2 DEF HolderLags
<1>7. CpuInv' /\ SleepInv'
  BY <1>1, <1>2, CallKeepsSleep
<1> QED BY <1>3, <1>4, <1>5, <1>6, <1>7

\* lock_acquire: a thread that is not the holder goes to sema_down, and the
\* holder counts.
LEMMA AcquireKeeps ==
  ASSUME SyncInv, NEW t \in Thread \ {Idle}, NEW l \in Lock, op[t] = "none",
         LockAcquire(t, l), UNCHANGED cpuVars
  PROVE  SyncInv' /\ SameOwners
<1> USE SyncAssumption DEF SyncInv, LockInv
<1>1. CASE holder[l] # t
  BY <1>1, SemaDownKeeps DEF LockAcquire
<1>2. CASE holder[l] = t
  <2>1. /\ repeat' = [repeat EXCEPT ![l] = @ + 1]
        /\ UNCHANGED <<value, waiters, holder, op, on, old>>
    BY <1>2 DEF LockAcquire
  <2>2. SameOwners
    BY <2>1 DEF SameOwners, Owns
  <2>3. SyncTypeOK' /\ MutualExclusion'
    BY <2>1, <2>2 DEF SyncTypeOK, MutualExclusion, SameOwners
  <2>4. repeat[l] # 0 /\ repeat[l] \in Nat
    BY <1>2 DEF LockFieldsAgree, SyncTypeOK
  <2>5. LockFieldsAgree'
    BY <1>2, <2>1, <2>2, <2>4 DEF SyncTypeOK, LockFieldsAgree, SameOwners
  <2>6. HolderLags'
    BY <2>1 DEF HolderLags
  <2>7. CpuInv' /\ SleepInv'
    BY <2>1, CallKeepsSleep
  <2> QED BY <2>2, <2>3, <2>5, <2>6, <2>7
<1> QED BY <1>1, <1>2

\* lock_release by the holder: its ASSERT holds, and the last release starts to
\* free the lock.
LEMMA ReleaseKeeps ==
  ASSUME SyncInv, NEW t \in Thread \ {Idle}, NEW l \in Lock, op[t] = "none",
         holder[l] = t, LockRelease(t, l), UNCHANGED <<cur, status, ready, ticks>>
  PROVE  /\ SyncInv' /\ SameOwners /\ repeat[l] > 0
         /\ repeat' = [repeat EXCEPT ![l] = @ - 1]
         /\ UNCHANGED <<value, waiters, holder, old, panicked>>
         /\ IF repeat[l] = 1 THEN Enter(t, l, "drop") ELSE UNCHANGED <<op, on>>
<1> USE SyncAssumption DEF SyncInv, LockInv
<1>1. repeat[l] \in Nat /\ repeat[l] > 0 /\ repeat[l] - 1 \in Nat
  <2>1. repeat[l] # 0
    BY DEF LockFieldsAgree
  <2>2. repeat[l] \in Nat
    BY DEF SyncTypeOK
  <2> QED BY <2>1, <2>2
<1>2. /\ repeat' = [repeat EXCEPT ![l] = @ - 1]
      /\ UNCHANGED <<value, waiters, holder, old, panicked>>
      /\ IF repeat[l] - 1 > 0 THEN UNCHANGED <<op, on>> ELSE Enter(t, l, "drop")
  BY DEF LockRelease
<1>3. UNCHANGED cpuVars
  BY <1>2 DEF cpuVars
<1>4. CASE repeat[l] - 1 > 0
  <2>1. UNCHANGED op /\ UNCHANGED on
    BY <1>2, <1>4
  <2>2. SameOwners
    BY <1>2, <2>1 DEF SameOwners, Owns
  <2>3. SyncTypeOK' /\ MutualExclusion'
    BY <1>1, <1>2, <2>1, <2>2 DEF SyncTypeOK, MutualExclusion, SameOwners
  <2>4. LockFieldsAgree'
    BY <1>1, <1>2, <1>4, <2>1, <2>2 DEF SyncTypeOK, LockFieldsAgree, SameOwners
  <2>5. HolderLags'
    BY <1>2, <2>1 DEF HolderLags
  <2>6. CpuInv' /\ SleepInv'
    BY <1>2, <1>3, <2>1, CallKeepsSleep
  <2> QED BY <1>1, <1>2, <1>4, <2>1, <2>2, <2>3, <2>4, <2>5, <2>6
<1>5. CASE ~(repeat[l] - 1 > 0)
  <2>1. op' = [op EXCEPT ![t] = "drop"] /\ on' = [on EXCEPT ![t] = l]
    BY <1>2, <1>5 DEF Enter
  <2>2. /\ op'[t] = "drop" /\ on'[t] = l /\ l \in Sema
        /\ \A u \in Thread \ {t} : op'[u] = op[u] /\ on'[u] = on[u]
        /\ repeat'[l] = 0 /\ \A k \in Lock \ {l} : repeat'[k] = repeat[k]
    <3>1. repeat'[l] = repeat[l] - 1 /\ \A k \in Lock \ {l} : repeat'[k] = repeat[k]
      BY <1>2 DEF SyncTypeOK
    <3>2. repeat'[l] = 0
      BY <1>1, <1>5, <3>1
    <3> QED BY <2>1, <3>1, <3>2 DEF SyncTypeOK
  <2>3. SameOwners
    BY <1>2, <2>2 DEF SameOwners, Owns
  <2>4. SyncTypeOK' /\ MutualExclusion'
    BY <1>1, <1>2, <2>1, <2>2, <2>3 DEF SyncTypeOK, MutualExclusion, SameOwners
  <2>5. LockFieldsAgree'
    BY <1>2, <2>2, <2>3 DEF LockFieldsAgree, SameOwners
  <2>6. HolderLags'
    BY <1>2, <2>2 DEF HolderLags
  <2>7. CpuInv' /\ SleepInv'
    BY <1>2, <1>3, <2>2, CallKeepsSleep
  <2> QED BY <1>1, <1>2, <1>5, <2>3, <2>4, <2>5, <2>6, <2>7
<1> QED BY <1>4, <1>5

-----------------------------------------------------------------------------
(* Steps inside the calls                                                  *)

\* lock_acquire's holder = running_thread()
LEMMA SetHolderKeeps ==
  ASSUME SyncInv, NEW t \in Thread \ {Idle}, SetHolder(t)
  PROVE  SyncInv' /\ SameOwners
<1> USE SyncAssumption DEF SyncInv, LockInv
<1> DEFINE l == on[t]
<1>1. op[t] = "took" /\ l \in Lock /\ t # None
  BY DEF SetHolder, HolderLags
<1>2. /\ holder' = [holder EXCEPT ![l] = t]
      /\ op' = [op EXCEPT ![t] = "mine"]
      /\ UNCHANGED <<on, value, waiters, repeat, old>> /\ UNCHANGED cpuVars
  BY DEF SetHolder, Goto, schedVars, cpuVars
<1>3. /\ op'[t] = "mine" /\ holder'[l] = t
      /\ \A u \in Thread \ {t} : op'[u] = op[u]
      /\ \A k \in Lock \ {l} : holder'[k] = holder[k]
  BY <1>1, <1>2 DEF SyncTypeOK
<1>4. Owns(t, l) /\ holder[l] # t
  BY <1>1 DEF Owns, HolderLags
<1>5. holder[l] = None /\ repeat[l] = 0
  BY <1>1, <1>4 DEF Owns, SyncTypeOK, LockFieldsAgree, MutualExclusion
<1>6. SameOwners
  BY <1>1, <1>2, <1>3, <1>4, <1>5 DEF SameOwners, Owns
<1>7. SyncTypeOK' /\ MutualExclusion'
  BY <1>1, <1>2, <1>6 DEF SyncTypeOK, MutualExclusion, SameOwners
<1>8. LockFieldsAgree'
  BY <1>1, <1>2, <1>3, <1>5, <1>6 DEF LockFieldsAgree, SameOwners
<1>9. HolderLags'
  BY <1>1, <1>2, <1>3, <1>5 DEF HolderLags
<1>10. CpuInv' /\ SleepInv'
  BY <1>1, <1>2, <1>3, CallKeepsSleep
<1> QED BY <1>6, <1>7, <1>8, <1>9, <1>10

\* lock_acquire's holder_repeat_nr = 1, after its ASSERT, which holds
LEMMA SetRepeatKeeps ==
  ASSUME SyncInv, NEW t \in Thread \ {Idle}, SetRepeat(t)
  PROVE  /\ SyncInv' /\ SameOwners
         /\ holder[on[t]] = t /\ repeat[on[t]] = 0 /\ on[t] \in Lock
         /\ repeat' = [repeat EXCEPT ![on[t]] = 1]
         /\ op' = [op EXCEPT ![t] = "none"]
         /\ UNCHANGED <<on, value, waiters, holder, old, panicked>>
<1> USE SyncAssumption DEF SyncInv, LockInv
<1> DEFINE l == on[t]
<1>1. op[t] = "mine" /\ l \in Lock /\ t # None
  BY DEF SetRepeat, HolderLags
<1>2. holder[l] = t /\ repeat[l] = 0
  BY <1>1 DEF LockFieldsAgree, HolderLags
<1>3. /\ repeat' = [repeat EXCEPT ![l] = 1]
      /\ op' = [op EXCEPT ![t] = "none"]
      /\ UNCHANGED <<on, value, waiters, holder, old, panicked>> /\ UNCHANGED cpuVars
  BY <1>2 DEF SetRepeat, Goto, cpuVars
<1>4. /\ op'[t] = "none" /\ repeat'[l] = 1
      /\ \A u \in Thread \ {t} : op'[u] = op[u]
      /\ \A k \in Lock \ {l} : repeat'[k] = repeat[k]
  BY <1>1, <1>3 DEF SyncTypeOK
<1>5. SameOwners
  BY <1>1, <1>2, <1>3, <1>4 DEF SameOwners, Owns
<1>6. SyncTypeOK' /\ MutualExclusion'
  BY <1>1, <1>3, <1>5 DEF SyncTypeOK, MutualExclusion, SameOwners
<1>7. LockFieldsAgree'
  BY <1>1, <1>2, <1>3, <1>4, <1>5 DEF LockFieldsAgree, SameOwners
<1>8. HolderLags'
  BY <1>1, <1>3, <1>4 DEF HolderLags
<1>9. CpuInv' /\ SleepInv'
  BY <1>1, <1>3, <1>4, CallKeepsSleep
<1> QED BY <1>1, <1>2, <1>3, <1>5, <1>6, <1>7, <1>8, <1>9

\* lock_release's holder = NULL
LEMMA ClearHolderKeeps ==
  ASSUME SyncInv, NEW t \in Thread \ {Idle}, ClearHolder(t)
  PROVE  SyncInv' /\ SameOwners
<1> USE SyncAssumption DEF SyncInv, LockInv
<1> DEFINE l == on[t]
<1>1. op[t] = "drop" /\ l \in Lock /\ t # None
  BY DEF ClearHolder, HolderLags
<1>2. holder[l] = t /\ repeat[l] = 0
  BY <1>1 DEF LockFieldsAgree, HolderLags
<1>3. /\ holder' = [holder EXCEPT ![l] = None]
      /\ op' = [op EXCEPT ![t] = "up"]
      /\ UNCHANGED <<on, value, waiters, repeat, old>> /\ UNCHANGED cpuVars
  BY DEF ClearHolder, Goto, schedVars, cpuVars
<1>4. /\ op'[t] = "up" /\ holder'[l] = None
      /\ \A u \in Thread \ {t} : op'[u] = op[u]
      /\ \A k \in Lock \ {l} : holder'[k] = holder[k]
  BY <1>1, <1>3 DEF SyncTypeOK
<1>5. SameOwners
  BY <1>1, <1>2, <1>3, <1>4 DEF SameOwners, Owns
<1>6. SyncTypeOK' /\ MutualExclusion'
  BY <1>1, <1>3, <1>5 DEF SyncTypeOK, MutualExclusion, SameOwners
<1>7. LockFieldsAgree'
  BY <1>1, <1>2, <1>3, <1>4, <1>5 DEF LockFieldsAgree, SameOwners
<1>8. HolderLags'
  BY <1>1, <1>2, <1>3, <1>4 DEF HolderLags
<1>9. CpuInv' /\ SleepInv'
  BY <1>1, <1>3, <1>4, CallKeepsSleep
<1> QED BY <1>5, <1>6, <1>7, <1>8, <1>9

\* What sema_down does to its caller and to the lists when it sleeps: the caller
\* goes to the end of one list.
LEMMA DownSleepsKeeps ==
  ASSUME SyncInv, NEW t \in Thread \ {Idle}, op[t] \in {"down", "sleep"}, cur = t,
         DownSleeps(t), UNCHANGED <<holder, repeat>>, intr \in [Thread -> BOOLEAN]
  PROVE  /\ SyncInv' /\ SameOwners
         /\ op' = [op EXCEPT ![t] = "sleep"] /\ UNCHANGED <<on, value, panicked>>
         /\ status'[t] = "BLOCKED" /\ \A u \in Thread \ {t, Idle} : Undisturbed(u)
<1> USE SyncAssumption, SchedAssumption
<1> DEFINE s == on[t]
<1>1. /\ waiters' = [waiters EXCEPT ![s] = Append(@, t)]
      /\ op' = [op EXCEPT ![t] = "sleep"] /\ UNCHANGED <<on, value, holder, repeat>>
      /\ old' = [old EXCEPT ![t] = IF op[t] = "down" THEN intr[t] ELSE @]
      /\ value[s] = 0 /\ ThreadBlock("BLOCKED")
  BY DEF DownSleeps, Goto
<1>2. s \in Sema /\ CpuInv
  BY DEF SyncInv, LockInv, SyncTypeOK
<1>3. CpuInv'
  BY <1>1, <1>2, BlockKeeps DEF Blocking
<1>4. status'[t] = "BLOCKED" /\ \A u \in Thread \ {t, Idle} : Undisturbed(u)
  BY <1>1, <1>2, BlockStatus DEF Blocking
<1>5. status[t] = "RUNNING"
  BY <1>2 DEF CpuInv, RunningIsCurrent
<1>6. /\ waiters[s] \in Seq(Thread)
      /\ waiters'[s] = Append(waiters[s], t)
      /\ \A q \in Sema \ {s} : waiters'[q] = waiters[q]
      /\ op'[t] = "sleep" /\ on'[t] = s
      /\ \A u \in Thread \ {t} : op'[u] = op[u] /\ on'[u] = on[u]
  BY <1>1, <1>2 DEF SyncInv, LockInv, SyncTypeOK
<1>7. SameOwners
  BY <1>1, <1>6 DEF SameOwners, Owns
<1>8. LockInv'
  <2>1. SyncTypeOK'
    <3>1. waiters' \in [Sema -> Seq(Thread)]
      BY <1>1, <1>2 DEF SyncInv, LockInv, SyncTypeOK
    <3>2. old' \in [Thread -> BOOLEAN]
      BY <1>1 DEF SyncInv, LockInv, SyncTypeOK
    <3> QED BY <1>1, <3>1, <3>2 DEF SyncInv, LockInv, SyncTypeOK
  <2>2. MutualExclusion'
    BY <1>7 DEF SyncInv, LockInv, MutualExclusion, SameOwners
  <2>3. LockFieldsAgree'
    BY <1>1, <1>6, <1>7 DEF SyncInv, LockInv, LockFieldsAgree, SameOwners
  <2>4. HolderLags'
    BY <1>1, <1>6 DEF SyncInv, LockInv, HolderLags
  <2> QED BY <2>1, <2>2, <2>3, <2>4 DEF LockInv
<1>9. SleepersListed'
  <2>1. /\ \A u \in Thread, q \in Sema : (Waits(u, q) /\ status[u] = "BLOCKED") <=> On(u, waiters[q])
        /\ \A q \in Sema : NoTwice(waiters[q])
    BY WaitersOn DEF SyncInv, SleepInv
  <2>2. \A q \in Sema : ~On(t, waiters[q])
    BY <1>5, <2>1
  <2>3. /\ NoTwice(waiters'[s])
        /\ \A u : On(u, waiters'[s]) <=> On(u, waiters[s]) \/ u = t
    BY <1>2, <1>6, <2>1, <2>2, AppendOn
  <2>4. \A q \in Sema : NoTwice(waiters'[q])
    BY <1>6, <2>1, <2>3
  <2>5. ASSUME NEW u \in Thread, NEW q \in Sema
        PROVE  (Waits(u, q)' /\ status'[u] = "BLOCKED") <=> On(u, waiters'[q])
    <3>1. CASE u = t
      BY <1>4, <1>6, <2>2, <2>3, <3>1 DEF Waits
    <3>2. CASE u # t
      <4>1. Waits(u, q)' <=> Waits(u, q)
        BY <1>6, <3>2 DEF Waits
      <4>2. Waits(u, q) => (status'[u] = "BLOCKED" <=> status[u] = "BLOCKED")
        BY <1>4, <3>2 DEF Undisturbed, Awake, Waits, SyncInv, SleepInv
      <4>3. On(u, waiters'[q]) <=> On(u, waiters[q])
        BY <1>6, <2>3, <3>2
      <4> QED BY <2>1, <4>1, <4>2, <4>3
    <3> QED BY <3>1, <3>2
  <2>6. \A u \in Thread : status'[u] = "BLOCKED" => ~InReady(u)'
    BY <1>3 DEF CpuInv, ReadyListExact
  <2>7. \A u \in Thread, q \in Sema : Waits(u, q)' /\ status'[u] = "BLOCKED" => ~InReady(u)'
    BY <2>6
  <2> QED BY <2>4, <2>5, <2>7 DEF SleepersListed, On, NoTwice
<1>10. NoLostWakeup'
  <2> SUFFICES ASSUME NEW q \in Sema, value'[q] > 0, waiters'[q] # <<>>
               PROVE  \E u \in Thread : Waits(u, q)' /\ status'[u] \in {"READY", "RUNNING"}
    BY DEF NoLostWakeup
  <2>1. q # s /\ value[q] > 0 /\ waiters[q] # <<>>
    BY <1>1, <1>6
  <2>2. PICK u \in Thread : Waits(u, q) /\ status[u] \in {"READY", "RUNNING"}
    BY <2>1 DEF SyncInv, SleepInv, NoLostWakeup
  <2>3. u # t /\ u # Idle
    BY <2>1, <2>2 DEF Waits, SyncInv, SleepInv
  <2>4. Undisturbed(u) /\ Waits(u, q)'
    BY <1>4, <1>6, <2>2, <2>3 DEF Waits
  <2> QED BY <2>2, <2>4 DEF Undisturbed, Awake
<1>11. op'[Idle] = "none"
  BY <1>6 DEF SyncInv, SleepInv
<1>12. UNCHANGED panicked
  BY <1>2, <1>3 DEF CpuInv
<1> QED BY <1>1, <1>3, <1>4, <1>7, <1>8, <1>9, <1>10, <1>11, <1>12 DEF SyncInv, SleepInv

\* A sema_down that passes: of a lock, t is its owner now; of another semaphore,
\* the call returns.
LEMMA DownTakesKeeps ==
  ASSUME SyncInv, NEW t \in Thread \ {Idle}, op[t] \in {"down", "sleep"}, cur = t,
         DownTakes(t), UNCHANGED <<holder, repeat>>
  PROVE  /\ SyncInv'
         /\ value[on[t]] = 1 /\ value' = [value EXCEPT ![on[t]] = 0]
         /\ op' = [op EXCEPT ![t] = IF on[t] \in Lock THEN "took" ELSE "none"]
         /\ UNCHANGED <<on, status, panicked>>
         /\ on[t] \notin Lock => SameOwners
         /\ on[t] \in Lock =>
              /\ \A u \in Thread : ~Owns(u, on[t])
              /\ \A u \in Thread, k \in Lock :
                   Owns(u, k)' <=> Owns(u, k) \/ (u = t /\ k = on[t])
<1> USE SyncAssumption, SchedAssumption
<1> DEFINE s == on[t]
           where == IF s \in Lock THEN "took" ELSE "none"
<1>1. /\ value[s] > 0
      /\ value' = [value EXCEPT ![s] = @ - 1]
      /\ op' = [op EXCEPT ![t] = where]
      /\ UNCHANGED <<on, waiters, old, holder, repeat>> /\ UNCHANGED cpuVars
  BY DEF DownTakes, Goto
<1>2. s \in Sema /\ SyncTypeOK /\ CpuInv
  BY DEF SyncInv, LockInv, SyncTypeOK
<1>3. value[s] = 1 /\ value' = [value EXCEPT ![s] = 0]
  <2>1. value[s] \in 0..1
    BY <1>2 DEF SyncTypeOK
  <2>2. value[s] = 1 /\ value[s] - 1 = 0
    BY <1>1, <2>1
  <2> QED BY <1>1, <2>2
<1>4. CpuInv' /\ UNCHANGED status /\ UNCHANGED panicked
  BY <1>1, <1>2, CpuInvUnchanged DEF cpuVars
<1>5. /\ op'[t] = where
      /\ \A u \in Thread \ {t} : op'[u] = op[u]
      /\ value'[s] = 0 /\ \A q \in Sema \ {s} : value'[q] = value[q]
  BY <1>1, <1>2, <1>3 DEF SyncTypeOK
<1>6. s \in Lock => \A u \in Thread : ~Owns(u, s)
  BY <1>3 DEF SyncInv, LockInv, LockFieldsAgree
<1>7. \A u \in Thread, k \in Lock :
        Owns(u, k)' <=> Owns(u, k) \/ (u = t /\ k = s)
  BY <1>1, <1>5 DEF Owns
<1>8. s \notin Lock => SameOwners
  BY <1>7 DEF SameOwners
<1>9. s \in Lock => holder[s] = None /\ repeat[s] = 0
  BY <1>2, <1>6 DEF Owns, SyncTypeOK, SyncInv, LockInv, LockFieldsAgree
<1>10. LockInv'
  <2>1. SyncTypeOK'
    BY <1>1, <1>2, <1>3 DEF SyncTypeOK
  <2>2. MutualExclusion'
    BY <1>6, <1>7 DEF SyncInv, LockInv, MutualExclusion
  <2>3. LockFieldsAgree'
    <3>1. \A k \in Lock : value'[k] = 0 <=> \E u \in Thread : Owns(u, k)'
      BY <1>5, <1>7 DEF SyncInv, LockInv, LockFieldsAgree
    <3>2. \A k \in Lock, u \in Thread : holder'[k] = u =>
            (repeat'[k] = 0 <=> op'[u] \in {"mine", "drop"} /\ on'[u] = k)
      BY <1>1, <1>5, <1>9 DEF SyncInv, LockInv, LockFieldsAgree
    <3>3. \A k \in Lock : holder'[k] = None => repeat'[k] = 0
      BY <1>1 DEF SyncInv, LockInv, LockFieldsAgree
    <3> QED BY <3>1, <3>2, <3>3 DEF LockFieldsAgree
  <2>4. HolderLags'
    BY <1>1, <1>5, <1>9 DEF SyncInv, LockInv, HolderLags
  <2> QED BY <2>1, <2>2, <2>3, <2>4 DEF LockInv
<1>11. status[t] = "RUNNING"
  BY <1>2 DEF CpuInv, RunningIsCurrent
<1>12. \A u \in Thread, q \in Sema : Waits(u, q)' <=> Waits(u, q) /\ u # t
  BY <1>1, <1>5 DEF Waits
<1>13. SleepersListed'
  <2>1. \A u \in Thread : status'[u] = "BLOCKED" => ~InReady(u)'
    BY <1>4 DEF CpuInv, ReadyListExact
  <2> QED BY <1>1, <1>4, <1>11, <1>12, <2>1 DEF SyncInv, SleepInv, SleepersListed
<1>14. NoLostWakeup'
  <2> SUFFICES ASSUME NEW q \in Sema, value'[q] > 0, waiters'[q] # <<>>
               PROVE  \E u \in Thread : Waits(u, q)' /\ status'[u] \in {"READY", "RUNNING"}
    BY DEF NoLostWakeup
  <2>1. q # s /\ value[q] > 0 /\ waiters[q] # <<>>
    BY <1>1, <1>5
  <2>2. PICK u \in Thread : Waits(u, q) /\ status[u] \in {"READY", "RUNNING"}
    BY <2>1 DEF SyncInv, SleepInv, NoLostWakeup
  <2>3. u # t
    BY <2>1, <2>2 DEF Waits
  <2> QED BY <1>4, <1>12, <2>2, <2>3
<1>15. op'[Idle] = "none"
  BY <1>5 DEF SyncInv, SleepInv
<1> QED BY <1>1, <1>3, <1>4, <1>6, <1>7, <1>8, <1>10, <1>13, <1>14, <1>15 DEF SyncInv, SleepInv

\* A step that takes u off the waiters list of s
WokenFrom(u, s) == Waits(u, s) /\ status[u] = "BLOCKED" /\ status'[u] = "READY"

\* The body of sema_up, by a thread or by an interrupt handler, on a semaphore
\* whose value is 0: its ASSERT holds, and the thread it takes off the list is
\* one that sleeps and will look at value.
LEMMA SemaUpKeepsSleep ==
  ASSUME SyncInv, NEW s \in Sema, value[s] = 0, SemaUp(s),
         \A u \in Thread, q \in Sema : Waits(u, q)' <=> Waits(u, q),
         op'[Idle] = "none"
  PROVE  /\ CpuInv' /\ SleepInv'
         /\ value' = [value EXCEPT ![s] = 1]
         /\ waiters' \in [Sema -> Seq(Thread)]
         /\ UNCHANGED <<cur, panicked>>
         /\ \A u \in Thread : status'[u] = status[u] \/ WokenFrom(u, s)
<1>1. CpuInv /\ SyncTypeOK /\ waiters[s] \in Seq(Thread)
  BY DEF SyncInv, LockInv, SyncTypeOK
<1>2. value' = [value EXCEPT ![s] = 1]
  BY <1>1 DEF SemaUp
<1>3. /\ \A u \in Thread, q \in Sema : (Waits(u, q) /\ status[u] = "BLOCKED") <=> On(u, waiters[q])
      /\ \A q \in Sema : NoTwice(waiters[q])
  BY WaitersOn DEF SyncInv, SleepInv
<1>4. CASE waiters[s] = <<>>
  <2>1. UNCHANGED cpuVars /\ UNCHANGED waiters
    BY <1>4 DEF SemaUp
  <2>2. CpuInv' /\ UNCHANGED <<cur, status, panicked>>
    BY <1>1, <2>1, CpuInvUnchanged DEF cpuVars
  <2>3. SleepersListed'
    <3>1. \A u \in Thread : status'[u] = "BLOCKED" => ~InReady(u)'
      BY <2>2 DEF CpuInv, ReadyListExact
    <3> QED BY <2>1, <2>2, <3>1 DEF SyncInv, SleepInv, SleepersListed
  <2>4. NoLostWakeup'
    <3> SUFFICES ASSUME NEW q \in Sema, value'[q] > 0, waiters'[q] # <<>>
                 PROVE  \E u \in Thread : Waits(u, q)' /\ status'[u] \in {"READY", "RUNNING"}
      BY DEF NoLostWakeup
    <3>1. q # s /\ value[q] > 0 /\ waiters[q] # <<>>
      BY <1>1, <1>2, <1>4, <2>1 DEF SyncTypeOK
    <3> QED BY <2>2, <3>1 DEF SyncInv, SleepInv, NoLostWakeup
  <2> QED BY <1>1, <1>2, <2>1, <2>2, <2>3, <2>4 DEF SleepInv, SyncTypeOK
<1>5. CASE waiters[s] # <<>>
  <2> DEFINE h == Head(waiters[s])
  <2>1. /\ waiters' = [waiters EXCEPT ![s] = Tail(@)]
        /\ ThreadUnblock(h)
    BY <1>5 DEF SemaUp
  <2>2. /\ h \in Thread /\ On(h, waiters[s])
        /\ Tail(waiters[s]) \in Seq(Thread)
        /\ NoTwice(Tail(waiters[s]))
        /\ \A u : On(u, Tail(waiters[s])) <=> On(u, waiters[s]) /\ u # h
    BY <1>1, <1>3, <1>5, PopOn
  <2>3. Waits(h, s) /\ status[h] = "BLOCKED" /\ h # Idle
    <3>1. Waits(h, s) /\ status[h] = "BLOCKED"
      BY <1>3, <2>2
    <3> QED BY <3>1 DEF Waits, SyncInv, SleepInv
  <2> HIDE DEF h
  <2>4. CpuInv' /\ status' = [status EXCEPT ![h] = "READY"] /\ UNCHANGED cur
    BY <1>1, <2>1, <2>2, <2>3, UnblockKeeps, UnblockStatus DEF Blocking
  <2>5. /\ waiters'[s] = Tail(waiters[s])
        /\ \A q \in Sema \ {s} : waiters'[q] = waiters[q]
        /\ waiters' \in [Sema -> Seq(Thread)]
    BY <1>1, <2>1, <2>2 DEF SyncTypeOK
  <2>6. status'[h] = "READY" /\ \A u \in Thread \ {h} : status'[u] = status[u]
    BY <1>1, <2>2, <2>4 DEF CpuInv
  <2>7. SleepersListed'
    <3>1. \A q \in Sema : NoTwice(waiters'[q])
      BY <1>3, <2>2, <2>5
    <3>2. ASSUME NEW u \in Thread, NEW q \in Sema
          PROVE  (Waits(u, q)' /\ status'[u] = "BLOCKED") <=> On(u, waiters'[q])
      <4>1. CASE q = s
        <5>1. On(u, waiters'[q]) <=> On(u, waiters[q]) /\ u # h
          BY <2>2, <2>5, <4>1
        <5>2. status'[u] = "BLOCKED" <=> status[u] = "BLOCKED" /\ u # h
          BY <2>3, <2>6
        <5> QED BY <1>3, <5>1, <5>2
      <4>2. CASE q # s /\ u = h
        BY <1>3, <2>3, <2>5, <2>6, <4>2 DEF Waits
      <4>3. CASE q # s /\ u # h
        BY <1>3, <2>5, <2>6, <4>3
      <4> QED BY <4>1, <4>2, <4>3
    <3>3. \A u \in Thread, q \in Sema : Waits(u, q)' /\ status'[u] = "BLOCKED" => ~InReady(u)'
      BY <2>4 DEF CpuInv, ReadyListExact
    <3> QED BY <3>1, <3>2, <3>3 DEF SleepersListed, On, NoTwice
  <2>8. NoLostWakeup'
    <3> SUFFICES ASSUME NEW q \in Sema, value'[q] > 0, waiters'[q] # <<>>
                 PROVE  \E u \in Thread : Waits(u, q)' /\ status'[u] \in {"READY", "RUNNING"}
      BY DEF NoLostWakeup
    <3>1. CASE q = s
      BY <2>2, <2>3, <2>6, <3>1
    <3>2. CASE q # s
      <4>1. value[q] > 0 /\ waiters[q] # <<>>
        BY <1>1, <1>2, <2>5, <3>2 DEF SyncTypeOK
      <4>2. PICK u \in Thread : Waits(u, q) /\ status[u] \in {"READY", "RUNNING"}
        BY <4>1 DEF SyncInv, SleepInv, NoLostWakeup
      <4> QED BY <2>6, <4>2
    <3> QED BY <3>1, <3>2
  <2>9. \A u \in Thread : status'[u] = status[u] \/ WokenFrom(u, s)
    BY <2>3, <2>6 DEF WokenFrom
  <2> QED BY <1>1, <1>2, <2>4, <2>5, <2>7, <2>8, <2>9 DEF SleepInv, CpuInv
<1> QED BY <1>4, <1>5


\* lock_release's sema_up: t is no longer the owner.
LEMMA UpKeeps ==
  ASSUME SyncInv, NEW t \in Thread \ {Idle}, Up(t)
  PROVE  /\ SyncInv'
         /\ on[t] \in Lock /\ Owns(t, on[t])
         /\ op' = [op EXCEPT ![t] = "none"]
         /\ UNCHANGED <<on, holder, repeat, cur, panicked>>
         /\ \A u \in Thread : status'[u] = status[u] \/ WokenFrom(u, on[t])
         /\ \A u \in Thread, k \in Lock :
              Owns(u, k)' <=> Owns(u, k) /\ ~(u = t /\ k = on[t])
<1> USE SyncAssumption, SchedAssumption
<1> DEFINE s == on[t]
<1>1. op[t] = "up" /\ s \in Lock /\ Owns(t, s) /\ s \in Sema
  BY DEF Up, SyncInv, LockInv, HolderLags, Owns
<1>2. value[s] = 0 /\ holder[s] # t /\ \A u \in Thread \ {t} : ~Owns(u, s)
  BY <1>1 DEF SyncInv, LockInv, LockFieldsAgree, HolderLags, MutualExclusion
<1>3. /\ SemaUp(s) /\ op' = [op EXCEPT ![t] = "none"]
      /\ UNCHANGED <<on, holder, repeat, old>>
  BY DEF Up, Goto
<1>4. op'[t] = "none" /\ \A u \in Thread \ {t} : op'[u] = op[u]
  BY <1>3 DEF SyncInv, LockInv, SyncTypeOK
<1>5. /\ \A u \in Thread, q \in Sema : Waits(u, q)' <=> Waits(u, q)
      /\ op'[Idle] = "none"
  BY <1>1, <1>3, <1>4 DEF Waits, SyncInv, SleepInv
<1>6. /\ CpuInv' /\ SleepInv'
      /\ value' = [value EXCEPT ![s] = 1]
      /\ waiters' \in [Sema -> Seq(Thread)]
      /\ UNCHANGED <<cur, panicked>>
      /\ \A u \in Thread : status'[u] = status[u] \/ WokenFrom(u, s)
  BY <1>1, <1>2, <1>3, <1>5, SemaUpKeepsSleep
<1>7. \A u \in Thread, k \in Lock :
        Owns(u, k)' <=> Owns(u, k) /\ ~(u = t /\ k = s)
  BY <1>1, <1>2, <1>3, <1>4 DEF Owns
<1>8. LockInv'
  <2>1. SyncTypeOK'
    BY <1>3, <1>6 DEF SyncInv, LockInv, SyncTypeOK
  <2>2. MutualExclusion'
    BY <1>7 DEF SyncInv, LockInv, MutualExclusion
  <2>3. value'[s] = 1 /\ \A q \in Sema \ {s} : value'[q] = value[q]
    BY <1>1, <1>6 DEF SyncInv, LockInv, SyncTypeOK
  <2>4. LockFieldsAgree'
    <3>1. \A k \in Lock : value'[k] = 0 <=> \E u \in Thread : Owns(u, k)'
      BY <1>2, <1>7, <2>3 DEF SyncInv, LockInv, LockFieldsAgree
    <3>2. \A k \in Lock, u \in Thread : holder'[k] = u =>
            (repeat'[k] = 0 <=> op'[u] \in {"mine", "drop"} /\ on'[u] = k)
      BY <1>1, <1>2, <1>3, <1>4 DEF SyncInv, LockInv, LockFieldsAgree
    <3>3. \A k \in Lock : holder'[k] = None => repeat'[k] = 0
      BY <1>3 DEF SyncInv, LockInv, LockFieldsAgree
    <3> QED BY <3>1, <3>2, <3>3 DEF LockFieldsAgree
  <2>5. HolderLags'
    BY <1>3, <1>4 DEF SyncInv, LockInv, HolderLags
  <2> QED BY <2>1, <2>2, <2>4, <2>5 DEF LockInv
<1> QED BY <1>1, <1>3, <1>6, <1>7, <1>8 DEF SyncInv

\* sema_up by an interrupt handler, on a semaphore that is not a lock
LEMMA HandlerUpKeeps ==
  ASSUME SyncInv, NEW s \in Sema \ Lock, value[s] = 0, SemaUp(s),
         UNCHANGED <<holder, repeat, op, on, old>>
  PROVE  /\ SyncInv' /\ SameOwners
         /\ value' = [value EXCEPT ![s] = 1] /\ UNCHANGED <<cur, panicked>>
         /\ \A u \in Thread : status'[u] = status[u] \/ WokenFrom(u, s)
<1> USE SyncAssumption
<1>1. /\ \A u \in Thread, q \in Sema : Waits(u, q)' <=> Waits(u, q)
      /\ op'[Idle] = "none"
  BY DEF Waits, SyncInv, SleepInv
<1>2. /\ CpuInv' /\ SleepInv'
      /\ value' = [value EXCEPT ![s] = 1]
      /\ waiters' \in [Sema -> Seq(Thread)]
      /\ UNCHANGED <<cur, panicked>>
      /\ \A u \in Thread : status'[u] = status[u] \/ WokenFrom(u, s)
  BY <1>1, SemaUpKeepsSleep
<1>3. SameOwners
  BY DEF SameOwners, Owns
<1>4. LockInv'
  <2>1. SyncTypeOK' /\ \A k \in Lock : value'[k] = value[k]
    BY <1>2 DEF SyncInv, LockInv, SyncTypeOK
  <2>2. MutualExclusion' /\ LockFieldsAgree' /\ HolderLags'
    BY <1>3, <2>1 DEF SyncInv, LockInv, MutualExclusion, LockFieldsAgree, HolderLags, SameOwners
  <2> QED BY <2>1, <2>2 DEF LockInv
<1> QED BY <1>2, <1>3, <1>4 DEF SyncInv

\* A thread that blocks outside the semaphores, as a queue's consumer does
LEMMA CallerBlocks ==
  ASSUME SyncInv, NEW t \in Thread \ {Idle}, cur = t, op[t] # "sleep",
         ThreadBlock("BLOCKED"), UNCHANGED syncVars
  PROVE  /\ SyncInv' /\ UNCHANGED panicked
         /\ status'[t] = "BLOCKED" /\ \A u \in Thread \ {t, Idle} : Undisturbed(u)
<1>1. CpuInv'
  BY BlockKeeps DEF SyncInv, Blocking
<1>2. status'[t] = "BLOCKED" /\ \A u \in Thread \ {t, Idle} : Undisturbed(u)
  BY BlockStatus DEF SyncInv, Blocking
<1>3. SleepersUndisturbed
  BY <1>2 DEF SleepersUndisturbed, SyncInv, SleepInv
<1> QED BY <1>1, <1>2, <1>3, SwitchKeeps DEF SyncInv, CpuInv

\* ... and is woken
LEMMA CallerWoken ==
  ASSUME SyncInv, NEW t \in Thread \ {Idle}, status[t] \in Blocking, op[t] # "sleep",
         ThreadUnblock(t), UNCHANGED syncVars
  PROVE  /\ SyncInv'
         /\ status' = [status EXCEPT ![t] = "READY"] /\ UNCHANGED <<cur, panicked>>
<1>1. CpuInv' /\ status' = [status EXCEPT ![t] = "READY"] /\ UNCHANGED cur
  BY UnblockKeeps, UnblockStatus DEF SyncInv
<1>2. SleepersUndisturbed
  BY <1>1 DEF SleepersUndisturbed, Undisturbed, SyncInv, CpuInv
<1> QED BY <1>1, <1>2, SwitchKeeps DEF SyncInv, CpuInv
=============================================================================
