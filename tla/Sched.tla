------------------------------- MODULE Sched -------------------------------
(***************************************************************************)
(* The scheduler of thread/thread.c on its single CPU: thread_ready_list,  *)
(* the status and time slice of every task_struct, and schedule() with the *)
(* routines that call it.  This module has no next-state relation of its   *)
(* own: its operators are the steps from which Threads, Locks, IoQueue and *)
(* Ide are built, each of which adds the code that calls them.             *)
(*                                                                         *)
(* A thread whose status is "NONE" has no task_struct.  intr[t] is the IF  *)
(* flag thread t runs with; switch_to leaves it on t's kernel stack, so    *)
(* switching threads switches the flag.  schedule() itself always runs     *)
(* with interrupts off and is one atomic step.  A failed ASSERT or PANIC   *)
(* (debug.c) spins for ever with interrupts off: panicked stays TRUE.      *)
(***************************************************************************)
EXTENDS Naturals, Sequences

CONSTANTS Thread,   \* the task_structs that can exist
          Idle,     \* idle_thread
          Priority  \* the time slice each thread starts with, uint8_t

ASSUME SchedAssumption == /\ Idle \in Thread
                          /\ Priority \in [Thread -> 0..255]

VARIABLES cur,      \* running_thread()
          status,   \* task_struct.status
          ready,    \* thread_ready_list, head first
          ticks,    \* task_struct.ticks
          intr,     \* the IF flag of each thread
          idle,     \* where the idle thread is in its loop
          panicked  \* an ASSERT or a PANIC was hit

cpuVars == <<cur, status, ready, ticks, panicked>>
schedVars == <<cur, status, ready, ticks, intr, idle, panicked>>

Blocking == {"BLOCKED", "WAITING", "HANGING"}
Status == Blocking \cup {"RUNNING", "READY", "NONE"}

\* elem_find(&thread_ready_list, &t->general_tag)
InReady(t) == \E i \in DOMAIN ready : ready[i] = t

Panic == panicked' = TRUE /\ UNCHANGED <<cur, status, ready, ticks>>

(***************************************************************************)
(* schedule().  st is status with what the caller stored in cur's entry.   *)
(***************************************************************************)
ScheduleKeepsBlockedIdle(st) ==  \* mutant: the idle thread is not unblocked
  LET queue == IF st[cur] = "RUNNING" THEN Append(ready, cur) ELSE ready IN
  IF queue = <<>> THEN Panic
  ELSE /\ cur' = Head(queue)
       /\ ready' = Tail(queue)
       /\ status' = [st EXCEPT ![cur] = IF @ = "RUNNING" THEN "READY" ELSE @,
                               ![Head(queue)] = "RUNNING"]
       /\ ticks' = [ticks EXCEPT ![cur] = Priority[cur]]
       /\ UNCHANGED panicked

Schedule(st) ==
  LET preempted == st[cur] = "RUNNING"
      queue == IF preempted THEN Append(ready, cur) ELSE ready
      none  == queue = <<>>
      from  == IF none THEN <<Idle>> ELSE queue  \* thread_unblock(idle_thread)
      next  == Head(from)
      asserts == /\ preempted => ~InReady(cur)
                 /\ none => st[Idle] \in Blocking
  IN  IF asserts
        THEN /\ cur' = next
             /\ ready' = Tail(from)
             /\ status' = [st EXCEPT ![cur] = IF preempted THEN "READY" ELSE @,
                                     ![next] = "RUNNING"]
             /\ ticks' = IF preempted
                           THEN [ticks EXCEPT ![cur] = Priority[cur]]
                           ELSE ticks
             /\ UNCHANGED panicked
        ELSE Panic

\* thread_block(s) by the running thread
ThreadBlock(s) ==
  IF status[cur] = "RUNNING" THEN Schedule([status EXCEPT ![cur] = s])
                             ELSE Panic

ThreadYield == Schedule(status)

\* thread_unblock(t), by a thread or by an interrupt handler: to the front
ThreadUnblock(t) ==
  IF status[t] \in Blocking /\ ~InReady(t)
    THEN /\ ready' = <<t>> \o ready
         /\ status' = [status EXCEPT ![t] = "READY"]
         /\ UNCHANGED <<cur, ticks, panicked>>
    ELSE Panic

\* thread_start() and process_execute(): a new task_struct t, at the tail
ThreadStartAtHead(t) ==  \* mutant: list_push for list_append
  /\ ready' = <<t>> \o ready
  /\ status' = [status EXCEPT ![t] = "READY"]
  /\ ticks' = [ticks EXCEPT ![t] = Priority[t]]
  /\ UNCHANGED <<cur, panicked>>

ThreadStart(t) ==
  IF ~InReady(t)
    THEN /\ ready' = Append(ready, t)
         /\ status' = [status EXCEPT ![t] = "READY"]
         /\ ticks' = [ticks EXCEPT ![t] = Priority[t]]
         /\ UNCHANGED <<cur, panicked>>
    ELSE Panic

\* panic_spin(): while(1), with interrupts off
PanicSpin == panicked /\ UNCHANGED schedVars

\* Thread t executes its next instruction.
Running(t) == ~panicked /\ cur = t

\* An interrupt is taken: IF is on.  It ends the idle thread's hlt.
Interrupt == /\ ~panicked
             /\ intr[cur]
             /\ idle' = IF cur = Idle /\ idle = "hlt" THEN "block" ELSE idle

\* intr_timer_handler()
TickNeverPreempts ==  \* mutant: the slice is counted down and never ends
  /\ Interrupt
  /\ ticks' = [ticks EXCEPT ![cur] = IF @ = 0 THEN 0 ELSE @ - 1]
  /\ UNCHANGED <<cur, status, ready, panicked, intr>>

TimerInterrupt ==
  /\ Interrupt
  /\ IF ticks[cur] = 0
       THEN Schedule(status)
       ELSE /\ ticks' = [ticks EXCEPT ![cur] = @ - 1]
            /\ UNCHANGED <<cur, status, ready, panicked>>
  /\ UNCHANGED intr

\* idle(): thread_block(TASK_BLOCKED), then "sti; hlt"
IdleBlock == /\ Running(Idle)
             /\ idle = "block"
             /\ idle' = "woken"
             /\ ThreadBlock("BLOCKED")
             /\ UNCHANGED intr

IdleHalt == /\ Running(Idle)
            /\ idle = "woken"
            /\ idle' = "hlt"
            /\ UNCHANGED <<cpuVars, intr>>

(***************************************************************************)
(* What the scheduler's data structures promise each other.                *)
(***************************************************************************)
SchedTypeOK == /\ cur \in Thread
               /\ status \in [Thread -> Status]
               /\ ready \in Seq(Thread)
               /\ ticks \in [Thread -> 0..255]
               /\ intr \in [Thread -> BOOLEAN]
               /\ idle \in {"block", "woken", "hlt"}
               /\ panicked \in BOOLEAN

\* The CPU executes the one thread marked RUNNING (schedule() saves the
\* context of running_thread(), not of the thread marked RUNNING).
RunningIsCurrent == \A t \in Thread : status[t] = "RUNNING" <=> t = cur

\* A READY thread is on the ready list, once, and nothing else is on it.
ReadyListExact ==
  /\ \A t \in Thread : status[t] = "READY" <=> InReady(t)
  /\ \A i, j \in DOMAIN ready : ready[i] = ready[j] => i = j

\* The idle thread always exists, blocks in no other way and never with
\* interrupts off.
IdleSound == status[Idle] \in {"RUNNING", "READY", "BLOCKED"} /\ intr[Idle]

SchedInv == /\ RunningIsCurrent
            /\ ReadyListExact
            /\ IdleSound

\* The initial state of the scheduler once main() has called thread_init():
\* main runs, the threads of started and the idle thread wait in that order.
SchedInit(main, started) ==
  /\ cur = main
  /\ ready = Append(started, Idle)
  /\ status = [t \in Thread |->
                 IF t = main THEN "RUNNING"
                 ELSE IF t = Idle \/ \E i \in DOMAIN started : started[i] = t
                        THEN "READY" ELSE "NONE"]
  /\ ticks = Priority
  /\ intr = [t \in Thread |-> TRUE]
  /\ idle = "block"
  /\ panicked = FALSE
=============================================================================
