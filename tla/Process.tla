------------------------------ MODULE Process ------------------------------
(***************************************************************************)
(* Processes: sys_fork (userprog/fork.c), sys_wait and sys_exit            *)
(* (userprog/wait_exit.c), thread_exit and the pid pool (thread/thread.c), *)
(* on top of the scheduler.  A member of Thread is a page that can hold a  *)
(* task_struct; fork takes a free one, wait gives it back.  User programs  *)
(* are arbitrary: each may fork, wait and exit at any point.  InitProc and *)
(* Main never exit; Main stands for the kernel threads.                    *)
(*                                                                         *)
(* System calls run with interrupts off.  They lose the CPU where they     *)
(* block, and wherever they take a lock of the memory or the pid pool that *)
(* a kernel thread may hold: Nap is that sleep and Wake its end.           *)
(*                                                                         *)
(* pc[t]: "user"     user code (for Main its loop), interrupts on          *)
(*        "copy"     copy_process, the child's task_struct is filled in    *)
(*        "wait"     at the head of the loop of sys_wait                   *)
(*        "release"  thread_exit, at release_pid                           *)
(*        "exit"     sys_exit, in release_prog_resource                    *)
(*        "hang"     sys_exit, at thread_block(TASK_HANGING)               *)
(***************************************************************************)
EXTENDS Sched, FiniteSetsExt, SequencesExt

CONSTANTS InitProc, Main, NoThread,
          MaxPid,   \* 1024 in the source
          Code, NoCode  \* the statuses each process may exit with, and that of
                        \* a process still alive

ASSUME ProcessAssumption == /\ InitProc \in Thread \ {Idle}
                            /\ Main \in Thread \ {Idle, InitProc}
                            /\ NoThread \notin Thread
                            /\ MaxPid \in Nat \ {0, 1, 2}
                            /\ \A t \in Thread : NoCode \notin Code[t]

VARIABLES all,          \* thread_all_list, head first
          pid, ppid,    \* task_struct.pid, .parent_pid
          exit_status,  \* task_struct.exit_status
          used,         \* the pids marked in pid_bitmap
          pc,
          child,        \* the task_struct a fork fills in
          freed,        \* the pid a wait is about to release
          result        \* the *status of the last wait

procVars == <<all, pid, ppid, exit_status, used, pc, child, freed, result>>
vars == <<schedVars, procVars>>

\* thread_init() gave init, main and idle the pids 1, 2 and 3; none has a parent.
Init == /\ SchedInit(Main, <<InitProc>>)
        /\ all = <<InitProc, Main, Idle>>
        /\ pid = [t \in Thread |-> CASE t = InitProc -> 1 [] t = Main -> 2
                                     [] t = Idle -> 3 [] OTHER -> 0]
        /\ ppid = [t \in Thread |-> 0]
        /\ exit_status = [t \in Thread |-> NoCode]
        /\ used = {1, 2, 3}
        /\ pc = [t \in Thread |-> "user"]
        /\ child = [t \in Thread |-> NoThread]
        /\ freed = [t \in Thread |-> 0]
        /\ result = [t \in Thread |-> NoCode]

Listed == ToSet(all)
User == Thread \ {Idle, Main}
Children(t) == {u \in Listed : ppid[u] = pid[t]}

\* The first process on thread_all_list that is one of S, NULL if there is none
list_traversal(S) == LET k == SelectInSeq(all, LAMBDA u : u \in S)
                     IN  IF k = 0 THEN NoThread ELSE all[k]

At(t, where) == Running(t) /\ pc[t] = where
MoveTo(t, where) == pc' = [pc EXCEPT ![t] = where]
EnterCall(t, where) == MoveTo(t, where) /\ intr' = [intr EXCEPT ![t] = FALSE]
Leave(t) == MoveTo(t, "user") /\ intr' = [intr EXCEPT ![t] = TRUE]

-----------------------------------------------------------------------------
(* fork *)

\* allocate_pid: the lowest free bit.  PCBs run out of memory long before the
\* pids are used up.
allocate_pid == Min(1..MaxPid \ used)

\* sys_fork and copy_pcb: a free page, its pid and its parent
SysFork(t, u) ==
  /\ At(t, "user")
  /\ status[u] = "NONE" /\ \A v \in Thread : child[v] # u
  /\ 1..MaxPid \ used # {}
  /\ EnterCall(t, "copy")
  /\ child' = [child EXCEPT ![t] = u]
  /\ pid' = [pid EXCEPT ![u] = allocate_pid]
  /\ ppid' = [ppid EXCEPT ![u] = pid[t]]
  /\ exit_status' = [exit_status EXCEPT ![u] = exit_status[t]]
  /\ used' = used \cup {allocate_pid}
  /\ UNCHANGED <<cpuVars, idle, all, freed, result>>

\* The end of sys_fork: the child on both lists, its stack built so that
\* switch_to returns through intr_exit to user code
ForkListsChild(t) ==
  /\ At(t, "copy")
  /\ ThreadStart(child[t])
  /\ all' = Append(all, child[t])
  /\ child' = [child EXCEPT ![t] = NoThread]
  /\ pc' = [pc EXCEPT ![t] = "user", ![child[t]] = "user"]
  /\ intr' = [intr EXCEPT ![t] = TRUE, ![child[t]] = TRUE]
  /\ UNCHANGED <<idle, pid, ppid, exit_status, used, freed, result>>

-----------------------------------------------------------------------------
(* wait *)

SysWait(t) == /\ At(t, "user")
              /\ EnterCall(t, "wait")
              /\ UNCHANGED <<cpuVars, idle, all, pid, ppid, exit_status, used,
                             child, freed, result>>

\* The first hanging child on thread_all_list is freed with thread_exit,
\* up to its release_pid; its page is free and holds nothing any more.
CollectAny(t) ==  \* mutant: the parent of the hanging process is not compared
  LET u == list_traversal({v \in Listed : status[v] = "HANGING"})
  IN  /\ At(t, "wait")
      /\ u # NoThread
      /\ result' = [result EXCEPT ![t] = exit_status[u]]
      /\ all' = RemoveFirst(all, u)
      /\ status' = [status EXCEPT ![u] = "NONE"]
      /\ freed' = [freed EXCEPT ![t] = pid[u]]
      /\ pid' = [pid EXCEPT ![u] = 0]
      /\ ppid' = [ppid EXCEPT ![u] = 0]
      /\ exit_status' = [exit_status EXCEPT ![u] = NoCode]
      /\ MoveTo(t, "release")
      /\ UNCHANGED <<cur, ready, ticks, panicked, intr, idle, used, child>>

Collect(t) ==
  LET u == list_traversal({v \in Children(t) : status[v] = "HANGING"})
  IN  /\ At(t, "wait")
      /\ u # NoThread
      /\ result' = [result EXCEPT ![t] = exit_status[u]]
      /\ ready' = RemoveFirst(ready, u)
      /\ all' = RemoveFirst(all, u)
      /\ status' = [status EXCEPT ![u] = "NONE"]
      /\ freed' = [freed EXCEPT ![t] = pid[u]]
      /\ pid' = [pid EXCEPT ![u] = 0]
      /\ ppid' = [ppid EXCEPT ![u] = 0]
      /\ exit_status' = [exit_status EXCEPT ![u] = NoCode]
      /\ MoveTo(t, "release")
      /\ UNCHANGED <<cur, ticks, panicked, intr, idle, used, child>>

release_pid_keeps_bit(t) ==  \* mutant: the bit stays set
  /\ At(t, "release")
  /\ freed' = [freed EXCEPT ![t] = 0]
  /\ Leave(t)
  /\ UNCHANGED <<cpuVars, idle, all, pid, ppid, exit_status, used, child, result>>

release_pid(t) ==
  /\ At(t, "release")
  /\ used' = used \ {freed[t]}
  /\ freed' = [freed EXCEPT ![t] = 0]
  /\ Leave(t)
  /\ UNCHANGED <<cpuVars, idle, all, pid, ppid, exit_status, child, result>>

\* No child hangs: sleep if there is one, else return -1.
WaitSleeps(t) ==
  /\ At(t, "wait")
  /\ \A u \in Children(t) : status[u] # "HANGING"
  /\ IF Children(t) = {} THEN Leave(t) /\ UNCHANGED cpuVars
                         ELSE ThreadBlock("WAITING") /\ UNCHANGED <<intr, pc>>
  /\ UNCHANGED <<idle, all, pid, ppid, exit_status, used, child, freed, result>>

-----------------------------------------------------------------------------
(* exit *)

\* sys_exit, up to release_prog_resource: its children go to pid 1
SysExitKeepsChildren(t, s) ==  \* mutant: no adoption
  /\ At(t, "user")
  /\ t # InitProc
  /\ exit_status' = [exit_status EXCEPT ![t] = s]
  /\ EnterCall(t, "exit")
  /\ UNCHANGED <<cpuVars, idle, all, pid, ppid, used, child, freed, result>>

SysExit(t, s) ==
  /\ At(t, "user")
  /\ t # InitProc
  /\ exit_status' = [exit_status EXCEPT ![t] = s]
  /\ ppid' = [u \in Thread |-> IF u \in Children(t) THEN 1 ELSE ppid[u]]
  /\ EnterCall(t, "exit")
  /\ UNCHANGED <<cpuVars, idle, all, pid, used, child, freed, result>>

pid2thread(p) == list_traversal({u \in Listed : pid[u] = p})

\* The parent is woken if it waits.  Without a parent, parent_thread->status
\* is a read through NULL: a page fault, whose handler spins for ever.
ExitWakesNobody(t) ==  \* mutant: the parent is not unblocked
  /\ At(t, "exit")
  /\ MoveTo(t, "hang")
  /\ UNCHANGED <<schedVars, all, pid, ppid, exit_status, used, child, freed, result>>

ExitWakesParent(t) ==
  LET parent_thread == pid2thread(ppid[t]) IN
  /\ At(t, "exit")
  /\ IF parent_thread = NoThread THEN Panic
     ELSE IF status[parent_thread] = "WAITING" THEN ThreadUnblock(parent_thread)
     ELSE UNCHANGED cpuVars
  /\ MoveTo(t, "hang")
  /\ UNCHANGED <<intr, idle, all, pid, ppid, exit_status, used, child, freed, result>>

Hang(t) == At(t, "hang") /\ ThreadBlock("HANGING") /\ UNCHANGED <<intr, idle, procVars>>

-----------------------------------------------------------------------------
(* The rest of the system *)

Nap(t) == /\ Running(t)
          /\ pc[t] \in {"copy", "release", "exit"}
          /\ ThreadBlock("BLOCKED")
          /\ UNCHANGED <<intr, idle, procVars>>

Wake(u) == /\ Running(Main)
           /\ status[u] = "BLOCKED"
           /\ ThreadUnblock(u)
           /\ UNCHANGED <<intr, idle, procVars>>

Yield == Running(Main) /\ ThreadYield /\ UNCHANGED <<intr, idle, procVars>>
Tick == TimerInterrupt /\ UNCHANGED procVars
IdleStep == (IdleBlock \/ IdleHalt) /\ UNCHANGED procVars

\* What a process in a system call does next
SyscallStep(t) == \/ ForkListsChild(t)
                  \/ Collect(t)
                  \/ release_pid(t)
                  \/ WaitSleeps(t)
                  \/ ExitWakesParent(t)
                  \/ Hang(t)

Next == \/ \E t \in User : \/ \E u \in User \ {InitProc} : SysFork(t, u)
                           \/ SysWait(t)
                           \/ \E s \in Code[t] : SysExit(t, s)
                           \/ SyscallStep(t)
                           \/ Nap(t)
        \/ \E u \in User : Wake(u)
        \/ Yield
        \/ Tick
        \/ IdleStep

\* Ticks keep coming; a process that gets the CPU again and again goes on with
\* its system call; a kernel thread gives a lock up again.
Fairness == /\ SF_vars(Tick)
            /\ SF_vars(Yield)
            /\ \A t \in User : SF_vars(SyscallStep(t)) /\ SF_vars(Wake(t))

Spec == Init /\ [][Next]_vars /\ Fairness

-----------------------------------------------------------------------------
AnyCode == UNION {Code[t] : t \in Thread}
TypeOK == /\ SchedTypeOK
          /\ all \in Seq(Thread)
          /\ pid \in [Thread -> 0..MaxPid]
          /\ ppid \in [Thread -> 0..MaxPid]
          /\ exit_status \in [Thread -> AnyCode \cup {NoCode}]
          /\ used \subseteq 1..MaxPid
          /\ pc \in [Thread -> {"user", "copy", "wait", "release", "exit", "hang"}]
          /\ child \in [Thread -> Thread \cup {NoThread}]
          /\ freed \in [Thread -> 0..MaxPid]
          /\ result \in [Thread -> AnyCode \cup {NoCode}]

\* No ASSERT or PANIC is reached and no parent is looked up in vain: at every
\* exit the parent's pid is on thread_all_list.
NoPanic == ~panicked

\* The pid pool: the marked pids are those of the processes, of the children
\* being made and of the tasks being released, each exactly once.
InMaking == {child[t] : t \in Thread} \ {NoThread}
Releasing == {t \in Thread : freed[t] # 0}
PidsExact ==
  /\ used = {pid[t] : t \in Listed \cup InMaking} \cup {freed[t] : t \in Releasing}
  /\ Cardinality(used) = Cardinality(Listed \cup InMaking) + Cardinality(Releasing)

\* A process that sleeps in wait sleeps for a child that can still end: the
\* exit of its last child was not missed while it scanned the list, napped or
\* was on its way to sleep.  (Not init: a zombie it inherits does not wake it.)
NoMissedExit ==
  \A t \in User \ {InitProc} : status[t] = "WAITING" =>
    \E u \in Children(t) : \A v \in Children(t) :
       status[u] # "HANGING" /\ status[v] # "HANGING"

\* The tree of processes, with the pids resolved.
life == [t \in Thread |-> IF t \notin Listed THEN "none"
                          ELSE IF status[t] = "HANGING" THEN "zombie"
                          ELSE IF pc[t] \in {"exit", "hang"} THEN "dying" ELSE "alive"]
parent == [t \in Thread |->
             IF t \in Listed /\ \E u \in Listed : pid[u] = ppid[t]
               THEN CHOOSE u \in Listed : pid[u] = ppid[t] ELSE NoThread]
Families == INSTANCE Family WITH
  None <- NoThread, Code <- AnyCode, code <- exit_status, got <- result
ImplementsFamily == Families!Spec

\* wait returns: when a child of a process that waits has ended, the wait
\* ends too, whatever else the processes do.  (Not init, as above.)
WaitReturns ==
  \A t \in User \ {InitProc} :
    (pc[t] = "wait" /\ \E u \in Children(t) : status[u] = "HANGING") ~> pc[t] = "release"
=============================================================================
