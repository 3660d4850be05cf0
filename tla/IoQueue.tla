------------------------------ MODULE IoQueue ------------------------------
(***************************************************************************)
(* The keyboard queue: device/ioqueue.c, its producer keyboard_handler()   *)
(* (an interrupt handler) and its consumers, threads in sys_read(0, ..).   *)
(* System calls run with interrupts off, so a reader loses the CPU only    *)
(* where it sleeps: on the queue's lock or as the queue's consumer.  The   *)
(* threads that are not readers only yield (main() in its final loop).     *)
(*                                                                         *)
(* pc[t]: "user"  user code, interrupts on                                 *)
(*        "get"   at the entry of ioq_getchar                              *)
(*        "wait"  at the call of ioq_wait (once lock_acquire returned)     *)
(*        "woken" at the call of lock_release (once thread_block returned) *)
(*        "take"  at the read of buf[tail] (once lock_release returned)    *)
(***************************************************************************)
EXTENDS Sync

CONSTANTS Main,
          Firsts,    \* the ready lists the system may start with
          Reader,    \* the threads that read the keyboard, if started
          IoqLock,   \* keyboard_ioq.lock
          bufsize,   \* 2048 in the source
          Key, NoKey, \* characters, and the initial content of buf
          MaxCount   \* the largest count a reader asks for

\* thread_start's ASSERT keeps a thread from being on the ready list twice.
ASSUME IoQueueAssumption == /\ Main \in Thread \ {Idle}
                            /\ Reader \subseteq Thread \ {Idle, Main}
                            /\ \A f \in Firsts :
                                 /\ f \in Seq(Reader)
                                 /\ \A j, k \in DOMAIN f : f[j] = f[k] => j = k
                            /\ Sema = {IoqLock} /\ Lock = Sema
                            /\ bufsize \in Nat \ {0, 1}
                            /\ MaxCount \in Nat \ {0}
                            /\ NoKey \notin Key

VARIABLES head, tail, buf, consumer,  \* the fields of keyboard_ioq
          pc,                         \* where each reader is in sys_read
          left,                       \* characters it still has to read
          got                         \* the last character it read

ioqVars == <<head, tail, buf, consumer>>
readVars == <<pc, left, got>>
vars == <<schedVars, syncVars, ioqVars, readVars>>

Init == /\ \E f \in Firsts : SchedInit(Main, f)
        /\ SyncInit
        /\ head = 0 /\ tail = 0
        /\ buf = [p \in 0..bufsize - 1 |-> NoKey]
        /\ consumer = None
        /\ pc = [r \in Reader |-> "user"]
        /\ left = [r \in Reader |-> 0]
        /\ got = [r \in Reader |-> NoKey]

next_pos(pos) == (pos + 1) % bufsize
Full == next_pos(head) = tail
Empty == head = tail

At(r, where) == InCaller(r) /\ pc[r] = where
Goto_(r, where) == pc' = [pc EXCEPT ![r] = where]

-----------------------------------------------------------------------------
(* The consumers. *)

SysRead(r) == \E n \in 1..MaxCount :
  /\ At(r, "user")
  /\ intr' = [intr EXCEPT ![r] = FALSE]
  /\ left' = [left EXCEPT ![r] = n]
  /\ Goto_(r, "get")
  /\ UNCHANGED <<cpuVars, idle, syncVars, ioqVars, got>>

\* ioq_getchar: with characters there, no lock is taken
GetCharUnlocked(r) ==  \* mutant: lock_acquire is left out
  /\ At(r, "get")
  /\ Goto_(r, IF Empty THEN "wait" ELSE "take")
  /\ UNCHANGED <<schedVars, syncVars, ioqVars, left, got>>

GetChar(r) ==
  /\ At(r, "get")
  /\ IF Empty
       THEN LockAcquire(r, IoqLock) /\ Goto_(r, "wait")
       ELSE UNCHANGED syncVars /\ Goto_(r, "take")
  /\ UNCHANGED <<schedVars, ioqVars, left, got>>

\* ioq_wait: its ASSERT, then sleep as the consumer
IoqWaitForgetsConsumer(r) ==  \* mutant: nobody is registered to be woken
  /\ At(r, "wait")
  /\ ThreadBlock("BLOCKED")
  /\ Goto_(r, "woken")
  /\ UNCHANGED <<ioqVars, intr, idle, syncVars, left, got>>

IoqWait(r) ==
  /\ At(r, "wait")
  /\ IF consumer = None
       THEN /\ consumer' = r
            /\ ThreadBlock("BLOCKED")
       ELSE Panic /\ UNCHANGED consumer
  /\ Goto_(r, "woken")
  /\ UNCHANGED <<head, tail, buf, intr, idle, syncVars, left, got>>

\* lock_release, once woken
Woken(r) ==
  /\ At(r, "woken")
  /\ LockRelease(r, IoqLock)
  /\ Goto_(r, "take")
  /\ UNCHANGED <<cur, status, ready, ticks, intr, idle, ioqVars, left, got>>

\* The read of buf[tail]; sys_read goes on to the next character or returns.
Take(r) ==
  /\ At(r, "take")
  /\ got' = [got EXCEPT ![r] = buf[tail]]
  /\ tail' = next_pos(tail)
  /\ left' = [left EXCEPT ![r] = @ - 1]
  /\ IF left[r] > 1
       THEN Goto_(r, "get") /\ UNCHANGED intr
       ELSE Goto_(r, "user") /\ intr' = [intr EXCEPT ![r] = TRUE]
  /\ UNCHANGED <<cpuVars, idle, syncVars, head, buf, consumer>>

ReadStep(r) == GetChar(r) \/ IoqWait(r) \/ Woken(r) \/ Take(r) \/
               (SyncStep(r) /\ UNCHANGED <<ioqVars, readVars>>)

-----------------------------------------------------------------------------
(* The producer. *)

\* wakeup(&ioq->consumer)
Wakeup == ThreadUnblock(consumer) /\ consumer' = None

\* ioq_putchar, called by keyboard_handler
PutCharOverruns(k) ==  \* mutant: the full queue is written to
  /\ Interrupt
  /\ buf' = [buf EXCEPT ![head] = k]
  /\ head' = next_pos(head)
  /\ IF consumer # None THEN Wakeup ELSE UNCHANGED <<cpuVars, consumer>>
  /\ UNCHANGED <<intr, tail, syncVars, readVars>>

PutChar(k) ==
  /\ Interrupt
  /\ IF Full
       THEN UNCHANGED <<cpuVars, ioqVars>>  \* the key is thrown away
       ELSE /\ buf' = [buf EXCEPT ![head] = k]
            /\ head' = next_pos(head)
            /\ UNCHANGED tail
            /\ IF consumer # None THEN Wakeup ELSE UNCHANGED <<cpuVars, consumer>>
  /\ UNCHANGED <<intr, syncVars, readVars>>

\* A break code or a prefix: keyboard_handler returns.
OtherScancode == Interrupt /\ UNCHANGED <<cpuVars, intr, syncVars, ioqVars, readVars>>

-----------------------------------------------------------------------------
Yield(t) == /\ InCaller(t)
            /\ t \notin Reader
            /\ ThreadYield
            /\ UNCHANGED <<intr, idle, syncVars, ioqVars, readVars>>

Tick == TimerInterrupt /\ UNCHANGED <<syncVars, ioqVars, readVars>>
IdleStep == (IdleBlock \/ IdleHalt) /\ UNCHANGED <<syncVars, ioqVars, readVars>>

Next == \/ \E r \in Reader : SysRead(r) \/ ReadStep(r)
        \/ \E k \in Key : PutChar(k)
        \/ OtherScancode
        \/ \E t \in Thread \ {Idle} : Yield(t)
        \/ Tick
        \/ IdleStep

\* Timer ticks keep coming, and a reader that gets the CPU again and again
\* executes the system call it is in.  Keys need not be typed.
Fairness == /\ SF_vars(Tick)
            /\ \A r \in Reader : SF_vars(ReadStep(r))

Spec == Init /\ [][Next]_vars /\ Fairness

-----------------------------------------------------------------------------
TypeOK == /\ SchedTypeOK
          /\ SyncTypeOK
          /\ head \in 0..bufsize - 1
          /\ tail \in 0..bufsize - 1
          /\ buf \in [0..bufsize - 1 -> Key \cup {NoKey}]
          /\ consumer \in Reader \cup {None}
          /\ pc \in [Reader -> {"user", "get", "wait", "woken", "take"}]
          /\ left \in [Reader -> 0..MaxCount]
          /\ got \in [Reader -> Key \cup {NoKey}]

\* The ASSERTs of ioq_wait and wakeup hold whatever the number of readers:
\* the lock keeps a second one from overwriting the consumer field.
NoPanic == ~panicked

\* A reader that sleeps as the consumer is registered with the interrupt
\* handler: nobody else would wake it.
SleepingConsumerRegistered ==
  \A r \in Reader : (status[r] = "BLOCKED" /\ op[r] = "none") => consumer = r

OneReader == \A r, q \in Reader : status[r] # "NONE" /\ status[q] # "NONE" => r = q

\* With one reader the ring buffer is a queue: each key accepted comes out
\* once and in order, and nothing else comes out.  (Of several readers nothing
\* is said here: the abstract queue stays empty.)
Keys == INSTANCE Fifo WITH
  Capacity <- bufsize - 1,
  pending <- [j \in 1..(IF OneReader THEN (head + bufsize - tail) % bufsize ELSE 0) |->
                buf[(tail + j - 1) % bufsize]],
  out <- [r \in Reader |-> IF OneReader THEN got[r] ELSE NoKey]
DeliversInOrder == Keys!Spec

\* With one reader, a read that has characters to take returns one: the wake-up
\* from the interrupt handler is not lost between the test for empty and the
\* sleep.
ReadGoesOn ==
  \A r \in Reader :
    (OneReader /\ pc[r] # "user" /\ ~Empty) ~> (pc[r] = "user" \/ Empty)

\* What ioqueue.h says of the consumer: it takes data while the buffer is not
\* empty and sleeps otherwise.
TakesOnlyWhenNotEmpty == [][tail' # tail => ~Empty]_vars
=============================================================================
