--------------------------- MODULE IoQueueProofs ---------------------------
(***************************************************************************)
(* The keyboard queue for any number of readers, any buffer size and any   *)
(* keys: no ASSERT fails, the sleeping consumer is the one registered, and *)
(* with one reader the ring buffer implements the abstract queue.          *)
(***************************************************************************)
EXTENDS IoQueue, SyncProofs

Holds(t) == holder[IoqLock] = t

\* Where a reader is in ioq_getchar says where it is in the calls of Sync, and
\* whether it holds the queue's lock.
PcOf(r) ==
  /\ pc[r] \in {"user", "get"} => op[r] = "none" /\ ~Holds(r)
  /\ pc[r] = "wait" => /\ op[r] \in {"none", "down", "sleep", "took", "mine"}
                       /\ op[r] = "none" => Holds(r) /\ repeat[IoqLock] = 1
  /\ pc[r] = "woken" => op[r] = "none" /\ Holds(r) /\ repeat[IoqLock] = 1
  /\ pc[r] = "take" => /\ op[r] \in {"none", "drop", "up"}
                       /\ op[r] = "none" => ~Holds(r)

\* A reader in a system call was started and has characters to read; alone, it
\* takes only what is there.
ReadOf(r) ==
  /\ pc[r] # "user" => left[r] # 0 /\ status[r] # "NONE"
  /\ OneReader => /\ pc[r] = "take" => ~Empty
                  /\ pc[r] = "woken" /\ status[r] # "BLOCKED" => ~Empty

OthersInv == \A t \in Thread \ Reader : op[t] = "none" /\ ~Holds(t)

\* The registered consumer sleeps, and the one that sleeps is registered.
ConsumerInv ==
  /\ consumer # None => pc[consumer] = "woken" /\ status[consumer] = "BLOCKED"
  /\ SleepingConsumerRegistered

\* The types of what the scheduler's and the locks' invariants do not type
FieldTypes == /\ intr \in [Thread -> BOOLEAN]
              /\ idle \in {"block", "woken", "hlt"}
              /\ head \in 0..bufsize - 1
              /\ tail \in 0..bufsize - 1
              /\ buf \in [0..bufsize - 1 -> Key \cup {NoKey}]
              /\ consumer \in Reader \cup {None}
              /\ pc \in [Reader -> {"user", "get", "wait", "woken", "take"}]
              /\ left \in [Reader -> 0..MaxCount]
              /\ got \in [Reader -> Key \cup {NoKey}]

IInv == /\ SyncInv
        /\ FieldTypes
        /\ \A r \in Reader : PcOf(r) /\ ReadOf(r)
        /\ OthersInv
        /\ ConsumerInv

\* What the other threads see of a step: they stay as they are, or are woken in
\* sema_down.
Calm(t) == Undisturbed(t) \/ (op[t] = "sleep" /\ status[t] = "BLOCKED" /\ status'[t] = "READY")

\* A position in the ring stays in the ring.
LEMMA NextPos ==
  ASSUME NEW p \in 0..bufsize - 1
  PROVE  next_pos(p) \in 0..bufsize - 1
  BY IoQueueAssumption DEF next_pos

\* Whether there is one reader does not change: no thread is started or exits.
LEMMA OneReaderStays ==
  ASSUME \A t \in Reader : Calm(t)
  PROVE  OneReader' <=> OneReader
<1>1. \A t \in Reader : status'[t] = "NONE" <=> status[t] = "NONE"
  BY DEF Calm, Undisturbed, Awake
<1> QED BY <1>1 DEF OneReader

\* What every step is shown to do: keep the invariant, and start no reader.
Keeps == IInv' /\ (OneReader' <=> OneReader)

\* A step that takes no part in reading
LEMMA QuietIInv ==
  ASSUME IInv, SyncInv', \A t \in Reader : Undisturbed(t),
         UNCHANGED <<syncVars, ioqVars, readVars>>,
         intr' \in [Thread -> BOOLEAN], idle' \in {"block", "woken", "hlt"}
  PROVE  Keeps
<1> USE SyncAssumption, IoQueueAssumption
<1>1. /\ UNCHANGED op /\ UNCHANGED holder /\ UNCHANGED repeat
      /\ UNCHANGED <<head, tail, buf, consumer, pc, left, got>>
  BY DEF syncVars, ioqVars, readVars
<1>2. OneReader' <=> OneReader
  BY OneReaderStays DEF Calm
<1>3. FieldTypes' /\ OthersInv'
  BY <1>1 DEF IInv, FieldTypes, OthersInv, Holds
<1>4. \A t \in Reader : (status'[t] = "BLOCKED" <=> status[t] = "BLOCKED")
                        /\ (status'[t] = "NONE" <=> status[t] = "NONE")
  BY DEF Undisturbed, Awake
<1>5. \A r \in Reader : PcOf(r)' /\ ReadOf(r)'
  BY <1>1, <1>2, <1>4 DEF IInv, PcOf, ReadOf, Holds, Empty
<1>6. ConsumerInv'
  BY <1>1, <1>4 DEF IInv, FieldTypes, ConsumerInv, SleepingConsumerRegistered
<1> QED BY <1>2, <1>3, <1>5, <1>6 DEF IInv, Keeps

\* A step of one reader
LEMMA ReaderIInv ==
  ASSUME IInv, NEW r \in Reader, SyncInv', FieldTypes', status[r] \notin {"NONE", "BLOCKED"},
         \A u \in Reader \ {r} : pc'[u] = pc[u] /\ left'[u] = left[u] /\ Calm(u),
         \A u \in Thread \ {r} : /\ op'[u] = op[u]
                                 /\ Holds(u)' <=> Holds(u)
                                 /\ Holds(u) => UNCHANGED repeat,
         PcOf(r)', ReadOf(r)', status'[r] # "NONE",
         consumer' = consumer \/ (consumer = None /\ consumer' = r),
         consumer' = r => pc'[r] = "woken" /\ status'[r] = "BLOCKED",
         status'[r] = "BLOCKED" /\ op'[r] = "none" => consumer' = r
  PROVE  Keeps
<1> USE SyncAssumption, IoQueueAssumption
<1>1. OthersInv'
  BY DEF IInv, OthersInv
<1>2. \A u \in Reader \ {r} : /\ status'[u] = "NONE" <=> status[u] = "NONE"
                              /\ status'[u] = "BLOCKED" => status[u] = "BLOCKED"
                              /\ op[u] = "none" => (status'[u] = "BLOCKED" <=> status[u] = "BLOCKED")
  BY DEF Calm, Undisturbed, Awake
<1>3. OneReader' <=> OneReader
  BY <1>2 DEF OneReader
<1>4. ASSUME NEW u \in Reader \ {r} PROVE PcOf(u)'
  <2>1. /\ pc'[u] = pc[u] /\ op'[u] = op[u] /\ (Holds(u)' <=> Holds(u))
        /\ Holds(u) => UNCHANGED repeat
    OBVIOUS
  <2> QED BY <2>1 DEF IInv, PcOf
<1>5. ASSUME NEW u \in Reader \ {r} PROVE ReadOf(u)'
  <2>1. OneReader => status[u] = "NONE"
    BY DEF OneReader
  <2>2. OneReader => pc[u] = "user"
    BY <2>1 DEF IInv, ReadOf
  <2> QED BY <1>2, <1>3, <2>2 DEF IInv, ReadOf
<1>6. ConsumerInv'
  <2>1. ASSUME consumer' # None PROVE pc'[consumer'] = "woken" /\ status'[consumer'] = "BLOCKED"
    <3>1. CASE consumer' = r
      BY <3>1
    <3>2. CASE consumer' # r
      <4>1. consumer' = consumer /\ consumer \in Reader \ {r}
        BY <2>1, <3>2 DEF IInv, FieldTypes
      <4>2. pc[consumer] = "woken" /\ status[consumer] = "BLOCKED"
        BY <2>1, <4>1 DEF IInv, ConsumerInv
      <4>3. op[consumer] = "none"
        BY <4>1, <4>2 DEF IInv, PcOf
      <4> QED BY <1>2, <4>1, <4>2, <4>3
    <3> QED BY <3>1, <3>2
  <2>2. ASSUME NEW u \in Reader, status'[u] = "BLOCKED", op'[u] = "none" PROVE consumer' = u
    <3>1. CASE u = r
      BY <2>2, <3>1
    <3>2. CASE u # r
      <4>1. status[u] = "BLOCKED" /\ op[u] = "none"
        BY <1>2, <2>2, <3>2
      <4>2. consumer = u
        BY <4>1 DEF IInv, ConsumerInv, SleepingConsumerRegistered
      <4> QED BY <4>2
    <3> QED BY <3>1, <3>2
  <2> QED BY <2>1, <2>2 DEF ConsumerInv, SleepingConsumerRegistered
<1> QED BY <1>1, <1>3, <1>4, <1>5, <1>6 DEF IInv, Keeps

-----------------------------------------------------------------------------
\* The queue is empty and nobody reads.
LEMMA InitIInv == Init => IInv
<1> SUFFICES ASSUME Init PROVE IInv
  OBVIOUS
<1> USE SyncAssumption, IoQueueAssumption
<1>1. PICK f \in Firsts : SchedInit(Main, f)
  BY DEF Init
<1>2. f \in Seq(Thread \ {Idle, Main}) /\ NoTwice(f)
  <2>1. f \in Seq(Reader) /\ NoTwice(f)
    BY DEF NoTwice
  <2> QED BY <2>1
<1>3. CpuInv
  BY <1>1, <1>2, SchedInitCpuInv
<1>4. SyncInv
  BY <1>3, SyncInitInv DEF Init
<1>5. /\ op = [t \in Thread |-> "none"] /\ holder = [l \in Lock |-> None]
      /\ head = 0 /\ tail = 0 /\ consumer = None
      /\ buf = [p \in 0..bufsize - 1 |-> NoKey]
      /\ pc = [r \in Reader |-> "user"]
      /\ left = [r \in Reader |-> 0]
      /\ got = [r \in Reader |-> NoKey]
  BY DEF Init, SyncInit
<1>6. intr \in [Thread -> BOOLEAN] /\ idle = "block"
  BY <1>1 DEF SchedInit
<1>7. FieldTypes
  BY <1>5, <1>6 DEF FieldTypes
<1>8. \A t \in Thread : op[t] = "none" /\ ~Holds(t)
  BY <1>5 DEF Holds
<1>9. \A r \in Reader : PcOf(r) /\ ReadOf(r)
  BY <1>5, <1>8 DEF PcOf, ReadOf
<1>10. \A t \in Thread : status[t] # "BLOCKED"
  BY <1>1 DEF SchedInit
<1>11. ConsumerInv
  BY <1>5, <1>10 DEF ConsumerInv, SleepingConsumerRegistered
<1> QED BY <1>4, <1>7, <1>8, <1>9, <1>11 DEF IInv, OthersInv

\* What every step of a running reader starts from
LEMMA ReaderRuns ==
  ASSUME IInv, NEW r \in Reader, cur = r
  PROVE  /\ r \in Thread \ {Idle} /\ IoqLock \in Lock /\ IoqLock \in Sema /\ r # None
         /\ status[r] = "RUNNING" /\ consumer # r
         /\ SyncTypeOK
  BY IoQueueAssumption, SyncAssumption
     DEF IInv, SyncInv, CpuInv, RunningIsCurrent, ConsumerInv, LockInv

\* sys_read(0, ..) begins.
LEMMA SysReadIInv ==
  ASSUME IInv, NEW r \in Reader, SysRead(r)
  PROVE  Keeps
<1> USE SyncAssumption, IoQueueAssumption
<1>1. PICK n \in 1..MaxCount :
        /\ At(r, "user")
        /\ intr' = [intr EXCEPT ![r] = FALSE]
        /\ left' = [left EXCEPT ![r] = n]
        /\ Goto_(r, "get")
        /\ UNCHANGED <<cpuVars, idle, syncVars, ioqVars, got>>
  BY DEF SysRead
<1>2. cur = r /\ op[r] = "none" /\ pc[r] = "user"
  BY <1>1 DEF At, InCaller, Running
<1>3. UNCHANGED <<cpuVars, syncVars>> /\ UNCHANGED status
      /\ UNCHANGED <<holder, repeat, op>> /\ UNCHANGED <<head, tail, buf, consumer>>
  BY <1>1 DEF cpuVars, syncVars, ioqVars
<1>4. SyncInv'
  BY <1>3, RestKeeps DEF IInv
<1>5. FieldTypes'
  BY <1>1, <1>3 DEF IInv, FieldTypes, Goto_
<1>6. /\ pc'[r] = "get" /\ left'[r] = n
      /\ \A u \in Reader \ {r} : pc'[u] = pc[u] /\ left'[u] = left[u] /\ Calm(u)
  BY <1>1, <1>3 DEF IInv, FieldTypes, Goto_, Calm, Undisturbed
<1>7. ~Holds(r) /\ status[r] = "RUNNING" /\ consumer # r
  BY <1>2, ReaderRuns DEF IInv, PcOf
<1>8. PcOf(r)' /\ ReadOf(r)'
  BY <1>2, <1>3, <1>6, <1>7 DEF PcOf, ReadOf, Holds
<1> QED BY <1>3, <1>4, <1>5, <1>6, <1>7, <1>8, ReaderIInv DEF Holds

\* ioq_getchar: no lock with characters there; empty, the lock is not its own.
LEMMA GetCharIInv ==
  ASSUME IInv, NEW r \in Reader, GetChar(r)
  PROVE  Keeps
<1> USE SyncAssumption, IoQueueAssumption
<1>1. /\ cur = r /\ op[r] = "none" /\ pc[r] = "get"
      /\ UNCHANGED schedVars /\ UNCHANGED ioqVars /\ UNCHANGED left /\ UNCHANGED got
  BY DEF GetChar, At, InCaller, Running
<1>2. /\ UNCHANGED cpuVars /\ UNCHANGED <<status, intr, idle>>
      /\ UNCHANGED <<head, tail, buf, consumer>>
  BY <1>1 DEF schedVars, cpuVars, ioqVars
<1>3. /\ r \in Thread \ {Idle} /\ IoqLock \in Lock /\ status[r] = "RUNNING" /\ consumer # r
      /\ SyncTypeOK /\ ~Holds(r) /\ left[r] # 0
  BY <1>1, ReaderRuns DEF IInv, PcOf, ReadOf
<1>4. ASSUME NEW p \in {"wait", "take"}, Goto_(r, p)
      PROVE  /\ FieldTypes' /\ pc'[r] = p
             /\ \A u \in Reader \ {r} : pc'[u] = pc[u] /\ left'[u] = left[u] /\ Calm(u)
  BY <1>1, <1>2, <1>4 DEF IInv, FieldTypes, Goto_, Calm, Undisturbed
<1>5. CASE Empty
  <2>1. LockAcquire(r, IoqLock) /\ Goto_(r, "wait")
    BY <1>5 DEF GetChar
  <2>2. SyncInv'
    BY <1>1, <1>2, <1>3, <2>1, AcquireKeeps DEF IInv
  <2>3. op' = [op EXCEPT ![r] = "down"] /\ UNCHANGED <<holder, repeat>>
    BY <1>3, <2>1 DEF LockAcquire, SemaDown, Enter, Holds
  <2>4. op'[r] = "down" /\ \A u \in Thread \ {r} : op'[u] = op[u]
    BY <1>3, <2>3 DEF SyncTypeOK
  <2>5. PcOf(r)' /\ ReadOf(r)'
    BY <1>1, <1>2, <1>3, <1>4, <2>1, <2>4 DEF PcOf, ReadOf
  <2> QED BY <1>2, <1>3, <1>4, <2>1, <2>2, <2>3, <2>4, <2>5, ReaderIInv DEF Holds
<1>6. CASE ~Empty
  <2>1. UNCHANGED syncVars /\ Goto_(r, "take")
    BY <1>6 DEF GetChar
  <2>2. SyncInv' /\ UNCHANGED <<op, holder, repeat>>
    BY <1>2, <2>1, RestKeeps DEF IInv, syncVars
  <2>3. PcOf(r)' /\ ReadOf(r)'
    BY <1>1, <1>2, <1>3, <1>4, <1>6, <2>1, <2>2 DEF PcOf, ReadOf, Holds, Empty
  <2> QED BY <1>2, <1>3, <1>4, <2>1, <2>2, <2>3, ReaderIInv DEF Holds
<1> QED BY <1>5, <1>6

\* ioq_wait: its ASSERT holds, for the lock keeps a second consumer out.
LEMMA IoqWaitIInv ==
  ASSUME IInv, NEW r \in Reader, IoqWait(r)
  PROVE  Keeps
<1> USE SyncAssumption, IoQueueAssumption
<1>1. /\ cur = r /\ op[r] = "none" /\ pc[r] = "wait" /\ Goto_(r, "woken")
      /\ UNCHANGED syncVars
      /\ UNCHANGED <<head, tail, buf, intr, idle, left, got>>
  BY DEF IoqWait, At, InCaller, Running
<1>2. /\ r \in Thread \ {Idle} /\ status[r] = "RUNNING" /\ r # None
      /\ Holds(r) /\ repeat[IoqLock] = 1 /\ left[r] # 0
  BY <1>1, ReaderRuns DEF IInv, PcOf, ReadOf
<1>3. consumer = None
  <2> SUFFICES ASSUME consumer # None PROVE FALSE
    OBVIOUS
  <2>1. consumer \in Reader /\ pc[consumer] = "woken"
    BY DEF IInv, FieldTypes, ConsumerInv
  <2>2. Holds(consumer)
    BY <2>1 DEF IInv, PcOf
  <2> QED BY <1>1, <1>2, <2>1, <2>2 DEF Holds
<1>4. consumer' = r /\ ThreadBlock("BLOCKED")
  BY <1>3 DEF IoqWait
<1>5. SyncInv' /\ status'[r] = "BLOCKED" /\ \A u \in Thread \ {r, Idle} : Undisturbed(u)
  BY <1>1, <1>2, <1>4, CallerBlocks DEF IInv
<1>6. UNCHANGED <<op, holder, repeat>>
  BY <1>1 DEF syncVars
<1>7. /\ FieldTypes' /\ pc'[r] = "woken"
      /\ \A u \in Reader \ {r} : pc'[u] = pc[u] /\ left'[u] = left[u] /\ Calm(u)
  BY <1>1, <1>4, <1>5 DEF IInv, FieldTypes, Goto_, Calm
<1>8. PcOf(r)' /\ ReadOf(r)'
  BY <1>1, <1>2, <1>5, <1>6, <1>7 DEF PcOf, ReadOf, Holds
<1> QED BY <1>2, <1>3, <1>4, <1>5, <1>6, <1>7, <1>8, ReaderIInv DEF Holds

\* lock_release by the consumer that was woken, the holder
LEMMA WokenIInv ==
  ASSUME IInv, NEW r \in Reader, Woken(r)
  PROVE  Keeps
<1> USE SyncAssumption, IoQueueAssumption
<1>1. /\ cur = r /\ op[r] = "none" /\ pc[r] = "woken" /\ Goto_(r, "take")
      /\ LockRelease(r, IoqLock)
      /\ UNCHANGED <<cur, status, ready, ticks, intr, idle>>
      /\ UNCHANGED ioqVars /\ UNCHANGED left /\ UNCHANGED got
  BY DEF Woken, At, InCaller, Running
<1>2. /\ r \in Thread \ {Idle} /\ status[r] = "RUNNING" /\ consumer # r
      /\ IoqLock \in Lock /\ SyncTypeOK
      /\ Holds(r) /\ repeat[IoqLock] = 1 /\ left[r] # 0
      /\ OneReader => ~Empty
  BY <1>1, ReaderRuns DEF IInv, PcOf, ReadOf
<1>3. /\ SyncInv' /\ UNCHANGED holder /\ Enter(r, IoqLock, "drop")
  BY <1>1, <1>2, ReleaseKeeps DEF IInv, Holds
<1>4. UNCHANGED <<head, tail, buf, consumer>>
  BY <1>1 DEF ioqVars
<1>5. op'[r] = "drop" /\ \A u \in Thread \ {r} : op'[u] = op[u]
  BY <1>2, <1>3 DEF Enter, SyncTypeOK
<1>6. /\ FieldTypes' /\ pc'[r] = "take"
      /\ \A u \in Reader \ {r} : pc'[u] = pc[u] /\ left'[u] = left[u] /\ Calm(u)
  BY <1>1, <1>4 DEF IInv, FieldTypes, Goto_, Calm, Undisturbed
<1>7. OneReader' <=> OneReader
  BY <1>1 DEF OneReader
<1>8. PcOf(r)' /\ ReadOf(r)'
  BY <1>1, <1>2, <1>4, <1>5, <1>6, <1>7 DEF PcOf, ReadOf, Empty
<1> QED BY <1>1, <1>2, <1>3, <1>4, <1>5, <1>6, <1>8, ReaderIInv DEF Holds

\* The character is taken; sys_read goes on or returns.
LEMMA TakeIInv ==
  ASSUME IInv, NEW r \in Reader, Take(r)
  PROVE  Keeps
<1> USE SyncAssumption, IoQueueAssumption
<1>1. /\ cur = r /\ op[r] = "none" /\ pc[r] = "take"
      /\ got' = [got EXCEPT ![r] = buf[tail]]
      /\ tail' = next_pos(tail)
      /\ left' = [left EXCEPT ![r] = @ - 1]
      /\ UNCHANGED cpuVars /\ UNCHANGED syncVars /\ UNCHANGED <<idle, head, buf, consumer>>
  BY DEF Take, At, InCaller, Running
<1>2. /\ r \in Thread \ {Idle} /\ status[r] = "RUNNING" /\ consumer # r
      /\ ~Holds(r) /\ left[r] # 0
  BY <1>1, ReaderRuns DEF IInv, PcOf, ReadOf
<1>3. SyncInv' /\ UNCHANGED <<op, holder, repeat>> /\ UNCHANGED status
  BY <1>1, RestKeeps DEF IInv, syncVars, cpuVars
<1>4. left[r] - 1 \in 0..MaxCount
  BY <1>2 DEF IInv, FieldTypes
<1>5. \/ left[r] > 1 /\ Goto_(r, "get") /\ UNCHANGED intr
      \/ Goto_(r, "user") /\ intr' = [intr EXCEPT ![r] = TRUE]
  BY DEF Take
<1>6. /\ pc' \in [Reader -> {"user", "get", "wait", "woken", "take"}]
      /\ pc'[r] \in {"user", "get"} /\ (pc'[r] # "user" => left[r] > 1)
      /\ \A u \in Reader \ {r} : pc'[u] = pc[u]
      /\ intr' \in [Thread -> BOOLEAN]
  <2>1. CASE left[r] > 1 /\ Goto_(r, "get") /\ UNCHANGED intr
    BY <2>1 DEF IInv, FieldTypes, Goto_
  <2>2. CASE Goto_(r, "user") /\ intr' = [intr EXCEPT ![r] = TRUE]
    BY <2>2 DEF IInv, FieldTypes, Goto_
  <2> QED BY <1>5, <2>1, <2>2
<1>7. /\ tail' \in 0..bufsize - 1 /\ got' \in [Reader -> Key \cup {NoKey}]
      /\ left' \in [Reader -> 0..MaxCount] /\ left'[r] = left[r] - 1
      /\ \A u \in Reader \ {r} : left'[u] = left[u] /\ Calm(u)
  BY <1>1, <1>3, <1>4, NextPos DEF IInv, FieldTypes, Calm, Undisturbed
<1>8. FieldTypes'
  BY <1>1, <1>6, <1>7 DEF IInv, FieldTypes
<1>9. PcOf(r)'
  BY <1>1, <1>2, <1>3, <1>6 DEF PcOf, Holds
<1>10. ReadOf(r)'
  <2>1. pc'[r] # "user" => left'[r] # 0
    BY <1>4, <1>6, <1>7
  <2> QED BY <1>2, <1>3, <1>6, <2>1 DEF ReadOf
<1> QED BY <1>1, <1>2, <1>3, <1>6, <1>7, <1>8, <1>9, <1>10, ReaderIInv DEF Holds

\* The calls of Sync, made from ioq_getchar
LEMMA SyncStepIInv ==
  ASSUME IInv, NEW r \in Reader, SyncStep(r), UNCHANGED <<ioqVars, readVars>>
  PROVE  Keeps
<1> USE SyncAssumption, IoQueueAssumption
<1>1. cur = r /\ r \in Thread
  BY DEF SyncStep, Down, SetHolder, SetRepeat, ClearHolder, Up, Running
<1>2. /\ r \in Thread \ {Idle} /\ status[r] = "RUNNING" /\ consumer # r /\ r # None
      /\ IoqLock \in Lock /\ IoqLock \in Sema /\ SyncTypeOK /\ on[r] = IoqLock
  BY <1>1, ReaderRuns DEF SyncTypeOK
<1>3. UNCHANGED <<head, tail, buf, consumer, pc, left, got>>
  BY DEF ioqVars, readVars
<1>4. SyncInv /\ HolderLags /\ MutualExclusion /\ intr \in [Thread -> BOOLEAN]
  BY DEF IInv, SyncInv, LockInv, FieldTypes
<1>5. PcOf(r) /\ ReadOf(r)
  BY DEF IInv
\* It is enough to look at r's call and at the holder.
<1>6. ASSUME SyncInv', NEW w, op' = [op EXCEPT ![r] = w],
             \A u \in Thread \ {r} : Holds(u)' <=> Holds(u),
             \A u \in Thread \ {r} : Holds(u) => UNCHANGED repeat,
             \A u \in Reader \ {r} : Calm(u),
             status'[r] \in {"RUNNING", "READY", "BLOCKED"},
             status'[r] = "BLOCKED" => w = "sleep",
             PcOf(r)', pc[r] # "woken",
             intr' \in [Thread -> BOOLEAN], idle' \in {"block", "woken", "hlt"}
      PROVE  Keeps
  <2>1. FieldTypes'
    BY <1>3, <1>6 DEF IInv, FieldTypes
  <2>2. op'[r] = w /\ \A u \in Thread \ {r} : op'[u] = op[u]
    BY <1>1, <1>2, <1>6 DEF SyncTypeOK
  <2>3. Calm(r) \/ (status[r] # "NONE" /\ status'[r] # "NONE")
    BY <1>2, <1>6
  <2>4. OneReader' <=> OneReader
    <3>1. \A u \in Reader : status'[u] = "NONE" <=> status[u] = "NONE"
      BY <1>6, <2>3 DEF Calm, Undisturbed, Awake
    <3> QED BY <3>1 DEF OneReader
  <2>5. ReadOf(r)'
    BY <1>3, <1>5, <1>6, <2>4 DEF ReadOf, Empty
  <2> QED BY <1>2, <1>3, <1>6, <2>1, <2>2, <2>5, ReaderIInv
<1>7. CASE Down(r)
  <2>1. /\ op[r] \in {"down", "sleep"} /\ UNCHANGED <<holder, repeat, idle>>
        /\ DownTakes(r) \/ DownSleeps(r)
    BY <1>7 DEF Down
  <2>2. pc[r] = "wait"
    BY <1>5, <2>1 DEF PcOf, IInv, FieldTypes
  <2>3. intr' \in [Thread -> BOOLEAN]
    <3>1. PICK b \in {FALSE, old[r], intr[r]} : intr' = [intr EXCEPT ![r] = b]
      BY <2>1 DEF DownTakes, DownSleeps
    <3>2. b \in BOOLEAN
      BY <1>2, <1>4 DEF SyncTypeOK
    <3> QED BY <1>4, <3>1, <3>2
  <2>4. CASE DownSleeps(r)
    <3>1. /\ SyncInv' /\ op' = [op EXCEPT ![r] = "sleep"] /\ status'[r] = "BLOCKED"
          /\ \A u \in Thread \ {r, Idle} : Undisturbed(u)
      BY <1>1, <1>2, <1>4, <2>1, <2>4, DownSleepsKeeps
    <3>2. op'[r] = "sleep"
      BY <1>2, <3>1 DEF SyncTypeOK
    <3>3. PcOf(r)'
      BY <1>3, <2>2, <3>2 DEF PcOf
    <3> QED BY <1>3, <1>6, <2>1, <2>2, <2>3, <3>1, <3>3 DEF Holds, Calm, IInv, FieldTypes
  <2>5. CASE DownTakes(r)
    <3>1. /\ SyncInv' /\ op' = [op EXCEPT ![r] = "took"] /\ UNCHANGED status
      BY <1>1, <1>2, <1>4, <2>1, <2>5, DownTakesKeeps
    <3>2. op'[r] = "took"
      BY <1>2, <3>1 DEF SyncTypeOK
    <3>3. PcOf(r)'
      BY <1>3, <2>2, <3>2 DEF PcOf
    <3> QED BY <1>2, <1>3, <1>6, <2>1, <2>2, <2>3, <3>1, <3>3
            DEF Holds, Calm, Undisturbed, IInv, FieldTypes
  <2> QED BY <2>1, <2>4, <2>5
<1>8. CASE SetHolder(r)
  <2>1. /\ op[r] = "took" /\ UNCHANGED schedVars
        /\ holder' = [holder EXCEPT ![IoqLock] = r]
        /\ op' = [op EXCEPT ![r] = "mine"] /\ UNCHANGED repeat
    BY <1>2, <1>8 DEF SetHolder, Goto
  <2>2. SyncInv' /\ UNCHANGED status /\ UNCHANGED <<intr, idle>>
    BY <1>2, <1>4, <1>8, <2>1, SetHolderKeeps DEF schedVars
  <2>3. pc[r] = "wait" /\ op'[r] = "mine"
    BY <1>2, <1>5, <2>1 DEF PcOf, IInv, FieldTypes, SyncTypeOK
  <2>4. \A u \in Thread : ~Holds(u)
    <3>1. Owns(r, IoqLock) /\ holder[IoqLock] # r
      BY <1>2, <1>4, <2>1 DEF Owns, HolderLags
    <3> QED BY <1>2, <1>4, <3>1 DEF MutualExclusion, Owns, Holds
  <2>5. \A u \in Thread \ {r} : Holds(u)' <=> Holds(u)
    BY <1>2, <2>1, <2>4 DEF Holds, SyncTypeOK
  <2>6. PcOf(r)'
    BY <1>3, <2>3 DEF PcOf
  <2> QED BY <1>2, <1>6, <2>1, <2>2, <2>3, <2>4, <2>5, <2>6
          DEF Calm, Undisturbed, IInv, FieldTypes
<1>9. CASE SetRepeat(r)
  <2>1. /\ SyncInv' /\ holder[IoqLock] = r
        /\ repeat' = [repeat EXCEPT ![IoqLock] = 1]
        /\ op' = [op EXCEPT ![r] = "none"] /\ UNCHANGED holder
    BY <1>2, <1>4, <1>9, SetRepeatKeeps
  <2>2. op[r] = "mine" /\ UNCHANGED <<status, intr, idle>>
    BY <1>9 DEF SetRepeat
  <2>3. pc[r] = "wait" /\ op'[r] = "none" /\ repeat'[IoqLock] = 1
    BY <1>2, <1>5, <2>1, <2>2 DEF PcOf, IInv, FieldTypes, SyncTypeOK
  <2>4. PcOf(r)'
    BY <1>3, <2>1, <2>3 DEF PcOf, Holds
  <2> QED BY <1>2, <1>6, <2>1, <2>2, <2>3, <2>4 DEF Holds, Calm, Undisturbed, IInv, FieldTypes
<1>10. CASE ClearHolder(r)
  <2>1. /\ op[r] = "drop" /\ UNCHANGED schedVars
        /\ holder' = [holder EXCEPT ![IoqLock] = None]
        /\ op' = [op EXCEPT ![r] = "up"] /\ UNCHANGED repeat
    BY <1>2, <1>10 DEF ClearHolder, Goto
  <2>2. SyncInv' /\ UNCHANGED status /\ UNCHANGED <<intr, idle>>
    BY <1>2, <1>4, <1>10, <2>1, ClearHolderKeeps DEF schedVars
  <2>3. pc[r] = "take" /\ op'[r] = "up" /\ Holds(r)
    BY <1>2, <1>4, <1>5, <2>1 DEF PcOf, IInv, FieldTypes, SyncTypeOK, Holds, HolderLags
  <2>4. \A u \in Thread \ {r} : Holds(u)' <=> Holds(u)
    BY <1>2, <2>1, <2>3 DEF Holds, SyncTypeOK
  <2>5. PcOf(r)'
    BY <1>3, <2>3 DEF PcOf
  <2> QED BY <1>2, <1>6, <2>1, <2>2, <2>3, <2>4, <2>5 DEF Calm, Undisturbed, IInv, FieldTypes
<1>11. CASE Up(r)
  <2>1. /\ SyncInv' /\ op' = [op EXCEPT ![r] = "none"] /\ UNCHANGED <<holder, repeat>>
        /\ \A u \in Thread : status'[u] = status[u] \/ WokenFrom(u, on[r])
    BY <1>2, <1>4, <1>11, UpKeeps
  <2>2. op[r] = "up" /\ UNCHANGED <<intr, idle>>
    BY <1>11 DEF Up
  <2>3. pc[r] = "take" /\ op'[r] = "none" /\ ~Holds(r)
    BY <1>2, <1>4, <1>5, <2>1, <2>2 DEF PcOf, IInv, FieldTypes, SyncTypeOK, Holds, HolderLags
  <2>4. \A u \in Reader : Calm(u)
    BY <2>1 DEF Calm, Undisturbed, WokenFrom, Waits
  <2>5. status'[r] = "RUNNING"
    BY <1>2, <2>1, <2>2 DEF WokenFrom, Waits
  <2>6. PcOf(r)'
    BY <1>3, <2>1, <2>3 DEF PcOf, Holds
  <2> QED BY <1>6, <2>1, <2>2, <2>3, <2>4, <2>5, <2>6 DEF Holds, IInv, FieldTypes
<1> QED BY <1>7, <1>8, <1>9, <1>10, <1>11 DEF SyncStep

\* A key that finds room: the ring is not empty then, and a consumer that sleeps
\* is woken; wakeup's ASSERT and thread_unblock's hold.
LEMMA PutCharIInv ==
  ASSUME IInv, NEW k \in Key, PutChar(k), ~Full
  PROVE  Keeps
<1> USE SyncAssumption, IoQueueAssumption
<1>1. /\ buf' = [buf EXCEPT ![head] = k]
      /\ head' = next_pos(head)
      /\ UNCHANGED tail /\ UNCHANGED intr /\ UNCHANGED syncVars /\ UNCHANGED readVars
      /\ IF consumer # None THEN Wakeup ELSE UNCHANGED <<cpuVars, consumer>>
  BY DEF PutChar
<1>2. UNCHANGED <<pc, left, got>> /\ UNCHANGED <<op, holder, repeat>>
  BY <1>1 DEF readVars, syncVars
<1>3. idle' \in {"block", "woken", "hlt"} /\ consumer' \in Reader \cup {None}
  BY <1>1 DEF PutChar, Interrupt, IInv, FieldTypes, Wakeup
<1>4. FieldTypes'
  BY <1>1, <1>2, <1>3, NextPos DEF IInv, FieldTypes
<1>5. ~Empty'
  BY <1>1 DEF Full, Empty
<1>6. OthersInv'
  BY <1>2 DEF IInv, OthersInv, Holds
<1>7. CASE consumer # None
  <2>1. /\ consumer \in Reader /\ consumer \in Thread \ {Idle}
        /\ pc[consumer] = "woken" /\ status[consumer] = "BLOCKED" /\ op[consumer] = "none"
    BY <1>7 DEF IInv, FieldTypes, ConsumerInv, PcOf
  <2>2. ThreadUnblock(consumer) /\ consumer' = None
    BY <1>1, <1>7 DEF Wakeup
  <2>3. SyncInv' /\ status' = [status EXCEPT ![consumer] = "READY"]
    BY <1>1, <2>1, <2>2, CallerWoken DEF IInv, Blocking
  <2>4. status \in [Thread -> Status]
    BY DEF IInv, SyncInv, CpuInv
  <2>5. status'[consumer] = "READY" /\ \A u \in Thread \ {consumer} : status'[u] = status[u]
    BY <2>1, <2>3, <2>4
  <2>6. \A r \in Reader : PcOf(r)' /\ ReadOf(r)'
    BY <1>2, <1>5, <2>1, <2>5 DEF IInv, PcOf, ReadOf, Holds
  <2>7. ConsumerInv'
    BY <1>2, <2>1, <2>2, <2>5 DEF IInv, ConsumerInv, SleepingConsumerRegistered
  <2>8. OneReader' <=> OneReader
    BY <2>1, <2>5 DEF OneReader
  <2> QED BY <1>4, <1>6, <2>3, <2>6, <2>7, <2>8 DEF IInv, Keeps
<1>8. CASE consumer = None
  <2>1. UNCHANGED cpuVars /\ UNCHANGED consumer
    BY <1>1, <1>8
  <2>2. SyncInv' /\ UNCHANGED status
    BY <1>1, <2>1, RestKeeps DEF IInv, cpuVars
  <2>3. \A r \in Reader : PcOf(r)' /\ ReadOf(r)'
    BY <1>2, <1>5, <2>2 DEF IInv, PcOf, ReadOf, Holds
  <2>4. ConsumerInv'
    BY <1>2, <2>1, <2>2 DEF IInv, ConsumerInv, SleepingConsumerRegistered
  <2>5. OneReader' <=> OneReader
    BY <2>2 DEF OneReader
  <2> QED BY <1>4, <1>6, <2>2, <2>3, <2>4, <2>5 DEF IInv, Keeps
<1> QED BY <1>7, <1>8

\* The steps that take no part in reading: ticks, the idle thread, yields, other
\* scancodes, and keys thrown away.
Quiet == \/ Tick
         \/ IdleStep
         \/ OtherScancode
         \/ \E k \in Key : PutChar(k) /\ Full
         \/ \E t \in Thread \ {Idle} : Yield(t)
         \/ UNCHANGED vars

\* They leave the queue and its readers alone.
LEMMA QuietSteps ==
  ASSUME Quiet
  PROVE  UNCHANGED <<syncVars, ioqVars, readVars>>
  BY DEF Quiet, Tick, IdleStep, OtherScancode, PutChar, Yield, vars

\* They keep the invariant.
LEMMA QuietStepsIInv ==
  ASSUME IInv, Quiet
  PROVE  Keeps
<1>1. UNCHANGED <<syncVars, ioqVars, readVars>>
  BY QuietSteps
<1>2. TimerInterrupt \/ IdleBlock \/ IdleHalt \/ ThreadYield \/ UNCHANGED cpuVars
  BY DEF Quiet, Tick, IdleStep, OtherScancode, PutChar, Yield, vars, schedVars, cpuVars
<1>3. SyncInv'
  BY <1>1, <1>2, RestKeeps DEF IInv
<1>4. \A t \in Reader : Undisturbed(t)
  <2>1. CASE TimerInterrupt \/ IdleBlock \/ ThreadYield
    BY <2>1, TickStatus, IdleBlockStatus, YieldStatus, IoQueueAssumption DEF IInv, SyncInv
  <2>2. CASE IdleHalt \/ UNCHANGED cpuVars
    BY <2>2 DEF IdleHalt, cpuVars, Undisturbed
  <2> QED BY <1>2, <2>1, <2>2
<1>5. intr' \in [Thread -> BOOLEAN] /\ idle' \in {"block", "woken", "hlt"}
  BY DEF IInv, FieldTypes, Quiet, Tick, TimerInterrupt, Interrupt, IdleStep, IdleBlock, IdleHalt,
         OtherScancode, PutChar, Yield, vars, schedVars
<1> QED BY <1>1, <1>3, <1>4, <1>5, QuietIInv

\* Every step keeps the invariant.
LEMMA StepKeeps ==
  ASSUME IInv, [Next]_vars
  PROVE  Keeps
<1>1. ASSUME NEW r \in Reader, SysRead(r) PROVE Keeps
  BY <1>1, SysReadIInv
<1>2. ASSUME NEW r \in Reader, ReadStep(r) PROVE Keeps
  BY <1>2, GetCharIInv, IoqWaitIInv, WokenIInv, TakeIInv, SyncStepIInv DEF ReadStep
<1>3. ASSUME NEW k \in Key, PutChar(k), ~Full PROVE Keeps
  BY <1>3, PutCharIInv
<1>4. CASE Quiet
  BY <1>4, QuietStepsIInv
<1> QED BY <1>1, <1>2, <1>3, <1>4 DEF Next, Quiet

\* The invariant holds in every reachable state.
THEOREM Inductive == Spec => []IInv
<1>1. IInv /\ [Next]_vars => IInv'
  BY StepKeeps DEF Keeps
<1> QED BY <1>1, InitIInv, PTL DEF Spec

\* The fields of the queue and the readers' state keep their types.
THEOREM IoQueueType == Spec => []TypeOK
<1>1. IInv => TypeOK
  BY DEF IInv, FieldTypes, SyncInv, CpuInv, LockInv, SchedTypeOK, TypeOK
<1> QED BY <1>1, Inductive, PTL

\* The ASSERTs of ioq_wait, wakeup, the locks and the scheduler hold.
THEOREM IoQueueNeverPanics == Spec => []NoPanic
<1>1. IInv => NoPanic
  BY DEF IInv, SyncInv, CpuInv, NoPanic
<1> QED BY <1>1, Inductive, PTL

\* The reader that sleeps for a key is the one keyboard_handler will wake.
THEOREM ConsumerRegistered == Spec => []SleepingConsumerRegistered
<1>1. IInv => SleepingConsumerRegistered
  BY DEF IInv, ConsumerInv
<1> QED BY <1>1, Inductive, PTL

-----------------------------------------------------------------------------
(***************************************************************************)
(* Refinement.  With one reader, a key that finds room is the abstract Put *)
(* and the read of buf[tail] the abstract Get.                             *)
(***************************************************************************)
Pos(t, j) == (t + j - 1) % bufsize
RingLen(h, t) == (h + bufsize - t) % bufsize
Ring(b, h, t) == [j \in 1..RingLen(h, t) |-> b[Pos(t, j)]]

pendingBar == [j \in 1..(IF OneReader THEN (head + bufsize - tail) % bufsize ELSE 0) |->
                 buf[(tail + j - 1) % bufsize]]
outBar == [r \in Reader |-> IF OneReader THEN got[r] ELSE NoKey]

\* The remainder of a number below twice the divisor
LEMMA Remainder ==
  ASSUME NEW n \in Nat \ {0}, NEW x \in 0..2 * n - 1
  PROVE  x % n = IF x < n THEN x ELSE x - n
<1>1. CASE x < n
  <2>1. x \in 0..n - 1
    BY <1>1
  <2> QED BY <1>1, <2>1
<1>2. CASE x >= n
  <2>1. x \in n..2 * n - 1
    BY <1>2
  <2> QED BY <1>2, <2>1
<1> QED BY <1>1, <1>2

\* How many keys the ring holds, and where
LEMMA RingShape ==
  ASSUME NEW h \in 0..bufsize - 1, NEW t \in 0..bufsize - 1
  PROVE  /\ RingLen(h, t) = IF h >= t THEN h - t ELSE h + bufsize - t
         /\ \A j \in 1..bufsize : Pos(t, j) = IF t + j - 1 < bufsize THEN t + j - 1
                                                                 ELSE t + j - 1 - bufsize
<1> USE IoQueueAssumption
<1>1. RingLen(h, t) = IF h >= t THEN h - t ELSE h + bufsize - t
  <2> DEFINE x == h + bufsize - t
  <2>1. x \in 0..2 * bufsize - 1 /\ bufsize \in Nat \ {0}
    OBVIOUS
  <2>2. RingLen(h, t) = x % bufsize
    BY DEF RingLen
  <2>3. x = h + bufsize - t
    OBVIOUS
  <2> HIDE DEF x
  <2>4. x % bufsize = IF x < bufsize THEN x ELSE x - bufsize
    BY <2>1, Remainder
  <2> QED BY <2>2, <2>3, <2>4
<1>2. ASSUME NEW j \in 1..bufsize
      PROVE  Pos(t, j) = IF t + j - 1 < bufsize THEN t + j - 1 ELSE t + j - 1 - bufsize
  <2> DEFINE x == t + j - 1
  <2>1. x \in 0..2 * bufsize - 1 /\ bufsize \in Nat \ {0}
    OBVIOUS
  <2>2. Pos(t, j) = x % bufsize /\ x = t + j - 1
    BY DEF Pos
  <2> HIDE DEF x
  <2>3. x % bufsize = IF x < bufsize THEN x ELSE x - bufsize
    BY <2>1, Remainder
  <2> QED BY <2>2, <2>3
<1> QED BY <1>1, <1>2

\* The next position, without the remainder
LEMMA NextPosIs ==
  ASSUME NEW p \in 0..bufsize - 1
  PROVE  next_pos(p) = IF p = bufsize - 1 THEN 0 ELSE p + 1
<1> USE IoQueueAssumption
<1> DEFINE x == p + 1
<1>1. x \in 0..2 * bufsize - 1 /\ bufsize \in Nat \ {0}
  OBVIOUS
<1>2. next_pos(p) = x % bufsize /\ x = p + 1
  BY DEF next_pos
<1> HIDE DEF x
<1>3. x % bufsize = IF x < bufsize THEN x ELSE x - bufsize
  BY <1>1, Remainder
<1> QED BY <1>2, <1>3

\* A key put at head is the last of the ring.
LEMMA RingPut ==
  ASSUME NEW V, NEW b \in [0..bufsize - 1 -> V], NEW k \in V,
         NEW h \in 0..bufsize - 1, NEW t \in 0..bufsize - 1, next_pos(h) # t
  PROVE  /\ Len(Ring(b, h, t)) < bufsize - 1
         /\ Ring([b EXCEPT ![h] = k], next_pos(h), t) = Append(Ring(b, h, t), k)
<1> USE IoQueueAssumption
<1> DEFINE n == RingLen(h, t)
           c == [b EXCEPT ![h] = k]
           q == next_pos(h)
           s == Ring(b, h, t)
<1>1. q = (IF h = bufsize - 1 THEN 0 ELSE h + 1) /\ q \in 0..bufsize - 1
  BY NextPosIs
<1>2. n = IF h >= t THEN h - t ELSE h + bufsize - t
  BY RingShape
<1>3. n \in Nat /\ n < bufsize - 1
  BY <1>1, <1>2
<1>4. RingLen(q, t) = n + 1
  BY <1>1, <1>2, RingShape
<1>5. Pos(t, n + 1) = h
  <2>1. n + 1 \in 1..bufsize
    BY <1>3
  <2> QED BY <1>2, <2>1, RingShape
<1>6. \A j \in 1..n : Pos(t, j) \in 0..bufsize - 1 /\ Pos(t, j) # h
  <2> TAKE j \in 1..n
  <2>1. j \in 1..bufsize
    BY <1>3
  <2>2. Pos(t, j) = IF t + j - 1 < bufsize THEN t + j - 1 ELSE t + j - 1 - bufsize
    BY <2>1, RingShape
  <2> HIDE DEF n
  <2> QED BY <1>2, <1>3, <2>2
<1> HIDE DEF n, q
<1>7. s = [j \in 1..n |-> b[Pos(t, j)]] /\ s \in Seq(V) /\ Len(s) = n
  <2>1. s = [j \in 1..n |-> b[Pos(t, j)]]
    BY DEF Ring, n
  <2>2. s \in [1..n -> V]
    BY <1>6, <2>1
  <2> QED BY <1>3, <2>1, <2>2
<1>8. Ring(c, q, t) = [j \in 1..n + 1 |-> c[Pos(t, j)]]
  BY <1>4 DEF Ring
<1>9. \A j \in 1..n + 1 : c[Pos(t, j)] = IF j = n + 1 THEN k ELSE s[j]
  BY <1>3, <1>5, <1>6, <1>7
<1> HIDE DEF s, c
<1>10. /\ Append(s, k) \in Seq(V)
       /\ DOMAIN Append(s, k) = 1..n + 1
       /\ \A j \in 1..n + 1 : Append(s, k)[j] = IF j = n + 1 THEN k ELSE s[j]
  BY <1>3, <1>7
<1>11. Append(s, k) = [j \in 1..n + 1 |-> Append(s, k)[j]]
  BY <1>10
<1>12. Ring(c, q, t) = Append(s, k)
  BY <1>8, <1>9, <1>10, <1>11
<1> QED BY <1>3, <1>7, <1>12 DEF s, c, q

\* The key at tail is the first of the ring, and taking it leaves the others.
LEMMA RingTake ==
  ASSUME NEW V, NEW b \in [0..bufsize - 1 -> V],
         NEW h \in 0..bufsize - 1, NEW t \in 0..bufsize - 1, h # t
  PROVE  /\ Ring(b, h, t) # <<>>
         /\ Head(Ring(b, h, t)) = b[t]
         /\ Ring(b, h, next_pos(t)) = Tail(Ring(b, h, t))
<1> USE IoQueueAssumption
<1> DEFINE n == RingLen(h, t)
           q == next_pos(t)
           s == Ring(b, h, t)
<1>1. q = (IF t = bufsize - 1 THEN 0 ELSE t + 1) /\ q \in 0..bufsize - 1
  BY NextPosIs
<1>2. n = IF h >= t THEN h - t ELSE h + bufsize - t
  BY RingShape
<1>3. n \in Nat /\ n > 0 /\ n <= bufsize - 1
  BY <1>2
<1>4. RingLen(h, q) = n - 1
  <2>1. RingLen(h, q) = IF h >= q THEN h - q ELSE h + bufsize - q
    BY <1>1, RingShape
  <2> HIDE DEF n, q
  <2> QED BY <1>1, <1>2, <2>1
<1>5. /\ Pos(t, 1) = t
      /\ \A j \in 1..n : Pos(t, j) \in 0..bufsize - 1
  <2>1. \A j \in 1..bufsize : Pos(t, j) = IF t + j - 1 < bufsize THEN t + j - 1
                                                               ELSE t + j - 1 - bufsize
    BY RingShape
  <2> HIDE DEF n
  <2>2. 1 \in 1..bufsize /\ \A j \in 1..n : j \in 1..bufsize
    BY <1>3
  <2> QED BY <2>1, <2>2
<1>6. \A j \in 1..n - 1 : Pos(q, j) = Pos(t, j + 1)
  <2> TAKE j \in 1..n - 1
  <2>1. j \in 1..bufsize /\ j + 1 \in 1..bufsize
    BY <1>3
  <2>2. Pos(q, j) = IF q + j - 1 < bufsize THEN q + j - 1 ELSE q + j - 1 - bufsize
    BY <1>1, <2>1, RingShape
  <2>3. Pos(t, j + 1) = IF t + j < bufsize THEN t + j ELSE t + j - bufsize
    <3>1. t + (j + 1) - 1 = t + j
      BY <2>1
    <3> QED BY <2>1, <3>1, RingShape
  <2> QED BY <1>1, <1>3, <2>2, <2>3
<1> HIDE DEF n, q
<1>7. s = [j \in 1..n |-> b[Pos(t, j)]] /\ s \in Seq(V) /\ Len(s) = n
  <2>1. s = [j \in 1..n |-> b[Pos(t, j)]]
    BY DEF Ring, n
  <2>2. s \in [1..n -> V]
    BY <1>5, <2>1
  <2> QED BY <1>3, <2>1, <2>2
<1>8. s # <<>> /\ Head(s) = b[t]
  BY <1>3, <1>5, <1>7
<1>9. Ring(b, h, q) = [j \in 1..n - 1 |-> b[Pos(q, j)]]
  BY <1>4 DEF Ring
<1>10. \A j \in 1..n - 1 : b[Pos(q, j)] = s[j + 1]
  BY <1>3, <1>6, <1>7
<1> HIDE DEF s
<1>11. /\ Tail(s) \in Seq(V)
       /\ DOMAIN Tail(s) = 1..n - 1
       /\ \A j \in 1..n - 1 : Tail(s)[j] = s[j + 1]
  BY <1>3, <1>7, <1>8
<1>12. Tail(s) = [j \in 1..n - 1 |-> Tail(s)[j]]
  BY <1>11
<1>13. Ring(b, h, q) = Tail(s)
  <2> DEFINE d == 1..n - 1
  <2>1. \A j \in d : b[Pos(q, j)] = Tail(s)[j]
    BY <1>10, <1>11
  <2>2. Ring(b, h, q) = [j \in d |-> b[Pos(q, j)]] /\ Tail(s) = [j \in d |-> Tail(s)[j]]
    BY <1>9, <1>12
  <2> HIDE DEF d
  <2> QED BY <2>1, <2>2
<1> QED BY <1>8, <1>13 DEF s, q

\* What stands for the abstract variables
LEMMA BarIs ==
  /\ OneReader => pendingBar = Ring(buf, head, tail)
  /\ ~OneReader => pendingBar = <<>>
  BY DEF pendingBar, Ring, RingLen, Pos

\* The empty ring is the empty queue.
LEMMA InitMap == Init => Keys!Init
<1> SUFFICES ASSUME Init PROVE Keys!Init
  OBVIOUS
<1> USE IoQueueAssumption
<1>1. head = 0 /\ tail = 0 /\ got = [r \in Reader |-> NoKey]
  BY DEF Init
<1>2. RingLen(0, 0) = 0
  BY RingShape
<1>3. pendingBar = <<>>
  <2>1. Ring(buf, head, tail) = <<>>
    BY <1>1, <1>2 DEF Ring
  <2> QED BY <2>1, BarIs
<1>4. outBar = [r \in Reader |-> NoKey]
  BY <1>1 DEF outBar
<1> QED BY <1>3, <1>4 DEF Keys!Init, pendingBar, outBar

\* A step that moves no key is a stutter.
LEMMA StutterMap ==
  ASSUME OneReader' <=> OneReader, UNCHANGED <<head, tail, buf, got>>
  PROVE  UNCHANGED <<pendingBar, outBar>>
  BY DEF pendingBar, outBar

\* Every step is an abstract step or a stutter.
LEMMA StepMap ==
  ASSUME IInv, [Next]_vars
  PROVE  Keys!Next \/ UNCHANGED <<pendingBar, outBar>>
<1> USE IoQueueAssumption
<1> DEFINE V == Key \cup {NoKey}
<1>1. OneReader' <=> OneReader
  BY StepKeeps DEF Keeps
<1>2. /\ head \in 0..bufsize - 1 /\ tail \in 0..bufsize - 1
      /\ buf \in [0..bufsize - 1 -> V] /\ got \in [Reader -> V]
  BY DEF IInv, FieldTypes
<1>3. /\ OneReader => pendingBar = Ring(buf, head, tail)
      /\ ~OneReader => pendingBar = <<>>
      /\ OneReader' => pendingBar' = Ring(buf, head, tail)'
      /\ ~OneReader' => pendingBar' = <<>>
  BY DEF pendingBar, Ring, RingLen, Pos
<1>4. ASSUME NEW k \in Key, PutChar(k), ~Full
      PROVE  Keys!Next \/ UNCHANGED <<pendingBar, outBar>>
  <2>1. /\ buf' = [buf EXCEPT ![head] = k] /\ head' = next_pos(head) /\ tail' = tail
        /\ got' = got /\ next_pos(head) # tail
    BY <1>4 DEF PutChar, readVars, Full
  <2>2. outBar' = outBar
    BY <1>1, <2>1 DEF outBar
  <2>3. CASE OneReader
    <3>1. pendingBar = Ring(buf, head, tail) /\ pendingBar' = Ring(buf, head, tail)'
      BY <1>1, <2>3, <1>3
    <3>2. Ring(buf, head, tail)' = Ring([buf EXCEPT ![head] = k], next_pos(head), tail)
      BY <2>1 DEF Ring, RingLen, Pos
    <3>3. /\ Len(pendingBar) < bufsize - 1
          /\ pendingBar' = Append(pendingBar, k)
      BY <1>2, <2>1, <3>1, <3>2, RingPut
    <3>4. Keys!Put(k)
      BY <2>2, <3>3 DEF Keys!Put, pendingBar, outBar
    <3> QED BY <3>4 DEF Keys!Next
  <2>4. CASE ~OneReader
    <3>1. pendingBar = <<>> /\ pendingBar' = <<>>
      BY <1>1, <2>4, <1>3
    <3> QED BY <2>2, <3>1
  <2> QED BY <2>3, <2>4
<1>5. ASSUME NEW r \in Reader, Take(r)
      PROVE  Keys!Next \/ UNCHANGED <<pendingBar, outBar>>
  <2>1. /\ got' = [got EXCEPT ![r] = buf[tail]] /\ tail' = next_pos(tail)
        /\ head' = head /\ buf' = buf /\ pc[r] = "take"
    BY <1>5 DEF Take, At
  <2>2. CASE OneReader
    <3>1. pendingBar = Ring(buf, head, tail) /\ pendingBar' = Ring(buf, head, tail)'
      BY <1>1, <2>2, <1>3
    <3>2. Ring(buf, head, tail)' = Ring(buf, head, next_pos(tail))
      BY <2>1 DEF Ring, RingLen, Pos
    <3>3. head # tail
      BY <2>1, <2>2 DEF IInv, ReadOf, Empty
    <3>4. /\ pendingBar # <<>> /\ Head(pendingBar) = buf[tail]
          /\ pendingBar' = Tail(pendingBar)
      BY <1>2, <3>1, <3>2, <3>3, RingTake
    <3>5. outBar = got /\ outBar' = got'
      <4>1. got' \in [Reader -> V] /\ got \in [Reader -> V]
        BY <1>2, <2>1
      <4> QED BY <1>1, <2>2, <4>1 DEF outBar
    <3>6. outBar' = [outBar EXCEPT ![r] = Head(pendingBar)]
      BY <2>1, <3>4, <3>5
    <3>7. Keys!Get(r)
      BY <3>4, <3>6 DEF Keys!Get, pendingBar, outBar
    <3> QED BY <3>7 DEF Keys!Next
  <2>3. CASE ~OneReader
    <3>1. pendingBar = <<>> /\ pendingBar' = <<>>
      BY <1>1, <2>3, <1>3
    <3>2. outBar' = outBar
      BY <1>1, <2>3 DEF outBar
    <3> QED BY <3>1, <3>2
  <2> QED BY <2>2, <2>3
<1>6. CASE \/ \E r \in Reader : SysRead(r) \/ GetChar(r) \/ IoqWait(r) \/ Woken(r) \/
                (SyncStep(r) /\ UNCHANGED <<ioqVars, readVars>>)
           \/ Quiet
  <2>1. UNCHANGED <<head, tail, buf, got>>
    <3>1. CASE Quiet
      BY <3>1, QuietSteps DEF ioqVars, readVars
    <3>2. CASE ~Quiet
      BY <1>6, <3>2 DEF SysRead, GetChar, IoqWait, Woken, ioqVars, readVars
    <3> QED BY <3>1, <3>2
  <2> QED BY <1>1, <2>1, StutterMap
<1> QED BY <1>4, <1>5, <1>6 DEF Next, ReadStep, Quiet

\* With one reader every key accepted comes out once and in order, and nothing
\* else comes out, whatever the size of the buffer.
THEOREM QueueDeliversInOrder == Spec => DeliversInOrder
<1>1. IInv /\ [Next]_vars => [Keys!Next]_<<pendingBar, outBar>>
  BY StepMap
<1> QED BY <1>1, InitMap, Inductive, PTL DEF Spec, DeliversInOrder, Keys!Spec, pendingBar, outBar
=============================================================================
