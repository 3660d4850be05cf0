---------------------------- MODULE DiskProofs ----------------------------
(***************************************************************************)
(* The disk.  First the IDE channel, for any number of clients and         *)
(* requests of any size: the kernel panics only in busy_wait, a request    *)
(* moves the data of its own commands, and all of them.  Then the tables   *)
(* of open files, for any processes, files, slots and descriptors, and the *)
(* bytes of one file that such requests read and write, for any geometry.  *)
(***************************************************************************)
EXTENDS Ide, OpenFiles, OneFile, SyncProofs, FiniteSetTheorems

Holds(t) == holder[ChannelLock] = t

\* Where a request is inside the calls of Sync
InAcquire(t) == op[t] \in {"down", "sleep", "took", "mine"} /\ on[t] = ChannelLock
InRelease(t) == op[t] \in {"drop", "up"} /\ on[t] = ChannelLock
InDown(t) == op[t] \in {"down", "sleep"} /\ on[t] = DiskDone
WaitsDisk(t) == pc[t] = (IF kind[t] = "read" THEN "poll" ELSE "next") /\ InDown(t)

\* t has the channel to itself.
Owner(t) == pc[t] \in {"done", "poll", "nap", "data", "next"} \/ (pc[t] = "cmd" /\ op[t] = "none")

PcOf(t) ==
  /\ pc[t] = "out" => op[t] = "none" /\ ~Holds(t)
  /\ pc[t] = "cmd" => op[t] = "none" \/ InAcquire(t)
  /\ Owner(t) => Holds(t) /\ repeat[ChannelLock] = 1
  /\ pc[t] \in {"done", "nap", "data"} => op[t] = "none"
  /\ pc[t] \in {"poll", "next"} => op[t] = "none" \/ WaitsDisk(t)
  /\ pc[t] = "unlock" => /\ op[t] = "none" \/ InRelease(t)
                         /\ op[t] = "none" => ~Holds(t)

OthersInv == \A t \in Thread \ Client : op[t] = "none" /\ ~Holds(t)

\* t has sent a command and still owes disk_done a sema_down.
Pending(t) ==
  IF kind[t] = "read" THEN pc[t] = "done" \/ WaitsDisk(t)
                      ELSE pc[t] \in {"poll", "nap", "data", "done"} \/ WaitsDisk(t)

\* The sema_up of a command is either still to come or not yet taken: this is
\* what the ASSERT of sema_up in the interrupt handler rests on.
DoneInv ==
  /\ (\E t \in Client : Pending(t)) => (expecting_intr <=> value[DiskDone] = 0)
  /\ (\A t \in Client : ~Pending(t)) => ~expecting_intr /\ value[DiskDone] = 0

\* The disk works on the command t has sent.
OwnCommand(t) == /\ dev.by = t /\ dev.kind = kind[t]
                 /\ dev.first = sector_done[t] /\ dev.size = SectorSize(t)

\* t has sent a command whose data are not yet moved.
Commanding(t) == pc[t] \in {"poll", "nap", "data"} \/ (pc[t] = "done" /\ kind[t] = "read")

\* The disk ignores that command: it writes, or has just written, the data of an
\* earlier one.
Ignored == dev.extra /\ dev.kind = "write" /\ dev.state \in {"writing", "ready"}

DevOf(t) ==
  /\ Commanding(t) => \/ OwnCommand(t) /\ dev.state \in {"busy", "drq", "failed"}
                      \/ Ignored
  /\ pc[t] = "data" => OwnCommand(t) /\ dev.state = "drq"

\* A disk that interrupts once per command has not yet interrupted for the one it
\* works on, and what is on the line is expected: no command finds it busy.
NoLateIrq ==
  /\ irq => expecting_intr
  /\ dev.state \in {"busy", "writing"} \/ (dev.state = "drq" /\ dev.kind = "write") =>
       expecting_intr /\ ~irq

DevInv ==
  /\ dev.state \in {"busy", "drq", "failed"} => \E t \in Client : Commanding(t)
  /\ dev.state = "writing" => dev.kind = "write"
  /\ ~dev.extra => NoLateIrq

\* The sectors moved are those counted.
DataOf(t) ==
  /\ pc[t] # "out" => /\ moved[t] = 0..sector_done[t] - 1
                      /\ sector_cnt[t] \in Sizes
                      /\ sector_done[t] <= sector_cnt[t]
  /\ pc[t] = "cmd" \/ Commanding(t) => sector_done[t] < sector_cnt[t]
  /\ pc[t] = "unlock" => sector_done[t] = sector_cnt[t]

FieldTypes ==
  /\ intr \in [Thread -> BOOLEAN]
  /\ idle \in {"block", "woken", "hlt"}
  /\ expecting_intr \in BOOLEAN
  /\ pc \in [Client -> {"out", "cmd", "done", "poll", "nap", "data", "next", "unlock"}]
  /\ kind \in [Client -> {"read", "write"}]
  /\ sector_cnt \in [Client -> Sizes \cup {0}]
  /\ sector_done \in [Client -> Nat]
  /\ \A t \in Client : moved[t] \subseteq 0..sector_cnt[t] - 1
  /\ DOMAIN moved = Client
  /\ nap \in [Client -> 0..NapTicks]
  /\ polls \in [Client -> 0..MaxPolls - 1]
  /\ requests \in [Client -> 0..MaxRequests]
  /\ dev \in Command
  /\ irq \in BOOLEAN

\* After a panic nothing moves but the disk.
CpuPart == IF panicked THEN SchedTypeOK /\ SyncTypeOK /\ PanicCause
                       ELSE SyncInv

IInv == /\ CpuPart
        /\ FieldTypes
        /\ \A t \in Client : PcOf(t) /\ DevOf(t) /\ DataOf(t)
        /\ OthersInv
        /\ DoneInv
        /\ DevInv

\* The request of t, without the count of its requests
Req(t) == <<pc[t], kind[t], sector_cnt[t], sector_done[t], moved[t]>>

\* Only the holder can be in a phase that needs the channel.
LEMMA OneOwner ==
  ASSUME IInv, NEW t \in Client, Holds(t), NEW u \in Client \ {t}
  PROVE  ~Owner(u) /\ ~Pending(u) /\ ~Commanding(u)
<1>1. ~Holds(u)
  BY DEF Holds
<1>2. ~Owner(u)
  BY <1>1 DEF IInv, PcOf
<1> QED BY <1>2 DEF Owner, Pending, WaitsDisk, Commanding

\* A step of one client
LEMMA ClientIInv ==
  ASSUME IInv, NEW t \in Client, SyncInv', FieldTypes',
         \A u \in Client \ {t} : UNCHANGED Req(u),
         \A u \in Thread \ {t} : /\ op'[u] = op[u] /\ on'[u] = on[u]
                                 /\ Holds(u)' <=> Holds(u)
                                 /\ Holds(u) => UNCHANGED repeat,
         PcOf(t)', DevOf(t)', DataOf(t)',
         (UNCHANGED <<dev, expecting_intr>> /\ value'[DiskDone] = value[DiskDone]) \/ Holds(t),
         DevInv' \/ (UNCHANGED <<dev, irq, expecting_intr>> /\ (Commanding(t) => Commanding(t)')),
         ~Pending(t) /\ ~Pending(t)' =>
           UNCHANGED expecting_intr /\ value'[DiskDone] = value[DiskDone],
         Pending(t)' => (expecting_intr' <=> value'[DiskDone] = 0),
         Pending(t) /\ ~Pending(t)' => ~expecting_intr' /\ value'[DiskDone] = 0,
         Pending(t) \/ Pending(t)' => Holds(t)
  PROVE  IInv'
<1> USE SyncAssumption, IdeAssumption
<1>1. OthersInv'
  BY DEF IInv, OthersInv
<1>2. CpuPart'
  BY DEF CpuPart, SyncInv, CpuInv
<1>3. ASSUME NEW u \in Client \ {t}
      PROVE  /\ pc'[u] = pc[u] /\ kind'[u] = kind[u] /\ sector_cnt'[u] = sector_cnt[u]
             /\ sector_done'[u] = sector_done[u] /\ moved'[u] = moved[u]
             /\ op'[u] = op[u] /\ on'[u] = on[u] /\ (Holds(u)' <=> Holds(u))
             /\ Holds(u) => UNCHANGED repeat
  BY DEF Req
<1>4. ASSUME NEW u \in Client \ {t}
      PROVE  /\ Pending(u)' <=> Pending(u)
             /\ Owner(u)' <=> Owner(u)
             /\ Commanding(u)' <=> Commanding(u)
  BY <1>3 DEF Pending, Owner, WaitsDisk, InDown, Commanding
<1>5. ASSUME NEW u \in Client \ {t} PROVE PcOf(u)'
  <2>1. PcOf(u)
    BY DEF IInv
  <2> QED BY <1>3, <1>4, <2>1 DEF PcOf, WaitsDisk, InDown, InAcquire, InRelease
<1>6. ASSUME NEW u \in Client \ {t} PROVE DataOf(u)'
  <2>1. DataOf(u)
    BY DEF IInv
  <2> QED BY <1>3, <1>4, <2>1 DEF DataOf
<1>7. ASSUME NEW u \in Client \ {t} PROVE DevOf(u)'
  <2>1. DevOf(u)
    BY DEF IInv
  <2>2. CASE Holds(t)
    <3>1. ~Owner(u)'
      BY <1>4, <2>2, OneOwner
    <3> QED BY <3>1 DEF DevOf, Owner, Commanding
  <2>3. CASE UNCHANGED dev
    <3>1. SectorSize(u)' = SectorSize(u)
      BY <1>3 DEF SectorSize
    <3> QED BY <1>3, <1>4, <2>1, <2>3, <3>1 DEF DevOf, OwnCommand, Ignored
  <2> QED BY <2>2, <2>3
<1>8. DoneInv'
  <2>1. CASE Pending(t) \/ Pending(t)'
    <3>1. \A u \in Client \ {t} : ~Pending(u) /\ ~Pending(u)'
      BY <1>4, <2>1, OneOwner
    <3>2. CASE Pending(t)'
      BY <3>2 DEF DoneInv
    <3>3. CASE ~Pending(t)'
      BY <2>1, <3>1, <3>3 DEF DoneInv
    <3> QED BY <3>2, <3>3
  <2>2. CASE ~Pending(t) /\ ~Pending(t)'
    BY <1>4, <2>2 DEF IInv, DoneInv
  <2> QED BY <2>1, <2>2
<1>9. DevInv'
  <2>1. CASE UNCHANGED <<dev, irq, expecting_intr>> /\ (Commanding(t) => Commanding(t)')
    <3>1. (\E u \in Client : Commanding(u)) => \E u \in Client : Commanding(u)'
      BY <1>4, <2>1
    <3> QED BY <2>1, <3>1 DEF IInv, DevInv, NoLateIrq
  <2> QED BY <2>1
<1> QED BY <1>1, <1>2, <1>5, <1>6, <1>7, <1>8, <1>9 DEF IInv

-----------------------------------------------------------------------------
\* The channel is free and the disk is ready.
LEMMA InitIInv == Init => IInv
<1> SUFFICES ASSUME Init PROVE IInv
  OBVIOUS
<1> USE SyncAssumption, IdeAssumption
<1>1. First \in Seq(Thread \ {Idle, Main}) /\ NoTwice(First)
  BY DEF NoTwice
<1>2. CpuInv
  BY <1>1, SchedInitCpuInv DEF Init
<1>3. SyncInv
  BY <1>2, SyncInitInv DEF Init
<1>4. /\ op = [t \in Thread |-> "none"] /\ holder = [l \in Lock |-> None]
      /\ value = [s \in Sema |-> IF s \in Lock THEN 1 ELSE 0]
  BY DEF Init, SyncInit
<1>5. intr \in [Thread -> BOOLEAN] /\ idle = "block"
  BY DEF Init, SchedInit
<1>6. FieldTypes
  <2>1. \A t \in Client : moved[t] = {}
    BY DEF Init
  <2>2. dev \in Command
    BY DEF Init, Command
  <2>3. /\ pc = [t \in Client |-> "out"] /\ kind = [t \in Client |-> "read"]
        /\ sector_cnt = [t \in Client |-> 0] /\ sector_done = [t \in Client |-> 0]
        /\ moved = [t \in Client |-> {}] /\ requests = [t \in Client |-> 0]
        /\ nap = [t \in Client |-> 0] /\ polls = [t \in Client |-> 0]
        /\ expecting_intr = FALSE /\ irq = FALSE
    BY DEF Init
  <2>4. /\ requests \in [Client -> 0..MaxRequests]
        /\ nap \in [Client -> 0..NapTicks] /\ polls \in [Client -> 0..MaxPolls - 1]
    BY <2>3
  <2>5. DOMAIN moved = Client /\ \A t \in Client : moved[t] \subseteq 0..sector_cnt[t] - 1
    BY <2>1, <2>3
  <2>6. /\ pc \in [Client -> {"out", "cmd", "done", "poll", "nap", "data", "next", "unlock"}]
        /\ kind \in [Client -> {"read", "write"}]
        /\ sector_cnt \in [Client -> Sizes \cup {0}] /\ sector_done \in [Client -> Nat]
    BY <2>3
  <2> QED BY <1>5, <2>2, <2>3, <2>4, <2>5, <2>6 DEF FieldTypes
<1>7. \A t \in Thread : op[t] = "none" /\ ~Holds(t)
  BY <1>4 DEF Holds
<1>8. \A t \in Client : pc[t] = "out" /\ kind[t] = "read"
  BY DEF Init
<1>9. \A t \in Client : PcOf(t) /\ DevOf(t) /\ DataOf(t) /\ ~Pending(t)
  BY <1>7, <1>8 DEF PcOf, DevOf, DataOf, Pending, Owner, WaitsDisk, Commanding
<1>10. DoneInv
  BY <1>4, <1>9 DEF DoneInv, Init
<1>11. CpuPart
  BY <1>2, <1>3 DEF CpuPart, CpuInv
<1>12. DevInv
  BY DEF Init, DevInv, NoLateIrq
<1> QED BY <1>6, <1>7, <1>9, <1>10, <1>11, <1>12 DEF IInv, OthersInv

\* What every step of a running client starts from
LEMMA ClientRuns ==
  ASSUME IInv, NEW t \in Client, Running(t)
  PROVE  /\ t \in Thread \ {Idle} /\ t # None /\ cur = t
         /\ ChannelLock \in Lock /\ ChannelLock \in Sema /\ DiskDone \in Sema \ Lock
         /\ SyncInv /\ SyncTypeOK /\ FieldTypes
         /\ PcOf(t) /\ DevOf(t) /\ DataOf(t)
         /\ Pending(t) => Owner(t)
<1> USE SyncAssumption, IdeAssumption
<1>1. SyncInv /\ SyncTypeOK
  BY DEF IInv, CpuPart, Running, SyncInv, LockInv
<1>2. Pending(t) => Owner(t)
  BY DEF IInv, FieldTypes, Pending, Owner, WaitsDisk
<1> QED BY <1>1, <1>2 DEF IInv, Running

\* A command is for some of the sectors left.
LEMMA SizeFits ==
  ASSUME NEW t \in Client, sector_cnt[t] \in Nat, sector_done[t] \in Nat,
         sector_done[t] < sector_cnt[t]
  PROVE  /\ SectorSize(t) \in Nat \ {0}
         /\ sector_done[t] + SectorSize(t) <= sector_cnt[t]
  BY IdeAssumption DEF SectorSize

\* While t is the owner and owes nothing, disk_done is down and no interrupt is
\* expected.
LEMMA NonePending ==
  ASSUME IInv, NEW t \in Client, Holds(t), ~Pending(t)
  PROVE  ~expecting_intr /\ value[DiskDone] = 0
<1>1. \A u \in Client : ~Pending(u)
  BY OneOwner
<1> QED BY <1>1 DEF IInv, DoneInv

\* disk_read or disk_write begins.
LEMMA RequestIInv ==
  ASSUME IInv, NEW t \in Client, NEW k \in {"read", "write"}, NEW n \in Sizes,
         Request(t, k, n)
  PROVE  IInv'
<1> USE SyncAssumption, IdeAssumption
<1>1. /\ Running(t) /\ op[t] = "none" /\ pc[t] = "out" /\ requests[t] < MaxRequests
      /\ requests' = [requests EXCEPT ![t] = @ + 1]
      /\ kind' = [kind EXCEPT ![t] = k]
      /\ sector_cnt' = [sector_cnt EXCEPT ![t] = n]
      /\ sector_done' = [sector_done EXCEPT ![t] = 0]
      /\ moved' = [moved EXCEPT ![t] = {}]
      /\ intr' = [intr EXCEPT ![t] = t \in Kernel]
      /\ pc' = [pc EXCEPT ![t] = "cmd"]
      /\ LockAcquire(t, ChannelLock)
      /\ UNCHANGED cpuVars /\ UNCHANGED <<idle, expecting_intr, dev, irq, nap, polls>>
  BY DEF Request, At, InCaller, Jump
<1>2. /\ t \in Thread \ {Idle} /\ ChannelLock \in Lock /\ DiskDone \in Sema
      /\ SyncInv /\ SyncTypeOK /\ FieldTypes /\ ~Holds(t)
  BY <1>1, ClientRuns DEF PcOf
<1>3. SyncInv'
  BY <1>1, <1>2, AcquireKeeps
<1>4. /\ op' = [op EXCEPT ![t] = "down"] /\ on' = [on EXCEPT ![t] = ChannelLock]
      /\ UNCHANGED <<holder, repeat, value>>
  BY <1>1, <1>2 DEF LockAcquire, SemaDown, Enter, Holds
<1>5. /\ op'[t] = "down" /\ on'[t] = ChannelLock
      /\ \A u \in Thread \ {t} : op'[u] = op[u] /\ on'[u] = on[u]
  BY <1>2, <1>4 DEF SyncTypeOK
<1>6. /\ pc'[t] = "cmd" /\ kind'[t] = k /\ sector_cnt'[t] = n /\ sector_done'[t] = 0
      /\ moved'[t] = {}
      /\ \A u \in Client \ {t} : UNCHANGED Req(u)
  BY <1>1, <1>2 DEF FieldTypes, Req
<1>7. FieldTypes'
  <2>1. requests' \in [Client -> 0..MaxRequests]
    BY <1>1, <1>2 DEF FieldTypes
  <2>2. /\ \A u \in Client : moved'[u] \subseteq 0..sector_cnt'[u] - 1
        /\ DOMAIN moved' = Client
    BY <1>1, <1>2, <1>6 DEF FieldTypes, Req
  <2> QED BY <1>1, <1>2, <2>1, <2>2 DEF FieldTypes
<1>8. ~Pending(t) /\ ~Pending(t)'
  BY <1>1, <1>6 DEF Pending, WaitsDisk
<1>9. PcOf(t)'
  BY <1>5, <1>6 DEF PcOf, Owner, InAcquire
<1>10. DevOf(t)' /\ DataOf(t)' /\ ~Commanding(t)
  <2>1. ~Commanding(t) /\ ~Commanding(t)'
    BY <1>1, <1>6 DEF Commanding
  <2>2. DevOf(t)'
    BY <1>6, <2>1 DEF DevOf
  <2>3. DataOf(t)'
    BY <1>6, <2>1 DEF DataOf
  <2> QED BY <2>1, <2>2, <2>3
<1> QED BY <1>1, <1>2, <1>3, <1>4, <1>5, <1>6, <1>7, <1>8, <1>9, <1>10, ClientIInv DEF Holds

\* The command is sent: nobody else has one under way, so disk_done is down, and
\* only a disk with extra interrupts can still be writing.
LEMMA CmdOutIInv ==
  ASSUME IInv, NEW t \in Client, CmdOut(t)
  PROVE  IInv'
<1> USE SyncAssumption, IdeAssumption
<1>1. /\ Running(t) /\ op[t] = "none" /\ pc[t] = "cmd" /\ expecting_intr' = TRUE
      /\ dev' = IF Bsy THEN dev
                ELSE [dev EXCEPT !.state = "busy", !.by = t, !.kind = kind[t],
                                 !.first = sector_done[t], !.size = SectorSize(t)]
      /\ pc' = [pc EXCEPT ![t] = IF kind[t] = "read" THEN "done" ELSE "poll"]
      /\ UNCHANGED schedVars /\ UNCHANGED syncVars
      /\ UNCHANGED <<irq, kind, sector_cnt, sector_done, moved, nap, polls, requests>>
  BY DEF CmdOut, At, InCaller, Jump
<1>2. /\ t \in Thread \ {Idle} /\ DiskDone \in Sema
      /\ SyncInv /\ FieldTypes /\ PcOf(t) /\ DataOf(t)
  BY <1>1, ClientRuns
<1>3. Holds(t) /\ repeat[ChannelLock] = 1 /\ ~Pending(t)
  BY <1>1, <1>2 DEF PcOf, Owner, Pending, WaitsDisk
<1>4. value[DiskDone] = 0 /\ ~expecting_intr
  BY <1>3, NonePending
<1>5. UNCHANGED cpuVars /\ UNCHANGED <<intr, idle>> /\ UNCHANGED <<op, on, holder, repeat, value>>
  BY <1>1 DEF schedVars, cpuVars, syncVars
<1>6. SyncInv'
  BY <1>1, <1>2, <1>5, RestKeeps
<1>7. /\ pc'[t] = (IF kind[t] = "read" THEN "done" ELSE "poll")
      /\ \A u \in Client \ {t} : UNCHANGED Req(u)
  BY <1>1, <1>2 DEF FieldTypes, Req
<1>14. dev.state \in {"ready", "writing"} /\ (dev.state = "writing" => dev.kind = "write")
  <2>1. \A u \in Client : ~Commanding(u)
    BY <1>1, <1>3, OneOwner DEF Commanding
  <2> QED BY <1>2, <2>1 DEF IInv, DevInv, FieldTypes, Command
<1>15. ~dev.extra => dev.state = "ready" /\ ~irq
  BY <1>4, <1>14 DEF IInv, DevInv, NoLateIrq
<1>16. /\ dev.state = "writing" => dev' = dev
       /\ dev.state = "ready" => /\ dev'.state = "busy" /\ dev'.by = t /\ dev'.kind = kind[t]
                                 /\ dev'.first = sector_done[t] /\ dev'.size = SectorSize(t)
       /\ dev'.extra = dev.extra
  BY <1>1, <1>2, <1>14 DEF Bsy, FieldTypes, Command
<1>8. /\ SectorSize(t) \in Nat /\ sector_done[t] < sector_cnt[t]
      /\ SectorSize(t)' = SectorSize(t)
  BY <1>1, <1>2, SizeFits DEF DataOf, FieldTypes, SectorSize
<1>9. FieldTypes'
  <2>1. dev' \in Command
    BY <1>1, <1>2, <1>8 DEF FieldTypes, Command
  <2> QED BY <1>1, <1>2, <1>5, <2>1 DEF FieldTypes
<1>10. PcOf(t)'
  BY <1>1, <1>3, <1>5, <1>7 DEF PcOf, Owner, Holds
<1>17. Commanding(t)' /\ pc'[t] # "data"
  BY <1>1, <1>2, <1>7 DEF Commanding, FieldTypes
<1>11. DevOf(t)' /\ DataOf(t)'
  <2>1. DevOf(t)'
    BY <1>1, <1>8, <1>14, <1>15, <1>16, <1>17 DEF DevOf, OwnCommand, Ignored
  <2>2. DataOf(t)'
    BY <1>1, <1>2, <1>7, <1>8 DEF DataOf
  <2> QED BY <2>1, <2>2
<1>18. DevInv'
  BY <1>1, <1>14, <1>15, <1>16, <1>17 DEF DevInv, NoLateIrq
<1>12. \A u \in Thread : Holds(u)' <=> Holds(u)
  BY <1>5 DEF Holds
<1>13. Pending(t)' /\ (expecting_intr' <=> value'[DiskDone] = 0)
  BY <1>1, <1>2, <1>4, <1>5, <1>7 DEF Pending, FieldTypes
<1> QED BY <1>2, <1>3, <1>5, <1>6, <1>7, <1>9, <1>10, <1>11, <1>12, <1>13, <1>18, ClientIInv

\* The wait for the disk begins.
LEMMA AwaitDiskDoneIInv ==
  ASSUME IInv, NEW t \in Client, AwaitDiskDone(t)
  PROVE  IInv'
<1> USE SyncAssumption, IdeAssumption
<1> DEFINE next == IF kind[t] = "read" THEN "poll" ELSE "next"
<1>1. /\ Running(t) /\ op[t] = "none" /\ pc[t] = "done"
      /\ SemaDown(t, DiskDone)
      /\ pc' = [pc EXCEPT ![t] = next]
      /\ UNCHANGED schedVars
      /\ UNCHANGED <<expecting_intr, dev, irq, kind, sector_cnt, sector_done, moved, nap, polls,
                     requests>>
  BY DEF AwaitDiskDone, At, InCaller, Jump
<1>2. /\ t \in Thread \ {Idle} /\ DiskDone \in Sema \ Lock
      /\ SyncInv /\ SyncTypeOK /\ FieldTypes /\ PcOf(t) /\ DevOf(t) /\ DataOf(t)
  BY <1>1, ClientRuns
<1>3. Holds(t) /\ repeat[ChannelLock] = 1 /\ Pending(t)
  BY <1>1, <1>2 DEF PcOf, Owner, Pending
<1>4. UNCHANGED cpuVars /\ UNCHANGED <<intr, idle>>
  BY <1>1 DEF schedVars, cpuVars
<1>5. SyncInv'
  BY <1>1, <1>2, <1>4, SemaDownKeeps
<1>6. /\ op' = [op EXCEPT ![t] = "down"] /\ on' = [on EXCEPT ![t] = DiskDone]
      /\ UNCHANGED <<holder, repeat, value>>
  BY <1>1 DEF SemaDown, Enter
<1>7. /\ op'[t] = "down" /\ on'[t] = DiskDone
      /\ \A u \in Thread \ {t} : op'[u] = op[u] /\ on'[u] = on[u]
  BY <1>2, <1>6 DEF SyncTypeOK
<1>8. pc'[t] = next /\ \A u \in Client \ {t} : UNCHANGED Req(u)
  BY <1>1, <1>2 DEF FieldTypes, Req
<1>9. FieldTypes'
  BY <1>1, <1>2, <1>4 DEF FieldTypes
<1>10. WaitsDisk(t)' /\ Pending(t)'
  BY <1>1, <1>7, <1>8 DEF WaitsDisk, InDown, Pending
<1>11. PcOf(t)'
  BY <1>3, <1>6, <1>8, <1>10 DEF PcOf, Owner, Holds
<1>12. DevOf(t)' /\ DataOf(t)' /\ (Commanding(t) => Commanding(t)')
  BY <1>1, <1>2, <1>8 DEF DevOf, OwnCommand, SectorSize, DataOf, FieldTypes, Commanding, Ignored
<1>13. expecting_intr' <=> value'[DiskDone] = 0
  BY <1>1, <1>3, <1>6 DEF IInv, DoneInv
<1> QED BY <1>1, <1>2, <1>3, <1>5, <1>6, <1>7, <1>8, <1>9, <1>10, <1>11, <1>12, <1>13,
           ClientIInv DEF Holds

\* A step of the owner in its own code that keeps it the owner: what is left to
\* look at is the disk and disk_done.
LEMMA OwnerStepIInv ==
  ASSUME IInv, NEW t \in Client, Running(t), op[t] = "none", Owner(t),
         SyncInv', FieldTypes', UNCHANGED syncVars, UNCHANGED expecting_intr,
         \A u \in Client \ {t} : UNCHANGED Req(u),
         pc'[t] \in {"cmd", "poll", "nap", "data", "next"} \/ (pc'[t] = "done" /\ Pending(t)),
         DevInv' \/ (UNCHANGED <<dev, irq>> /\ (Commanding(t) => Commanding(t)')),
         DevOf(t)', DataOf(t)', Pending(t)' <=> Pending(t)
  PROVE  IInv'
<1>1. t \in Thread \ {Idle} /\ Holds(t) /\ repeat[ChannelLock] = 1
  BY ClientRuns DEF PcOf
<1>2. UNCHANGED <<op, on, holder, repeat, value>>
  BY DEF syncVars
<1>3. PcOf(t)'
  BY <1>1, <1>2 DEF PcOf, Holds
<1>4. Pending(t) => (expecting_intr' <=> value'[DiskDone] = 0)
  BY <1>2 DEF IInv, DoneInv
<1>5. \A u \in Thread : Holds(u)' <=> Holds(u)
  BY <1>2 DEF Holds
<1> QED BY <1>1, <1>2, <1>3, <1>4, <1>5, ClientIInv

\* A status that lets busy_wait go on, to a nap or to the data
LEMMA PollIInv ==
  ASSUME IInv, NEW t \in Client, Poll(t), dev.state \in {"busy", "writing", "drq"}
  PROVE  IInv'
<1> USE SyncAssumption, IdeAssumption
<1> DEFINE where == IF dev.state = "drq" THEN "data" ELSE "nap"
<1>1. /\ Running(t) /\ op[t] = "none" /\ pc[t] = "poll"
      /\ pc' = [pc EXCEPT ![t] = where]
      /\ nap' = [nap EXCEPT ![t] = NapTicks] \/ UNCHANGED nap
      /\ polls' = [polls EXCEPT ![t] = 0] \/ UNCHANGED polls
      /\ UNCHANGED cpuVars
      /\ UNCHANGED <<intr, idle, expecting_intr, dev, irq, kind, sector_cnt, sector_done,
                     moved, requests>>
      /\ UNCHANGED syncVars
  BY DEF Poll, At, InCaller, Jump, Bsy, cpuVars
<1>2. /\ SyncInv /\ FieldTypes /\ DevOf(t) /\ DataOf(t) /\ Owner(t) /\ Commanding(t)
  BY <1>1, ClientRuns DEF Owner, Commanding
<1>3. UNCHANGED <<op, on>>
  BY <1>1 DEF syncVars
<1>4. SectorSize(t)' = SectorSize(t)
  BY <1>1 DEF SectorSize
<1>5. SyncInv'
  BY <1>1, <1>2, RestKeeps
<1>6. FieldTypes'
  <2>1. NapTicks \in 0..NapTicks /\ 0 \in 0..MaxPolls - 1
    OBVIOUS
  <2>2. nap' \in [Client -> 0..NapTicks]
    <3>1. nap \in [Client -> 0..NapTicks]
      BY <1>2 DEF FieldTypes
    <3> QED BY <1>1, <2>1, <3>1, Zenon
  <2>4. polls' \in [Client -> 0..MaxPolls - 1]
    <3>1. polls \in [Client -> 0..MaxPolls - 1]
      BY <1>2 DEF FieldTypes
    <3> QED BY <1>1, <2>1, <3>1, Zenon
  <2>3. pc' \in [Client -> {"out", "cmd", "done", "poll", "nap", "data", "next", "unlock"}]
    BY <1>1, <1>2 DEF FieldTypes
  <2> QED BY <1>1, <1>2, <2>2, <2>3, <2>4 DEF FieldTypes
<1>7. pc'[t] = where /\ \A u \in Client \ {t} : UNCHANGED Req(u)
  BY <1>1, <1>2 DEF Req, FieldTypes
<1>8. DevOf(t)' /\ DataOf(t)' /\ Commanding(t)'
  BY <1>1, <1>2, <1>4, <1>7 DEF DevOf, OwnCommand, DataOf, Commanding, Ignored
<1>9. Pending(t)' <=> Pending(t)
  BY <1>1, <1>2, <1>3, <1>7 DEF Pending, WaitsDisk, InDown, FieldTypes
<1> QED BY <1>1, <1>2, <1>5, <1>6, <1>7, <1>8, <1>9, OwnerStepIInv

\* mtime_sleep yields.
LEMMA NapIInv ==
  ASSUME IInv, NEW t \in Client, Nap(t)
  PROVE  IInv'
<1> USE SyncAssumption, IdeAssumption
<1>1. /\ Running(t) /\ op[t] = "none" /\ pc[t] = "nap" /\ ThreadYield
      /\ UNCHANGED <<intr, idle>> /\ UNCHANGED syncVars /\ UNCHANGED ideVars
  BY DEF Nap, At, InCaller
<1>2. /\ SyncInv /\ FieldTypes /\ DevOf(t) /\ DataOf(t) /\ Owner(t)
  BY <1>1, ClientRuns DEF Owner
<1>3. /\ UNCHANGED <<op, on>>
      /\ UNCHANGED <<pc, kind, sector_cnt, sector_done, moved, nap, polls, requests>>
      /\ UNCHANGED <<expecting_intr, dev, irq>>
  BY <1>1 DEF syncVars, ideVars, reqVars
<1>4. SyncInv'
  BY <1>1, <1>2, RestKeeps
<1>5. FieldTypes' /\ \A u \in Client : UNCHANGED Req(u)
  BY <1>1, <1>2, <1>3 DEF FieldTypes, Req
<1>6. /\ DevOf(t)' /\ DataOf(t)' /\ (Pending(t)' <=> Pending(t))
      /\ (Commanding(t)' <=> Commanding(t))
  BY <1>2, <1>3 DEF DevOf, OwnCommand, DataOf, Commanding, Ignored, SectorSize, Pending,
                    WaitsDisk, InDown
<1> QED BY <1>1, <1>2, <1>3, <1>4, <1>5, <1>6, OwnerStepIInv

\* The next round of busy_wait
LEMMA NapOverIInv ==
  ASSUME IInv, NEW t \in Client, NapOver(t), polls[t] + 1 < MaxPolls
  PROVE  IInv'
<1> USE SyncAssumption, IdeAssumption
<1>1. /\ Running(t) /\ op[t] = "none" /\ pc[t] = "nap"
      /\ polls' = [polls EXCEPT ![t] = @ + 1] /\ pc' = [pc EXCEPT ![t] = "poll"]
      /\ UNCHANGED cpuVars
      /\ UNCHANGED <<intr, idle, expecting_intr, dev, irq, kind, sector_cnt, sector_done,
                     moved, nap, requests>>
      /\ UNCHANGED syncVars
  BY DEF NapOver, At, InCaller, Jump, cpuVars
<1>2. /\ SyncInv /\ FieldTypes /\ DevOf(t) /\ DataOf(t) /\ Owner(t)
      /\ PcOf(t)
  BY <1>1, ClientRuns DEF Owner
<1>3. UNCHANGED <<op, on>>
  BY <1>1 DEF syncVars
<1>4. SectorSize(t)' = SectorSize(t)
  BY <1>1 DEF SectorSize
<1>5. SyncInv'
  BY <1>1, <1>2, RestKeeps
<1>6. FieldTypes'
  <2>1. polls' \in [Client -> 0..MaxPolls - 1]
    BY <1>1, <1>2 DEF FieldTypes
  <2> QED BY <1>1, <1>2, <2>1 DEF FieldTypes
<1>7. pc'[t] = "poll" /\ \A u \in Client \ {t} : UNCHANGED Req(u)
  BY <1>1, <1>2 DEF Req, FieldTypes
<1>8. DevOf(t)' /\ DataOf(t)' /\ Commanding(t)'
  BY <1>1, <1>2, <1>4, <1>7 DEF DevOf, OwnCommand, DataOf, Commanding, Ignored
<1>9. Pending(t)' <=> Pending(t)
  BY <1>1, <1>2, <1>3, <1>7 DEF Pending, WaitsDisk, InDown, FieldTypes
<1> QED BY <1>1, <1>2, <1>5, <1>6, <1>7, <1>8, <1>9, OwnerStepIInv

\* A PANIC with a cause
LEMMA PanicIInv ==
  ASSUME IInv, NEW t \in Client, Running(t), panicked' = TRUE, PanicCause,
         UNCHANGED <<cur, status, ready, ticks, intr, idle>>, UNCHANGED syncVars,
         UNCHANGED ideVars
  PROVE  IInv'
<1>1. /\ UNCHANGED <<cur, status, ready, ticks, intr, idle>>
      /\ UNCHANGED <<pc, kind, sector_cnt, sector_done, moved, nap, polls, requests>>
      /\ UNCHANGED <<expecting_intr, dev, irq>>
      /\ UNCHANGED <<value, waiters, holder, repeat, op, on, old>>
  BY DEF syncVars, ideVars, reqVars
<1>2. CpuInv /\ SyncTypeOK /\ FieldTypes
  BY ClientRuns DEF SyncInv
<1>3. PanicCause'
  BY <1>1 DEF PanicCause
<1>4. CpuPart'
  BY <1>1, <1>2, <1>3 DEF CpuPart, CpuInv, FieldTypes, SchedTypeOK, SyncTypeOK
<1>5. FieldTypes'
  BY <1>1, <1>2 DEF FieldTypes
<1>6. ASSUME NEW u \in Client
      PROVE  /\ PcOf(u)' /\ DevOf(u)' /\ DataOf(u)' /\ (Pending(u)' <=> Pending(u))
             /\ (Commanding(u)' <=> Commanding(u))
  <2>1. PcOf(u) /\ DevOf(u) /\ DataOf(u)
    BY DEF IInv
  <2>2. /\ PcOf(u)' /\ DataOf(u)' /\ (Pending(u)' <=> Pending(u))
        /\ (Commanding(u)' <=> Commanding(u))
    BY <1>1, <2>1 DEF PcOf, DataOf, Pending, Owner, Holds, WaitsDisk, InDown, InAcquire, InRelease,
                      Commanding
  <2>3. DevOf(u)'
    BY <1>1, <2>1, <2>2 DEF DevOf, OwnCommand, SectorSize, Ignored
  <2> QED BY <2>2, <2>3
<1>7. OthersInv' /\ DoneInv' /\ DevInv'
  BY <1>1, <1>6 DEF IInv, OthersInv, DoneInv, DevInv, NoLateIrq, Holds
<1> QED BY <1>4, <1>5, <1>6, <1>7 DEF IInv

\* busy_wait returns false: at a status without DRQ, the disk failed or has ignored
\* the command.
LEMMA PollPanicsIInv ==
  ASSUME IInv, NEW t \in Client, Poll(t), dev.state \in {"ready", "failed"}
  PROVE  IInv'
<1> USE IdeAssumption
<1>1. /\ Running(t) /\ pc[t] = "poll" /\ panicked' = TRUE
      /\ UNCHANGED <<cur, status, ready, ticks, intr, idle>> /\ UNCHANGED syncVars
      /\ UNCHANGED ideVars
  BY DEF Poll, At, InCaller, Bsy, ideVars, reqVars
<1>2. cur = t /\ DevOf(t) /\ Commanding(t)
  BY <1>1, ClientRuns DEF Commanding
<1>3. PanicCause
  BY <1>1, <1>2 DEF PanicCause, DevOf, Ignored
<1> QED BY <1>1, <1>3, PanicIInv

\* ... and after its last round.
LEMMA NapPanicsIInv ==
  ASSUME IInv, NEW t \in Client, NapOver(t), ~(polls[t] + 1 < MaxPolls)
  PROVE  IInv'
<1> USE IdeAssumption
<1>1. /\ Running(t) /\ pc[t] = "nap" /\ panicked' = TRUE
      /\ UNCHANGED <<cur, status, ready, ticks, intr, idle>> /\ UNCHANGED syncVars
      /\ UNCHANGED ideVars
  BY DEF NapOver, At, InCaller, ideVars, reqVars
<1>2. cur = t /\ FieldTypes
  BY <1>1, ClientRuns
<1>3. PanicCause
  <2>1. polls[t] \in 0..MaxPolls - 1
    BY <1>2 DEF FieldTypes
  <2>2. polls[t] = MaxPolls - 1
    BY <2>1
  <2> QED BY <1>1, <1>2, <2>2 DEF PanicCause
<1> QED BY <1>1, <1>3, PanicIInv

\* The data of the command, and the count of its sectors
LEMMA MoveDataIInv ==
  ASSUME IInv, NEW t \in Client, MoveData(t)
  PROVE  IInv'
<1> USE SyncAssumption, IdeAssumption
<1> DEFINE n == SectorSize(t)
           sd == sector_done[t]
           read == kind[t] = "read"
<1>1. /\ Running(t) /\ op[t] = "none" /\ pc[t] = "data"
      /\ moved' = [moved EXCEPT ![t] = @ \cup (sd..sd + n - 1)]
      /\ dev' = [dev EXCEPT !.state = IF read THEN "ready" ELSE "writing"]
      /\ pc' = [pc EXCEPT ![t] = IF read THEN "next" ELSE "done"]
      /\ sector_done' = [sector_done EXCEPT ![t] = sd + n]
      /\ UNCHANGED schedVars /\ UNCHANGED syncVars
      /\ UNCHANGED <<expecting_intr, irq, kind, sector_cnt, nap, polls, requests>>
  BY DEF MoveData, At, InCaller, Jump
<1>2. /\ SyncInv /\ FieldTypes /\ DataOf(t) /\ DevOf(t) /\ Owner(t) /\ Commanding(t)
  BY <1>1, ClientRuns DEF Owner, Commanding
<1>3. UNCHANGED cpuVars /\ UNCHANGED <<intr, idle>> /\ UNCHANGED <<op, on>>
  BY <1>1 DEF schedVars, cpuVars, syncVars
<1>4. SyncInv'
  BY <1>1, <1>2, <1>3, RestKeeps
<1>5. /\ sd \in Nat /\ sector_cnt[t] \in Nat /\ sd < sector_cnt[t]
      /\ moved[t] = 0..sd - 1 /\ sector_cnt[t] \in Sizes
  BY <1>1, <1>2 DEF FieldTypes, DataOf
<1>6. n \in Nat \ {0} /\ sd + n <= sector_cnt[t]
  BY <1>5, SizeFits
<1>7. /\ pc'[t] = (IF read THEN "next" ELSE "done") /\ sector_done'[t] = sd + n
      /\ moved'[t] = moved[t] \cup (sd..sd + n - 1)
      /\ \A u \in Client \ {t} : UNCHANGED Req(u)
  BY <1>1, <1>2 DEF FieldTypes, Req
<1> HIDE DEF n, sd
<1>8. moved'[t] = 0..(sd + n) - 1
  BY <1>5, <1>6, <1>7
<1>9. FieldTypes'
  <2>1. dev' \in Command
    BY <1>1, <1>2 DEF FieldTypes, Command
  <2>2. DOMAIN moved' = Client /\ \A u \in Client : moved'[u] \subseteq 0..sector_cnt'[u] - 1
    <3>1. moved'[t] \subseteq 0..sector_cnt'[t] - 1
      BY <1>1, <1>5, <1>6, <1>8
    <3> QED BY <1>1, <1>2, <1>7, <3>1 DEF FieldTypes, Req
  <2>3. sector_done' \in [Client -> Nat]
    BY <1>1, <1>2, <1>5, <1>6 DEF FieldTypes
  <2> QED BY <1>1, <1>2, <1>3, <2>1, <2>2, <2>3 DEF FieldTypes
<1>10. DevOf(t)'
  BY <1>1, <1>7 DEF DevOf, Commanding
<1>13. DevInv'
  <2>1. dev.state = "drq" /\ dev.kind = kind[t] /\ dev \in Command
    BY <1>1, <1>2 DEF DevOf, OwnCommand, FieldTypes
  <2>2. /\ dev'.state = (IF read THEN "ready" ELSE "writing") /\ dev'.kind = kind[t]
        /\ dev'.extra = dev.extra
    BY <1>1, <2>1 DEF Command
  <2>3. kind[t] \in {"read", "write"}
    BY <1>2 DEF FieldTypes
  <2> QED BY <1>1, <2>1, <2>2, <2>3 DEF IInv, DevInv, NoLateIrq
<1>11. DataOf(t)'
  BY <1>1, <1>2, <1>5, <1>6, <1>7, <1>8 DEF DataOf, Commanding
<1>12. (Pending(t)' <=> Pending(t)) /\ (~read => Pending(t))
  BY <1>1, <1>2, <1>3, <1>7 DEF Pending, WaitsDisk, InDown, FieldTypes
<1> QED BY <1>1, <1>2, <1>4, <1>7, <1>9, <1>10, <1>11, <1>12, <1>13, OwnerStepIInv

\* The loop goes on.
LEMMA NextCommandIInv ==
  ASSUME IInv, NEW t \in Client, NextCommand(t)
  PROVE  IInv'
<1>1. /\ Running(t) /\ op[t] = "none" /\ pc[t] = "next" /\ sector_done[t] < sector_cnt[t]
      /\ pc' = [pc EXCEPT ![t] = "cmd"]
      /\ UNCHANGED schedVars /\ UNCHANGED syncVars
      /\ UNCHANGED <<expecting_intr, dev, irq, kind, sector_cnt, sector_done, moved, nap, polls,
                     requests>>
  BY DEF NextCommand, At, InCaller, Jump
<1>2. /\ SyncInv /\ FieldTypes /\ DataOf(t) /\ Owner(t)
  BY <1>1, ClientRuns DEF Owner
<1>3. UNCHANGED cpuVars /\ UNCHANGED <<intr, idle>> /\ UNCHANGED <<op, on>>
  BY <1>1 DEF schedVars, cpuVars, syncVars
<1>4. SyncInv'
  BY <1>1, <1>2, <1>3, RestKeeps
<1>5. pc'[t] = "cmd" /\ \A u \in Client \ {t} : UNCHANGED Req(u)
  BY <1>1, <1>2 DEF FieldTypes, Req
<1>6. FieldTypes'
  BY <1>1, <1>2, <1>3 DEF FieldTypes
<1>7. DevOf(t)' /\ DataOf(t)' /\ (Pending(t)' <=> Pending(t)) /\ ~Commanding(t)
  BY <1>1, <1>2, <1>3, <1>5 DEF DevOf, DataOf, Pending, WaitsDisk, InDown, Commanding
<1> QED BY <1>1, <1>2, <1>4, <1>5, <1>6, <1>7, OwnerStepIInv

\* lock_release at the end: the lock was acquired once.
LEMMA FinishIInv ==
  ASSUME IInv, NEW t \in Client, Finish(t)
  PROVE  IInv'
<1> USE SyncAssumption, IdeAssumption
<1>1. /\ Running(t) /\ op[t] = "none" /\ pc[t] = "next" /\ sector_done[t] >= sector_cnt[t]
      /\ LockRelease(t, ChannelLock)
      /\ pc' = [pc EXCEPT ![t] = "unlock"]
      /\ UNCHANGED <<cur, status, ready, ticks>> /\ UNCHANGED <<intr, idle>>
      /\ UNCHANGED <<expecting_intr, dev, irq, kind, sector_cnt, sector_done, moved, nap, polls,
                     requests>>
  BY DEF Finish, At, InCaller, Jump
<1>2. /\ t \in Thread \ {Idle} /\ ChannelLock \in Lock
      /\ SyncInv /\ SyncTypeOK /\ FieldTypes /\ PcOf(t) /\ DataOf(t)
  BY <1>1, ClientRuns
<1>3. Holds(t) /\ repeat[ChannelLock] = 1
  BY <1>1, <1>2 DEF PcOf, Owner
<1>4. SyncInv' /\ UNCHANGED <<value, holder>> /\ Enter(t, ChannelLock, "drop")
  BY <1>1, <1>2, <1>3, ReleaseKeeps DEF Holds
<1>5. /\ op'[t] = "drop" /\ on'[t] = ChannelLock
      /\ \A u \in Thread \ {t} : op'[u] = op[u] /\ on'[u] = on[u]
  BY <1>2, <1>4 DEF Enter, SyncTypeOK
<1>6. pc'[t] = "unlock" /\ \A u \in Client \ {t} : UNCHANGED Req(u)
  BY <1>1, <1>2 DEF FieldTypes, Req
<1>7. FieldTypes'
  BY <1>1, <1>2 DEF FieldTypes
<1>8. ~Pending(t) /\ ~Pending(t)'
  BY <1>1, <1>2, <1>6 DEF Pending, WaitsDisk, InDown, FieldTypes
<1>9. PcOf(t)' /\ DevOf(t)' /\ ~Commanding(t) /\ ~Commanding(t)'
  BY <1>1, <1>5, <1>6 DEF PcOf, DevOf, Owner, InRelease, Commanding
<1>10. DataOf(t)'
  <2>1. /\ sector_cnt[t] \in Nat /\ sector_done[t] \in Nat
        /\ sector_cnt[t] \in Sizes /\ sector_done[t] <= sector_cnt[t]
        /\ moved[t] = 0..sector_done[t] - 1
    BY <1>1, <1>2 DEF DataOf, FieldTypes
  <2>2. sector_done[t] = sector_cnt[t]
    BY <1>1, <2>1
  <2> QED BY <1>1, <1>6, <1>9, <2>1, <2>2 DEF DataOf
<1>11. \A u \in Thread \ {t} : (Holds(u)' <=> Holds(u)) /\ ~Holds(u)
  BY <1>3, <1>4 DEF Holds
<1> QED BY <1>1, <1>2, <1>3, <1>4, <1>5, <1>6, <1>7, <1>8, <1>9, <1>10, <1>11, ClientIInv

\* The request returns.
LEMMA ReturnIInv ==
  ASSUME IInv, NEW t \in Client, Return(t)
  PROVE  IInv'
<1> USE SyncAssumption, IdeAssumption
<1>1. /\ Running(t) /\ op[t] = "none" /\ pc[t] = "unlock"
      /\ pc' = [pc EXCEPT ![t] = "out"]
      /\ intr' = [intr EXCEPT ![t] = TRUE]
      /\ UNCHANGED cpuVars /\ UNCHANGED syncVars
      /\ kind' = [kind EXCEPT ![t] = "read"]
      /\ sector_cnt' = [sector_cnt EXCEPT ![t] = 0]
      /\ sector_done' = [sector_done EXCEPT ![t] = 0]
      /\ moved' = [moved EXCEPT ![t] = {}]
      /\ UNCHANGED <<idle, expecting_intr, dev, irq, nap, polls, requests>>
  BY DEF Return, At, InCaller, Jump
<1>2. t \in Thread \ {Idle} /\ SyncInv /\ FieldTypes /\ PcOf(t)
  BY <1>1, ClientRuns
<1>3. SyncInv' /\ UNCHANGED <<op, on, holder, repeat, value>>
  BY <1>1, <1>2, RestKeeps DEF syncVars
<1>4. pc'[t] = "out" /\ \A u \in Client \ {t} : UNCHANGED Req(u)
  BY <1>1, <1>2 DEF FieldTypes, Req
<1>5. FieldTypes'
  <2>1. /\ \A u \in Client : moved'[u] \subseteq 0..sector_cnt'[u] - 1
        /\ DOMAIN moved' = Client
    BY <1>1, <1>2 DEF FieldTypes
  <2> QED BY <1>1, <1>2, <2>1 DEF FieldTypes
<1>6. ~Pending(t) /\ ~Pending(t)'
  BY <1>1, <1>4 DEF Pending, WaitsDisk
<1>7. PcOf(t)' /\ DevOf(t)' /\ DataOf(t)' /\ ~Commanding(t)
  BY <1>1, <1>2, <1>3, <1>4 DEF PcOf, DevOf, DataOf, Owner, Holds, Commanding
<1>8. \A u \in Thread : Holds(u)' <=> Holds(u)
  BY <1>3 DEF Holds
<1> QED BY <1>1, <1>2, <1>3, <1>4, <1>5, <1>6, <1>7, <1>8, ClientIInv

\* The calls of Sync made from a request
LEMMA SyncStepIInv ==
  ASSUME IInv, NEW t \in Client, SyncStep(t), UNCHANGED ideVars
  PROVE  IInv'
<1> USE SyncAssumption, IdeAssumption
<1>1. Running(t)
  BY DEF SyncStep, Down, SetHolder, SetRepeat, ClearHolder, Up
<1>2. /\ t \in Thread \ {Idle} /\ t # None /\ cur = t
      /\ ChannelLock \in Lock /\ ChannelLock \in Sema /\ DiskDone \in Sema \ Lock
      /\ SyncInv /\ SyncTypeOK /\ FieldTypes /\ PcOf(t) /\ DevOf(t) /\ DataOf(t)
      /\ HolderLags /\ MutualExclusion
  BY <1>1, ClientRuns DEF SyncInv, LockInv
<1>3. /\ UNCHANGED <<pc, kind, sector_cnt, sector_done, moved, nap, polls>>
      /\ UNCHANGED <<expecting_intr, dev, irq, requests>>
  BY DEF ideVars, reqVars
<1>4. \A u \in Client : UNCHANGED Req(u)
  BY <1>3 DEF Req
<1>5. DevOf(t)' /\ DataOf(t)' /\ (Commanding(t)' <=> Commanding(t))
  BY <1>2, <1>3 DEF DevOf, OwnCommand, SectorSize, DataOf, Commanding, Ignored
\* It is enough to look at t's call, at the holder and at disk_done.
<1>6. ASSUME SyncInv', NEW w, op' = [op EXCEPT ![t] = w], UNCHANGED on,
             \A u \in Thread \ {t} : Holds(u)' <=> Holds(u),
             \A u \in Thread \ {t} : Holds(u) => UNCHANGED repeat,
             PcOf(t)',
             \/ value'[DiskDone] = value[DiskDone] /\ (Pending(t)' <=> Pending(t))
             \/ Pending(t) /\ ~Pending(t)' /\ ~expecting_intr' /\ value'[DiskDone] = 0,
             intr' \in [Thread -> BOOLEAN], idle' \in {"block", "woken", "hlt"}
      PROVE  IInv'
  <2>1. FieldTypes'
    BY <1>2, <1>3, <1>6 DEF FieldTypes
  <2>2. \A u \in Thread \ {t} : op'[u] = op[u] /\ on'[u] = on[u]
    BY <1>2, <1>6 DEF SyncTypeOK
  <2>3. Pending(t) => Holds(t)
    BY <1>1, <1>2, ClientRuns DEF PcOf
  <2>4. Pending(t)' => (expecting_intr' <=> value'[DiskDone] = 0)
    BY <1>3, <1>6 DEF IInv, DoneInv
  <2>5. UNCHANGED dev /\ UNCHANGED <<irq, expecting_intr>>
    BY <1>3
  <2>6. value'[DiskDone] = value[DiskDone] \/ Holds(t)
    BY <1>6, <2>3
  <2>7. Pending(t) \/ Pending(t)' => Holds(t)
    BY <1>6, <2>3
  <2> QED BY <1>2, <1>4, <1>5, <1>6, <2>1, <2>2, <2>4, <2>5, <2>6, <2>7, ClientIInv
\* In the calls of lock_acquire and lock_release t owes nothing.
<1>7. on[t] = ChannelLock /\ op[t] # "none" => ~Pending(t) /\ ~WaitsDisk(t)
  BY <1>2 DEF PcOf, Pending, WaitsDisk, InDown, FieldTypes
<1>8. CASE Down(t)
  <2>1. /\ op[t] \in {"down", "sleep"} /\ UNCHANGED <<holder, repeat, idle>>
        /\ DownTakes(t) \/ DownSleeps(t)
    BY <1>8 DEF Down
  <2>2. intr' \in [Thread -> BOOLEAN]
    <3>1. PICK b \in {FALSE, old[t], intr[t]} : intr' = [intr EXCEPT ![t] = b]
      BY <2>1 DEF DownTakes, DownSleeps
    <3>2. b \in BOOLEAN
      BY <1>2 DEF SyncTypeOK, FieldTypes
    <3> QED BY <1>2, <3>1, <3>2 DEF FieldTypes
  <2>3. on[t] = ChannelLock \/ on[t] = DiskDone
    BY <1>2 DEF SyncTypeOK
  <2>4. (pc[t] = "cmd" /\ InAcquire(t)) \/ WaitsDisk(t)
    BY <1>2, <2>1 DEF PcOf, FieldTypes, InRelease
  <2>5. CASE DownSleeps(t)
    <3>1. /\ SyncInv' /\ op' = [op EXCEPT ![t] = "sleep"] /\ UNCHANGED <<on, value>>
      BY <1>2, <2>1, <2>5, DownSleepsKeeps DEF FieldTypes
    <3>2. op'[t] = "sleep" /\ op[t] # "none"
      BY <1>2, <2>1, <3>1 DEF SyncTypeOK
    <3>3. InDown(t)' <=> InDown(t)
      BY <2>1, <3>1, <3>2 DEF InDown
    <3>4. (WaitsDisk(t)' <=> WaitsDisk(t)) /\ (Pending(t)' <=> Pending(t))
      BY <1>3, <3>3 DEF WaitsDisk, Pending
    <3>5. PcOf(t)'
      BY <1>2, <1>3, <2>1, <2>4, <3>1, <3>2, <3>4 DEF PcOf, Owner, Holds, InAcquire, WaitsDisk
    <3> QED BY <1>2, <1>6, <2>1, <2>2, <3>1, <3>4, <3>5 DEF Holds, FieldTypes
  <2>6. CASE DownTakes(t) /\ on[t] = ChannelLock
    <3>1. /\ SyncInv' /\ op' = [op EXCEPT ![t] = "took"] /\ UNCHANGED on
          /\ value' = [value EXCEPT ![ChannelLock] = 0]
      BY <1>2, <2>1, <2>6, DownTakesKeeps
    <3>2. op'[t] = "took" /\ value'[DiskDone] = value[DiskDone] /\ op[t] # "none"
      BY <1>2, <2>1, <3>1 DEF SyncTypeOK
    <3>3. pc[t] = "cmd" /\ InAcquire(t)'
      BY <1>7, <2>4, <2>6, <3>1, <3>2 DEF InAcquire
    <3>4. PcOf(t)' /\ ~Pending(t) /\ ~Pending(t)'
      BY <1>3, <1>7, <2>6, <3>2, <3>3 DEF PcOf, Owner, Pending, WaitsDisk
    <3> QED BY <1>2, <1>6, <2>1, <2>2, <3>1, <3>2, <3>4 DEF Holds, FieldTypes
  <2>7. CASE DownTakes(t) /\ on[t] = DiskDone
    <3>1. /\ SyncInv' /\ op' = [op EXCEPT ![t] = "none"] /\ UNCHANGED on
          /\ value[DiskDone] = 1 /\ value' = [value EXCEPT ![DiskDone] = 0]
      BY <1>2, <2>1, <2>7, DownTakesKeeps
    <3>2. op'[t] = "none" /\ value'[DiskDone] = 0
      BY <1>2, <3>1 DEF SyncTypeOK
    <3>3. WaitsDisk(t) /\ pc[t] \in {"poll", "next"}
      BY <2>4, <2>7 DEF InAcquire, WaitsDisk
    <3>4. Holds(t) /\ repeat[ChannelLock] = 1
      BY <1>2, <3>3 DEF PcOf, Owner
    <3>5. Pending(t) /\ ~Pending(t)'
      BY <1>3, <3>2, <3>3 DEF Pending, WaitsDisk, InDown
    <3>6. ~expecting_intr'
      BY <1>3, <3>1, <3>5 DEF IInv, DoneInv
    <3>7. PcOf(t)'
      BY <1>3, <2>1, <3>2, <3>3, <3>4 DEF PcOf, Owner, Holds
    <3> QED BY <1>2, <1>6, <2>1, <2>2, <3>1, <3>2, <3>5, <3>6, <3>7 DEF Holds, FieldTypes
  <2> QED BY <2>1, <2>3, <2>5, <2>6, <2>7
\* The other calls are about the lock; disk_done does not change.
<1>9. ASSUME op[t] \in {"took", "mine", "drop", "up"}
      PROVE  /\ on[t] = ChannelLock /\ ~Pending(t)
             /\ op[t] \in {"took", "mine"} => pc[t] = "cmd"
             /\ op[t] \in {"drop", "up"} => pc[t] = "unlock"
  BY <1>2, <1>7, <1>9 DEF PcOf, FieldTypes, HolderLags, InAcquire, InRelease, WaitsDisk, InDown
<1>10. pc[t] \in {"cmd", "unlock"} => ~Pending(t)'
  BY <1>3 DEF Pending, WaitsDisk
<1>11. CASE SetHolder(t)
  <2>1. /\ op[t] = "took" /\ on[t] = ChannelLock /\ pc[t] = "cmd" /\ ~Pending(t)
        /\ UNCHANGED schedVars
        /\ holder' = [holder EXCEPT ![ChannelLock] = t]
        /\ op' = [op EXCEPT ![t] = "mine"] /\ UNCHANGED <<on, value, repeat>>
    BY <1>9, <1>11 DEF SetHolder, Goto
  <2>2. SyncInv' /\ UNCHANGED <<intr, idle>>
    BY <1>2, <1>11, <2>1, SetHolderKeeps DEF schedVars
  <2>3. op'[t] = "mine"
    BY <1>2, <2>1 DEF SyncTypeOK
  <2>4. \A u \in Thread : ~Holds(u)
    <3>1. Owns(t, ChannelLock) /\ holder[ChannelLock] # t
      BY <1>2, <2>1 DEF Owns, HolderLags
    <3> QED BY <1>2, <3>1 DEF MutualExclusion, Owns, Holds
  <2>5. \A u \in Thread \ {t} : Holds(u)' <=> Holds(u)
    BY <1>2, <2>1, <2>4 DEF Holds, SyncTypeOK
  <2>6. PcOf(t)'
    BY <1>3, <2>1, <2>3 DEF PcOf, Owner, InAcquire
  <2> QED BY <1>2, <1>6, <1>10, <2>1, <2>2, <2>4, <2>5, <2>6 DEF FieldTypes
<1>12. CASE SetRepeat(t)
  <2>1. op[t] = "mine" /\ UNCHANGED <<intr, idle>>
    BY <1>12 DEF SetRepeat
  <2>2. on[t] = ChannelLock /\ pc[t] = "cmd" /\ ~Pending(t)
    BY <1>9, <2>1
  <2>3. /\ SyncInv' /\ holder[ChannelLock] = t
        /\ repeat' = [repeat EXCEPT ![ChannelLock] = 1]
        /\ op' = [op EXCEPT ![t] = "none"] /\ UNCHANGED <<on, value, holder>>
    BY <1>2, <1>12, <2>2, SetRepeatKeeps
  <2>4. op'[t] = "none" /\ repeat'[ChannelLock] = 1
    BY <1>2, <2>3 DEF SyncTypeOK
  <2>5. \A u \in Thread \ {t} : ~Holds(u) /\ (Holds(u)' <=> Holds(u))
    BY <2>3 DEF Holds
  <2>6. PcOf(t)'
    BY <1>3, <2>2, <2>3, <2>4 DEF PcOf, Owner, Holds
  <2> QED BY <1>2, <1>6, <1>10, <2>1, <2>2, <2>3, <2>5, <2>6 DEF FieldTypes
<1>13. CASE ClearHolder(t)
  <2>1. /\ op[t] = "drop" /\ on[t] = ChannelLock /\ pc[t] = "unlock" /\ ~Pending(t)
        /\ UNCHANGED schedVars
        /\ holder' = [holder EXCEPT ![ChannelLock] = None]
        /\ op' = [op EXCEPT ![t] = "up"] /\ UNCHANGED <<on, value, repeat>>
    BY <1>9, <1>13 DEF ClearHolder, Goto
  <2>2. SyncInv' /\ UNCHANGED <<intr, idle>>
    BY <1>2, <1>13, <2>1, ClearHolderKeeps DEF schedVars
  <2>3. op'[t] = "up" /\ Holds(t)
    BY <1>2, <2>1 DEF SyncTypeOK, HolderLags, Holds
  <2>4. \A u \in Thread \ {t} : Holds(u)' <=> Holds(u)
    BY <1>2, <2>1, <2>3 DEF Holds, SyncTypeOK
  <2>5. PcOf(t)'
    BY <1>3, <2>1, <2>3 DEF PcOf, Owner, InRelease
  <2> QED BY <1>2, <1>6, <1>10, <2>1, <2>2, <2>4, <2>5 DEF FieldTypes
<1>14. CASE Up(t)
  <2>1. op[t] = "up" /\ UNCHANGED <<intr, idle>>
    BY <1>14 DEF Up
  <2>2. on[t] = ChannelLock /\ pc[t] = "unlock" /\ ~Pending(t)
    BY <1>9, <2>1
  <2>3. /\ SyncInv' /\ op' = [op EXCEPT ![t] = "none"] /\ UNCHANGED <<on, holder, repeat>>
    BY <1>2, <1>14, UpKeeps
  <2>4. value'[DiskDone] = value[DiskDone]
    BY <1>2, <1>14, <2>2 DEF Up, SemaUp, SyncTypeOK
  <2>5. op'[t] = "none" /\ ~Holds(t)
    BY <1>2, <2>1, <2>2, <2>3 DEF SyncTypeOK, Holds, HolderLags
  <2>6. PcOf(t)'
    BY <1>3, <2>2, <2>3, <2>5 DEF PcOf, Owner, Holds
  <2> QED BY <1>2, <1>6, <1>10, <2>1, <2>2, <2>3, <2>4, <2>6 DEF Holds, FieldTypes
<1> QED BY <1>8, <1>11, <1>12, <1>13, <1>14 DEF SyncStep

-----------------------------------------------------------------------------
\* A step of nobody's request: the clients see of it what the disk is and
\* whether disk_done is up.
LEMMA SystemIInv ==
  ASSUME IInv, CpuPart', FieldTypes', UNCHANGED <<op, on, holder, repeat>>,
         UNCHANGED <<pc, kind, sector_cnt, sector_done, moved>>,
         DevInv', \A t \in Client : DevOf(t)',
         \/ UNCHANGED expecting_intr /\ value'[DiskDone] = value[DiskDone]
         \/ expecting_intr /\ ~expecting_intr' /\ value'[DiskDone] # 0
  PROVE  IInv'
<1>1. UNCHANGED <<op, on, holder, repeat>>
      /\ UNCHANGED <<pc, kind, sector_cnt, sector_done, moved>>
  OBVIOUS
<1>2. ASSUME NEW t \in Client PROVE PcOf(t)' /\ DataOf(t)' /\ (Pending(t)' <=> Pending(t))
  <2>1. PcOf(t) /\ DataOf(t)
    BY DEF IInv
  <2> QED BY <1>1, <2>1 DEF PcOf, DataOf, Pending, Owner, Holds, WaitsDisk, InDown,
                             InAcquire, InRelease, Commanding
<1>3. OthersInv'
  BY <1>1 DEF IInv, OthersInv, Holds
<1>4. DoneInv'
  BY <1>2 DEF IInv, DoneInv
<1> QED BY <1>2, <1>3, <1>4 DEF IInv

\* intr_hd_handler: an interrupt that is expected finds disk_done down, so the
\* ASSERT of sema_up holds; one that is not changes nothing.
LEMMA DiskInterruptIInv ==
  ASSUME IInv, DiskInterrupt
  PROVE  IInv'
<1> USE SyncAssumption, IdeAssumption
<1>1. /\ ~panicked /\ irq' = FALSE
      /\ UNCHANGED <<intr, holder, repeat, op, on, old>> /\ UNCHANGED reqVars /\ UNCHANGED dev
  BY DEF DiskInterrupt, Interrupt
<1>2. SyncInv /\ FieldTypes /\ SyncTypeOK /\ DiskDone \in Sema \ Lock
  BY <1>1 DEF IInv, CpuPart, SyncInv, LockInv
<1>3. UNCHANGED <<pc, kind, sector_cnt, sector_done, moved, nap, polls, requests>>
  BY <1>1 DEF reqVars
<1>4. \A t \in Client : DevOf(t)'
  BY <1>1, <1>3 DEF IInv, DevOf, OwnCommand, SectorSize, Commanding, Ignored
<1>8. DevInv'
  <2>1. irq
    BY DEF DiskInterrupt
  <2>2. \A t \in Client : Commanding(t)' <=> Commanding(t)
    BY <1>3 DEF Commanding
  <2> QED BY <1>1, <2>1, <2>2 DEF IInv, DevInv, NoLateIrq
<1>5. idle' \in {"block", "woken", "hlt"}
  BY <1>2 DEF DiskInterrupt, Interrupt, FieldTypes
<1>6. CASE expecting_intr
  <2>1. expecting_intr' = FALSE /\ SemaUp(DiskDone)
    BY <1>6 DEF DiskInterrupt
  <2>2. value[DiskDone] = 0
    BY <1>6 DEF IInv, DoneInv
  <2>3. SyncInv' /\ value' = [value EXCEPT ![DiskDone] = 1]
    BY <1>1, <1>2, <2>1, <2>2, HandlerUpKeeps
  <2>4. value'[DiskDone] # 0
    BY <1>2, <2>3 DEF SyncTypeOK
  <2>5. FieldTypes'
    BY <1>1, <1>2, <1>3, <1>5, <2>1 DEF FieldTypes
  <2>6. CpuPart'
    BY <2>3 DEF CpuPart, SyncInv, CpuInv
  <2> QED BY <1>1, <1>3, <1>4, <1>6, <1>8, <2>1, <2>4, <2>5, <2>6, SystemIInv
<1>7. CASE ~expecting_intr
  <2>1. UNCHANGED expecting_intr /\ UNCHANGED cpuVars /\ UNCHANGED <<value, waiters>>
    BY <1>7 DEF DiskInterrupt
  <2>2. UNCHANGED syncVars
    BY <1>1, <2>1 DEF syncVars
  <2>3. SyncInv'
    BY <1>2, <2>1, <2>2, RestKeeps
  <2>4. FieldTypes'
    BY <1>1, <1>2, <1>3, <1>5, <2>1 DEF FieldTypes
  <2>5. CpuPart'
    BY <2>3 DEF CpuPart, SyncInv, CpuInv
  <2> QED BY <1>1, <1>3, <1>4, <1>8, <2>1, <2>4, <2>5, SystemIInv
<1> QED BY <1>6, <1>7

\* The disk's own steps: the command it works on stays the owner's, and a disk that
\* interrupts once per command does so when it is expected.
LEMMA DiskIInv ==
  ASSUME IInv, DiskAnswers \/ DiskExtraIrq
  PROVE  IInv'
<1> USE IdeAssumption
<1>1. dev \in Command /\ irq \in BOOLEAN
  BY DEF IInv, FieldTypes
<1>2. /\ UNCHANGED schedVars /\ UNCHANGED syncVars /\ UNCHANGED expecting_intr
      /\ UNCHANGED reqVars
  BY DEF DiskAnswers, DiskWantsData, DiskFails, DiskWrote, DiskExtraIrq
<1>3. /\ dev' \in Command /\ irq' \in BOOLEAN
      /\ dev'.by = dev.by /\ dev'.kind = dev.kind /\ dev'.first = dev.first
      /\ dev'.size = dev.size /\ dev'.extra = dev.extra
      /\ \/ /\ dev'.state = dev.state /\ dev.extra /\ dev.state \in {"ready", "writing"}
         \/ /\ dev.state = "busy" /\ dev'.state = "drq"
            /\ dev.kind = "read" \/ irq' = irq
         \/ dev.state = "busy" /\ dev'.state = "failed"
         \/ dev.state = "writing" /\ dev'.state = "ready"
  BY <1>1 DEF DiskAnswers, DiskWantsData, DiskFails, DiskWrote, DiskExtraIrq, Command
<1>4. /\ UNCHANGED cpuVars /\ UNCHANGED <<intr, idle, panicked>>
      /\ UNCHANGED <<value, waiters, holder, repeat, op, on, old>>
      /\ UNCHANGED <<pc, kind, sector_cnt, sector_done, moved, nap, polls, requests>>
      /\ UNCHANGED <<cur, status, ready, ticks>>
  BY <1>2 DEF schedVars, cpuVars, syncVars, reqVars
<1>5. CpuPart'
  <2>1. CASE panicked
    <3>1. SchedTypeOK /\ SyncTypeOK /\ PanicCause
      BY <2>1 DEF IInv, CpuPart
    <3>2. PanicCause'
      BY <1>3, <1>4, <3>1 DEF PanicCause
    <3> QED BY <1>4, <2>1, <3>1, <3>2 DEF CpuPart, SchedTypeOK, SyncTypeOK
  <2>2. CASE ~panicked
    <3>1. SyncInv
      BY <2>2 DEF IInv, CpuPart
    <3>2. SyncInv'
      BY <1>2, <1>4, <3>1, RestKeeps
    <3> QED BY <1>4, <2>2, <3>2 DEF CpuPart
  <2> QED BY <2>1, <2>2
<1>6. FieldTypes'
  BY <1>2, <1>3, <1>4 DEF IInv, FieldTypes
<1>7. ASSUME NEW t \in Client PROVE DevOf(t)' /\ (Commanding(t)' <=> Commanding(t))
  <2>1. DevOf(t)
    BY DEF IInv
  <2>2. /\ OwnCommand(t) <=> OwnCommand(t)'
        /\ Commanding(t)' <=> Commanding(t)
    BY <1>3, <1>4 DEF OwnCommand, SectorSize, Commanding
  <2> QED BY <1>3, <1>4, <2>1, <2>2 DEF DevOf, Ignored
<1>8. DevInv'
  <2>2. dev'.state \in {"busy", "drq", "failed"} => \E t \in Client : Commanding(t)'
    BY <1>3, <1>7 DEF IInv, DevInv
  <2>3. dev'.state = "writing" => dev'.kind = "write"
    BY <1>3 DEF IInv, DevInv
  <2>4. ~dev'.extra => NoLateIrq'
    BY <1>2, <1>3 DEF IInv, DevInv, NoLateIrq
  <2> QED BY <2>2, <2>3, <2>4 DEF DevInv
<1> QED BY <1>2, <1>4, <1>5, <1>6, <1>7, <1>8, SystemIInv

\* The steps that are nobody's request and not the disk's
QuietStep == \/ Tick
             \/ IdleStep
             \/ \E t \in Thread \ {Idle} : Yield(t)
             \/ PanicSpin /\ UNCHANGED <<syncVars, ideVars>>
             \/ UNCHANGED vars

LEMMA QuietIInv ==
  ASSUME IInv, QuietStep
  PROVE  IInv'
<1> USE IdeAssumption
<1>1. /\ UNCHANGED <<value, waiters, holder, repeat, op, on, old>> /\ UNCHANGED syncVars
      /\ UNCHANGED <<expecting_intr, dev, irq>>
      /\ UNCHANGED <<pc, kind, sector_cnt, sector_done, moved, polls, requests>>
  BY DEF QuietStep, Tick, IdleStep, Yield, vars, syncVars, ideVars, reqVars
<1>2. intr' \in [Thread -> BOOLEAN] /\ idle' \in {"block", "woken", "hlt"}
  BY DEF IInv, FieldTypes, QuietStep, Tick, TimerInterrupt, Interrupt, IdleStep, IdleBlock, IdleHalt,
         Yield, PanicSpin, vars, schedVars
<1>3. nap' \in [Client -> 0..NapTicks]
  <2>1. nap \in [Client -> 0..NapTicks] /\ NapTicks \in Nat
    BY DEF IInv, FieldTypes
  <2>2. CASE Tick
    BY <2>1, <2>2 DEF Tick
  <2>3. CASE UNCHANGED nap
    BY <2>1, <2>3
  <2> QED BY <2>2, <2>3 DEF QuietStep, IdleStep, Yield, vars, ideVars, reqVars
<1>4. FieldTypes'
  BY <1>1, <1>2, <1>3 DEF IInv, FieldTypes
<1>5. CpuPart'
  <2>1. CASE panicked
    <3>1. UNCHANGED schedVars
      BY <2>1 DEF QuietStep, Tick, TimerInterrupt, Interrupt, IdleStep, IdleBlock, IdleHalt, Running,
                  Yield, InCaller, PanicSpin, vars
    <3>2. UNCHANGED <<cur, status, ready, ticks, intr, idle, panicked>>
      BY <3>1 DEF schedVars
    <3>3. SchedTypeOK /\ SyncTypeOK /\ PanicCause
      BY <2>1 DEF IInv, CpuPart
    <3>4. PanicCause'
      BY <1>1, <3>2, <3>3 DEF PanicCause
    <3> QED BY <1>1, <2>1, <3>2, <3>3, <3>4 DEF CpuPart, SchedTypeOK, SyncTypeOK
  <2>2. CASE ~panicked
    <3>1. SyncInv
      BY <2>2 DEF IInv, CpuPart
    <3>2. TimerInterrupt \/ IdleBlock \/ IdleHalt \/ ThreadYield \/ UNCHANGED cpuVars
      BY DEF QuietStep, Tick, IdleStep, Yield, PanicSpin, vars, schedVars, cpuVars
    <3>3. SyncInv'
      BY <1>1, <3>1, <3>2, RestKeeps
    <3> QED BY <3>3 DEF CpuPart, SyncInv, CpuInv
  <2> QED BY <2>1, <2>2
<1>6. \A t \in Client : DevOf(t)'
  BY <1>1 DEF IInv, DevOf, OwnCommand, SectorSize, Commanding, Ignored
<1>7. DevInv'
  <2>1. \A t \in Client : Commanding(t)' <=> Commanding(t)
    BY <1>1 DEF Commanding
  <2> QED BY <1>1, <2>1 DEF IInv, DevInv, NoLateIrq
<1> QED BY <1>1, <1>4, <1>5, <1>6, <1>7, SystemIInv

\* Every step keeps the invariant.
LEMMA StepIInv ==
  ASSUME IInv, [Next]_vars
  PROVE  IInv'
<1>1. ASSUME NEW t \in Client, NEW k \in {"read", "write"}, NEW n \in Sizes,
             Request(t, k, n)
      PROVE  IInv'
  BY <1>1, RequestIInv
<1>2. ASSUME NEW t \in Client, RequestStep(t) PROVE IInv'
  <2>1. dev.state \in {"busy", "writing", "drq"} \/ dev.state \in {"ready", "failed"}
    BY DEF IInv, FieldTypes, Command
  <2>2. CASE Poll(t)
    BY <2>1, <2>2, PollIInv, PollPanicsIInv
  <2>3. CASE NapOver(t)
    BY <2>3, NapOverIInv, NapPanicsIInv
  <2> QED BY <1>2, <2>2, <2>3, CmdOutIInv, AwaitDiskDoneIInv, NapIInv, MoveDataIInv,
             NextCommandIInv, FinishIInv, ReturnIInv, SyncStepIInv DEF RequestStep
<1>3. CASE DiskInterrupt
  BY <1>3, DiskInterruptIInv
<1>4. CASE DiskAnswers \/ DiskExtraIrq
  BY <1>4, DiskIInv
<1>5. CASE QuietStep
  BY <1>5, QuietIInv
<1> QED BY <1>1, <1>2, <1>3, <1>4, <1>5 DEF Next, QuietStep

\* The invariant holds in every reachable state.
THEOREM Inductive == Spec => []IInv
<1>1. IInv /\ [Next]_vars => IInv'
  BY StepIInv
<1> QED BY <1>1, InitIInv, PTL DEF Spec

\* The fields of the channel and the requests keep their types.
THEOREM IdeType == Spec => []TypeOK
<1>1. IInv => TypeOK
  BY DEF IInv, CpuPart, FieldTypes, SyncInv, CpuInv, LockInv, SchedTypeOK, TypeOK
<1> QED BY <1>1, Inductive, PTL

\* The only way to a panic is busy_wait: intr_hd_handler's sema_up, the lock and
\* the scheduler find what they ASSERT, whenever interrupts come.
THEOREM IdePanicsOnlyInBusyWait == Spec => []PanicOnlyInBusyWait
<1>1. IInv => PanicOnlyInBusyWait
  BY DEF IInv, CpuPart, DoneInv, PanicOnlyInBusyWait
<1> QED BY <1>1, Inductive, PTL

\* A disk that interrupts once per command ignores none: a panic means that it
\* failed or stayed busy for all the rounds of busy_wait.
NoneIgnored ==
  panicked /\ ~dev.extra =>
    dev.state = "failed" \/ (pc[cur] = "nap" /\ polls[cur] = MaxPolls - 1)

THEOREM IdeIgnoresNone == Spec => []NoneIgnored
<1>1. IInv => NoneIgnored
  BY DEF IInv, CpuPart, PanicCause, NoneIgnored
<1> QED BY <1>1, Inductive, PTL

\* The data a request moves are those of the command it sent.
THEOREM IdeDataIsOwn == Spec => []DataIsOwn
<1>1. IInv => DataIsOwn
  BY DEF IInv, DevOf, OwnCommand, DataIsOwn
<1> QED BY <1>1, Inductive, PTL

\* A request that returns has moved all its sectors.
THEOREM IdeMovesWholeRequest == Spec => []MovesWholeRequest
<1>1. IInv => MovesWholeRequest
  BY DEF IInv, DataOf, MovesWholeRequest
<1> QED BY <1>1, Inductive, PTL

-----------------------------------------------------------------------------
(***************************************************************************)
(* The tables of open files.  OpenFiles shares no state with Ide; where a  *)
(* call of it waits for the disk its step ends.                            *)
(***************************************************************************)
\* The slots that name inode x; the files OneInode speaks of
SlotsOf(t, x) == {s \in Slot : t[s] = x}
Uses(x) == SlotsOf(table, x)
Spoken(i) == "fork" \notin ops /\ i \notin Dirs
Unlisted(i) == \A k \in DOMAIN list : core[list[k]].no # i

CallTypes == [op : {"none", "open", "create", "created", "release", "exit"},
              no : Number \cup {0}, slot : Slot \cup {0},
              inode : Object \cup {NoInode}, write : BOOLEAN]
TablesTypes == /\ core \in [Object -> Node \cup {NoInode}]
               /\ list \in Seq(Object) /\ NoTwice(list)
               /\ table \in [Slot -> Object \cup {NoInode}]
               /\ fds \in [Proc -> [Fd -> Slot \cup {-1}]]
               /\ named \subseteq used /\ used \subseteq Number /\ dirs \subseteq Dirs
               /\ alive \subseteq Proc
               /\ r \in [Proc -> CallTypes]

\* A call in the middle
InOpen(c) == /\ c.no \in named /\ c.slot \in Slot /\ table[c.slot] = NoInode
             /\ Unlisted(c.no)
InCreate(c) == /\ c.no \in used /\ c.slot \in Slot /\ c.inode \in Object
               /\ core[c.inode] = [no |-> c.no, cnt |-> 0, deny |-> FALSE]
               /\ ~On(c.inode, list) /\ Uses(c.inode) = {c.slot}
               /\ Spoken(c.no) => Unlisted(c.no)
               /\ "fork" \notin ops => \A q \in Proc, d \in Fd : fds[q][d] # c.slot
InRemove(c) == /\ c.no \in Number \ named
               /\ Spoken(c.no) => Unlisted(c.no)
CallOk(c) == /\ c.op = "open" => InOpen(c)
             /\ c.op \in {"create", "created"} => InCreate(c)
             /\ c.op = "create" => c.no \notin named
             /\ c.op = "release" => InRemove(c)
CallsInv == /\ \A p, q \in Proc : r[p].op # "none" /\ r[q].op # "none" => p = q
            /\ \A p \in Proc : CallOk(r[p])

\* An inode in memory is listed and counts its slots, but for one in the making.
Making(x) == \E p \in Proc : r[p].op \in {"create", "created"} /\ r[p].inode = x
Counted(x) == /\ On(x, list)
              /\ core[x].cnt >= 1 /\ core[x].cnt >= UsesOf(x)
              /\ Spoken(core[x].no) => core[x].cnt = UsesOf(x)
ObjectsInv == \A x \in Object :
                 /\ core[x] = NoInode => Uses(x) = {} /\ ~On(x, list)
                 /\ core[x] # NoInode => Making(x) \/ Counted(x)

TablesInv == /\ TablesTypes /\ CallsInv /\ ObjectsInv /\ OneInode
             /\ "fork" \notin ops => DescriptorsLive

\* A set of naturals has a least element: the intervals 0 .. j are well-founded.
LEMMA LeastOf ==
  ASSUME NEW S, S \subseteq Nat, S # {}
  PROVE  Least(S) \in S /\ \A j \in S : Least(S) =< j
<1> DEFINE R == StrictSubsetOrdering(Nat)
           T == {0 .. j : j \in S}
<1>1. IsWellFoundedOn(R, FiniteSubsetsOf(Nat))
  BY FS_StrictSubsetOrderingWellFounded
<1>2. T \subseteq FiniteSubsetsOf(Nat) /\ T # {}
  <2>1. ASSUME NEW j \in S PROVE 0 .. j \in FiniteSubsetsOf(Nat)
    <3>1. j \in Int /\ 0 \in Int /\ 0 .. j \in SUBSET Nat
      OBVIOUS
    <3>2. IsFiniteSet(0 .. j)
      BY <3>1, FS_Interval
    <3> QED BY <3>1, <3>2 DEF FiniteSubsetsOf
  <2> QED BY <2>1
<1>3. PICK X \in T : \A Y \in T : ~(<<Y, X>> \in R)
  <2> HIDE DEF R, T
  <2> QED BY <1>1, <1>2, WFMin
<1>4. PICK x \in S : X = 0 .. x
  OBVIOUS
<1>5. ASSUME NEW y \in S PROVE x =< y
  <2>1. SUFFICES ASSUME y < x PROVE FALSE
    OBVIOUS
  <2>2. 0 .. y \subseteq 0 .. x /\ 0 .. y # 0 .. x
    <3>1. x \in 0 .. x /\ x \notin 0 .. y
      BY <2>1
    <3> QED BY <2>1, <3>1
  <2>3. 0 .. y \in SUBSET Nat /\ 0 .. x \in SUBSET Nat
    OBVIOUS
  <2>4. <<0 .. y, X>> \in R
    BY <1>4, <2>2, <2>3, Zenon DEF StrictSubsetOrdering
  <2> QED BY <1>3, <2>4
<1> QED BY <1>5 DEF Least

-----------------------------------------------------------------------------
(* Lists and slots *)

\* A new inode goes to the head.
LEMMA ListPush ==
  ASSUME NEW S, NEW q \in Seq(S), NEW x \in S
  PROVE  /\ <<x>> \o q \in Seq(S)
         /\ \A y : On(y, <<x>> \o q) <=> y = x \/ On(y, q)
         /\ NoTwice(q) /\ ~On(x, q) => NoTwice(<<x>> \o q)
<1> DEFINE n == <<x>> \o q
<1>1. /\ n \in Seq(S) /\ Len(n) = Len(q) + 1 /\ Len(q) \in Nat
      /\ DOMAIN n = 1 .. Len(q) + 1 /\ DOMAIN q = 1 .. Len(q)
      /\ \A i \in 1 .. Len(q) + 1 : n[i] = IF i = 1 THEN x ELSE q[i - 1]
  OBVIOUS
<1> HIDE DEF n
<1>2. n[1] = x /\ \A i \in 1 .. Len(q) : n[i + 1] = q[i]
  BY <1>1
<1>3. ASSUME NEW y PROVE On(y, n) <=> y = x \/ On(y, q)
  <2>1. ASSUME On(y, n), y # x PROVE On(y, q)
    <3>1. PICK i \in 1 .. Len(q) + 1 : n[i] = y
      BY <2>1, <1>1 DEF On
    <3>2. i - 1 \in 1 .. Len(q) /\ q[i - 1] = y
      BY <3>1, <2>1, <1>1
    <3> QED BY <3>2, <1>1 DEF On
  <2>2. ASSUME On(y, q) PROVE On(y, n)
    <3>1. PICK i \in 1 .. Len(q) : q[i] = y
      BY <2>2, <1>1 DEF On
    <3>2. i + 1 \in 1 .. Len(q) + 1 /\ n[i + 1] = y
      BY <3>1, <1>1, <1>2
    <3> QED BY <3>2, <1>1 DEF On
  <2>3. On(x, n)
    BY <1>1, <1>2 DEF On
  <2> QED BY <2>1, <2>2, <2>3
<1>4. ASSUME NoTwice(q), ~On(x, q) PROVE NoTwice(n)
  <2>1. SUFFICES ASSUME NEW i \in 1 .. Len(q) + 1, NEW j \in 1 .. Len(q) + 1, n[i] = n[j]
                 PROVE  i = j
    BY <1>1 DEF NoTwice
  <2>2. \A k \in 1 .. Len(q) : q[k] # x
    BY <1>1, <1>4 DEF On
  <2>3. \A k, l \in 1 .. Len(q) : q[k] = q[l] => k = l
    BY <1>1, <1>4 DEF NoTwice
  <2>4. CASE i = 1 \/ j = 1
    <3>1. \A k \in 1 .. Len(q) + 1 : k # 1 => n[k] # x
      <4>1. ASSUME NEW k \in 1 .. Len(q) + 1, k # 1 PROVE n[k] # x
        <5>1. k - 1 \in 1 .. Len(q) /\ n[k] = q[k - 1]
          BY <4>1, <1>1
        <5> QED BY <5>1, <2>2
      <4> QED BY <4>1
    <3> QED BY <2>1, <2>4, <3>1, <1>2
  <2>5. CASE i # 1 /\ j # 1
    <3>1. i - 1 \in 1 .. Len(q) /\ j - 1 \in 1 .. Len(q) /\ q[i - 1] = q[j - 1]
      BY <2>1, <2>5, <1>1
    <3>2. i - 1 = j - 1
      BY <3>1, <2>3
    <3> QED BY <3>2
  <2> QED BY <2>4, <2>5
<1> QED BY <1>1, <1>3, <1>4 DEF n

\* list_remove takes out one element and no other.
LEMMA ListRemove ==
  ASSUME NEW S, NEW q \in Seq(S), NEW x, NoTwice(q), On(x, q)
  PROVE  /\ list_remove(q, x) \in Seq(S)
         /\ \A y : On(y, list_remove(q, x)) <=> y # x /\ On(y, q)
         /\ NoTwice(list_remove(q, x))
<1> DEFINE k == CHOOSE i \in DOMAIN q : q[i] = x
           n == list_remove(q, x)
<1>1. k \in DOMAIN q /\ q[k] = x
  BY DEF On
<1>2. /\ Len(q) \in Nat /\ DOMAIN q = 1 .. Len(q) /\ k \in 1 .. Len(q)
      /\ \A i \in 1 .. Len(q) : q[i] \in S
  BY <1>1
<1>3. n = [i \in 1 .. Len(q) - 1 |-> IF i < k THEN q[i] ELSE q[i + 1]]
  BY DEF list_remove
<1> HIDE DEF k, n
<1>4. n \in [1 .. Len(q) - 1 -> S] /\ Len(q) - 1 \in Nat
  BY <1>2, <1>3
<1>5. n \in Seq(S) /\ DOMAIN n = 1 .. Len(q) - 1
  BY <1>4
<1>6. /\ \A i \in 1 .. Len(q) - 1 : i < k => n[i] = q[i]
      /\ \A i \in 1 .. Len(q) - 1 : k =< i => n[i] = q[i + 1]
  BY <1>2, <1>3
<1>7. \A i, j \in 1 .. Len(q) : q[i] = q[j] => i = j
  BY <1>2 DEF NoTwice
<1>8. ASSUME NEW y PROVE On(y, n) <=> y # x /\ On(y, q)
  <2>1. ASSUME On(y, n) PROVE y # x /\ On(y, q)
    <3>1. PICK i \in 1 .. Len(q) - 1 : n[i] = y
      BY <2>1, <1>5 DEF On
    <3>2. PICK j \in 1 .. Len(q) : j # k /\ q[j] = y
      <4>1. CASE i < k
        BY <4>1, <3>1, <1>2, <1>6
      <4>2. CASE k =< i
        <5>1. i + 1 \in 1 .. Len(q) /\ i + 1 # k /\ q[i + 1] = y
          BY <4>2, <3>1, <1>2, <1>6
        <5> QED BY <5>1
      <4> QED BY <4>1, <4>2, <1>2
    <3> QED BY <3>2, <1>1, <1>2, <1>7 DEF On
  <2>2. ASSUME y # x, On(y, q) PROVE On(y, n)
    <3>1. PICK j \in 1 .. Len(q) : q[j] = y
      BY <2>2, <1>2 DEF On
    <3>2. j # k
      BY <2>2, <3>1, <1>1
    <3>3. CASE j < k
      <4>1. j \in 1 .. Len(q) - 1 /\ n[j] = y
        BY <3>1, <3>3, <1>2, <1>6
      <4> QED BY <4>1, <1>5 DEF On
    <3>4. CASE k < j
      <4>1. j - 1 \in 1 .. Len(q) - 1 /\ k =< j - 1 /\ (j - 1) + 1 = j
        BY <3>1, <3>4, <1>2
      <4>2. n[j - 1] = y
        BY <4>1, <3>1, <1>6
      <4> QED BY <4>1, <4>2, <1>5 DEF On
    <3> QED BY <3>2, <3>3, <3>4, <1>2
  <2> QED BY <2>1, <2>2
<1>9. NoTwice(n)
  <2>1. SUFFICES ASSUME NEW i \in 1 .. Len(q) - 1, NEW j \in 1 .. Len(q) - 1, n[i] = n[j], i < j
                 PROVE  FALSE
    <3>1. ASSUME NEW i \in 1 .. Len(q) - 1, NEW j \in 1 .. Len(q) - 1, n[i] = n[j], i # j
          PROVE  FALSE
      BY <2>1, <3>1, <1>2
    <3> QED BY <3>1, <1>5 DEF NoTwice
  <2>2. CASE j < k
    BY <2>1, <2>2, <1>2, <1>6, <1>7
  <2>3. CASE k =< i
    <3>1. i + 1 \in 1 .. Len(q) /\ j + 1 \in 1 .. Len(q) /\ q[i + 1] = q[j + 1]
      BY <2>1, <2>3, <1>2, <1>6
    <3> QED BY <3>1, <2>1, <1>7
  <2>4. CASE i < k /\ k =< j
    <3>1. i \in 1 .. Len(q) /\ j + 1 \in 1 .. Len(q) /\ q[i] = q[j + 1]
      BY <2>1, <2>4, <1>2, <1>6
    <3> QED BY <3>1, <2>1, <1>7
  <2> QED BY <2>1, <2>2, <2>3, <2>4, <1>2
<1> QED BY <1>5, <1>8, <1>9 DEF n

\* The slots of an inode are finitely many.
LEMMA SlotsAre ==
  ASSUME NEW t, NEW x
  PROVE  IsFiniteSet(SlotsOf(t, x)) /\ Cardinality(SlotsOf(t, x)) \in Nat
<1>1. 0 \in Int /\ Slots - 1 \in Int
  BY OpenFilesAssumption
<1>2. IsFiniteSet(Slot)
  BY <1>1, FS_Interval DEF Slot
<1>3. IsFiniteSet(SlotsOf(t, x))
  BY <1>2, FS_Subset DEF SlotsOf
<1> QED BY <1>3, FS_CardinalityType

\* A free slot is taken for inode x, or becomes free again.
LEMMA SlotTaken ==
  ASSUME NEW t, NEW n, NEW s \in Slot, NEW x \in Object,
         t[s] = NoInode, n[s] = x, \A u \in Slot \ {s} : n[u] = t[u]
  PROVE  Cardinality(SlotsOf(n, x)) = Cardinality(SlotsOf(t, x)) + 1
<1>1. NoInode \notin Object
  BY OpenFilesAssumption
<1>2. SlotsOf(n, x) = SlotsOf(t, x) \cup {s} /\ s \notin SlotsOf(t, x)
  BY <1>1 DEF SlotsOf
<1> QED BY <1>2, SlotsAre, FS_AddElement

LEMMA SlotFreed ==
  ASSUME NEW t, NEW n, NEW s \in Slot, NEW x \in Object,
         t[s] = x, n[s] = NoInode, \A u \in Slot \ {s} : n[u] = t[u]
  PROVE  Cardinality(SlotsOf(n, x)) = Cardinality(SlotsOf(t, x)) - 1
<1>1. NoInode \notin Object
  BY OpenFilesAssumption
<1>2. SlotsOf(n, x) = SlotsOf(t, x) \ {s} /\ s \in SlotsOf(t, x)
  BY <1>1 DEF SlotsOf
<1> QED BY <1>2, SlotsAre, FS_RemoveElement

-----------------------------------------------------------------------------
(* Parts of a step *)

\* The memory of an inode is not the empty value, and a slot is not -1.
LEMMA Shapes ==
  /\ NoInode \notin Object /\ NoInode \notin Node
  /\ Slot \subseteq Nat /\ Fd \subseteq Nat /\ Object \subseteq Nat
  /\ NoCall \in CallTypes /\ NoCall.op = "none"
  /\ \A x : UsesOf(x) = Cardinality(Uses(x)) /\ UsesOf(x) \in Nat
<1>1. \A x : UsesOf(x) = Cardinality(Uses(x))
  BY DEF UsesOf, Uses, SlotsOf
<1>2. \A x : UsesOf(x) \in Nat
  BY <1>1, SlotsAre DEF Uses
<1> QED BY <1>1, <1>2, OpenFilesAssumption DEF Slot, Fd, NoCall, CallTypes

\* What a slot holds changes for at most two inodes.
LEMMA OtherSlots ==
  ASSUME NEW s \in Slot, NEW x \in Object, \A u \in Slot \ {s} : table'[u] = table[u],
         {table[s], table'[s]} = {x, NoInode}
  PROVE  \A y \in Object \ {x} : Uses(y)' = Uses(y)
<1>1. SUFFICES ASSUME NEW y \in Object \ {x}, NEW u \in Slot PROVE table'[u] = y <=> table[u] = y
  BY DEF Uses, SlotsOf
<1>2. NoInode \notin Object
  BY Shapes
<1> QED BY <1>1, <1>2

\* Before a step the call is as CallsInv says, and the others are in none.
LEMMA Before ==
  ASSUME TablesInv, NEW p \in Proc, NEW o, Runs(p, o)
  PROVE  /\ r[p] \in CallTypes /\ r[p].op = o /\ CallOk(r[p])
         /\ \A q \in Proc \ {p} : r[q].op = "none"
         /\ \A x : Making(x) <=> o \in {"create", "created"} /\ r[p].inode = x
         /\ \A x : On(x, list) => x \in Object /\ core[x] \in Node
<1>1. r[p] \in CallTypes /\ r[p].op = o /\ \A q \in Proc \ {p} : r[q].op = "none"
  BY DEF Runs, TablesInv, TablesTypes
<1>2. CallOk(r[p])
  BY DEF TablesInv, CallsInv
<1>3. \A x : Making(x) <=> o \in {"create", "created"} /\ r[p].inode = x
  BY <1>1 DEF Making
<1>4. ASSUME NEW x, On(x, list) PROVE x \in Object /\ core[x] \in Node
  <2>1. PICK k \in DOMAIN list : list[k] = x
    BY <1>4 DEF On
  <2>2. x \in Object
    BY <2>1 DEF TablesInv, TablesTypes
  <2>3. core[x] # NoInode
    BY <2>2, <1>4 DEF TablesInv, ObjectsInv
  <2> QED BY <2>2, <2>3 DEF TablesInv, TablesTypes
<1> QED BY <1>1, <1>2, <1>3, <1>4

\* After it the call is c, which is as CallsInv says.
LEMMA After ==
  ASSUME TablesTypes, NEW p \in Proc, \A q \in Proc \ {p} : r[q].op = "none",
         NEW c \in CallTypes, r' = [r EXCEPT ![p] = c], CallOk(c)'
  PROVE  /\ r' \in [Proc -> CallTypes] /\ CallsInv'
         /\ \A x : Making(x)' <=> c.op \in {"create", "created"} /\ c.inode = x
<1>1. /\ r \in [Proc -> CallTypes] /\ r' \in [Proc -> CallTypes]
      /\ r'[p] = c /\ \A q \in Proc \ {p} : r'[q] = r[q]
  BY DEF TablesTypes
<1>2. \A q \in Proc : CallOk(r[q])'
  <2>1. ASSUME NEW q \in Proc \ {p} PROVE CallOk(r[q])'
    <3>1. r'[q].op = "none"
      BY <1>1
    <3> QED BY <3>1 DEF CallOk
  <2>2. CallOk(r[p])'
    BY <1>1
  <2> QED BY <2>1, <2>2
<1>3. \A q, z \in Proc : r'[q].op # "none" /\ r'[z].op # "none" => q = z
  BY <1>1
<1>4. CallsInv'
  BY <1>2, <1>3 DEF CallsInv
<1> QED BY <1>1, <1>4 DEF Making

\* A descriptor is installed, or there is none.
LEMMA Installed ==
  ASSUME TablesTypes, NEW p \in Proc, NEW s \in Slot, pcb_fd_install(p, s)
  PROVE  fds' = fds \/ \E e \in Fd : fds' = [fds EXCEPT ![p][e] = s]
<1> DEFINE free == {d \in Fd : fds[p][d] = -1}
<1>1. CASE free = {}
  BY <1>1 DEF pcb_fd_install
<1>2. CASE free # {}
  <2>1. Least(free) \in Fd
    <3>1. free \subseteq Nat
      BY Shapes
    <3>2. Least(free) \in free
      BY <1>2, <3>1, LeastOf
    <3> QED BY <3>2
  <2>2. fds' = [fds EXCEPT ![p][Least(free)] = s]
    BY <1>2 DEF pcb_fd_install
  <2> QED BY <2>1, <2>2
<1> QED BY <1>1, <1>2

\* Descriptors keep slots of their own if the new one's was nobody's.
LEMMA DescriptorsStep ==
  ASSUME TablesTypes, NEW p \in Proc, NEW s \in Slot,
         fds' = fds \/ \E e \in Fd : fds' = [fds EXCEPT ![p][e] = s]
  PROVE  /\ fds' \in [Proc -> [Fd -> Slot \cup {-1}]]
         /\ /\ DescriptorsLive /\ table'[s] # NoInode
            /\ \A u \in Slot \ {s} : table'[u] = table[u]
            /\ \A q \in Proc, d \in Fd : fds[q][d] # s
            => DescriptorsLive'
<1>1. fds \in [Proc -> [Fd -> Slot \cup {-1}]]
  BY DEF TablesTypes
<1>2. fds' \in [Proc -> [Fd -> Slot \cup {-1}]]
  BY <1>1
<1>3. ASSUME DescriptorsLive, table'[s] # NoInode, \A u \in Slot \ {s} : table'[u] = table[u],
             \A q \in Proc, d \in Fd : fds[q][d] # s
      PROVE  DescriptorsLive'
  <2> DEFINE Only(e) == \A q \in Proc, d \in Fd :
                \/ q = p /\ d = e /\ fds'[q][d] = s
                \/ ~(q = p /\ d = e) /\ fds'[q][d] = fds[q][d]
  <2>1. PICK e \in Fd \cup {-1} : Only(e)
    <3>1. CASE fds' = fds
      <4>1. -1 \notin Fd
        BY Shapes
      <4> QED BY <3>1, <4>1
    <3>2. ASSUME NEW e \in Fd, fds' = [fds EXCEPT ![p][e] = s] PROVE Only(e)
      BY <3>2, <1>1
    <3> QED BY <3>1, <3>2
  <2>2. SUFFICES ASSUME NEW q \in Proc, NEW z \in Proc, NEW d \in Fd, NEW y \in Fd, fds'[q][d] # -1
                 PROVE  /\ table'[fds'[q][d]] # NoInode
                        /\ fds'[q][d] = fds'[z][y] => <<q, d>> = <<z, y>>
    BY DEF DescriptorsLive
  <2>3. table'[fds'[q][d]] # NoInode
    <3>1. CASE q = p /\ d = e
      BY <3>1, <2>1, <1>3
    <3>2. CASE ~(q = p /\ d = e)
      <4>1. fds'[q][d] = fds[q][d] /\ fds[q][d] # s /\ fds[q][d] \in Slot
        BY <3>2, <2>1, <2>2, <1>1, <1>3
      <4>2. table[fds[q][d]] # NoInode
        BY <4>1, <2>2, <1>3 DEF DescriptorsLive
      <4> QED BY <4>1, <4>2, <1>3
    <3> QED BY <3>1, <3>2
  <2>4. ASSUME fds'[q][d] = fds'[z][y] PROVE <<q, d>> = <<z, y>>
    <3>1. CASE q = p /\ d = e
      BY <3>1, <2>1, <2>4, <1>3
    <3>2. CASE ~(q = p /\ d = e)
      <4>1. fds'[q][d] = fds[q][d] /\ fds[q][d] # s
        BY <3>2, <2>1, <1>3
      <4>2. fds'[z][y] = fds[z][y]
        <5>1. ~(z = p /\ y = e)
          <6>1. SUFFICES ASSUME z = p, y = e PROVE FALSE
            OBVIOUS
          <6>2. fds'[z][y] = s
            BY <2>1, <6>1
          <6> QED BY <6>2, <4>1, <2>4
        <5> QED BY <5>1, <2>1
      <4>3. fds[q][d] # -1 /\ fds[q][d] = fds[z][y]
        BY <4>1, <4>2, <2>2, <2>4
      <4>4. DescriptorsLive
        BY <1>3
      <4> HIDE DEF Only
      <4> QED BY <4>3, <4>4 DEF DescriptorsLive
    <3> QED BY <3>1, <3>2
  <2> QED BY <2>3, <2>4
<1> QED BY <1>2, <1>3

\* A step that leaves the three tables alone
LEMMA TablesStay ==
  ASSUME TablesInv, UNCHANGED <<ops, core, list, table, fds>>,
         named' \subseteq used', used' \subseteq Number, dirs' \subseteq Dirs,
         alive' \subseteq Proc, r' \in [Proc -> CallTypes], CallsInv',
         \A x : Making(x) => Making(x)',
         \A i \in used \ used' : Spoken(i) => Unlisted(i)
  PROVE  TablesInv'
<1>1. TablesTypes'
  BY DEF TablesInv, TablesTypes, NoTwice
<1>2. ObjectsInv'
  <2>1. \A x \in Object : Counted(x) => Counted(x)'
    BY DEF Counted, On, UsesOf, Spoken
  <2>2. \A x : Uses(x)' = Uses(x) /\ (On(x, list)' <=> On(x, list))
    BY DEF Uses, SlotsOf, On
  <2> QED BY <2>1, <2>2 DEF TablesInv, ObjectsInv
<1>3. OneInode'
  <2>1. SUFFICES ASSUME "fork" \notin ops, NEW j \in DOMAIN list, core[list[j]].no \notin Dirs
                 PROVE  /\ core[list[j]].no \in used'
                        /\ \A k \in DOMAIN list : core[list[k]].no = core[list[j]].no => j = k
    BY DEF OneInode
  <2>2. /\ core[list[j]].no \in used
        /\ \A k \in DOMAIN list : core[list[k]].no = core[list[j]].no => j = k
    BY <2>1 DEF TablesInv, OneInode
  <2>3. Spoken(core[list[j]].no) /\ ~Unlisted(core[list[j]].no)
    BY <2>1 DEF Spoken, Unlisted
  <2> QED BY <2>2, <2>3
<1>4. "fork" \notin ops' => DescriptorsLive'
  BY DEF TablesInv, DescriptorsLive
<1> QED BY <1>1, <1>2, <1>3, <1>4 DEF TablesInv

\* A call ends, or one that changes nothing is made.
LEMMA NoCallOk == /\ CallOk(NoCall)' /\ NoCall \in CallTypes
                  /\ NoCall.op = "none"
  BY Shapes DEF CallOk

\* An inode that is found is listed under its number.
LEMMA InCoreIs ==
  ASSUME TablesInv, NEW i, Found(i) # {}
  PROVE  On(InCore(i), list) /\ core[InCore(i)].no = i
<1>1. Found(i) \subseteq Nat
  BY DEF Found, TablesInv, TablesTypes
<1>2. Least(Found(i)) \in Found(i)
  BY <1>1, LeastOf
<1> QED BY <1>2 DEF Found, InCore, On

LEMMA NewObjectIs ==
  ASSUME \E x \in Object : core[x] = NoInode
  PROVE  NewObject \in Object /\ core[NewObject] = NoInode
<1> DEFINE S == {x \in Object : core[x] = NoInode}
<1>1. S \subseteq Nat /\ S # {}
  BY Shapes
<1>2. Least(S) \in S
  BY <1>1, LeastOf
<1> QED BY <1>2 DEF NewObject

LEMMA FreeSlotIs ==
  ASSUME FreeSlots # {}
  PROVE  Least(FreeSlots) \in Slot /\ table[Least(FreeSlots)] = NoInode
<1>1. FreeSlots \subseteq Nat
  BY Shapes DEF FreeSlots
<1>2. Least(FreeSlots) \in FreeSlots
  BY <1>1, LeastOf
<1> QED BY <1>2 DEF FreeSlots

\* The other inodes stay as they were.
LEMMA OthersStay ==
  ASSUME ObjectsInv, UNCHANGED ops, NEW x \in Object,
         \A y \in Object \ {x} : /\ core'[y] = core[y] /\ Uses(y)' = Uses(y)
                                 /\ On(y, list') <=> On(y, list)
                                 /\ Making(y) => Making(y)',
         core'[x] = NoInode => Uses(x)' = {} /\ ~On(x, list'),
         core'[x] # NoInode => Making(x)' \/ Counted(x)'
  PROVE  ObjectsInv'
<1>1. ASSUME NEW y \in Object \ {x}
      PROVE  /\ core'[y] = NoInode => Uses(y)' = {} /\ ~On(y, list')
             /\ core'[y] # NoInode => Making(y)' \/ Counted(y)'
  <2>1. UsesOf(y)' = UsesOf(y)
    <3>1. UsesOf(y) = Cardinality(Uses(y)) /\ UsesOf(y)' = Cardinality(Uses(y)')
      BY DEF Uses, SlotsOf, UsesOf
    <3> QED BY <3>1
  <2>2. Counted(y) => Counted(y)'
    BY <2>1 DEF Counted, Spoken
  <2> QED BY <2>2 DEF ObjectsInv
<1> QED BY <1>1 DEF ObjectsInv

\* No listed inode changes its number, and no number of one is given back.
LEMMA NumbersStay ==
  ASSUME OneInode, UNCHANGED <<ops, list>>,
         \A k \in DOMAIN list : core'[list[k]].no = core[list[k]].no,
         \A i \in used \ used' : Spoken(i) => Unlisted(i)
  PROVE  OneInode'
<1>1. SUFFICES ASSUME "fork" \notin ops, NEW j \in DOMAIN list, core[list[j]].no \notin Dirs
               PROVE  /\ core[list[j]].no \in used'
                      /\ \A k \in DOMAIN list : core[list[k]].no = core[list[j]].no => j = k
  BY DEF OneInode
<1>2. /\ core[list[j]].no \in used
      /\ \A k \in DOMAIN list : core[list[k]].no = core[list[j]].no => j = k
  BY <1>1 DEF OneInode
<1>3. Spoken(core[list[j]].no) /\ ~Unlisted(core[list[j]].no)
  BY <1>1 DEF Spoken, Unlisted
<1> QED BY <1>2, <1>3

\* An inode whose number is not listed goes to the head.
LEMMA NumbersPush ==
  ASSUME OneInode, UNCHANGED <<ops, used>>, list \in Seq(Object), NEW x \in Object,
         list' = <<x>> \o list, \A k \in DOMAIN list : core'[list[k]].no = core[list[k]].no,
         Spoken(core'[x].no) => core'[x].no \in used /\ Unlisted(core'[x].no)
  PROVE  OneInode'
<1> DEFINE N(k) == core'[list'[k]].no
<1>1. /\ Len(list) \in Nat /\ DOMAIN list = 1 .. Len(list) /\ DOMAIN list' = 1 .. Len(list) + 1
      /\ list'[1] = x
      /\ \A k \in 1 .. Len(list) + 1 : k # 1 =>
            k - 1 \in 1 .. Len(list) /\ list'[k] = list[k - 1]
  <2>1. /\ Len(list) \in Nat /\ DOMAIN list = 1 .. Len(list)
        /\ DOMAIN (<<x>> \o list) = 1 .. Len(list) + 1
        /\ \A i \in 1 .. Len(list) + 1 : (<<x>> \o list)[i] = IF i = 1 THEN x ELSE list[i - 1]
    OBVIOUS
  <2> QED BY <2>1
<1>2. \A k \in 1 .. Len(list) + 1 : k # 1 =>
          k - 1 \in DOMAIN list /\ N(k) = core[list[k - 1]].no
  BY <1>1
<1>3. N(1) = core'[x].no
  BY <1>1
<1> HIDE DEF N
<1>4. SUFFICES ASSUME "fork" \notin ops, NEW j \in 1 .. Len(list) + 1, N(j) \notin Dirs
               PROVE  /\ N(j) \in used
                      /\ \A k \in 1 .. Len(list) + 1 : N(k) = N(j) => j = k
  BY <1>1 DEF OneInode, N
<1>5. Spoken(N(j))
  BY <1>4 DEF Spoken
<1>6. CASE j = 1
  BY <1>2, <1>3, <1>5, <1>6 DEF Unlisted
<1>7. CASE j # 1
  <2>1. /\ j - 1 \in DOMAIN list /\ N(j) = core[list[j - 1]].no
    BY <1>2, <1>7
  <2>2. /\ N(j) \in used
        /\ \A k \in DOMAIN list : core[list[k]].no = N(j) => j - 1 = k
    BY <2>1, <1>4 DEF OneInode
  <2>3. N(1) # N(j)
    BY <2>1, <1>3, <1>5 DEF Unlisted
  <2>4. \A k \in 1 .. Len(list) + 1 : N(k) = N(j) => j = k
    <3>1. ASSUME NEW k \in 1 .. Len(list) + 1, N(k) = N(j) PROVE j = k
      <4>1. k # 1
        BY <3>1, <2>3
      <4>2. j - 1 = k - 1
        BY <4>1, <3>1, <1>2, <2>2
      <4> QED BY <4>2
    <3> QED BY <3>1
  <2> QED BY <2>2, <2>4
<1> QED BY <1>6, <1>7

\* An inode takes a slot, and perhaps a descriptor.
LEMMA InstallDoes ==
  ASSUME TablesTypes, UNCHANGED ops, NEW p \in Proc, NEW s \in Slot, table[s] = NoInode,
         NEW x \in Object, NEW node \in Node, NEW write \in BOOLEAN,
         Install(p, s, x, node, write)
  PROVE  /\ core' \in [Object -> Node \cup {NoInode}]
         /\ core'[x] \in Node /\ core'[x].no = node.no /\ core'[x].cnt = node.cnt
         /\ \A y \in Object \ {x} : core'[y] = core[y] /\ Uses(y)' = Uses(y)
         /\ table' \in [Slot -> Object \cup {NoInode}]
         /\ UsesOf(x)' = UsesOf(x) + 1
         /\ fds' \in [Proc -> [Fd -> Slot \cup {-1}]]
         /\ DescriptorsLive => DescriptorsLive'
<1> DEFINE new == [node EXCEPT !.deny = @ \/ write]
<1>1. new \in Node /\ new.no = node.no /\ new.cnt = node.cnt
  BY DEF Node
<1>2. core' = [core EXCEPT ![x] = new] /\ table' = [table EXCEPT ![s] = x]
  BY DEF Install
<1> HIDE DEF new
<1>3. /\ core' \in [Object -> Node \cup {NoInode}] /\ core'[x] = new
      /\ \A y \in Object \ {x} : core'[y] = core[y]
  BY <1>1, <1>2 DEF TablesTypes
<1>4. /\ table' \in [Slot -> Object \cup {NoInode}]
      /\ table'[s] = x /\ \A u \in Slot \ {s} : table'[u] = table[u]
  BY <1>2 DEF TablesTypes
<1>5. UsesOf(x)' = UsesOf(x) + 1 /\ \A y \in Object \ {x} : Uses(y)' = Uses(y)
  <2>1. Cardinality(SlotsOf(table', x)) = Cardinality(SlotsOf(table, x)) + 1
    BY <1>4, SlotTaken
  <2>2. \A y \in Object \ {x} : Uses(y)' = Uses(y)
    BY <1>4, OtherSlots
  <2> QED BY <2>1, <2>2 DEF UsesOf, SlotsOf
<1>6. fds' = fds \/ \E e \in Fd : fds' = [fds EXCEPT ![p][e] = s]
  BY Installed DEF Install
<1>7. table'[s] # NoInode
  BY <1>4, Shapes
<1>8. DescriptorsLive => \A q \in Proc, d \in Fd : fds[q][d] # s
  <2>1. s # -1
    BY Shapes
  <2> QED BY <2>1 DEF DescriptorsLive
<1>9. /\ fds' \in [Proc -> [Fd -> Slot \cup {-1}]]
      /\ DescriptorsLive => DescriptorsLive'
  BY <1>4, <1>6, <1>7, <1>8, DescriptorsStep
<1> QED BY <1>1, <1>3, <1>4, <1>5, <1>9

-----------------------------------------------------------------------------
(* The steps *)

LEMMA OpenFailsKeeps ==
  ASSUME TablesInv, UNCHANGED ops, NEW p \in Proc, OpenFails(p)
  PROVE  TablesInv'
<1>1. Runs(p, "none")
  BY DEF OpenFails, Calls
<1>2. r' = r /\ r \in [Proc -> CallTypes] /\ \A q \in Proc : r'[q].op = "none"
  BY <1>1, Before DEF OpenFails, TablesInv, TablesTypes
<1>3. CallsInv'
  BY <1>2 DEF CallsInv, CallOk
<1> QED BY <1>1, <1>2, <1>3, Before, TablesStay DEF OpenFails, TablesInv, TablesTypes

LEMMA ExitKeeps ==
  ASSUME TablesInv, UNCHANGED ops, NEW p \in Proc, Exit(p) \/ ExitDone(p)
  PROVE  TablesInv'
<1>1. PICK o \in {"none", "exit"} : Runs(p, o)
  BY DEF Exit, ExitDone, Calls
<1>2. PICK c \in CallTypes : r' = [r EXCEPT ![p] = c] /\ c.op \in {"none", "exit"}
  <2>1. [NoCall EXCEPT !.op = "exit"] \in CallTypes /\ [NoCall EXCEPT !.op = "exit"].op = "exit"
    BY DEF NoCall, CallTypes
  <2> QED BY <2>1, Shapes DEF Exit, ExitDone
<1>3. CallOk(c)'
  BY <1>2 DEF CallOk
<1>4. r' \in [Proc -> CallTypes] /\ CallsInv' /\ \A x : ~Making(x)
  BY <1>1, <1>2, <1>3, Before, After DEF TablesInv
<1> QED BY <1>4, TablesStay DEF Exit, ExitDone, TablesInv, TablesTypes

LEMMA CreateEntryKeeps ==
  ASSUME TablesInv, UNCHANGED ops, NEW p \in Proc, CreateEntry(p)
  PROVE  TablesInv'
<1>1. /\ Runs(p, "create") /\ r' = [r EXCEPT ![p].op = "created"]
      /\ named' = named \cup {r[p].no}
      /\ UNCHANGED <<core, list, table, fds, dirs, used, alive>>
  BY DEF CreateEntry
<1>2. /\ r[p] \in CallTypes /\ r[p].op = "create" /\ CallOk(r[p])
      /\ \A q \in Proc \ {p} : r[q].op = "none"
      /\ \A x : Making(x) <=> r[p].inode = x
  BY <1>1, Before
<1>3. PICK c \in CallTypes : /\ c.op = "created" /\ c.no = r[p].no /\ c.slot = r[p].slot
                             /\ c.inode = r[p].inode /\ r' = [r EXCEPT ![p] = c]
  <2>1. [r[p] EXCEPT !.op = "created"] \in CallTypes
    BY <1>2 DEF CallTypes
  <2>2. r' = [r EXCEPT ![p] = [r[p] EXCEPT !.op = "created"]]
    BY <1>1
  <2> QED BY <1>2, <2>1, <2>2 DEF CallTypes
<1>4. InCreate(r[p])
  BY <1>2 DEF CallOk
<1>5. InCreate(c)'
  <2>1. InCreate(c)
    BY <1>3, <1>4 DEF InCreate
  <2> QED BY <1>1, <2>1 DEF InCreate, Uses, SlotsOf, Spoken, Unlisted
<1>6. CallOk(c)'
  BY <1>3, <1>5 DEF CallOk
<1>7. r' \in [Proc -> CallTypes] /\ CallsInv' /\ \A x : Making(x) => Making(x)'
  BY <1>2, <1>3, <1>6, After DEF TablesInv
<1>8. named' \subseteq used'
  BY <1>1, <1>4 DEF InCreate, TablesInv, TablesTypes
<1> QED BY <1>1, <1>7, <1>8, TablesStay DEF TablesInv, TablesTypes

\* Unlink removes a name no inode in memory has.
LEMMA RemoveKeeps ==
  ASSUME TablesInv, UNCHANGED ops, NEW p \in Proc, NEW i \in Number, Unlink(p, i) \/ Rmdir(p, i)
  PROVE  TablesInv'
<1> DEFINE c == [NoCall EXCEPT !.op = "release", !.no = i]
<1>1. /\ Runs(p, "none") /\ r' = [r EXCEPT ![p] = c] /\ named' = named \ {i}
      /\ UNCHANGED <<core, list, table, fds, used, alive>> /\ dirs' \subseteq dirs
  BY DEF Unlink, Rmdir, Calls
<1>2. c \in CallTypes /\ c.op = "release" /\ c.no = i
  BY DEF CallTypes, NoCall
<1> HIDE DEF c
<1>3. /\ \A q \in Proc \ {p} : r[q].op = "none"
      /\ \A x : ~Making(x)
      /\ \A x : On(x, list) => x \in Object /\ core[x] \in Node
  BY <1>1, Before
<1>4. Spoken(i) => Unlisted(i)
  <2>1. CASE Rmdir(p, i)
    BY <2>1 DEF Rmdir, Spoken, TablesInv, TablesTypes
  <2>2. CASE Unlink(p, i)
    <3>1. SUFFICES ASSUME Spoken(i), NEW k \in DOMAIN list, core[list[k]].no = i PROVE FALSE
      BY DEF Unlisted
    <3>2. On(list[k], list)
      BY DEF On
    <3>3. list[k] \in Object /\ core[list[k]] \in Node /\ core[list[k]] # NoInode
      BY <3>2, <1>3, Shapes
    <3>4. Counted(list[k])
      BY <3>3, <1>3 DEF TablesInv, ObjectsInv
    <3>5. Cardinality(Uses(list[k])) >= 1
      BY <3>1, <3>3, <3>4, Shapes DEF Counted
    <3>6. Uses(list[k]) # {}
      BY <3>5, FS_EmptySet
    <3>7. PICK s \in Slot : table[s] = list[k]
      BY <3>6 DEF Uses, SlotsOf
    <3>8. table[s] # NoInode /\ core[table[s]] # NoInode /\ core[table[s]].no = i
      BY <3>1, <3>3, <3>7, Shapes
    <3> QED BY <2>2, <3>8 DEF Unlink
  <2> QED BY <2>1, <2>2
<1>5. CallOk(c)'
  BY <1>1, <1>2, <1>4 DEF CallOk, InRemove, Spoken, Unlisted
<1>6. r' \in [Proc -> CallTypes] /\ CallsInv'
  BY <1>1, <1>2, <1>3, <1>5, After DEF TablesInv
<1> QED BY <1>1, <1>3, <1>6, TablesStay DEF TablesInv, TablesTypes

LEMMA NumberFreed ==
  ASSUME TablesInv, UNCHANGED ops, NEW p \in Proc, Release(p)
  PROVE  TablesInv'
<1>1. Runs(p, "release") /\ r' = [r EXCEPT ![p] = NoCall] /\ used' = used \ {r[p].no}
  BY DEF Release
<1>2. /\ r[p].op = "release" /\ CallOk(r[p])
      /\ \A q \in Proc \ {p} : r[q].op = "none"
      /\ \A x : ~Making(x)
  BY <1>1, Before
<1>3. InRemove(r[p])
  BY <1>2 DEF CallOk
<1>4. r' \in [Proc -> CallTypes] /\ CallsInv'
  BY <1>1, <1>2, NoCallOk, After DEF TablesInv
<1>5. named' \subseteq used'
  BY <1>1, <1>3 DEF Release, InRemove, TablesInv, TablesTypes
<1>6. \A i \in used \ used' : Spoken(i) => Unlisted(i)
  BY <1>1, <1>3 DEF InRemove
<1> QED BY <1>2, <1>4, <1>5, <1>6, TablesStay DEF Release, TablesInv, TablesTypes

\* inode_open found the inode, or sys_open goes on to read it.
LEMMA OpenKeeps ==
  ASSUME TablesInv, UNCHANGED ops, NEW p \in Proc, NEW i \in Number, NEW write \in BOOLEAN,
         Open(p, i, write)
  PROVE  TablesInv'
<1>1. /\ Runs(p, "none") /\ FreeSlots # {} /\ i \in named
      /\ UNCHANGED <<list, dirs, named, used, alive>>
  BY DEF Open, Calls
<1>2. PICK s \in Slot : s = Least(FreeSlots) /\ table[s] = NoInode
  BY <1>1, FreeSlotIs
<1>3. /\ r \in [Proc -> CallTypes] /\ r[p].op = "none"
      /\ \A q \in Proc \ {p} : r[q].op = "none"
      /\ \A y : ~Making(y)
      /\ \A y : On(y, list) => y \in Object /\ core[y] \in Node
  BY <1>1, Before DEF TablesInv, TablesTypes
<1>4. CASE Found(i) = {}
  <2> DEFINE c == [NoCall EXCEPT !.op = "open", !.no = i, !.write = write, !.slot = s]
  <2>1. /\ r' = [r EXCEPT ![p] = c] /\ UNCHANGED <<core, table, fds>>
    BY <1>2, <1>4 DEF Open
  <2>2. c \in CallTypes /\ c.op = "open" /\ c.no = i /\ c.slot = s
    BY <1>2 DEF CallTypes, NoCall
  <2> HIDE DEF c
  <2>3. CallOk(c)'
    BY <1>1, <1>2, <1>4, <2>1, <2>2 DEF CallOk, InOpen, Found, Unlisted
  <2>4. r' \in [Proc -> CallTypes] /\ CallsInv'
    BY <1>3, <2>1, <2>2, <2>3, After DEF TablesInv
  <2> QED BY <1>1, <1>3, <2>1, <2>4, TablesStay DEF TablesInv, TablesTypes
<1>5. CASE Found(i) # {}
  <2>1. PICK x \in Object : x = InCore(i) /\ On(x, list) /\ core[x] \in Node
    BY <1>3, <1>5, InCoreIs
  <2>2. PICK node \in Node : /\ node.no = core[x].no /\ node.cnt = core[x].cnt + 1
                             /\ Install(p, s, x, node, write) /\ r' = r
    <3>1. /\ [core[x] EXCEPT !.cnt = @ + 1] \in Node
          /\ [core[x] EXCEPT !.cnt = @ + 1].no = core[x].no
          /\ [core[x] EXCEPT !.cnt = @ + 1].cnt = core[x].cnt + 1
      BY <2>1 DEF Node
    <3>2. Install(p, s, x, [core[x] EXCEPT !.cnt = @ + 1], write) /\ r' = r
      BY <1>2, <1>5, <2>1 DEF Open
    <3> QED BY <3>1, <3>2
  <2>3. /\ core' \in [Object -> Node \cup {NoInode}]
        /\ core'[x] \in Node /\ core'[x].no = core[x].no /\ core'[x].cnt = core[x].cnt + 1
        /\ \A y \in Object \ {x} : core'[y] = core[y] /\ Uses(y)' = Uses(y)
        /\ table' \in [Slot -> Object \cup {NoInode}]
        /\ UsesOf(x)' = UsesOf(x) + 1
        /\ fds' \in [Proc -> [Fd -> Slot \cup {-1}]]
        /\ DescriptorsLive => DescriptorsLive'
    BY <1>2, <2>1, <2>2, InstallDoes DEF TablesInv
  <2>4. TablesTypes'
    BY <1>1, <2>2, <2>3 DEF TablesInv, TablesTypes, NoTwice
  <2>5. CallsInv'
    BY <1>3, <2>2 DEF CallsInv, CallOk
  <2>6. Counted(x)'
    <3>1. Counted(x) /\ core[x].cnt \in Nat
      <4>1. core[x] # NoInode
        BY <2>1, Shapes
      <4> QED BY <4>1, <1>3, <2>1 DEF TablesInv, ObjectsInv, Node
    <3>2. UsesOf(x) \in Nat
      BY Shapes
    <3>3. On(x, list')
      BY <1>1, <2>1
    <3> QED BY <2>3, <3>1, <3>2, <3>3 DEF Counted, Spoken
  <2>7. core'[x] # NoInode
    BY <2>3, Shapes
  <2>8. ObjectsInv'
    BY <1>1, <1>3, <2>3, <2>6, <2>7, OthersStay DEF TablesInv
  <2>9. OneInode'
    <3>1. \A k \in DOMAIN list : core'[list[k]].no = core[list[k]].no
      BY <2>3 DEF TablesInv, TablesTypes
    <3> QED BY <1>1, <3>1, NumbersStay DEF TablesInv
  <2> QED BY <2>3, <2>4, <2>5, <2>8, <2>9 DEF TablesInv
<1> QED BY <1>4, <1>5

LEMMA OpenReadKeeps ==
  ASSUME TablesInv, UNCHANGED ops, NEW p \in Proc, OpenRead(p)
  PROVE  TablesInv'
<1>1. /\ Runs(p, "open") /\ \E y \in Object : core[y] = NoInode
      /\ r' = [r EXCEPT ![p] = NoCall] /\ UNCHANGED <<dirs, named, used, alive>>
  BY DEF OpenRead
<1>2. /\ r[p] \in CallTypes /\ r[p].op = "open" /\ CallOk(r[p])
      /\ \A q \in Proc \ {p} : r[q].op = "none"
      /\ \A y : ~Making(y)
      /\ \A y : On(y, list) => y \in Object /\ core[y] \in Node
  BY <1>1, Before
<1>3. PICK x \in Object : x = NewObject /\ core[x] = NoInode
  BY <1>1, NewObjectIs
<1>4. /\ r[p].no \in named /\ Unlisted(r[p].no)
      /\ r[p].write \in BOOLEAN /\ r[p].no \in used /\ used \subseteq Number
  BY <1>2 DEF CallOk, InOpen, CallTypes, TablesInv, TablesTypes
<1>5. PICK s \in Slot : s = r[p].slot /\ table[s] = NoInode
  BY <1>2 DEF CallOk, InOpen
<1>6. PICK node \in Node : /\ node.no = r[p].no /\ node.cnt = 1
                           /\ list' = <<x>> \o list /\ Install(p, s, x, node, r[p].write)
  <2> DEFINE new == [no |-> r[p].no, cnt |-> 1, deny |-> FALSE]
  <2>1. new \in Node /\ new.no = r[p].no /\ new.cnt = 1
    BY <1>4 DEF Node
  <2>2. list' = <<x>> \o list /\ Install(p, s, x, new, r[p].write)
    BY <1>3, <1>5 DEF OpenRead
  <2> HIDE DEF new
  <2> QED BY <2>1, <2>2
<1>7. /\ core' \in [Object -> Node \cup {NoInode}]
      /\ core'[x] \in Node /\ core'[x].no = r[p].no /\ core'[x].cnt = 1
      /\ \A y \in Object \ {x} : core'[y] = core[y] /\ Uses(y)' = Uses(y)
      /\ table' \in [Slot -> Object \cup {NoInode}]
      /\ UsesOf(x)' = UsesOf(x) + 1
      /\ fds' \in [Proc -> [Fd -> Slot \cup {-1}]]
      /\ DescriptorsLive => DescriptorsLive'
  BY <1>3, <1>4, <1>5, <1>6, InstallDoes DEF TablesInv
<1>8. /\ list' \in Seq(Object) /\ NoTwice(list)'
      /\ \A y : On(y, list') <=> y = x \/ On(y, list)
  <2>1. ~On(x, list) /\ list \in Seq(Object) /\ NoTwice(list)
    BY <1>3 DEF TablesInv, ObjectsInv, TablesTypes
  <2>2. NoTwice(list')
    BY <1>6, <2>1, ListPush
  <2>3. NoTwice(list')  <=> NoTwice(list)'
    BY DEF NoTwice
  <2> QED BY <1>6, <2>1, <2>2, <2>3, ListPush
<1>9. r' \in [Proc -> CallTypes] /\ CallsInv'
  BY <1>1, <1>2, NoCallOk, After DEF TablesInv
<1>10. TablesTypes'
  BY <1>1, <1>7, <1>8, <1>9 DEF TablesInv, TablesTypes
<1>11. Counted(x)' /\ core'[x] # NoInode
  <2>1. UsesOf(x) = 0
    <3>1. Uses(x) = {}
      BY <1>3 DEF TablesInv, ObjectsInv
    <3> QED BY <3>1, Shapes, FS_EmptySet
  <2>2. On(x, list)'
    BY <1>8 DEF On
  <2> QED BY <1>7, <2>1, <2>2, Shapes DEF Counted
<1>12. ObjectsInv'
  BY <1>2, <1>3, <1>7, <1>8, <1>11, OthersStay DEF TablesInv
<1>13. OneInode'
  <2>1. \A k \in DOMAIN list : core'[list[k]].no = core[list[k]].no
    <3>1. \A k \in DOMAIN list : list[k] \in Object /\ list[k] # x
      <4>1. \A k \in DOMAIN list : core[list[k]] \in Node
        BY <1>2 DEF On
      <4> QED BY <4>1, <1>3, Shapes DEF TablesInv, TablesTypes
    <3> QED BY <3>1, <1>7
  <2> QED BY <1>1, <1>4, <1>6, <1>7, <2>1, NumbersPush DEF TablesInv, TablesTypes
<1> QED BY <1>7, <1>9, <1>10, <1>12, <1>13 DEF TablesInv

LEMMA CreateKeeps ==
  ASSUME TablesInv, UNCHANGED ops, NEW p \in Proc, NEW i \in Number, Create(p, i)
  PROVE  TablesInv'
<1> DEFINE node == [no |-> i, cnt |-> 0, deny |-> FALSE]
<1>1. /\ Runs(p, "none") /\ i \notin used /\ FreeSlots # {} /\ \E y \in Object : core[y] = NoInode
      /\ used' = used \cup {i} /\ UNCHANGED <<list, fds, dirs, named, alive>>
  BY DEF Create, Calls
<1>2. /\ \A q \in Proc \ {p} : r[q].op = "none"
      /\ \A y : ~Making(y)
      /\ \A y : On(y, list) => y \in Object /\ core[y] \in Node
  BY <1>1, Before
<1>3. PICK x \in Object, s \in Slot :
          /\ x = NewObject /\ core[x] = NoInode
          /\ s = Least(FreeSlots) /\ table[s] = NoInode
  BY <1>1, NewObjectIs, FreeSlotIs
<1>4. node \in Node /\ node.no = i
  BY DEF Node
<1> DEFINE c == [NoCall EXCEPT !.op = "create", !.no = i, !.slot = s, !.inode = x]
<1>5. /\ c \in CallTypes /\ c.op = "create" /\ c.no = i /\ c.slot = s /\ c.inode = x
      /\ core' = [core EXCEPT ![x] = node] /\ table' = [table EXCEPT ![s] = x]
      /\ r' = [r EXCEPT ![p] = c]
  <2>1. c \in CallTypes /\ c.op = "create" /\ c.no = i /\ c.slot = s /\ c.inode = x
    BY DEF CallTypes, NoCall
  <2>2. /\ core' = [core EXCEPT ![x] = node] /\ table' = [table EXCEPT ![s] = x]
        /\ r' = [r EXCEPT ![p] = c]
    BY <1>3 DEF Create
  <2> QED BY <2>1, <2>2
<1> HIDE DEF c
<1>6. /\ core' \in [Object -> Node \cup {NoInode}] /\ core'[x] = node
      /\ \A y \in Object \ {x} : core'[y] = core[y]
  BY <1>4, <1>5 DEF TablesInv, TablesTypes
<1>7. /\ table' \in [Slot -> Object \cup {NoInode}]
      /\ table'[s] = x /\ \A u \in Slot \ {s} : table'[u] = table[u]
  BY <1>5 DEF TablesInv, TablesTypes
<1>8. ~On(x, list) /\ Uses(x) = {}
  BY <1>3 DEF TablesInv, ObjectsInv
<1>9. Uses(x)' = {s} /\ \A y \in Object \ {x} : Uses(y)' = Uses(y)
  <2>1. Uses(x)' = {s}
    BY <1>7, <1>8 DEF Uses, SlotsOf
  <2> QED BY <1>3, <1>7, <2>1, OtherSlots
<1>10. \A k \in DOMAIN list : list[k] \in Object \ {x}
  BY <1>2, <1>8 DEF On
<1>11. Spoken(i) => Unlisted(i)
  BY <1>1 DEF Spoken, Unlisted, TablesInv, OneInode
<1>12. "fork" \notin ops => \A q \in Proc, d \in Fd : fds[q][d] # s
  <2>1. s # -1
    BY <1>3, Shapes
  <2> QED BY <2>1, <1>3 DEF TablesInv, DescriptorsLive
<1>13. InCreate(c)'
  <2>1. Spoken(i)' => Unlisted(i)'
    BY <1>1, <1>6, <1>10, <1>11 DEF Spoken, Unlisted
  <2>2. ~On(x, list)'
    BY <1>1, <1>8 DEF On
  <2>3. InCreate([NoCall EXCEPT !.op = "create", !.no = i, !.slot = s, !.inode = x])'
    <3>1. c.no = i /\ c.slot = s /\ c.inode = x
      BY <1>5
    <3> QED BY <1>1, <1>5, <1>6, <1>9, <1>12, <2>1, <2>2, <3>1 DEF InCreate, c
  <2> QED BY <2>3 DEF c
<1>14. CallOk(c)'
  BY <1>1, <1>5, <1>13 DEF CallOk, TablesInv, TablesTypes
<1>15. /\ r' \in [Proc -> CallTypes] /\ CallsInv' /\ Making(x)'
  BY <1>1, <1>2, <1>5, <1>14, After DEF TablesInv
<1>16. TablesTypes'
  BY <1>1, <1>6, <1>7, <1>15 DEF TablesInv, TablesTypes, NoTwice
<1>17. ObjectsInv'
  <2>1. core'[x] # NoInode
    BY <1>4, <1>6, Shapes
  <2> QED BY <1>1, <1>2, <1>3, <1>6, <1>9, <1>15, <2>1, OthersStay DEF TablesInv
<1>18. OneInode'
  BY <1>1, <1>6, <1>10, NumbersStay DEF TablesInv
<1>19. "fork" \notin ops' => DescriptorsLive'
  <2>1. x # NoInode
    BY Shapes
  <2> QED BY <1>1, <1>7, <1>12, <2>1, DescriptorsStep DEF TablesInv
<1> QED BY <1>15, <1>16, <1>17, <1>18, <1>19 DEF TablesInv

LEMMA CreateFailsKeeps ==
  ASSUME TablesInv, UNCHANGED ops, NEW p \in Proc, CreateFails(p)
  PROVE  TablesInv'
<1>1. /\ Runs(p, "create") /\ used' = used \ {r[p].no}
      /\ r' = [r EXCEPT ![p] = NoCall]
      /\ UNCHANGED <<list, fds, dirs, named, alive>>
  BY DEF CreateFails
<1>2. /\ r[p].op = "create" /\ CallOk(r[p])
      /\ \A q \in Proc \ {p} : r[q].op = "none"
      /\ \A y : Making(y) <=> r[p].inode = y
      /\ \A y : On(y, list) => y \in Object /\ core[y] \in Node
  BY <1>1, Before
<1>3. PICK s \in Slot, x \in Object :
          /\ s = r[p].slot /\ x = r[p].inode /\ ~On(x, list) /\ Uses(x) = {s}
          /\ Spoken(r[p].no) => Unlisted(r[p].no)
          /\ "fork" \notin ops => \A q \in Proc, d \in Fd : fds[q][d] # s
          /\ r[p].no \notin named
  BY <1>2 DEF CallOk, InCreate
<1>4. table[s] = x /\ table' = [table EXCEPT ![s] = NoInode] /\ core' = [core EXCEPT ![x] = NoInode]
  BY <1>3 DEF CreateFails, Uses, SlotsOf
<1>5. /\ table' \in [Slot -> Object \cup {NoInode}]
      /\ table'[s] = NoInode /\ \A u \in Slot \ {s} : table'[u] = table[u]
  BY <1>4 DEF TablesInv, TablesTypes
<1>6. Uses(x)' = {} /\ \A y \in Object \ {x} : Uses(y)' = Uses(y)
  <2>1. Uses(x)' = {}
    <3>1. SUFFICES ASSUME NEW u \in Slot, table'[u] = x PROVE FALSE
      BY DEF Uses, SlotsOf
    <3>2. u # s
      BY <1>5, <3>1, Shapes
    <3>3. u \in Uses(x)
      BY <1>5, <3>1, <3>2 DEF Uses, SlotsOf
    <3> QED BY <1>3, <3>2, <3>3
  <2> QED BY <1>4, <1>5, <2>1, OtherSlots
<1>7. /\ core' \in [Object -> Node \cup {NoInode}] /\ core'[x] = NoInode
      /\ \A y \in Object \ {x} : core'[y] = core[y]
  BY <1>4 DEF TablesInv, TablesTypes
<1>8. r' \in [Proc -> CallTypes] /\ CallsInv'
  BY <1>1, <1>2, NoCallOk, After DEF TablesInv
<1>9. TablesTypes'
  BY <1>1, <1>3, <1>5, <1>7, <1>8 DEF TablesInv, TablesTypes, NoTwice
<1>10. ObjectsInv'
  BY <1>1, <1>2, <1>3, <1>6, <1>7, OthersStay DEF TablesInv
<1>11. OneInode'
  <2>1. \A k \in DOMAIN list : list[k] \in Object \ {x}
    BY <1>2, <1>3 DEF On
  <2>2. \A i \in used \ used' : Spoken(i) => Unlisted(i)
    BY <1>1, <1>3
  <2> QED BY <1>1, <1>7, <2>1, <2>2, NumbersStay DEF TablesInv
<1>12. "fork" \notin ops' => DescriptorsLive'
  <2>1. fds \in [Proc -> [Fd -> Slot \cup {-1}]]
    BY DEF TablesInv, TablesTypes
  <2> QED BY <1>1, <1>3, <1>5, <2>1 DEF TablesInv, DescriptorsLive
<1> QED BY <1>8, <1>9, <1>10, <1>11, <1>12 DEF TablesInv

LEMMA CreateDoneKeeps ==
  ASSUME TablesInv, UNCHANGED ops, NEW p \in Proc, CreateDone(p)
  PROVE  TablesInv'
<1>1. /\ Runs(p, "created") /\ r' = [r EXCEPT ![p] = NoCall]
      /\ UNCHANGED <<table, dirs, named, used, alive>>
  BY DEF CreateDone
<1>2. /\ r[p].op = "created" /\ CallOk(r[p])
      /\ \A q \in Proc \ {p} : r[q].op = "none"
      /\ \A y : Making(y) <=> r[p].inode = y
      /\ \A y : On(y, list) => y \in Object /\ core[y] \in Node
  BY <1>1, Before
<1>3. PICK s \in Slot, x \in Object :
          /\ s = r[p].slot /\ x = r[p].inode /\ ~On(x, list) /\ Uses(x) = {s}
          /\ core[x] = [no |-> r[p].no, cnt |-> 0, deny |-> FALSE] /\ r[p].no \in used
          /\ Spoken(r[p].no) => Unlisted(r[p].no)
          /\ "fork" \notin ops => \A q \in Proc, d \in Fd : fds[q][d] # s
  BY <1>2 DEF CallOk, InCreate
<1>4. /\ list' = <<x>> \o list /\ core' = [core EXCEPT ![x].cnt = 1]
      /\ pcb_fd_install(p, s)
  BY <1>3 DEF CreateDone
<1>5. r[p].no \in Number
  BY <1>3 DEF TablesInv, TablesTypes
<1>6. /\ core' \in [Object -> Node \cup {NoInode}]
      /\ core'[x] \in Node /\ core'[x].no = r[p].no /\ core'[x].cnt = 1
      /\ \A y \in Object \ {x} : core'[y] = core[y]
  <2>1. core[x] \in Node /\ core[x].no = r[p].no
    BY <1>3, <1>5 DEF Node
  <2>2. PICK new : new = [core[x] EXCEPT !.cnt = 1]
    OBVIOUS
  <2>3. new \in Node /\ new.no = r[p].no /\ new.cnt = 1
    BY <2>1, <2>2 DEF Node
  <2>4. core' = [core EXCEPT ![x] = new]
    BY <1>4, <2>2
  <2> QED BY <2>3, <2>4 DEF TablesInv, TablesTypes
<1>7. \A y : Uses(y)' = Uses(y)
  BY <1>1 DEF Uses, SlotsOf
<1>8. /\ list' \in Seq(Object) /\ NoTwice(list)'
      /\ \A y : On(y, list') <=> y = x \/ On(y, list)
  <2>1. list \in Seq(Object) /\ NoTwice(list)
    BY DEF TablesInv, TablesTypes
  <2>2. NoTwice(list') <=> NoTwice(list)'
    BY DEF NoTwice
  <2> QED BY <1>3, <1>4, <2>1, <2>2, ListPush
<1>9. r' \in [Proc -> CallTypes] /\ CallsInv'
  BY <1>1, <1>2, NoCallOk, After DEF TablesInv
<1>10. /\ fds' \in [Proc -> [Fd -> Slot \cup {-1}]]
       /\ "fork" \notin ops' => DescriptorsLive'
  <2>1. fds' = fds \/ \E e \in Fd : fds' = [fds EXCEPT ![p][e] = s]
    BY <1>4, Installed DEF TablesInv
  <2>2. table'[s] = x /\ x # NoInode /\ \A u \in Slot \ {s} : table'[u] = table[u]
    BY <1>1, <1>3, Shapes DEF Uses, SlotsOf
  <2> QED BY <1>3, <2>1, <2>2, DescriptorsStep DEF TablesInv
<1>11. TablesTypes'
  BY <1>1, <1>6, <1>8, <1>9, <1>10 DEF TablesInv, TablesTypes
<1>12. Counted(x)' /\ core'[x] # NoInode
  <2>1. UsesOf(x)' = 1
    <3>1. UsesOf(x) = Cardinality({s})
      BY <1>3, Shapes
    <3>2. UsesOf(x)' = UsesOf(x)
      BY <1>1 DEF UsesOf
    <3> QED BY <3>1, <3>2, FS_Singleton
  <2>2. On(x, list)'
    BY <1>8 DEF On
  <2> QED BY <1>6, <2>1, <2>2, Shapes DEF Counted
<1>13. ObjectsInv'
  BY <1>2, <1>3, <1>6, <1>7, <1>8, <1>12, OthersStay DEF TablesInv
<1>14. OneInode'
  <2>1. \A k \in DOMAIN list : list[k] \in Object \ {x}
    BY <1>2, <1>3 DEF On
  <2>2. \A k \in DOMAIN list : core'[list[k]].no = core[list[k]].no
    BY <1>6, <2>1
  <2> QED BY <1>1, <1>3, <1>4, <1>6, <2>2, NumbersPush DEF TablesInv, TablesTypes
<1> QED BY <1>9, <1>10, <1>11, <1>13, <1>14 DEF TablesInv

LEMMA CloseKeeps ==
  ASSUME TablesInv, UNCHANGED ops, NEW p \in Proc, NEW d \in Fd, Close(p, d)
  PROVE  TablesInv'
<1>1. PICK o \in {"none", "exit"} : Runs(p, o)
  BY DEF Close, Runs
<1>2. /\ \A q \in Proc \ {p} : r[q].op = "none"
      /\ r[p].op \in {"none", "exit"}
      /\ \A y : ~Making(y)
      /\ \A y : On(y, list) => y \in Object /\ core[y] \in Node
  BY <1>1, Before
<1>3. PICK s \in Slot : s = fds[p][d] /\ s # -1 /\ UNCHANGED <<dirs, named, used, alive, r>>
  BY DEF Close, TablesInv, TablesTypes
<1>4. r' \in [Proc -> CallTypes] /\ CallsInv'
  BY <1>2, <1>3 DEF TablesInv, TablesTypes, CallsInv, CallOk
<1>5. CASE table[s] = NoInode \/ core[table[s]] = NoInode
  <2>1. UNCHANGED <<core, list, table, fds>>
    BY <1>3, <1>5 DEF Close
  <2> QED BY <1>2, <1>3, <1>4, <2>1, TablesStay DEF TablesInv, TablesTypes
<1>6. CASE table[s] # NoInode /\ core[table[s]] # NoInode
  <2>1. PICK x \in Object : x = table[s] /\ core[x] # NoInode
    BY <1>6 DEF TablesInv, TablesTypes
  <2> DEFINE last == core[x].cnt = 1
  <2>2. core[x] \in Node /\ core[x].cnt \in Nat
    BY <2>1 DEF TablesInv, TablesTypes, Node
  <2>3. Counted(x)
    BY <1>2, <2>1 DEF TablesInv, ObjectsInv
  <2>4. PICK less : less = [core[x] EXCEPT !.cnt = @ - 1, !.deny = FALSE]
    OBVIOUS
  <2>5. /\ core' = [core EXCEPT ![x] = IF last THEN NoInode ELSE less]
        /\ list' = IF last THEN list_remove(list, x) ELSE list
        /\ table' = [table EXCEPT ![s] = NoInode]
        /\ fds' = [fds EXCEPT ![p][d] = -1]
    BY <1>3, <1>6, <2>1, <2>4 DEF Close
  <2>6. ~last => less \in Node /\ less.no = core[x].no /\ less.cnt = core[x].cnt - 1
    <3>1. core[x].cnt >= 1
      BY <2>3 DEF Counted
    <3>2. less = [no |-> core[x].no, cnt |-> core[x].cnt - 1, deny |-> FALSE]
      BY <2>2, <2>4 DEF Node
    <3> QED BY <2>2, <3>1, <3>2 DEF Node
  <2>7. /\ core' \in [Object -> Node \cup {NoInode}]
        /\ last => core'[x] = NoInode
        /\ ~last => core'[x] \in Node /\ core'[x].no = core[x].no /\ core'[x].cnt = core[x].cnt - 1
        /\ \A y \in Object \ {x} : core'[y] = core[y]
    BY <2>2, <2>5, <2>6 DEF TablesInv, TablesTypes
  <2>8. /\ table' \in [Slot -> Object \cup {NoInode}]
        /\ table'[s] = NoInode /\ \A u \in Slot \ {s} : table'[u] = table[u]
    BY <2>5 DEF TablesInv, TablesTypes
  <2>9. UsesOf(x)' = UsesOf(x) - 1 /\ \A y \in Object \ {x} : Uses(y)' = Uses(y)
    <3>1. Cardinality(SlotsOf(table', x)) = Cardinality(SlotsOf(table, x)) - 1
      BY <2>1, <2>8, SlotFreed
    <3>2. \A y \in Object \ {x} : Uses(y)' = Uses(y)
      BY <2>1, <2>8, OtherSlots
    <3> QED BY <3>1, <3>2 DEF UsesOf, SlotsOf
  <2>10. /\ list' \in Seq(Object) /\ NoTwice(list)'
        /\ \A y : On(y, list') <=> On(y, list) /\ ~(last /\ y = x)
    <3>1. list \in Seq(Object) /\ NoTwice(list) /\ On(x, list)
      BY <2>3 DEF TablesInv, TablesTypes, Counted
    <3>2. NoTwice(list)' <=> NoTwice(list')
      BY DEF NoTwice
    <3>3. CASE last
      BY <2>5, <3>1, <3>2, <3>3, ListRemove
    <3>4. CASE ~last
      BY <2>5, <3>1, <3>2, <3>4
    <3> QED BY <3>3, <3>4
  <2>11. /\ fds' \in [Proc -> [Fd -> Slot \cup {-1}]]
         /\ \A q \in Proc, e \in Fd : IF q = p /\ e = d THEN fds'[q][e] = -1
                                      ELSE fds'[q][e] = fds[q][e]
    BY <2>5 DEF TablesInv, TablesTypes
  <2>12. TablesTypes'
    BY <1>3, <1>4, <2>7, <2>8, <2>10, <2>11 DEF TablesInv, TablesTypes
  <2>13. ObjectsInv'
    <3>1. ASSUME last PROVE Uses(x)' = {} /\ ~On(x, list')
      <4>1. UsesOf(x) \in Nat /\ UsesOf(x) =< 1
        BY <2>3, <3>1, Shapes DEF Counted
      <4>2. IsFiniteSet(SlotsOf(table', x)) /\ Cardinality(SlotsOf(table', x)) \in Nat
        BY SlotsAre
      <4>3. UsesOf(x)' = Cardinality(SlotsOf(table', x))
        BY DEF UsesOf, SlotsOf
      <4>4. Cardinality(SlotsOf(table', x)) = 0
        BY <2>9, <4>1, <4>2, <4>3
      <4>5. SlotsOf(table', x) = {}
        BY <4>2, <4>4, FS_EmptySet
      <4> QED BY <2>10, <3>1, <4>5 DEF Uses, SlotsOf
    <3>2. ASSUME ~last PROVE Counted(x)' /\ core'[x] # NoInode
      <4>1. On(x, list)'
        BY <2>3, <2>10, <3>2 DEF Counted, On
      <4>2. UsesOf(x) \in Nat
        BY Shapes
      <4> QED BY <2>2, <2>3, <2>7, <2>9, <3>2, <4>1, <4>2, Shapes DEF Counted, Spoken
    <3>3. /\ core'[x] = NoInode => Uses(x)' = {} /\ ~On(x, list')
          /\ core'[x] # NoInode => Counted(x)'
      BY <2>7, <3>1, <3>2
    <3> HIDE DEF last
    <3> QED BY <1>2, <2>2, <2>7, <2>9, <2>10, <3>3, OthersStay DEF TablesInv
  <2>14. OneInode'
    <3>1. ASSUME NEW k \in DOMAIN list'
          PROVE  \E a \in DOMAIN list : list[a] = list'[k] /\ core'[list'[k]].no = core[list[a]].no
      <4>1. On(list'[k], list')
        BY <3>1 DEF On
      <4>2. PICK a \in DOMAIN list : list[a] = list'[k]
        BY <2>10, <4>1 DEF On
      <4>3. list'[k] \in Object /\ (last => list'[k] # x)
        BY <1>2, <2>10, <4>1
      <4>4. core'[list'[k]].no = core[list[a]].no
        BY <2>7, <4>2, <4>3
      <4> QED BY <4>2, <4>4
    <3>2. SUFFICES ASSUME "fork" \notin ops, NEW j \in DOMAIN list', core'[list'[j]].no \notin Dirs
                   PROVE  /\ core'[list'[j]].no \in used
                          /\ \A k \in DOMAIN list' : core'[list'[k]].no = core'[list'[j]].no => j = k
      BY <1>3 DEF OneInode
    <3>3. PICK a \in DOMAIN list : list[a] = list'[j] /\ core'[list'[j]].no = core[list[a]].no
      BY <3>1
    <3>4. /\ core[list[a]].no \in used
          /\ \A k \in DOMAIN list : core[list[k]].no = core[list[a]].no => a = k
      BY <3>2, <3>3 DEF TablesInv, OneInode
    <3>5. ASSUME NEW k \in DOMAIN list', core'[list'[k]].no = core'[list'[j]].no PROVE j = k
      <4>1. PICK b \in DOMAIN list : list[b] = list'[k] /\ core'[list'[k]].no = core[list[b]].no
        BY <3>1
      <4>2. list'[k] = list'[j]
        BY <3>3, <3>4, <3>5, <4>1
      <4> QED BY <2>10, <4>2 DEF NoTwice
    <3> QED BY <3>3, <3>4, <3>5
  <2>15. "fork" \notin ops' => DescriptorsLive'
    <3>1. SUFFICES ASSUME DescriptorsLive PROVE DescriptorsLive'
      BY DEF TablesInv
    <3>2. \A q \in Proc, e \in Fd : ~(q = p /\ e = d) => fds[q][e] # s
      BY <1>3, <3>1 DEF DescriptorsLive
    <3>3. fds \in [Proc -> [Fd -> Slot \cup {-1}]]
      BY DEF TablesInv, TablesTypes
    <3>4. \A q \in Proc, e \in Fd : fds'[q][e] # -1 =>
             /\ ~(q = p /\ e = d) /\ fds'[q][e] = fds[q][e]
             /\ table'[fds'[q][e]] = table[fds[q][e]]
      BY <2>8, <2>11, <3>2, <3>3
    <3> QED BY <3>1, <3>4 DEF DescriptorsLive
  <2> QED BY <1>4, <2>12, <2>13, <2>14, <2>15 DEF TablesInv
<1> QED BY <1>5, <1>6

LEMMA KeepOpenKeeps ==
  ASSUME TablesInv, UNCHANGED ops, NEW p \in Proc, NEW i \in Number, KeepOpen(p, i)
  PROVE  TablesInv'
<1>1. /\ Runs(p, "none") /\ i \in Dirs
      /\ UNCHANGED <<table, fds, dirs, named, used, alive, r>>
  BY DEF KeepOpen, Calls, TablesInv, TablesTypes
<1>2. /\ \A q \in Proc : r[q].op = "none"
      /\ \A y : ~Making(y)
      /\ \A y : On(y, list) => y \in Object /\ core[y] \in Node
  BY <1>1, Before
<1>3. r' \in [Proc -> CallTypes] /\ CallsInv'
  BY <1>1, <1>2 DEF TablesInv, TablesTypes, CallsInv, CallOk
<1>4. \A y : Uses(y)' = Uses(y) /\ UsesOf(y)' = UsesOf(y)
  BY <1>1 DEF Uses, SlotsOf, UsesOf
<1>5. "fork" \notin ops' => DescriptorsLive'
  BY <1>1 DEF TablesInv, DescriptorsLive
<1>6. CASE Found(i) # {}
  <2>1. PICK x \in Object : x = InCore(i) /\ On(x, list) /\ core[x] \in Node /\ core[x].no = i
    BY <1>2, <1>6, InCoreIs
  <2>2. PICK new : new = [core[x] EXCEPT !.cnt = @ + 1]
    OBVIOUS
  <2>3. /\ core' = [core EXCEPT ![x] = new] /\ list' = list
        /\ new \in Node /\ new.no = i /\ new.cnt = core[x].cnt + 1 /\ core[x].cnt \in Nat
    <3>1. core' = [core EXCEPT ![x] = new] /\ list' = list
      BY <1>6, <2>1, <2>2 DEF KeepOpen
    <3> QED BY <2>1, <2>2, <3>1 DEF Node
  <2>4. /\ core' \in [Object -> Node \cup {NoInode}] /\ core'[x] = new
        /\ \A y \in Object \ {x} : core'[y] = core[y]
    BY <2>3 DEF TablesInv, TablesTypes
  <2>5. TablesTypes'
    BY <1>1, <1>3, <2>3, <2>4 DEF TablesInv, TablesTypes, NoTwice
  <2>6. Counted(x)' /\ core'[x] # NoInode
    <3>1. Counted(x) /\ UsesOf(x) \in Nat
      BY <1>2, <2>1, Shapes DEF TablesInv, ObjectsInv
    <3>2. On(x, list)'
      BY <2>1, <2>3 DEF On
    <3>3. ~Spoken(i)'
      BY <1>1 DEF Spoken
    <3>4. UsesOf(x)' = UsesOf(x)
      BY <1>4
    <3> QED BY <2>3, <2>4, <3>1, <3>2, <3>3, <3>4, Shapes DEF Counted
  <2>7. ObjectsInv'
    BY <1>2, <1>4, <2>3, <2>4, <2>6, OthersStay DEF TablesInv
  <2>8. OneInode'
    <3>1. \A k \in DOMAIN list : core'[list[k]].no = core[list[k]].no
      BY <2>1, <2>3, <2>4 DEF TablesInv, TablesTypes
    <3> QED BY <1>1, <2>3, <3>1, NumbersStay DEF TablesInv
  <2> QED BY <1>3, <1>5, <2>5, <2>7, <2>8 DEF TablesInv
<1>7. CASE Found(i) = {}
  <2> DEFINE new == [no |-> i, cnt |-> 1, deny |-> FALSE]
  <2>1. PICK x \in Object : x = NewObject /\ core[x] = NoInode
    BY <1>7, NewObjectIs DEF KeepOpen
  <2>2. core' = [core EXCEPT ![x] = new] /\ list' = <<x>> \o list
    BY <1>7, <2>1 DEF KeepOpen
  <2>3. new \in Node /\ new.no = i /\ new.cnt = 1
    BY DEF Node
  <2> HIDE DEF new
  <2>4. /\ core' \in [Object -> Node \cup {NoInode}] /\ core'[x] = new
        /\ \A y \in Object \ {x} : core'[y] = core[y]
    BY <2>2, <2>3 DEF TablesInv, TablesTypes
  <2>5. ~On(x, list) /\ Uses(x) = {}
    BY <2>1 DEF TablesInv, ObjectsInv
  <2>6. /\ list' \in Seq(Object) /\ NoTwice(list)'
        /\ \A y : On(y, list') <=> y = x \/ On(y, list)
    <3>1. list \in Seq(Object) /\ NoTwice(list)
      BY DEF TablesInv, TablesTypes
    <3>2. NoTwice(list') <=> NoTwice(list)'
      BY DEF NoTwice
    <3> QED BY <2>2, <2>5, <3>1, <3>2, ListPush
  <2>7. TablesTypes'
    BY <1>1, <1>3, <2>4, <2>6 DEF TablesInv, TablesTypes
  <2>8. Counted(x)' /\ core'[x] # NoInode
    <3>1. UsesOf(x)' = 0
      <4>1. UsesOf(x) = 0
        BY <2>5, Shapes, FS_EmptySet
      <4> QED BY <1>4, <4>1
    <3>2. On(x, list)'
      BY <2>6 DEF On
    <3>3. ~Spoken(i)'
      BY <1>1 DEF Spoken
    <3> QED BY <2>3, <2>4, <3>1, <3>2, <3>3, Shapes DEF Counted
  <2>9. ObjectsInv'
    BY <1>2, <1>4, <2>4, <2>6, <2>8, OthersStay DEF TablesInv
  <2>10. OneInode'
    <3>1. \A k \in DOMAIN list : list[k] \in Object \ {x}
      BY <1>2, <2>5 DEF On
    <3>2. \A k \in DOMAIN list : core'[list[k]].no = core[list[k]].no
      BY <2>4, <3>1
    <3>3. ~Spoken(core'[x].no)
      BY <1>1, <2>3, <2>4 DEF Spoken
    <3> QED BY <1>1, <2>2, <3>2, <3>3, NumbersPush DEF TablesInv, TablesTypes
  <2> QED BY <1>3, <1>5, <2>7, <2>9, <2>10 DEF TablesInv
<1> QED BY <1>6, <1>7

\* The child's descriptors are counted for every inode they name.
LEMMA ForkKeeps ==
  ASSUME TablesInv, UNCHANGED ops, NEW p \in Proc, NEW q \in Proc, Fork(p, q)
  PROVE  TablesInv'
<1> DEFINE Ends(x) == Cardinality({d \in Fd : fds[p][d] # -1 /\ table[fds[p][d]] = x})
<1>1. /\ Runs(p, "none") /\ "fork" \in ops
      /\ UNCHANGED <<list, table, dirs, named, used, r>>
  BY DEF Fork, Calls
<1>2. /\ \A z \in Proc : r[z].op = "none"
      /\ \A y : ~Making(y)
  BY <1>1, Before
<1>3. r' \in [Proc -> CallTypes] /\ CallsInv'
  BY <1>1, <1>2 DEF TablesInv, TablesTypes, CallsInv, CallOk
<1>4. CASE Ends(NoInode) > 0
  <2>1. UNCHANGED <<core, fds, alive>>
    BY <1>4 DEF Fork
  <2> QED BY <1>1, <1>2, <1>3, <2>1, TablesStay DEF TablesInv, TablesTypes
<1>5. CASE ~(Ends(NoInode) > 0)
  <2>1. /\ core' = [x \in Object |-> IF core[x] = NoInode THEN NoInode
                                     ELSE [core[x] EXCEPT !.cnt = @ + Ends(x)]]
        /\ fds' = [fds EXCEPT ![q] = fds[p]] /\ alive' = alive \cup {q}
    BY <1>5 DEF Fork
  <2>2. \A x : Ends(x) \in Nat
    <3>1. 3 \in Int /\ MaxFd - 1 \in Int
      BY OpenFilesAssumption
    <3>2. IsFiniteSet(Fd)
      BY <3>1, FS_Interval DEF Fd
    <3>3. ASSUME NEW x PROVE Ends(x) \in Nat
      <4>1. IsFiniteSet({d \in Fd : fds[p][d] # -1 /\ table[fds[p][d]] = x})
        BY <3>2, FS_Subset
      <4> QED BY <4>1, FS_CardinalityType
    <3> QED BY <3>3
  <2> HIDE DEF Ends
  <2>3. \A x \in Object : core[x] # NoInode =>
           core'[x] \in Node /\ core'[x].cnt = core[x].cnt + Ends(x) /\ core[x].cnt \in Nat
    <3>1. ASSUME NEW x \in Object, core[x] # NoInode
          PROVE  core'[x] \in Node /\ core'[x].cnt = core[x].cnt + Ends(x) /\ core[x].cnt \in Nat
      <4>1. core[x] \in Node /\ Ends(x) \in Nat
        BY <2>2, <3>1 DEF TablesInv, TablesTypes
      <4>2. core'[x] = [core[x] EXCEPT !.cnt = @ + Ends(x)]
        BY <2>1, <3>1
      <4> QED BY <4>1, <4>2 DEF Node
    <3> QED BY <3>1
  <2>4. \A x \in Object : core[x] = NoInode => core'[x] = NoInode
    BY <2>1
  <2>5. core' \in [Object -> Node \cup {NoInode}]
    <3>1. core' = [x \in Object |-> core'[x]]
      BY <2>1
    <3>2. \A x \in Object : core'[x] \in Node \cup {NoInode}
      BY <2>3, <2>4
    <3> HIDE DEF Node
    <3> QED BY <3>1, <3>2
  <2>6. TablesTypes'
    BY <1>1, <1>3, <2>1, <2>5 DEF TablesInv, TablesTypes, NoTwice
  <2>7. ObjectsInv'
    <3>1. ASSUME NEW x \in Object, core'[x] = NoInode
          PROVE  Uses(x)' = {} /\ ~On(x, list)'
      <4>1. core[x] = NoInode
        BY <3>1, <2>3, Shapes
      <4> QED BY <1>1, <4>1 DEF TablesInv, ObjectsInv, Uses, SlotsOf, On
    <3>2. ASSUME NEW x \in Object, core'[x] # NoInode
          PROVE  Counted(x)'
      <4>1. core[x] # NoInode /\ Counted(x)
        BY <1>2, <2>4, <3>2 DEF TablesInv, ObjectsInv
      <4>2. UsesOf(x) \in Nat /\ UsesOf(x)' = UsesOf(x) /\ On(x, list)'
        BY <1>1, <4>1, Shapes DEF UsesOf, Counted, On
      <4>3. "fork" \in ops'
        BY <1>1
      <4>4. core'[x].cnt = core[x].cnt + Ends(x) /\ core[x].cnt \in Nat /\ Ends(x) \in Nat
        BY <2>2, <2>3, <4>1
      <4>5. core'[x].cnt >= 1 /\ core'[x].cnt >= UsesOf(x)
        BY <4>1, <4>2, <4>4 DEF Counted
      <4> QED BY <4>2, <4>3, <4>5 DEF Counted, Spoken
    <3> QED BY <3>1, <3>2 DEF ObjectsInv
  <2> QED BY <1>1, <1>3, <2>6, <2>7 DEF TablesInv, OneInode
<1> QED BY <1>4, <1>5

-----------------------------------------------------------------------------
LEMMA TablesInitInv == TablesInit => TablesInv
<1> SUFFICES ASSUME TablesInit PROVE TablesInv
  OBVIOUS
<1>1. /\ core = [x \in Object |-> NoInode] /\ list = <<>>
      /\ table = [s \in Slot |-> NoInode]
      /\ fds = [p \in Proc |-> [d \in Fd |-> -1]]
      /\ dirs = Dirs /\ named = Dirs /\ used = Dirs /\ alive = {InitProc}
      /\ r = [p \in Proc |-> NoCall]
  BY DEF TablesInit
<1>2. DOMAIN list = {} /\ list \in Seq(Object)
  BY <1>1
<1>3. \A x : ~On(x, list)
  BY <1>2 DEF On
<1>4. \A p \in Proc : r[p].op = "none"
  BY <1>1, Shapes
<1>5. TablesTypes
  BY <1>1, <1>2, Shapes, OpenFilesAssumption DEF TablesTypes, NoTwice
<1>6. CallsInv
  BY <1>4 DEF CallsInv, CallOk
<1>7. \A x \in Object : Uses(x) = {}
  BY <1>1, Shapes DEF Uses, SlotsOf
<1>8. ObjectsInv
  BY <1>1, <1>3, <1>7 DEF ObjectsInv
<1>9. OneInode
  BY <1>2 DEF OneInode
<1>10. DescriptorsLive
  BY <1>1 DEF DescriptorsLive
<1> QED BY <1>5, <1>6, <1>8, <1>9, <1>10 DEF TablesInv

LEMMA TablesNextInv == TablesInv /\ [TablesNext]_tableVars => TablesInv'
<1> SUFFICES ASSUME TablesInv, [TablesNext]_tableVars PROVE TablesInv'
  OBVIOUS
<1>1. CASE UNCHANGED tableVars
  <2>1. \A x : Making(x) => Making(x)'
    BY <1>1 DEF tableVars, Making
  <2>2. CallsInv'
    BY <1>1 DEF tableVars, TablesInv, CallsInv, CallOk, InOpen, InCreate, InRemove, On, Uses,
                SlotsOf, Spoken, Unlisted
  <2> QED BY <1>1, <2>1, <2>2, TablesStay DEF tableVars, TablesInv, TablesTypes
<1>2. CASE TablesNext
  <2> USE <1>2 DEF TablesNext
  <2>1. ASSUME NEW p \in Proc, NEW i \in Number, NEW write \in BOOLEAN, Open(p, i, write)
        PROVE  TablesInv'
    BY <2>1, OpenKeeps
  <2>2. ASSUME NEW p \in Proc, NEW i \in Number, Create(p, i)
        PROVE  TablesInv'
    BY <2>2, CreateKeeps
  <2>3. ASSUME NEW p \in Proc, NEW i \in Number, Unlink(p, i) \/ Rmdir(p, i)
        PROVE  TablesInv'
    BY <2>3, RemoveKeeps
  <2>4. ASSUME NEW p \in Proc, NEW i \in Number, KeepOpen(p, i)
        PROVE  TablesInv'
    BY <2>4, KeepOpenKeeps
  <2>5. ASSUME NEW p \in Proc, OpenFails(p) \/ OpenRead(p) \/ Release(p)
        PROVE  TablesInv'
    BY <2>5, OpenFailsKeeps, OpenReadKeeps, NumberFreed
  <2>6. ASSUME NEW p \in Proc, CreateEntry(p) \/ CreateFails(p) \/ CreateDone(p)
        PROVE  TablesInv'
    BY <2>6, CreateEntryKeeps, CreateFailsKeeps, CreateDoneKeeps
  <2>7. ASSUME NEW p \in Proc, NEW d \in Fd, Close(p, d)
        PROVE  TablesInv'
    BY <2>7, CloseKeeps
  <2>8. ASSUME NEW p \in Proc, NEW q \in Proc, Fork(p, q)
        PROVE  TablesInv'
    BY <2>8, ForkKeeps
  <2>9. ASSUME NEW p \in Proc, Exit(p) \/ ExitDone(p)
        PROVE  TablesInv'
    BY <2>9, ExitKeeps
  <2>10. CASE Stopped
    BY <2>10, <1>1 DEF Stopped
  <2> QED BY <2>1, <2>2, <2>3, <2>4, <2>5, <2>6, <2>7, <2>8, <2>9, <2>10 DEF Call
<1> QED BY <1>1, <1>2

\* In any number of processes, files, slots and descriptors
LEMMA TablesInvariant == TablesSpec => []TablesInv
  BY TablesInitInv, TablesNextInv, PTL DEF TablesSpec

\* A file has one inode in memory, which is that of a file on the disk.
THEOREM TablesOneInode == TablesSpec => []OneInode
<1>1. TablesInv => OneInode
  BY DEF TablesInv
<1> QED BY <1>1, TablesInvariant, PTL

\* Between calls i_open_cnt is the number of slots that have the file, and a
\* descriptor names a slot of its own with a file in it; with forks no count is
\* too low.
THEOREM TablesCountSlots == TablesSpec => []CountIsSlots
<1>1. TablesInv => CountIsSlots
  <2>1. SUFFICES ASSUME TablesInv, Quiet PROVE CountIsSlots
    BY DEF CountIsSlots
  <2>2. \A x : ~Making(x)
    BY <2>1, Shapes DEF Quiet, Making
  <2>3. \A x : x \in Listed <=> On(x, list)
    BY DEF Listed, On
  <2>4. ASSUME NEW x \in Object
        PROVE  IF core[x] = NoInode THEN UsesOf(x) = 0 /\ x \notin Listed
               ELSE /\ x \in Listed
                    /\ core[x].cnt >= UsesOf(x)
                    /\ "fork" \notin ops /\ core[x].no \notin Dirs => core[x].cnt = UsesOf(x)
    <3>1. CASE core[x] = NoInode
      <4>1. Uses(x) = {} /\ ~On(x, list)
        BY <2>1, <3>1 DEF TablesInv, ObjectsInv
      <4>2. UsesOf(x) = 0
        BY <4>1, Shapes, FS_EmptySet
      <4> QED BY <2>3, <3>1, <4>1, <4>2
    <3>2. CASE core[x] # NoInode
      BY <2>1, <2>2, <2>3, <3>2 DEF TablesInv, ObjectsInv, Counted, Spoken
    <3> QED BY <3>1, <3>2
  <2>5. "fork" \notin ops => DescriptorsLive
    BY <2>1 DEF TablesInv
  <2> QED BY <2>4, <2>5 DEF CountIsSlots
<1> QED BY <1>1, TablesInvariant, PTL

-----------------------------------------------------------------------------
(***************************************************************************)
(* The bytes of an open file.  FileIO shares no state with Ide, a request  *)
(* of which is one step of it, so it has its own variables here.           *)
(***************************************************************************)
\* The block at place k of the file, and at place -1 that of the table
Place == -1 .. Direct + Indirect - 1
BlockAt(k) == IF k = -1 THEN sect[Direct] ELSE IO!all_blocks[k]

FileTypes ==
    /\ pos \in Nat /\ size \in Nat
    /\ sect \in [0 .. Direct -> 0 .. Blocks]
    /\ tab \in [0 .. Indirect - 1 -> 0 .. Blocks]
    /\ content \in [1 .. Blocks -> [0 .. BlockSize - 1 -> Byte]]
    /\ bits \subseteq 0 .. Blocks - 1

\* The bits are those of the blocks at the file's places, one for each.
PlacesInv ==
    /\ \A k, l \in Place : BlockAt(k) # 0 /\ BlockAt(k) = BlockAt(l) => k = l
    /\ \A i \in 0 .. Blocks - 1 :
          i \in bits <=> i = 0 \/ \E k \in Place : BlockAt(k) = i + 1

\* The inductive invariant.  A table that is made later shows the entries that
\* were there before, so they must all be 0.
FileInv == /\ FileTypes
           /\ sect[Direct] = 0 => \A k \in 0 .. Indirect - 1 : tab[k] = 0
           /\ PlacesInv
           /\ IO!ReadIsExact

-----------------------------------------------------------------------------
(* Arithmetic of bytes and blocks *)

\* A byte's block and its place in it
LEMMA DivIs ==
  ASSUME NEW m \in Nat \ {0}, NEW x \in Nat
  PROVE  /\ x \div m \in Nat /\ x % m \in 0 .. m - 1
         /\ (x \div m) * m + (x % m) = x
  OBVIOUS

\* A later byte is in no earlier block.
LEMMA DivMono ==
  ASSUME NEW m \in Nat \ {0}, NEW x \in Nat, NEW y \in Nat, x =< y
  PROVE  x \div m =< y \div m
<1>1. /\ x \div m \in Nat /\ y \div m \in Nat /\ x % m \in 0 .. m - 1 /\ y % m \in 0 .. m - 1
      /\ (x \div m) * m + (x % m) = x /\ (y \div m) * m + (y % m) = y
  BY DivIs
<1> DEFINE p == x \div m
           q == y \div m
<1>2. SUFFICES ASSUME q + 1 =< p PROVE FALSE
  BY <1>1
<1>3. /\ p \in Nat /\ q \in Nat
      /\ p * m \in Int /\ q * m \in Int
      /\ p * m =< x /\ y < q * m + m
  BY <1>1
<1> HIDE DEF p, q
<1>4. (q + 1) * m =< p * m
  BY <1>2, <1>3
<1>5. (q + 1) * m = q * m + m
  BY <1>3
<1> QED BY <1>3, <1>4, <1>5

LEMMA DivBound ==
  ASSUME NEW m \in Nat \ {0}, NEW d \in Nat, NEW x \in 0 .. m * d - 1
  PROVE  x \div m \in 0 .. d - 1
  OBVIOUS

-----------------------------------------------------------------------------
(* The blocks a write takes *)

\* The instance has its own Cardinality.
LEMMA CardinalityIO == \A S : IO!Cardinality(S) = Cardinality(S)
  BY DEF IO!Cardinality, Cardinality

\* The clear bits up to i
Clear(i) == {j \in 0 .. i : j \notin bits}

\* One bit further there is at most one clear bit more.
LEMMA ClearGrows ==
  ASSUME NEW i \in Nat
  PROVE  /\ IsFiniteSet(Clear(i)) /\ Cardinality(Clear(i)) \in Nat
         /\ i # 0 => Cardinality(Clear(i)) =
                       Cardinality(Clear(i - 1)) + IF i \in bits THEN 0 ELSE 1
<1>1. ASSUME NEW k \in Nat PROVE IsFiniteSet(Clear(k)) /\ Cardinality(Clear(k)) \in Nat
  <2>1. IsFiniteSet(0 .. k)
    BY FS_Interval
  <2>2. Clear(k) \in SUBSET (0 .. k)
    BY DEF Clear
  <2>3. IsFiniteSet(Clear(k))
    BY <2>1, <2>2, FS_Subset
  <2> QED BY <2>3, FS_CardinalityType
<1>2. ASSUME i # 0, i \in bits
      PROVE  Cardinality(Clear(i)) = Cardinality(Clear(i - 1)) + 0
  <2>1. Clear(i) = Clear(i - 1)
    BY <1>2 DEF Clear
  <2>2. i - 1 \in Nat
    BY <1>2
  <2> QED BY <1>1, <2>1, <2>2
<1>3. ASSUME i # 0, i \notin bits
      PROVE  Cardinality(Clear(i)) = Cardinality(Clear(i - 1)) + 1
  <2>1. Clear(i) = Clear(i - 1) \cup {i} /\ i \notin Clear(i - 1)
    BY <1>3 DEF Clear
  <2>2. i - 1 \in Nat
    BY <1>3
  <2>3. IsFiniteSet(Clear(i - 1))
    BY <1>1, <2>2
  <2> HIDE DEF Clear
  <2>4. Cardinality(Clear(i - 1) \cup {i}) = Cardinality(Clear(i - 1)) + 1
    BY <2>1, <2>3, FS_AddElement
  <2> QED BY <2>1, <2>4
<1> QED BY <1>1, <1>2, <1>3

\* As many blocks are free as bits are clear.
LEMMA ClearAll ==
  ASSUME IO!FileShape, FileTypes
  PROVE  /\ Cardinality(bits) \in Nat
         /\ Cardinality(Clear(Blocks - 1)) = Blocks - Cardinality(bits)
<1>1. Blocks \in Nat \ {0} /\ bits \subseteq 0 .. Blocks - 1
  BY DEF IO!FileShape, FileTypes
<1>2. IsFiniteSet(0 .. Blocks - 1) /\ Cardinality(0 .. Blocks - 1) = Blocks
  <2>1. 0 \in Int /\ Blocks - 1 \in Int /\ ~(0 > Blocks - 1) /\ (Blocks - 1) - 0 + 1 = Blocks
    BY <1>1
  <2> QED BY <2>1, FS_Interval
<1>3. IsFiniteSet(bits)
  BY <1>1, <1>2, FS_Subset
<1>4. Cardinality((0 .. Blocks - 1) \ bits) = Blocks - Cardinality((0 .. Blocks - 1) \cap bits)
  BY <1>2, FS_Difference
<1>5. (0 .. Blocks - 1) \cap bits = bits /\ (0 .. Blocks - 1) \ bits = Clear(Blocks - 1)
  BY <1>1 DEF Clear
<1> QED BY <1>3, <1>4, <1>5, FS_CardinalityType

\* block_bitmap_alloc gives out, for the n-th time, the n-th free block.
LEMMA NthFreeIs ==
  ASSUME IO!FileShape, FileTypes, NEW n \in Nat \ {0}, n =< Blocks - Cardinality(bits)
  PROVE  /\ IO!NthFree(n) \in 1 .. Blocks
         /\ IO!NthFree(n) - 1 \notin bits
         /\ Cardinality(Clear(IO!NthFree(n) - 1)) = n
<1> DEFINE S == {i \in 0 .. Blocks - 1 : n =< Cardinality(Clear(i))}
           m == Least(S)
<1>1. Blocks \in Nat \ {0}
  BY DEF IO!FileShape
<1>2. S \subseteq Nat /\ S # {}
  <2>1. Blocks - 1 \in S
    BY <1>1, ClearAll
  <2> QED BY <2>1
<1>3. m \in S /\ \A j \in S : m =< j
  <2> HIDE DEF S
  <2> QED BY <1>2, LeastOf
<1> HIDE DEF m
<1>4. m \in 0 .. Blocks - 1 /\ n =< Cardinality(Clear(m)) /\ Cardinality(Clear(m)) \in Nat
  BY <1>3, ClearGrows
<1>5. m \notin bits /\ Cardinality(Clear(m)) = n
  <2>1. CASE m = 0
    <3>1. Clear(m) = IF 0 \in bits THEN {} ELSE {0}
      BY <2>1 DEF Clear
    <3>2. Cardinality({}) = 0 /\ Cardinality({0}) = 1
      BY FS_EmptySet, FS_Singleton
    <3>3. 0 \notin bits
      BY <1>4, <3>1, <3>2
    <3> QED BY <1>4, <2>1, <3>1, <3>2, <3>3
  <2>2. CASE m # 0
    <3>1. m - 1 \in 0 .. Blocks - 1 /\ m - 1 \in Nat
      BY <1>1, <1>4, <2>2
    <3>2. m - 1 \notin S
      BY <1>3, <3>1
    <3>3. Cardinality(Clear(m - 1)) < n /\ Cardinality(Clear(m - 1)) \in Nat
      <4>1. Cardinality(Clear(m - 1)) \in Nat
        BY <3>1, ClearGrows
      <4> QED BY <3>1, <3>2, <4>1
    <3>4. Cardinality(Clear(m)) = Cardinality(Clear(m - 1)) + IF m \in bits THEN 0 ELSE 1
      BY <1>4, <2>2, ClearGrows
    <3> QED BY <1>4, <3>3, <3>4
  <2> QED BY <2>1, <2>2
<1> DEFINE P(i) == i \notin bits /\ IO!Cardinality({j \in 0 .. i : j \notin bits}) = n
           c == CHOOSE i \in 0 .. Blocks - 1 : P(i)
<1>6. P(m)
  BY <1>5, CardinalityIO DEF Clear
<1>7. IO!NthFree(n) = 1 + c
  BY DEF IO!NthFree
<1>8. c \in 0 .. Blocks - 1 /\ P(c)
  <2> HIDE DEF P
  <2> QED BY <1>4, <1>6
<1>9. c \in Int /\ (1 + c) - 1 = c
  <2> HIDE DEF c, P
  <2> QED BY <1>1, <1>8
<1>10. c \notin bits /\ Cardinality(Clear(c)) = n
  <2> HIDE DEF c
  <2> QED BY <1>8, CardinalityIO DEF Clear
<1> HIDE DEF c
<1> QED BY <1>1, <1>7, <1>8, <1>9, <1>10

\* What a write of n bytes needs: a block for the table, blocks for the places
\* it touches that have none, and in which order they get them
Table(n) == IO!NeedsTable(n) /\ sect[Direct] = 0
Fresh(n) == {k \in IO!Touched(n) \cap IO!Index : IO!all_blocks[k] = 0}
TableFirst(n) == IF Table(n) THEN 1 ELSE 0
Lba(n, k) == IF k \notin Fresh(n) THEN IO!all_blocks[k]
             ELSE IO!NthFree(TableFirst(n) + IO!Cardinality({j \in Fresh(n) : j =< k}))
Room(n) == /\ IO!Touched(n) \subseteq IO!Index
           /\ ~(TableFirst(n) + IO!Cardinality(Fresh(n)) > Blocks - IO!Cardinality(bits))
New(n) == {Lba(n, k) : k \in Fresh(n)} \cup IF Table(n) THEN {IO!NthFree(1)} ELSE {}
Written(n, v) ==
    /\ Room(n)
    /\ sect' = [k \in 0 .. Direct |->
                   IF k = Direct THEN IF Table(n) THEN IO!NthFree(1) ELSE sect[k]
                   ELSE IF k \in Fresh(n) THEN Lba(n, k) ELSE sect[k]]
    /\ tab' = [k \in 0 .. Indirect - 1 |->
                  IF k + Direct \in Fresh(n) THEN Lba(n, k + Direct) ELSE tab[k]]
    /\ content' = IO!Contents([k \in IO!Touched(n) |-> Lba(n, k)], Fresh(n), n, v)
    /\ bits' = bits \cup {b - 1 : b \in New(n)}
    /\ pos' = pos + n
    /\ size' = IF pos + n > size THEN pos + n ELSE size
    /\ got' = IO!Nothing
    /\ outcome' = outcome

LEMMA WriteIs ==
  ASSUME NEW n, NEW v, IO!file_write(n, v)
  PROVE  /\ pos + n =< IO!MaxSize
         /\ Written(n, v) \/ UNCHANGED <<pos, size, sect, tab, content, bits, got>>
<1>1. pos + n =< IO!MaxSize
  BY DEF IO!file_write
<1>2. CASE Room(n)
  <2> DEFINE lba == [k \in IO!Touched(n) |-> Lba(n, k)]
  <2>1. \A k \in Fresh(n) : lba[k] = Lba(n, k)
    BY DEF Fresh
  <2>2. /\ sect' = [k \in 0 .. Direct |->
                      IF k = Direct THEN IF Table(n) THEN IO!NthFree(1) ELSE sect[k]
                      ELSE IF k \in Fresh(n) THEN lba[k] ELSE sect[k]]
        /\ tab' = [k \in 0 .. Indirect - 1 |->
                     IF k + Direct \in Fresh(n) THEN lba[k + Direct] ELSE tab[k]]
        /\ content' = IO!Contents(lba, Fresh(n), n, v)
    BY <1>2 DEF IO!file_write, Room, Table, Fresh, TableFirst, Lba
  <2>3. bits' = bits \cup {b - 1 : b \in {lba[k] : k \in Fresh(n)}
                                         \cup IF Table(n) THEN {IO!NthFree(1)} ELSE {}}
    BY <1>2 DEF IO!file_write, Room, Table, Fresh, TableFirst, Lba
  <2>4. /\ pos' = pos + n
        /\ size' = IF pos + n > size THEN pos + n ELSE size
        /\ got' = IO!Nothing
        /\ outcome' = outcome
    BY <1>2 DEF IO!file_write, Room, Table, Fresh, TableFirst, Lba
  <2>5. {lba[k] : k \in Fresh(n)} = {Lba(n, k) : k \in Fresh(n)}
    <3> HIDE DEF lba
    <3> QED BY <2>1
  <2>6. bits' = bits \cup {b - 1 : b \in New(n)}
    BY <2>3, <2>5 DEF New
  <2>7. /\ sect' = [k \in 0 .. Direct |->
                      IF k = Direct THEN IF Table(n) THEN IO!NthFree(1) ELSE sect[k]
                      ELSE IF k \in Fresh(n) THEN Lba(n, k) ELSE sect[k]]
        /\ tab' = [k \in 0 .. Indirect - 1 |->
                     IF k + Direct \in Fresh(n) THEN Lba(n, k + Direct) ELSE tab[k]]
    <3> HIDE DEF lba
    <3> QED BY <2>1, <2>2
  <2> QED BY <1>1, <1>2, <2>2, <2>4, <2>6, <2>7 DEF Written
<1>3. CASE ~Room(n)
  BY <1>3 DEF IO!file_write, Room, Table, Fresh, TableFirst, Lba
<1> QED BY <1>1, <1>2, <1>3

\* The blocks a write takes are free and different.
LEMMA NewBlocks ==
  ASSUME IO!FileShape, FileTypes, NEW n \in Nat, Room(n)
  PROVE  /\ \A k \in Fresh(n) : Lba(n, k) \in 1 .. Blocks /\ Lba(n, k) - 1 \notin bits
         /\ \A k, l \in Fresh(n) : Lba(n, k) = Lba(n, l) => k = l
         /\ Table(n) => /\ IO!NthFree(1) \in 1 .. Blocks /\ IO!NthFree(1) - 1 \notin bits
                        /\ \A k \in Fresh(n) : Lba(n, k) # IO!NthFree(1)
<1> DEFINE UpTo(k) == {j \in Fresh(n) : j =< k}
           Nth(k) == TableFirst(n) + Cardinality(UpTo(k))
<1>1. Fresh(n) \subseteq Int /\ IsFiniteSet(Fresh(n)) /\ Cardinality(Fresh(n)) \in Nat
  <2>1. Direct + Indirect - 1 \in Int
    BY DEF IO!FileShape
  <2>2. IsFiniteSet(0 .. Direct + Indirect - 1)
    BY <2>1, FS_Interval
  <2>3. Fresh(n) \in SUBSET (0 .. Direct + Indirect - 1)
    BY DEF Fresh, IO!Index
  <2>4. IsFiniteSet(Fresh(n))
    BY <2>2, <2>3, FS_Subset
  <2> QED BY <2>3, <2>4, FS_CardinalityType
<1>2. TableFirst(n) + Cardinality(Fresh(n)) =< Blocks - Cardinality(bits)
  <2>1. TableFirst(n) \in Nat /\ Cardinality(bits) \in Nat /\ Blocks \in Nat
    BY ClearAll DEF TableFirst, IO!FileShape
  <2>2. ~(TableFirst(n) + Cardinality(Fresh(n)) > Blocks - Cardinality(bits))
    BY CardinalityIO DEF Room
  <2> QED BY <1>1, <2>1, <2>2
<1>3. ASSUME NEW k \in Fresh(n)
      PROVE  /\ Cardinality(UpTo(k)) \in 1 .. Cardinality(Fresh(n))
             /\ \A l \in Fresh(n) : k < l => Cardinality(UpTo(k)) < Cardinality(UpTo(l))
  <2>1. ASSUME NEW l \in Fresh(n)
        PROVE  IsFiniteSet(UpTo(l)) /\ Cardinality(UpTo(l)) \in Nat
                /\ Cardinality(UpTo(l)) =< Cardinality(Fresh(n))
    <3>1. UpTo(l) \in SUBSET Fresh(n)
      OBVIOUS
    <3> QED BY <1>1, <3>1, FS_Subset, FS_CardinalityType
  <2>2. k \in UpTo(k)
    BY <1>1
  <2>3. Cardinality(UpTo(k)) # 0
    <3> HIDE DEF UpTo
    <3> QED BY <2>1, <2>2, FS_EmptySet
  <2>4. ASSUME NEW l \in Fresh(n), k < l PROVE Cardinality(UpTo(k)) < Cardinality(UpTo(l))
    <3>1. UpTo(k) \in SUBSET UpTo(l) /\ l \in UpTo(l) /\ l \notin UpTo(k)
      BY <1>1, <2>4
    <3> HIDE DEF UpTo
    <3>2. /\ Cardinality(UpTo(k)) =< Cardinality(UpTo(l))
          /\ Cardinality(UpTo(l)) = Cardinality(UpTo(k)) => UpTo(l) = UpTo(k)
      BY <2>1, <3>1, FS_Subset
    <3> QED BY <2>1, <3>1, <3>2
  <2> HIDE DEF UpTo
  <2> QED BY <1>1, <2>1, <2>3, <2>4
<1>4. ASSUME NEW k \in Fresh(n) PROVE Lba(n, k) = IO!NthFree(Nth(k))
  BY <1>4, CardinalityIO DEF Lba
<1> HIDE DEF UpTo
<1>5. ASSUME NEW k \in Fresh(n)
      PROVE  /\ Nth(k) \in Nat \ {0} /\ Nth(k) =< Blocks - Cardinality(bits)
             /\ Table(n) => Nth(k) # 1
  <2>1. TableFirst(n) \in {0, 1} /\ (Table(n) => TableFirst(n) = 1)
    BY DEF TableFirst
  <2>2. Blocks - Cardinality(bits) \in Int
    BY ClearAll DEF IO!FileShape
  <2> QED BY <1>1, <1>2, <1>3, <2>1, <2>2
<1>6. ASSUME NEW k \in Fresh(n), NEW l \in Fresh(n), Nth(k) = Nth(l) PROVE k = l
  <2>1. TableFirst(n) \in Nat
    BY DEF TableFirst
  <2>2. Cardinality(UpTo(k)) = Cardinality(UpTo(l))
    BY <1>1, <1>3, <1>6, <2>1
  <2> QED BY <1>1, <1>3, <2>2
<1> HIDE DEF Nth
<1>7. ASSUME NEW k \in Fresh(n)
      PROVE  /\ Lba(n, k) \in 1 .. Blocks /\ Lba(n, k) - 1 \notin bits
             /\ Cardinality(Clear(Lba(n, k) - 1)) = Nth(k)
  BY <1>4, <1>5, NthFreeIs
<1>8. ASSUME Table(n)
      PROVE  /\ IO!NthFree(1) \in 1 .. Blocks /\ IO!NthFree(1) - 1 \notin bits
             /\ Cardinality(Clear(IO!NthFree(1) - 1)) = 1
  <2>1. 1 =< Blocks - Cardinality(bits)
    <3>1. TableFirst(n) = 1 /\ Blocks - Cardinality(bits) \in Int
      BY <1>8, ClearAll DEF TableFirst, IO!FileShape
    <3> QED BY <1>1, <1>2, <3>1
  <2> QED BY <2>1, NthFreeIs
<1>9. ASSUME NEW k \in Fresh(n), NEW l \in Fresh(n), Lba(n, k) = Lba(n, l) PROVE k = l
  BY <1>6, <1>7, <1>9
<1>10. ASSUME Table(n), NEW k \in Fresh(n) PROVE Lba(n, k) # IO!NthFree(1)
  BY <1>5, <1>7, <1>8, <1>10
<1> QED BY <1>7, <1>8, <1>9, <1>10

\* Where the blocks are after a write
LEMMA WritePlaces ==
  ASSUME IO!FileShape, FileInv, NEW n \in Nat, NEW v, Written(n, v)
  PROVE  /\ sect' \in [0 .. Direct -> 0 .. Blocks]
         /\ tab' \in [0 .. Indirect - 1 -> 0 .. Blocks]
         /\ sect'[Direct] = 0 => \A k \in 0 .. Indirect - 1 : tab'[k] = 0
         /\ sect'[Direct] = IF Table(n) THEN IO!NthFree(1) ELSE sect[Direct]
         /\ \A k \in IO!Index : BlockAt(k)' = IF k \in IO!Touched(n) THEN Lba(n, k) ELSE BlockAt(k)
<1>1. /\ Direct \in Nat /\ Indirect \in Nat /\ Blocks \in Nat /\ BlockSize \in Nat \ {0}
      /\ pos \in Nat
      /\ sect \in [0 .. Direct -> 0 .. Blocks] /\ tab \in [0 .. Indirect - 1 -> 0 .. Blocks]
      /\ sect[Direct] = 0 => \A k \in 0 .. Indirect - 1 : tab[k] = 0
  BY DEF FileInv, FileTypes, IO!FileShape
<1>2. /\ sect' = [k \in 0 .. Direct |->
                   IF k = Direct THEN IF Table(n) THEN IO!NthFree(1) ELSE sect[k]
                   ELSE IF k \in Fresh(n) THEN Lba(n, k) ELSE sect[k]]
      /\ tab' = [k \in 0 .. Indirect - 1 |->
                  IF k + Direct \in Fresh(n) THEN Lba(n, k + Direct) ELSE tab[k]]
      /\ Room(n)
  BY DEF Written
<1>3. /\ \A k \in Fresh(n) : Lba(n, k) \in 1 .. Blocks
      /\ Table(n) => IO!NthFree(1) \in 1 .. Blocks
  BY <1>2, NewBlocks DEF FileInv
<1>4. sect' \in [0 .. Direct -> 0 .. Blocks] /\ tab' \in [0 .. Indirect - 1 -> 0 .. Blocks]
  BY <1>1, <1>2, <1>3
<1>5. sect'[Direct] = IF Table(n) THEN IO!NthFree(1) ELSE sect[Direct]
  BY <1>1, <1>2
<1>6. ASSUME sect'[Direct] = 0
      PROVE  /\ sect[Direct] = 0 /\ \A k \in IO!Touched(n) : k < Direct
             /\ \A k \in Fresh(n) : k < Direct
             /\ \A k \in 0 .. Indirect - 1 : tab'[k] = 0
  <2>1. ~Table(n) /\ sect[Direct] = 0
    BY <1>3, <1>5, <1>6
  <2>2. ~((pos + n) \div BlockSize >= Direct) /\ (pos + n) \div BlockSize \in Nat
    <3>1. ~((pos + n) \div BlockSize >= Direct)
      BY <2>1 DEF Table, IO!NeedsTable
    <3>2. pos + n \in Nat
      BY <1>1
    <3>3. (pos + n) \div BlockSize \in Nat
      BY <1>1, <3>2, DivIs
    <3> QED BY <3>1, <3>3
  <2>3. pos \div BlockSize \in Nat
    BY <1>1, DivIs
  <2>4. \A k \in IO!Touched(n) : k < Direct
    BY <1>1, <2>2, <2>3 DEF IO!Touched
  <2>5. \A k \in Fresh(n) : k < Direct
    BY <2>4 DEF Fresh
  <2>6. \A k \in 0 .. Indirect - 1 : k + Direct \notin Fresh(n)
    BY <1>1, <2>5
  <2> QED BY <1>1, <1>2, <2>1, <2>4, <2>5, <2>6
<1>7. ASSUME NEW k \in IO!Index
      PROVE  BlockAt(k)' = IF k \in IO!Touched(n) THEN Lba(n, k) ELSE BlockAt(k)
  <2>0. k \in 0 .. Direct + Indirect - 1 /\ k # -1
    BY <1>1 DEF IO!Index
  <2>1. /\ BlockAt(k) = IF k < Direct THEN sect[k]
                        ELSE IF sect[Direct] = 0 THEN 0 ELSE tab[k - Direct]
        /\ BlockAt(k)' = IF k < Direct THEN sect'[k]
                         ELSE IF sect'[Direct] = 0 THEN 0 ELSE tab'[k - Direct]
        /\ BlockAt(k) = IO!all_blocks[k]
    BY <2>0 DEF BlockAt, IO!all_blocks, IO!Index
  <2>2. k \in Fresh(n) <=> k \in IO!Touched(n) /\ BlockAt(k) = 0
    BY <2>1 DEF Fresh
  <2>3. k \notin Fresh(n) => Lba(n, k) = BlockAt(k)
    BY <2>1 DEF Lba
  <2>4. SUFFICES BlockAt(k)' = IF k \in Fresh(n) THEN Lba(n, k) ELSE BlockAt(k)
    BY <2>2, <2>3
  <2>5. CASE k < Direct
    BY <1>1, <1>2, <2>0, <2>1, <2>5
  <2>6. CASE k >= Direct
    <3>1. k - Direct \in 0 .. Indirect - 1 /\ (k - Direct) + Direct = k /\ ~(k < Direct)
      BY <1>1, <2>0, <2>6
    <3>2. tab'[k - Direct] = IF k \in Fresh(n) THEN Lba(n, k) ELSE tab[k - Direct]
      BY <1>2, <3>1
    <3>3. CASE sect'[Direct] = 0
      <4>1. k \notin Fresh(n) /\ sect[Direct] = 0
        BY <1>6, <3>1, <3>3
      <4> QED BY <2>1, <3>1, <3>3, <4>1
    <3>4. CASE sect'[Direct] # 0
      <4>1. sect[Direct] = 0 => tab[k - Direct] = 0
        BY <1>1, <3>1
      <4> QED BY <2>1, <3>1, <3>2, <3>4, <4>1
    <3> QED BY <3>3, <3>4
  <2> QED BY <1>1, <2>0, <2>5, <2>6
<1> QED BY <1>4, <1>5, <1>6, <1>7

\* No two places share a block after a write, and the bits are those of the blocks.
LEMMA WriteKeepsPlaces ==
  ASSUME IO!FileShape, FileInv, NEW n \in Nat, NEW v, Written(n, v)
  PROVE  PlacesInv' /\ bits' \subseteq 0 .. Blocks - 1
<1>1. /\ Blocks \in Nat \ {0} /\ Direct \in Nat /\ Indirect \in Nat
      /\ PlacesInv /\ FileTypes /\ Room(n)
      /\ bits \subseteq 0 .. Blocks - 1
  BY DEF FileInv, FileTypes, IO!FileShape, Written
<1>2. /\ \A k \in Fresh(n) : Lba(n, k) \in 1 .. Blocks /\ Lba(n, k) - 1 \notin bits
      /\ \A k, l \in Fresh(n) : Lba(n, k) = Lba(n, l) => k = l
      /\ Table(n) => /\ IO!NthFree(1) \in 1 .. Blocks /\ IO!NthFree(1) - 1 \notin bits
                     /\ \A k \in Fresh(n) : Lba(n, k) # IO!NthFree(1)
  BY <1>1, NewBlocks
<1>3. /\ \A k \in Place : k = -1 \/ k \in IO!Index
      /\ \A k \in IO!Index : k \in Place /\ k # -1
      /\ -1 \in Place
  BY <1>1 DEF Place, IO!Index
<1>4. /\ \A k \in IO!Index : BlockAt(k) = IO!all_blocks[k]
      /\ BlockAt(-1) = sect[Direct] /\ BlockAt(-1)' = sect'[Direct]
  BY <1>3 DEF BlockAt
<1>5. Fresh(n) \subseteq IO!Index /\ \A k \in Fresh(n) : BlockAt(k) = 0
  BY <1>4 DEF Fresh
\* The places that get a block
<1> DEFINE Gets == Fresh(n) \cup IF Table(n) THEN {-1} ELSE {}
           Given(k) == IF k = -1 THEN IO!NthFree(1) ELSE Lba(n, k)
<1>6. /\ Gets \subseteq Place
      /\ \A k \in Place : BlockAt(k)' = IF k \in Gets THEN Given(k) ELSE BlockAt(k)
  <2>1. Gets \subseteq Place
    BY <1>3, <1>5
  <2>2. BlockAt(-1)' = IF -1 \in Gets THEN Given(-1) ELSE BlockAt(-1)
    BY <1>3, <1>4, <1>5, WritePlaces
  <2>3. ASSUME NEW k \in IO!Index
        PROVE  BlockAt(k)' = IF k \in Gets THEN Given(k) ELSE BlockAt(k)
    <3>1. BlockAt(k)' = IF k \in IO!Touched(n) THEN Lba(n, k) ELSE BlockAt(k)
      BY WritePlaces
    <3>2. k \in Gets <=> k \in Fresh(n)
      BY <1>3
    <3>3. k \notin Fresh(n) => Lba(n, k) = BlockAt(k)
      BY <1>4 DEF Lba
    <3>4. k \in Fresh(n) => k \in IO!Touched(n)
      BY DEF Fresh
    <3> QED BY <1>3, <3>1, <3>2, <3>3, <3>4
  <2> QED BY <1>3, <2>1, <2>2, <2>3
<1>7. /\ \A k \in Gets : Given(k) \in 1 .. Blocks /\ Given(k) - 1 \notin bits
      /\ \A k, l \in Gets : Given(k) = Given(l) => k = l
  BY <1>2, <1>3, <1>5
<1>8. \A k \in Gets : BlockAt(k) = 0
  <2>1. Table(n) => BlockAt(-1) = 0
    BY <1>4 DEF Table
  <2> QED BY <1>5, <2>1
<1>9. bits' = bits \cup {Given(k) - 1 : k \in Gets}
  <2>1. New(n) = {Given(k) : k \in Gets}
    BY <1>3, <1>5 DEF New
  <2>2. bits' = bits \cup {b - 1 : b \in New(n)}
    BY DEF Written
  <2> HIDE DEF Gets, Given
  <2> QED BY <2>1, <2>2
<1> HIDE DEF Gets, Given
<1>10. bits' \subseteq 0 .. Blocks - 1
  <2>1. \A k \in Gets : Given(k) - 1 \in 0 .. Blocks - 1
    BY <1>1, <1>7
  <2> QED BY <1>1, <1>9, <2>1
<1>11. \A k \in Place : BlockAt(k) \in 0 .. Blocks
  BY <1>1, <1>3 DEF FileTypes, BlockAt, IO!all_blocks, IO!Index
<1>12. ASSUME NEW k \in Place, NEW g \in Gets, k \notin Gets PROVE BlockAt(k) # Given(g)
  <2>1. Given(g) - 1 \in 0 .. Blocks - 1 /\ Given(g) = (Given(g) - 1) + 1
        /\ Given(g) - 1 \notin bits
    BY <1>1, <1>7
  <2>2. ~ \E l \in Place : BlockAt(l) = (Given(g) - 1) + 1
    BY <1>1, <2>1 DEF PlacesInv
  <2> QED BY <2>1, <2>2
<1>13. ASSUME NEW k \in Place, NEW l \in Place, BlockAt(k)' # 0, BlockAt(k)' = BlockAt(l)'
       PROVE  k = l
  BY <1>1, <1>6, <1>7, <1>12, <1>13 DEF PlacesInv
<1>14. ASSUME NEW i \in 0 .. Blocks - 1
       PROVE  i \in bits' <=> i = 0 \/ \E k \in Place : BlockAt(k)' = i + 1
  <2>1. i \in bits <=> i = 0 \/ \E k \in Place : BlockAt(k) = i + 1
    BY <1>1 DEF PlacesInv
  <2>2. \A k \in Place : BlockAt(k) = i + 1 => BlockAt(k)' = i + 1
    BY <1>1, <1>6, <1>8
  <2>3. \A k \in Place : BlockAt(k)' = i + 1 =>
            BlockAt(k) = i + 1 \/ \E g \in Gets : i = Given(g) - 1
    BY <1>6, <1>7
  <2>4. \A g \in Gets : i = Given(g) - 1 => BlockAt(g)' = i + 1 /\ g \in Place
    BY <1>6, <1>7
  <2> QED BY <1>9, <2>1, <2>2, <2>3, <2>4
<1> QED BY <1>10, <1>13, <1>14 DEF PlacesInv

-----------------------------------------------------------------------------
(* The bytes a write leaves *)

\* Byte x of the file is byte x % BlockSize of block x \div BlockSize.
LEMMA ByteIndex ==
  ASSUME IO!FileShape, NEW x \in 0 .. IO!MaxSize - 1
  PROVE  /\ x \in Nat
         /\ x \div BlockSize \in IO!Index
         /\ x % BlockSize \in 0 .. BlockSize - 1
         /\ (x \div BlockSize) * BlockSize + (x % BlockSize) = x
<1>1. BlockSize \in Nat \ {0} /\ Direct + Indirect \in Nat
  BY DEF IO!FileShape
<1>2. x \in 0 .. BlockSize * (Direct + Indirect) - 1
  BY DEF IO!MaxSize
<1>3. x \in Nat
  BY <1>2
<1>4. x \div BlockSize \in 0 .. (Direct + Indirect) - 1
  BY <1>1, <1>2, DivBound
<1>5. x \div BlockSize \in IO!Index
  BY <1>1, <1>4 DEF IO!Index, IO!FileShape
<1> QED BY <1>1, <1>3, <1>5, DivIs

\* A write touches the blocks of all the bytes it writes.
LEMMA BytesTouched ==
  ASSUME IO!FileShape, pos \in Nat, NEW n \in Nat, NEW x \in pos .. pos + n - 1
  PROVE  x \div BlockSize \in IO!Touched(n)
<1>1. BlockSize \in Nat \ {0} /\ x \in Nat /\ pos + n \in Nat /\ pos =< x /\ x =< pos + n
  BY DEF IO!FileShape
<1>2. /\ pos \div BlockSize \in Nat /\ x \div BlockSize \in Nat /\ (pos + n) \div BlockSize \in Nat
      /\ pos \div BlockSize =< x \div BlockSize
      /\ x \div BlockSize =< (pos + n) \div BlockSize
  BY <1>1, DivIs, DivMono
<1> QED BY <1>2 DEF IO!Touched

\* What the blocks hold: each touched block belongs to one place.
LEMMA WriteContents ==
  ASSUME IO!FileShape, FileInv, NEW n \in Nat, NEW v \in Byte, Written(n, v)
  PROVE  /\ content' \in [1 .. Blocks -> [0 .. BlockSize - 1 -> Byte]]
         /\ \A k \in IO!Touched(n), o \in 0 .. BlockSize - 1 :
               content'[Lba(n, k)][o] =
                  IF k * BlockSize + o \in pos .. pos + n - 1 THEN v
                  ELSE IF k \in Fresh(n) THEN 0 ELSE content[Lba(n, k)][o]
         /\ \A b \in 1 .. Blocks :
               (\A k \in IO!Touched(n) : Lba(n, k) # b) => content'[b] = content[b]
<1> DEFINE lba == [k \in IO!Touched(n) |-> Lba(n, k)]
           HolderOf(b) == CHOOSE j \in DOMAIN lba : lba[j] = b
           Has(b) == \E k \in DOMAIN lba : lba[k] = b
<1>1. /\ content \in [1 .. Blocks -> [0 .. BlockSize - 1 -> Byte]]
      /\ Blocks \in Nat /\ BlockSize \in Nat \ {0} /\ 0 \in Byte
      /\ IO!Touched(n) \subseteq IO!Index
  BY DEF FileInv, FileTypes, IO!FileShape, Written, Room
<1>2. content' = [b \in 1 .. Blocks |->
                    IF Has(b)
                    THEN [o \in 0 .. BlockSize - 1 |->
                            IF HolderOf(b) * BlockSize + o \in pos .. pos + n - 1 THEN v
                            ELSE IF HolderOf(b) \in Fresh(n) THEN 0 ELSE content[b][o]]
                    ELSE content[b]]
  BY DEF Written, IO!Contents, IO!Block
<1>3. DOMAIN lba = IO!Touched(n) /\ \A k \in IO!Touched(n) : lba[k] = Lba(n, k)
  OBVIOUS
<1> HIDE DEF lba
<1>4. \A k \in IO!Touched(n) : BlockAt(k)' = Lba(n, k) /\ k \in Place
  <2>1. IO!Index \subseteq Place
    BY DEF IO!Index, Place, IO!FileShape
  <2> QED BY <1>1, <2>1, WritePlaces
<1>5. \A k \in IO!Touched(n) : Lba(n, k) \in 1 .. Blocks
  <2>1. \A k \in Fresh(n) : Lba(n, k) \in 1 .. Blocks
    BY NewBlocks DEF FileInv, Written
  <2>2. \A k \in IO!Touched(n) : k \notin Fresh(n) => IO!all_blocks[k] # 0
                                                     /\ Lba(n, k) = IO!all_blocks[k]
    BY <1>1 DEF Fresh, Lba
  <2>3. \A k \in IO!Index : IO!all_blocks[k] \in 0 .. Blocks
    BY <1>1 DEF FileInv, FileTypes, IO!all_blocks, IO!Index, IO!FileShape
  <2> QED BY <1>1, <2>1, <2>2, <2>3
<1>6. \A k, l \in IO!Touched(n) : Lba(n, k) = Lba(n, l) => k = l
  <2>1. PlacesInv'
    BY WriteKeepsPlaces
  <2>2. \A k, l \in Place : BlockAt(k)' # 0 /\ BlockAt(k)' = BlockAt(l)' => k = l
    BY <2>1 DEF PlacesInv
  <2> QED BY <1>1, <1>4, <1>5, <2>2
<1>7. ASSUME NEW k \in IO!Touched(n) PROVE Has(Lba(n, k)) /\ HolderOf(Lba(n, k)) = k
  BY <1>3, <1>6
<1>8. ASSUME NEW b \in 1 .. Blocks, \A k \in IO!Touched(n) : Lba(n, k) # b PROVE ~Has(b)
  BY <1>3, <1>8
<1> HIDE DEF HolderOf, Has
<1>9. content' \in [1 .. Blocks -> [0 .. BlockSize - 1 -> Byte]]
  BY <1>1, <1>2
<1>10. ASSUME NEW k \in IO!Touched(n), NEW o \in 0 .. BlockSize - 1
       PROVE  content'[Lba(n, k)][o] =
                  IF k * BlockSize + o \in pos .. pos + n - 1 THEN v
                  ELSE IF k \in Fresh(n) THEN 0 ELSE content[Lba(n, k)][o]
  BY <1>2, <1>5, <1>7
<1>11. ASSUME NEW b \in 1 .. Blocks, \A k \in IO!Touched(n) : Lba(n, k) # b
       PROVE  content'[b] = content[b]
  BY <1>2, <1>8, <1>11
<1> QED BY <1>9, <1>10, <1>11

\* The bytes of the file after a write of v at pos
LEMMA WriteBytes ==
  ASSUME IO!FileShape, FileInv, NEW n \in Nat, NEW v \in Byte, Written(n, v),
         NEW x \in 0 .. IO!MaxSize - 1
  PROVE  IF x \in pos .. pos + n - 1 THEN IO!ByteAt(x)' = v
         ELSE \/ IO!ByteAt(x)' = IO!ByteAt(x)
              \/ IO!ByteAt(x) = Hole /\ IO!ByteAt(x)' = 0
<1> DEFINE k == x \div BlockSize
           o == x % BlockSize
<1>1. k \in IO!Index /\ o \in 0 .. BlockSize - 1 /\ k * BlockSize + o = x /\ x \in Nat
  BY ByteIndex
<1>2. k \in Place /\ k # -1 /\ IO!Index \subseteq Place /\ -1 \notin IO!Index
  BY <1>1 DEF Place, IO!Index, IO!FileShape
<1>3. /\ IO!ByteAt(x) = IF BlockAt(k) = 0 THEN Hole ELSE content[BlockAt(k)][o]
      /\ IO!ByteAt(x)' = IF BlockAt(k)' = 0 THEN Hole ELSE content'[BlockAt(k)'][o]
  BY <1>2 DEF IO!ByteAt, BlockAt
<1>4. pos \in Nat /\ IO!Touched(n) \subseteq IO!Index /\ PlacesInv'
  BY WriteKeepsPlaces DEF FileInv, FileTypes, Written, Room
<1> HIDE DEF k, o
<1>5. /\ \A l \in IO!Touched(n) : BlockAt(l)' = Lba(n, l)
      /\ k \notin IO!Touched(n) => BlockAt(k)' = BlockAt(k)
  BY <1>1, <1>4, WritePlaces
<1>6. BlockAt(k) = IO!all_blocks[k] /\ BlockAt(k) \in 0 .. Blocks
  <2>1. BlockAt(k) = IO!all_blocks[k]
    BY <1>2 DEF BlockAt
  <2>2. IO!all_blocks[k] \in 0 .. Blocks
    BY <1>1 DEF FileInv, FileTypes, IO!all_blocks, IO!Index, IO!FileShape
  <2> QED BY <2>1, <2>2
<1>7. CASE k \in IO!Touched(n)
  <2>1. content'[Lba(n, k)][o] = IF x \in pos .. pos + n - 1 THEN v
                                 ELSE IF k \in Fresh(n) THEN 0 ELSE content[Lba(n, k)][o]
    BY <1>1, <1>7, WriteContents
  <2>2. /\ k \in Fresh(n) <=> BlockAt(k) = 0
        /\ k \notin Fresh(n) => Lba(n, k) = BlockAt(k)
    BY <1>1, <1>6, <1>7 DEF Fresh, Lba
  <2>3. Lba(n, k) # 0
    <3>1. k \in Fresh(n) => Lba(n, k) \in 1 .. Blocks
      BY NewBlocks DEF FileInv, Written
    <3> QED BY <2>2, <3>1, <1>6 DEF IO!FileShape
  <2>4. IO!ByteAt(x)' = content'[Lba(n, k)][o]
    BY <1>3, <1>5, <1>7, <2>3
  <2> QED BY <1>3, <2>1, <2>2, <2>4
<1>8. CASE k \notin IO!Touched(n)
  <2>1. x \notin pos .. pos + n - 1
    BY <1>4, <1>8, BytesTouched DEF k
  <2>2. IO!ByteAt(x)' = IO!ByteAt(x)
    <3>1. CASE BlockAt(k) = 0
      BY <1>3, <1>5, <1>8, <3>1
    <3>2. CASE BlockAt(k) # 0
      <4>1. \A l \in IO!Touched(n) : Lba(n, l) # BlockAt(k)
        <5>1. \A l \in Place : BlockAt(k)' # 0 /\ BlockAt(k)' = BlockAt(l)' => k = l
          BY <1>2, <1>4 DEF PlacesInv
        <5> QED BY <1>2, <1>4, <1>5, <1>8, <3>2, <5>1
      <4>2. BlockAt(k) \in 1 .. Blocks
        BY <1>6, <3>2 DEF IO!FileShape
      <4>3. content'[BlockAt(k)] = content[BlockAt(k)]
        BY <4>1, <4>2, WriteContents
      <4> QED BY <1>3, <1>5, <1>8, <4>3
    <3> QED BY <3>1, <3>2
  <2> QED BY <2>1, <2>2
<1> QED BY <1>7, <1>8

-----------------------------------------------------------------------------
(* The invariant, and the refinement of ByteFile *)

LEMMA FileInitInv == IO!FileShape /\ IO!Init => FileInv
<1> SUFFICES ASSUME IO!FileShape, IO!Init PROVE FileInv
  OBVIOUS
<1>1. /\ BlockSize \in Nat \ {0} /\ Blocks \in Nat \ {0} /\ Direct \in Nat /\ Indirect \in Nat
      /\ 0 \in Byte
      /\ pos = 0 /\ size = 0
      /\ sect = [k \in 0 .. Direct |-> 0] /\ tab = [k \in 0 .. Indirect - 1 |-> 0]
      /\ content = [b \in 1 .. Blocks |-> [o \in 0 .. BlockSize - 1 |-> 0]]
      /\ bits = {0} /\ got = IO!Nothing
  BY DEF IO!FileShape, IO!Init, IO!Block
<1>2. FileTypes
  BY <1>1 DEF FileTypes
<1>3. \A k \in Place : BlockAt(k) = 0
  BY <1>1 DEF Place, BlockAt, IO!all_blocks, IO!Index
<1>4. PlacesInv
  BY <1>1, <1>3 DEF PlacesInv
<1>5. IO!ReadIsExact
  BY <1>1 DEF IO!ReadIsExact, IO!Nothing
<1> QED BY <1>1, <1>2, <1>4, <1>5 DEF FileInv

\* A call that leaves the blocks alone
LEMMA BlocksKept ==
  ASSUME FileInv, UNCHANGED <<size, sect, tab, content, bits>>, pos' \in Nat, IO!ReadIsExact'
  PROVE  FileInv'
<1>1. \A k \in Place : BlockAt(k)' = BlockAt(k)
  BY DEF BlockAt, IO!all_blocks
<1>2. PlacesInv'
  BY <1>1 DEF FileInv, PlacesInv
<1> QED BY <1>2 DEF FileInv, FileTypes

\* What file_read returns: the bytes of the file, unless its last block is the
\* first of the indirect ones.
LEMMA ReadReturns ==
  ASSUME IO!FileShape, FileInv, NEW n \in Nat, IO!file_read(n)
  PROVE  /\ UNCHANGED <<size, sect, tab, content, bits, outcome>>
         /\ pos' \in pos .. size
         /\ IO!ReadIsExact'
<1> DEFINE m == IO!ReadLength(n)
<1>1. pos \in Nat /\ size \in Nat /\ pos =< size
  BY DEF FileInv, FileTypes, IO!file_read
<1>2. m \in Nat /\ pos + m =< size
  BY <1>1 DEF IO!ReadLength
<1>3. /\ pos' = pos + m
      /\ UNCHANGED <<size, sect, tab, content, bits, outcome>>
      /\ got' = [x \in pos .. pos + m - 1 |->
                   IF (pos + m) \div BlockSize = Direct /\ x \div BlockSize = Direct
                   THEN Hole ELSE IO!ByteAt(x)]
  BY DEF IO!file_read
<1> HIDE DEF m
<1>4. ASSUME NEW x PROVE IO!ByteAt(x)' = IO!ByteAt(x)
  BY <1>3 DEF IO!ByteAt, IO!all_blocks
<1>5. ASSUME pos' \div BlockSize # Direct, NEW x \in DOMAIN got'
      PROVE  x < size' /\ got'[x] = IO!ByteAt(x)'
  <2>1. x \in pos .. pos + m - 1
    BY <1>3
  <2>2. got'[x] = IO!ByteAt(x)
    BY <1>3, <1>5, <2>1
  <2> QED BY <1>1, <1>2, <1>3, <1>4, <2>1, <2>2
<1>6. IO!ReadIsExact'
  BY <1>5 DEF IO!ReadIsExact
<1> QED BY <1>1, <1>2, <1>3, <1>6

LEMMA FileStep ==
  ASSUME IO!FileShape, FileInv, [IO!Next]_IO!vars
  PROVE  /\ FileInv'
         /\ [IO!File!Next]_IO!File!fileVars
<1>1. /\ FileTypes /\ pos \in Nat /\ size \in Nat /\ Positions \subseteq Nat /\ Counts \subseteq Nat
      /\ IO!ReadIsExact
  BY DEF FileInv, FileTypes, IO!FileShape
<1> DEFINE data == [x \in 0 .. IO!MaxSize - 1 |-> IO!ByteAt(x)]
\* A call that only moves the position
<1>2. ASSUME UNCHANGED <<size, sect, tab, content, bits>>, pos' \in Nat, got' = IO!Nothing
      PROVE  FileInv' /\ [IO!File!Next]_IO!File!fileVars
  <2>1. IO!ReadIsExact'
    BY <1>2 DEF IO!ReadIsExact, IO!Nothing
  <2>2. FileInv'
    BY <1>2, <2>1, BlocksKept
  <2>3. data' = data
    BY <1>2 DEF IO!ByteAt, IO!all_blocks
  <2>4. IO!File!Seek
    BY <1>2, <2>3 DEF IO!File!Seek
  <2> QED BY <2>2, <2>4 DEF IO!File!Next
<1>3. ASSUME NEW x \in Positions, IO!sys_lseek(x)
      PROVE  FileInv' /\ [IO!File!Next]_IO!File!fileVars
  BY <1>1, <1>2, <1>3 DEF IO!sys_lseek
<1>4. CASE IO!sys_lseek_end
  BY <1>1, <1>2, <1>4 DEF IO!sys_lseek_end
<1>5. ASSUME NEW n \in Counts, NEW v \in Byte, IO!file_write(n, v)
      PROVE  FileInv' /\ [IO!File!Next]_IO!File!fileVars
  <2>0. n \in Nat
    BY <1>1
  <2>1. CASE UNCHANGED <<pos, size, sect, tab, content, bits, got>>
    <3>1. IO!ReadIsExact'
      BY <1>1, <2>1 DEF IO!ReadIsExact, IO!ByteAt, IO!all_blocks
    <3>2. FileInv'
      BY <1>1, <2>1, <3>1, BlocksKept
    <3>3. UNCHANGED IO!File!fileVars
      BY <2>1 DEF IO!File!fileVars, IO!ByteAt, IO!all_blocks
    <3> QED BY <3>2, <3>3
  <2>2. CASE Written(n, v)
    <3>1. /\ pos' = pos + n
          /\ size' = IF pos + n > size THEN pos + n ELSE size
          /\ got' = IO!Nothing
      BY <2>2 DEF Written
    <3>2. IO!ReadIsExact'
      BY <3>1 DEF IO!ReadIsExact, IO!Nothing
    <3>3. FileTypes'
      BY <1>1, <2>0, <2>2, <3>1, WritePlaces, WriteContents, WriteKeepsPlaces DEF FileTypes
    <3>4. FileInv'
      BY <2>0, <2>2, <3>2, <3>3, WritePlaces, WriteKeepsPlaces DEF FileInv
    <3>5. IO!File!Write
      <4>1. pos + n =< IO!MaxSize
        BY <1>5, WriteIs
      <4>2. n \in 0 .. IO!MaxSize - pos /\ IO!MaxSize \in Nat
        <5>1. IO!MaxSize \in Nat
          BY DEF IO!MaxSize, IO!FileShape
        <5> QED BY <1>1, <2>0, <4>1, <5>1
      <4>3. \A x \in 0 .. IO!MaxSize - 1 : data[x] = IO!ByteAt(x) /\ data'[x] = IO!ByteAt(x)'
        OBVIOUS
      <4>4. pos .. pos + n - 1 \subseteq 0 .. IO!MaxSize - 1
        BY <1>1, <2>0, <4>1, <4>2
      <4> HIDE DEF data
      <4>5. \A x \in pos .. pos + n - 1 : data'[x] = v
        BY <2>0, <2>2, <4>3, <4>4, WriteBytes
      <4>6. \A x \in (0 .. IO!MaxSize - 1) \ (pos .. pos + n - 1) :
               data'[x] = data[x] \/ (data[x] = Hole /\ data'[x] = 0)
        BY <2>0, <2>2, <4>3, WriteBytes
      <4> QED BY <3>1, <4>2, <4>5, <4>6 DEF IO!File!Write, data
    <3> QED BY <3>4, <3>5 DEF IO!File!Next
  <2> QED BY <1>5, <2>1, <2>2, WriteIs
<1>6. ASSUME NEW n \in Counts, IO!file_read(n)
      PROVE  FileInv' /\ [IO!File!Next]_IO!File!fileVars
  <2>1. /\ UNCHANGED <<size, sect, tab, content, bits, outcome>>
        /\ pos' \in pos .. size
        /\ IO!ReadIsExact'
    BY <1>1, <1>6, ReadReturns
  <2>2. FileInv'
    BY <1>1, <2>1, BlocksKept
  <2>3. data' = data
    BY <2>1 DEF IO!ByteAt, IO!all_blocks
  <2>4. \E m \in 0 .. size - pos : pos' = pos + m
    <3>1. PICK p \in pos .. size : pos' = p
      BY <2>1
    <3>2. p - pos \in 0 .. size - pos /\ p = pos + (p - pos)
      BY <1>1
    <3> QED BY <3>1, <3>2
  <2>5. IO!File!Read
    BY <2>1, <2>3, <2>4 DEF IO!File!Read
  <2> QED BY <2>2, <2>5 DEF IO!File!Next
<1>7. CASE UNCHANGED IO!vars
  <2>1. UNCHANGED <<pos, size, sect, tab, content, bits, got>>
    BY <1>7 DEF IO!vars
  <2>2. IO!ReadIsExact'
    BY <1>1, <2>1 DEF IO!ReadIsExact, IO!ByteAt, IO!all_blocks
  <2>3. FileInv'
    BY <1>1, <2>1, <2>2, BlocksKept
  <2>4. UNCHANGED IO!File!fileVars
    BY <2>1 DEF IO!File!fileVars, IO!ByteAt, IO!all_blocks
  <2> QED BY <2>3, <2>4
<1>8. CASE IO!Stopped
  BY <1>7, <1>8 DEF IO!Stopped
<1> QED BY <1>3, <1>4, <1>5, <1>6, <1>7, <1>8 DEF IO!Next

LEMMA FileInvariant == IO!Spec => []FileInv
<1>1. IO!Init => FileInv
  BY FileAssumption, FileInitInv
<1>2. FileInv /\ [IO!Next]_IO!vars => FileInv'
  BY FileAssumption, FileStep
<1> QED BY <1>1, <1>2, PTL DEF IO!Spec

\* However a file is written, over holes, across the blocks named in the inode and
\* those named in the table: its blocks and the table's are different blocks of
\* the disk, and their bits are the ones that are set.
THEOREM FileBlocksOwned == IO!Spec => []BlocksOwned
<1>1. FileInv => BlocksOwned
  <2> SUFFICES ASSUME FileInv PROVE IO!BlocksOwned
    BY DEF BlocksOwned
  <2> DEFINE pairs == {<<k, IO!all_blocks[k]>> : k \in IO!Index} \cup {<<-1, sect[Direct]>>}
             held == {x \in pairs : x[2] # 0}
  <2>1. /\ Blocks \in Nat \ {0} /\ Direct \in Nat /\ Indirect \in Nat /\ PlacesInv /\ FileTypes
    BY FileAssumption DEF FileInv, IO!FileShape
  <2>2. IO!Index = Place \ {-1} /\ -1 \in Place
    BY <2>1 DEF IO!Index, Place
  <2>3. pairs = {<<k, BlockAt(k)>> : k \in Place}
    BY <2>2 DEF BlockAt
  <2>4. \A k \in Place : BlockAt(k) \in 0 .. Blocks
    BY <2>1, <2>2 DEF FileTypes, BlockAt, IO!all_blocks, IO!Index
  <2> HIDE DEF pairs
  <2>5. ASSUME NEW x \in held, NEW y \in held, x[2] = y[2] PROVE x = y
    <3>1. PICK k \in Place : x = <<k, BlockAt(k)>>
      BY <2>3
    <3>2. PICK l \in Place : y = <<l, BlockAt(l)>>
      BY <2>3
    <3>3. k = l
      BY <2>1, <2>5, <3>1, <3>2 DEF PlacesInv
    <3> QED BY <3>1, <3>2, <3>3
  <2>6. ASSUME NEW i PROVE i \in bits <=> i \in {0} \cup {x[2] - 1 : x \in held}
    <3>1. i \in bits => i \in 0 .. Blocks - 1
      BY <2>1 DEF FileTypes
    <3>2. ASSUME NEW x \in held
          PROVE  /\ x[2] - 1 \in 0 .. Blocks - 1
                 /\ \E k \in Place : BlockAt(k) = (x[2] - 1) + 1
      <4>1. PICK k \in Place : x = <<k, BlockAt(k)>>
        BY <2>3
      <4> QED BY <2>1, <2>4, <4>1
    <3>3. ASSUME i \in 0 .. Blocks - 1, NEW k \in Place, BlockAt(k) = i + 1
          PROVE  <<k, BlockAt(k)>> \in held /\ <<k, BlockAt(k)>>[2] - 1 = i
      BY <2>1, <2>3, <3>3
    <3>4. i \in 0 .. Blocks - 1 => (i \in bits <=> i = 0 \/ \E k \in Place : BlockAt(k) = i + 1)
      BY <2>1 DEF PlacesInv
    <3>5. 0 \in 0 .. Blocks - 1
      BY <2>1
    <3> HIDE DEF held
    <3> QED BY <3>1, <3>2, <3>3, <3>4, <3>5
  <2>7. bits = {0} \cup {x[2] - 1 : x \in held}
    <3> HIDE DEF held
    <3> QED BY <2>6
  <2> QED BY <2>5, <2>7 DEF IO!BlocksOwned, pairs
<1> QED BY <1>1, FileInvariant, PTL

\* A read returns the bytes that were written, no more than the file has, unless
\* its last block is the first of the indirect ones.
THEOREM FileReadIsExact == IO!Spec => []ReadIsExact
<1>1. FileInv => ReadIsExact
  BY DEF FileInv, ReadIsExact
<1> QED BY <1>1, FileInvariant, PTL

\* file_read, file_write and sys_lseek implement a row of bytes: a write changes
\* the bytes it writes and no other, whatever blocks they are in.
THEOREM FileImplementsByteFile == IO!Spec => IsByteFile
<1>1. IO!Init => IO!File!Init
  <2> SUFFICES ASSUME IO!Init PROVE IO!File!Init
    OBVIOUS
  <2>1. \A x \in 0 .. IO!MaxSize - 1 : IO!ByteAt(x) = Hole
    <3> TAKE x \in 0 .. IO!MaxSize - 1
    <3>1. x \div BlockSize \in IO!Index
      BY FileAssumption, ByteIndex
    <3>2. IO!all_blocks[x \div BlockSize] = 0
      BY <3>1, FileAssumption DEF IO!Init, IO!all_blocks, IO!Index, IO!FileShape
    <3> QED BY <3>2 DEF IO!ByteAt
  <2>2. pos = 0 /\ size = 0
    BY DEF IO!Init
  <2> QED BY <2>1, <2>2 DEF IO!File!Init
<1>2. FileInv /\ [IO!Next]_IO!vars => [IO!File!Next]_IO!File!fileVars
  BY FileAssumption, FileStep
<1>3. IO!Spec => IO!File!Spec
  BY <1>1, <1>2, FileInvariant, PTL DEF IO!Spec, IO!File!Spec
<1> QED BY <1>3 DEF IsByteFile, IO!IsByteFile
=============================================================================
