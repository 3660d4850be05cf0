-------------------------------- MODULE Ide --------------------------------
(***************************************************************************)
(* One IDE channel, device/ide.c: disk_read() and disk_write() split a     *)
(* request into commands of at most MaxSectors sectors, the channel lock   *)
(* keeps requests apart, and intr_hd_handler() tells the waiting thread    *)
(* that the disk answered.  Requests come from kernel threads (interrupts  *)
(* on) and from system calls (off); each client makes at most MaxRequests. *)
(*                                                                         *)
(* The disk is external.  A command makes it busy; then it wants the data  *)
(* phase (and interrupts, for a read) or fails; after the data of a write  *)
(* it is busy again and interrupts when it is done.  A command that finds  *)
(* it busy is ignored.  A disk with dev.extra also interrupts for the      *)
(* further sectors of a command, as disks do that answer sector by sector, *)
(* and the interrupt controller keeps such a request until interrupts are  *)
(* on again.                                                               *)
(*                                                                         *)
(* pc[t]: "out" not in a request, "cmd" at set_disk_sector, "done" at the  *)
(* sema_down of disk_done, "poll" at the status of busy_wait, "nap" in its *)
(* mtime_sleep, "data" at read_buffer or write_buffer, "next" at the test  *)
(* of the loop.                                                            *)
(***************************************************************************)
EXTENDS Sync

CONSTANTS Main, First,
          Client,       \* the threads that read and write the disk
          Kernel,       \* those of them that are kernel threads
          ChannelLock, DiskDone,  \* the channel's lock and its semaphore
          MaxSectors,   \* 256 in the source
          Sizes,        \* the sizes of requests, in sectors
          NapTicks,     \* of one mtime_sleep: 1000 in the source
          MaxPolls,     \* the rounds of busy_wait: 300 in the source
          MaxRequests

\* thread_start's ASSERT keeps a thread from being on the ready list twice.
ASSUME IdeAssumption == /\ Main \in Thread \ {Idle}
                        /\ First \in Seq(Thread \ {Idle, Main})
                        /\ \A j, k \in DOMAIN First : First[j] = First[k] => j = k
                        /\ Client \subseteq Thread \ {Idle}
                        /\ Kernel \subseteq Client
                        /\ Sema = {ChannelLock, DiskDone}
                        /\ Lock = {ChannelLock}
                        /\ ChannelLock # DiskDone
                        /\ MaxSectors \in Nat \ {0}
                        /\ Sizes \subseteq Nat \ {0}
                        /\ NapTicks \in Nat \ {0}
                        /\ MaxPolls \in Nat \ {0}
                        /\ MaxRequests \in Nat

VARIABLES expecting_intr,
          pc, kind, sector_cnt, sector_done,  \* the request of each client
          moved,      \* the sectors of the request whose data were moved
          nap,        \* the ticks its mtime_sleep still waits for
          polls,      \* the rounds its busy_wait has done
          requests,   \* requests made by each client
          dev,        \* the disk: its state and the command it works on
          irq         \* the disk's line at the interrupt controller

reqVars == <<pc, kind, sector_cnt, sector_done, moved, nap, polls, requests>>
ideVars == <<expecting_intr, reqVars, dev, irq>>
vars == <<schedVars, syncVars, ideVars>>

Command == [state : {"ready", "busy", "drq", "writing", "failed"},
            by : Client \cup {None}, kind : {"read", "write"},
            first : Nat, size : Nat, extra : BOOLEAN]

Init == /\ SchedInit(Main, First)
        /\ SyncInit
        /\ expecting_intr = FALSE
        /\ pc = [t \in Client |-> "out"]
        /\ kind = [t \in Client |-> "read"]
        /\ sector_cnt = [t \in Client |-> 0]
        /\ sector_done = [t \in Client |-> 0]
        /\ moved = [t \in Client |-> {}]
        /\ nap = [t \in Client |-> 0]
        /\ polls = [t \in Client |-> 0]
        /\ requests = [t \in Client |-> 0]
        /\ dev \in [state : {"ready"}, by : {None}, kind : {"read"},
                    first : {0}, size : {0}, extra : BOOLEAN]
        /\ irq = FALSE

At(t, where) == InCaller(t) /\ pc[t] = where
Jump(t, where) == pc' = [pc EXCEPT ![t] = where]

\* sector_size: at most MaxSectors of what is left
SizeIgnoresDone(t) ==  \* mutant: sector_done is not subtracted
  IF sector_cnt[t] > MaxSectors THEN MaxSectors ELSE sector_cnt[t]

SectorSize(t) ==
  LET rest == sector_cnt[t] - sector_done[t]
  IN  IF rest > MaxSectors THEN MaxSectors ELSE rest

\* The disk's BSY bit
Bsy == dev.state \in {"busy", "writing"}

-----------------------------------------------------------------------------
(* disk_read and disk_write *)

\* The entry, up to lock_acquire: kernel threads come with interrupts on,
\* processes through a system call and with interrupts off.
Request(t, k, n) ==
  /\ At(t, "out")
  /\ requests[t] < MaxRequests
  /\ requests' = [requests EXCEPT ![t] = @ + 1]
  /\ kind' = [kind EXCEPT ![t] = k]
  /\ sector_cnt' = [sector_cnt EXCEPT ![t] = n]
  /\ sector_done' = [sector_done EXCEPT ![t] = 0]
  /\ moved' = [moved EXCEPT ![t] = {}]
  /\ intr' = [intr EXCEPT ![t] = t \in Kernel]
  /\ LockAcquire(t, ChannelLock)
  /\ Jump(t, "cmd")
  /\ UNCHANGED <<cpuVars, idle, expecting_intr, nap, polls, dev, irq>>

\* set_disk_sector and cmd_out, which do not look at BSY: a busy disk ignores
\* the command and goes on with its own.
CmdOut(t) ==
  /\ At(t, "cmd")
  /\ expecting_intr' = TRUE
  /\ dev' = IF Bsy THEN dev
            ELSE [dev EXCEPT !.state = "busy", !.by = t, !.kind = kind[t],
                             !.first = sector_done[t], !.size = SectorSize(t)]
  /\ Jump(t, IF kind[t] = "read" THEN "done" ELSE "poll")
  /\ UNCHANGED <<schedVars, syncVars, irq, kind, sector_cnt, sector_done,
                 moved, nap, polls, requests>>

\* sema_down(&disk_done): before busy_wait for a read, after the data for a write
AwaitDiskDone(t) ==
  /\ At(t, "done")
  /\ SemaDown(t, DiskDone)
  /\ Jump(t, IF kind[t] = "read" THEN "poll" ELSE "next")
  /\ UNCHANGED <<schedVars, expecting_intr, dev, irq, kind, sector_cnt,
                 sector_done, moved, nap, polls, requests>>

\* busy_wait looks at the status: it sleeps while BSY is set, goes on with DRQ,
\* and its "false" without it is answered by PANIC.
PollIgnoresBusy(t) ==  \* mutant: busy_wait returns at once
  /\ At(t, "poll")
  /\ Jump(t, "data")
  /\ UNCHANGED <<schedVars, syncVars, expecting_intr, dev, irq, kind,
                 sector_cnt, sector_done, moved, nap, polls, requests>>

Poll(t) ==
  /\ At(t, "poll")
  /\ \/ /\ Bsy
        /\ nap' = [nap EXCEPT ![t] = NapTicks]
        /\ Jump(t, "nap")
        /\ UNCHANGED <<polls, panicked>>
     \/ /\ dev.state = "drq"
        /\ polls' = [polls EXCEPT ![t] = 0]
        /\ Jump(t, "data")
        /\ UNCHANGED <<nap, panicked>>
     \/ /\ dev.state \in {"ready", "failed"}
        /\ panicked' = TRUE
        /\ UNCHANGED <<nap, polls, pc>>
  /\ UNCHANGED <<cur, status, ready, ticks, intr, idle, syncVars, expecting_intr,
                 dev, irq, kind, sector_cnt, sector_done, moved, requests>>

\* The loop of ticks_to_sleep: it yields, with the interrupts as they are, until
\* the timer has ticked often enough.
Nap(t) == /\ At(t, "nap")
          /\ nap[t] > 0
          /\ ThreadYield
          /\ UNCHANGED <<intr, idle, syncVars, ideVars>>

\* The loop of busy_wait: the next round, or "false" and so PANIC
NapOver(t) ==
  /\ At(t, "nap")
  /\ nap[t] = 0
  /\ IF polls[t] + 1 < MaxPolls
       THEN /\ polls' = [polls EXCEPT ![t] = @ + 1]
            /\ Jump(t, "poll")
            /\ UNCHANGED panicked
       ELSE panicked' = TRUE /\ UNCHANGED <<polls, pc>>
  /\ UNCHANGED <<cur, status, ready, ticks, intr, idle, syncVars, expecting_intr,
                 dev, irq, kind, sector_cnt, sector_done, moved, nap, requests>>

\* read_buffer or write_buffer, and sector_done += sector_size
MoveData(t) ==
  /\ At(t, "data")
  /\ moved' = [moved EXCEPT ![t] = @ \cup
                 (sector_done[t]..sector_done[t] + SectorSize(t) - 1)]
  /\ IF kind[t] = "read"
       THEN /\ dev' = [dev EXCEPT !.state = "ready"]
            /\ Jump(t, "next")
       ELSE /\ dev' = [dev EXCEPT !.state = "writing"]
            /\ Jump(t, "done")
  /\ sector_done' = [sector_done EXCEPT ![t] = @ + SectorSize(t)]
  /\ UNCHANGED <<schedVars, syncVars, expecting_intr, irq, kind, sector_cnt, nap, polls, requests>>

\* The loop test
NextCommand(t) == /\ At(t, "next")
                  /\ sector_done[t] < sector_cnt[t]
                  /\ Jump(t, "cmd")
                  /\ UNCHANGED <<schedVars, syncVars, expecting_intr, dev, irq,
                                 kind, sector_cnt, sector_done, moved, nap, polls,
                                 requests>>

Finish(t) == /\ At(t, "next")
             /\ sector_done[t] >= sector_cnt[t]
             /\ LockRelease(t, ChannelLock)
             /\ Jump(t, "unlock")
             /\ UNCHANGED <<cur, status, ready, ticks, intr, idle, expecting_intr,
                            dev, irq, kind, sector_cnt, sector_done, moved, nap, polls,
                            requests>>

\* lock_release returned: back to the caller, and to interrupts on.  The locals
\* are gone.
Return(t) == /\ At(t, "unlock")
             /\ Jump(t, "out")
             /\ intr' = [intr EXCEPT ![t] = TRUE]
             /\ kind' = [kind EXCEPT ![t] = "read"]
             /\ sector_cnt' = [sector_cnt EXCEPT ![t] = 0]
             /\ sector_done' = [sector_done EXCEPT ![t] = 0]
             /\ moved' = [moved EXCEPT ![t] = {}]
             /\ UNCHANGED <<cpuVars, idle, syncVars, expecting_intr, dev, irq,
                            nap, polls, requests>>

RequestStep(t) == \/ CmdOut(t)
                  \/ AwaitDiskDone(t)
                  \/ Poll(t)
                  \/ Nap(t)
                  \/ NapOver(t)
                  \/ MoveData(t)
                  \/ NextCommand(t)
                  \/ Finish(t)
                  \/ Return(t)
                  \/ SyncStep(t) /\ UNCHANGED ideVars

-----------------------------------------------------------------------------
(* intr_hd_handler, and the disk *)

DiskInterruptAlways ==  \* mutant: expecting_intr is not looked at
  /\ irq
  /\ Interrupt
  /\ irq' = FALSE
  /\ SemaUp(DiskDone)
  /\ expecting_intr' = FALSE
  /\ UNCHANGED <<intr, holder, repeat, op, on, old, reqVars, dev>>

DiskInterruptLost ==  \* mutant: the handler forgets the waiting thread
  /\ irq
  /\ Interrupt
  /\ irq' = FALSE
  /\ expecting_intr' = FALSE
  /\ UNCHANGED <<cpuVars, intr, syncVars, reqVars, dev>>

DiskInterrupt ==
  /\ irq
  /\ Interrupt
  /\ irq' = FALSE
  /\ IF expecting_intr
       THEN expecting_intr' = FALSE /\ SemaUp(DiskDone)
       ELSE UNCHANGED <<expecting_intr, cpuVars, value, waiters>>
  /\ UNCHANGED <<intr, holder, repeat, op, on, old, reqVars, dev>>

\* The busy disk wants the data phase.
DiskWantsData == /\ dev.state = "busy"
                 /\ dev' = [dev EXCEPT !.state = "drq"]
                 /\ irq' = (irq \/ dev.kind = "read")
                 /\ UNCHANGED <<schedVars, syncVars, expecting_intr, reqVars>>

DiskFails == /\ dev.state = "busy"
             /\ dev' = [dev EXCEPT !.state = "failed"]
             /\ irq' = TRUE
             /\ UNCHANGED <<schedVars, syncVars, expecting_intr, reqVars>>

DiskWrote == /\ dev.state = "writing"
             /\ dev' = [dev EXCEPT !.state = "ready"]
             /\ irq' = TRUE
             /\ UNCHANGED <<schedVars, syncVars, expecting_intr, reqVars>>

\* An interrupt for a further sector of the command
DiskExtraIrq == /\ dev.extra
                /\ dev.size > 1
                /\ dev.state \in {"ready", "writing"}
                /\ irq' = TRUE
                /\ UNCHANGED <<schedVars, syncVars, expecting_intr, reqVars, dev>>

DiskAnswers == DiskWantsData \/ DiskFails \/ DiskWrote

-----------------------------------------------------------------------------
Yield(t) == /\ InCaller(t)
            /\ t \in Client => pc[t] = "out"
            /\ ThreadYield
            /\ UNCHANGED <<intr, idle, syncVars, ideVars>>

\* intr_timer_handler: the global ticks, against which ticks_to_sleep waits
Tick == /\ TimerInterrupt
        /\ nap' = [t \in Client |-> IF nap[t] = 0 THEN 0 ELSE nap[t] - 1]
        /\ UNCHANGED <<syncVars, expecting_intr, pc, kind, sector_cnt, sector_done,
                       moved, polls, requests, dev, irq>>

IdleStep == (IdleBlock \/ IdleHalt) /\ UNCHANGED <<syncVars, ideVars>>

Next == \/ \E t \in Client : \/ \E k \in {"read", "write"}, n \in Sizes : Request(t, k, n)
                             \/ RequestStep(t)
        \/ DiskInterrupt
        \/ DiskAnswers
        \/ DiskExtraIrq
        \/ \E t \in Thread \ {Idle} : Yield(t)
        \/ Tick
        \/ IdleStep
        \/ PanicSpin /\ UNCHANGED <<syncVars, ideVars>>

\* Ticks keep coming and the disk answers every command; a disk interrupt
\* that can be taken again and again is taken; a client that gets the CPU
\* again and again executes its request.
Fairness == /\ SF_vars(Tick)
            /\ WF_vars(DiskAnswers)
            /\ SF_vars(DiskInterrupt)
            /\ \A t \in Client : SF_vars(RequestStep(t))

Spec == Init /\ [][Next]_vars /\ Fairness

-----------------------------------------------------------------------------
TypeOK == /\ SchedTypeOK
          /\ SyncTypeOK
          /\ expecting_intr \in BOOLEAN
          /\ pc \in [Client -> {"out", "cmd", "done", "poll", "nap", "data", "next",
                                "unlock"}]
          /\ kind \in [Client -> {"read", "write"}]
          /\ sector_cnt \in [Client -> Sizes \cup {0}]
          /\ sector_done \in [Client -> Nat]
          /\ \A t \in Client : moved[t] \subseteq 0..sector_cnt[t] - 1
          /\ nap \in [Client -> 0..NapTicks]
          /\ polls \in [Client -> 0..MaxPolls - 1]
          /\ requests \in [Client -> 0..MaxRequests]
          /\ dev \in Command
          /\ irq \in BOOLEAN

\* Why busy_wait returns false: the disk failed or stayed busy for all the rounds,
\* or it ignored the command, which was sent while the disk still wrote the data
\* of another.
PanicCause ==
  /\ cur \in Client
  /\ \/ pc[cur] = "poll" /\ dev.state = "failed"
     \/ pc[cur] = "poll" /\ dev.extra /\ dev.state = "ready" /\ dev.kind = "write"
     \/ pc[cur] = "nap" /\ polls[cur] = MaxPolls - 1

\* The ASSERT(value == 0) of sema_up never fails, although interrupts come late,
\* twice or unexpected, and it is busy_wait alone that panics.  A command that
\* is ignored happens only with a disk that interrupts for further sectors: such
\* an interrupt ends the wait of a write early.
PanicOnlyInBusyWait ==
  /\ expecting_intr => value[DiskDone] = 0
  /\ panicked => PanicCause

\* The data phase a request enters is that of its own command, for the sectors
\* it is at: no other request got between its command and its data.
DataIsOwn ==
  \A t \in Client : pc[t] = "data" =>
    /\ dev.state = "drq" /\ dev.by = t /\ dev.kind = kind[t]
    /\ dev.first = sector_done[t] /\ dev.size = SectorSize(t)

\* A request that returns has moved all its sectors, and none beyond.
MovesWholeRequest ==
  \A t \in Client : pc[t] = "unlock" => moved[t] = 0..sector_cnt[t] - 1

\* Every request returns, or busy_wait panics: no interleaving of commands, late
\* interrupts, naps and lock hand-overs loses a wake-up.  A nap with interrupts off
\* ends because main() is always ready and yields with interrupts on: without such
\* a thread it would last for ever when the other clients sleep.
RequestReturns ==
  \A t \in Client : pc[t] # "out" ~> (pc[t] = "out" \/ panicked)
=============================================================================
