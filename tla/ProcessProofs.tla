--------------------------- MODULE ProcessProofs ---------------------------
(***************************************************************************)
(* fork, wait and exit for every number of processes and of pids: no exit  *)
(* looks a parent up in vain, no pid is lost or used twice, no process     *)
(* sleeps in wait for a child that has ended, and the task_structs with    *)
(* their pids implement the tree of processes of Family.                   *)
(***************************************************************************)
EXTENDS Process, SyncProofs, FiniteSetTheorems, SequenceTheorems

-----------------------------------------------------------------------------
(* The lists *)

\* A set of naturals has a least element: the intervals 0 .. j are well-founded.
LEMMA MinIs ==
  ASSUME NEW S, S \subseteq Nat, S # {}
  PROVE  Min(S) \in S /\ \A j \in S : Min(S) =< j
<1> DEFINE R == StrictSubsetOrdering(Nat)
           T == {0 .. j : j \in S}
<1>1. IsWellFoundedOn(R, FiniteSubsetsOf(Nat))
  BY FS_StrictSubsetOrderingWellFounded
<1>2. T \subseteq FiniteSubsetsOf(Nat) /\ T # {}
  <2>1. ASSUME NEW j \in S PROVE 0 .. j \in FiniteSubsetsOf(Nat)
    <3>1. j \in Int /\ 0 \in Int /\ 0 .. j \in SUBSET Nat
      OBVIOUS
    <3>2. IsFiniteSet(0 .. j)
      BY <3>1, FS_Interval
    <3> QED BY <3>1, <3>2 DEF FiniteSubsetsOf
  <2> QED BY <2>1
<1>3. PICK X \in T : \A Y \in T : ~(<<Y, X>> \in R)
  <2> HIDE DEF R, T
  <2> QED BY <1>1, <1>2, WFMin
<1>4. PICK x \in S : X = 0 .. x
  OBVIOUS
<1>5. ASSUME NEW y \in S PROVE x =< y
  <2>1. SUFFICES ASSUME y < x PROVE FALSE
    OBVIOUS
  <2>2. 0 .. y \subseteq 0 .. x /\ 0 .. y # 0 .. x
    <3>1. x \in 0 .. x /\ x \notin 0 .. y
      BY <2>1
    <3> QED BY <2>1, <3>1
  <2>3. 0 .. y \in SUBSET Nat /\ 0 .. x \in SUBSET Nat
    OBVIOUS
  <2>4. <<0 .. y, X>> \in R
    BY <1>4, <2>2, <2>3, Zenon DEF StrictSubsetOrdering
  <2> QED BY <1>3, <2>4
<1> QED BY <1>5 DEF Min

\* list_traversal returns an element that passes, or NULL when none does.
LEMMA TraversalIs ==
  ASSUME all \in Seq(Thread), NEW S
  PROVE  \/ /\ list_traversal(S) \in Thread \cap S
            /\ On(list_traversal(S), all)
         \/ /\ list_traversal(S) = NoThread
            /\ \A u \in S : ~On(u, all)
<1> DEFINE I == {i \in 1 .. Len(all) : all[i] \in S}
           k == SelectInSeq(all, LAMBDA u : u \in S)
<1>1. k = IF I # {} THEN Min(I) ELSE 0
  BY DEF SelectInSeq
<1>2. list_traversal(S) = IF k = 0 THEN NoThread ELSE all[k]
  BY DEF list_traversal
<1>3. CASE I = {}
  <2>1. k = 0 /\ list_traversal(S) = NoThread
    <3> HIDE DEF k, I
    <3> QED BY <1>1, <1>2, <1>3
  <2> QED BY <1>3, <2>1 DEF On
<1>4. CASE I # {}
  <2>1. I \subseteq Nat
    OBVIOUS
  <2>2. Min(I) \in I
    <3> HIDE DEF I
    <3> QED BY <1>4, <2>1, MinIs
  <2>3. k \in I
    <3> HIDE DEF k, I
    <3> QED BY <1>1, <1>4, <2>2
  <2> HIDE DEF k
  <2> QED BY <1>2, <2>3 DEF On
<1> QED BY <1>3, <1>4

\* list_remove takes one element off its list.
LEMMA RemoveOn ==
  ASSUME NEW q \in Seq(Thread), NEW u, NoTwice(q)
  PROVE  /\ RemoveFirst(q, u) \in Seq(Thread)
         /\ NoTwice(RemoveFirst(q, u))
         /\ \A v : On(v, RemoveFirst(q, u)) <=> On(v, q) /\ v # u
         /\ ~On(u, q) => RemoveFirst(q, u) = q
<1>1. CASE ~On(u, q)
  <2>1. RemoveFirst(q, u) = q
    BY <1>1 DEF RemoveFirst, On
  <2> QED BY <1>1, <2>1 DEF On
<1>2. CASE On(u, q)
  <2> DEFINE I == {i \in 1 .. Len(q) : q[i] = u}
             k == Min(I)
  <2>1. I # {} /\ I \subseteq Nat
    BY <1>2 DEF On
  <2>2. k \in I
    <3> HIDE DEF I
    <3> QED BY <2>1, MinIs
  <2>3. RemoveFirst(q, u) = RemoveAt(q, k)
    BY <1>2, <2>1 DEF RemoveFirst, SelectInSeq, On
  <2> HIDE DEF k
  <2> DEFINE r == RemoveAt(q, k)
             n == Len(q)
  <2>4. k \in 1 .. n /\ q[k] = u /\ n \in Nat /\ DOMAIN q = 1 .. n
    BY <2>2
  <2>5. /\ r \in Seq(Thread) /\ Len(r) = n - 1
        /\ \A i \in 1 .. n - 1 : r[i] = IF i < k THEN q[i] ELSE q[i + 1]
    <3> DEFINE x == SubSeq(q, 1, k - 1)
               y == SubSeq(q, k + 1, n)
    <3>1. /\ x \in Seq(Thread) /\ Len(x) = k - 1
          /\ \A i \in 1 .. k - 1 : x[i] = q[i]
      BY <2>4
    <3>2. /\ y \in Seq(Thread) /\ Len(y) = n - k
          /\ \A i \in 1 .. n - k : y[i] = q[k + i]
      <4>1. k + 1 \in Int /\ n \in Int /\ \A i \in k + 1 .. n : q[i] \in Thread
        BY <2>4
      <4>2. /\ y \in Seq(Thread)
            /\ Len(y) = IF k + 1 =< n THEN n - (k + 1) + 1 ELSE 0
            /\ \A i \in 1 .. n - (k + 1) + 1 : y[i] = q[k + 1 + i - 1]
        BY <4>1, SubSeqProperties
      <4> HIDE DEF y
      <4>3. n - (k + 1) + 1 = n - k /\ (~(k + 1 =< n) => n - k = 0)
        <5>1. n \in Int /\ k \in Int /\ k =< n
          BY <2>4
        <5> HIDE DEF n
        <5> QED BY <5>1
      <4>4. \A i \in 1 .. n - k : k + 1 + i - 1 = k + i
        BY <2>4
      <4> QED BY <4>2, <4>3, <4>4
    <3>3. r = x \o y
      BY DEF RemoveAt
    <3> HIDE DEF x, y, r
    <3>4. /\ r \in Seq(Thread) /\ Len(r) = n - 1
          /\ \A i \in 1 .. n - 1 : r[i] = IF i =< k - 1 THEN x[i] ELSE y[i - (k - 1)]
      <4>1. /\ x \o y \in Seq(Thread)
            /\ Len(x \o y) = Len(x) + Len(y)
            /\ \A i \in 1 .. Len(x) + Len(y) :
                  (x \o y)[i] = IF i =< Len(x) THEN x[i] ELSE y[i - Len(x)]
        BY <3>1, <3>2, ConcatProperties
      <4>2. Len(x) + Len(y) = n - 1
        BY <2>4, <3>1, <3>2
      <4> QED BY <3>1, <3>3, <4>1, <4>2
    <3>5. ASSUME NEW i \in 1 .. n - 1, ~(i < k)
          PROVE  i - (k - 1) \in 1 .. n - k /\ k + (i - (k - 1)) = i + 1
      BY <2>4, <3>5
    <3> QED BY <2>4, <3>1, <3>2, <3>4, <3>5
  <2> HIDE DEF r
  <2>6. DOMAIN r = 1 .. n - 1
    BY <2>4, <2>5
  <2>7. \A v : On(v, r) <=> On(v, q) /\ v # u
    <3>1. ASSUME NEW v, On(v, r) PROVE On(v, q) /\ v # u
      <4>1. PICK i \in 1 .. n - 1 : r[i] = v
        BY <2>6, <3>1 DEF On
      <4>2. PICK j \in 1 .. n : j # k /\ q[j] = v
        <5>1. CASE i < k
          <6>1. i \in 1 .. n /\ i # k
            BY <2>4, <5>1
          <6> QED BY <2>5, <4>1, <5>1, <6>1
        <5>2. CASE ~(i < k)
          <6>1. i + 1 \in 1 .. n /\ i + 1 # k
            BY <2>4, <5>2
          <6> QED BY <2>5, <4>1, <5>2, <6>1
        <5> QED BY <5>1, <5>2
      <4>3. On(v, q)
        BY <2>4, <4>2 DEF On
      <4>4. j \in DOMAIN q /\ k \in DOMAIN q /\ q[k] = u
        BY <2>4, <4>2
      <4>5. v # u
        BY <4>2, <4>4 DEF NoTwice
      <4> QED BY <4>3, <4>5
    <3>2. ASSUME NEW v, On(v, q), v # u PROVE On(v, r)
      <4>1. PICK j \in 1 .. n : q[j] = v
        BY <2>4, <3>2 DEF On
      <4>2. PICK i \in 1 .. n - 1 : r[i] = v
        <5>1. CASE j < k
          <6>1. j \in 1 .. n - 1
            BY <2>4, <5>1
          <6> QED BY <2>5, <4>1, <5>1, <6>1
        <5>2. CASE j > k
          <6>1. j - 1 \in 1 .. n - 1 /\ ~(j - 1 < k) /\ j - 1 + 1 = j
            BY <2>4, <5>2
          <6> QED BY <2>5, <4>1, <6>1
        <5> QED BY <2>4, <3>2, <4>1, <5>1, <5>2
      <4> QED BY <2>6, <4>2 DEF On
    <3> QED BY <3>1, <3>2
  <2>8. NoTwice(r)
    <3>1. SUFFICES ASSUME NEW i \in 1 .. n - 1, NEW j \in 1 .. n - 1, r[i] = r[j]
                   PROVE  i = j
      BY <2>6 DEF NoTwice
    <3> DEFINE at(x) == IF x < k THEN x ELSE x + 1
    <3>2. at(i) \in 1 .. n /\ at(j) \in 1 .. n /\ q[at(i)] = q[at(j)]
      BY <2>4, <2>5, <3>1
    <3>3. at(i) = at(j)
      <4> HIDE DEF at
      <4> QED BY <2>4, <3>2 DEF NoTwice
    <3> QED BY <2>4, <3>3
  <2> QED BY <1>2, <2>3, <2>5, <2>7, <2>8 DEF r
<1> QED BY <1>1, <1>2

-----------------------------------------------------------------------------
(* The inductive invariant *)

Boot == {InitProc, Main, Idle}
Exiting == {"exit", "hang"}

\* u has a task_struct, or a fork is filling one in for it.
Making(u) == \E t \in Thread : child[t] = u
Held(u) == status[u] # "NONE" \/ Making(u)

\* thread_all_list holds the task_structs in use.
ListInv == /\ all \in Seq(Thread)
           /\ NoTwice(all)
           /\ \A t \in Thread : On(t, all) <=> status[t] # "NONE"

\* Where each process can be: system calls run with interrupts off, so that
\* nobody sees a process between its wake-up of the parent and its sleep.
Place(t) ==
  /\ intr[t] <=> pc[t] = "user"
  /\ child[t] # NoThread <=> pc[t] = "copy"
  /\ freed[t] # 0 <=> pc[t] = "release"
  /\ status[t] = "NONE" => pc[t] \in {"user", "hang"}
  /\ status[t] = "WAITING" => pc[t] = "wait"
  /\ status[t] = "HANGING" => pc[t] = "hang"
  /\ pc[t] = "hang" => status[t] \in {"NONE", "HANGING", "RUNNING"}
  /\ exit_status[t] # NoCode => status[t] # "NONE" /\ pc[t] \in Exiting
PlaceInv == \A t \in Thread : Place(t)

\* The tasks of the boot are there for good.
BootInv == /\ pid[InitProc] = 1 /\ pid[Main] = 2 /\ pid[Idle] = 3
           /\ \A b \in Boot : ppid[b] = 0 /\ status[b] # "NONE"
           /\ pc[Main] = "user" /\ pc[Idle] = "user"
           /\ pc[InitProc] \notin Exiting

\* What fork fills in is nobody else's, and its parent is the one that forks.
ChildInv ==
  \A t \in Thread : child[t] # NoThread =>
    /\ child[t] \in Thread
    /\ status[child[t]] = "NONE"
    /\ ppid[child[t]] = pid[t]
    /\ \A w \in Thread : child[w] = child[t] => w = t

\* Every marked pid has one holder: a task_struct, or a wait on its way to
\* release_pid.
PidInv ==
  /\ \A u \in Thread : pid[u] # 0 <=> Held(u)
  /\ \A u, v \in Thread : pid[u] # 0 /\ pid[u] = pid[v] => u = v
  /\ \A u, v \in Thread : freed[u] # 0 /\ freed[u] = freed[v] => u = v
  /\ \A u, v \in Thread : pid[u] # 0 => pid[u] # freed[v]
  /\ \A p \in 1..MaxPid : p \in used <=> \E u \in Thread : p \in {pid[u], freed[u]}

\* Whoever is not of the boot has a parent that has not begun to exit.
FamilyInv ==
  \A u \in Thread \ Boot : Held(u) =>
    \E v \in Thread : status[v] # "NONE" /\ pid[v] = ppid[u] /\ pc[v] \notin Exiting

\* A process that sleeps in wait has a child, and none of its children is past
\* the point where it would have woken it.
WaitInv ==
  \A t \in Thread \ Boot : status[t] = "WAITING" =>
    /\ \E u \in Thread : status[u] # "NONE" /\ ppid[u] = pid[t]
    /\ \A u \in Thread : status[u] # "NONE" /\ ppid[u] = pid[t] => pc[u] # "hang"

IInv == /\ TypeOK
        /\ CpuInv
        /\ ListInv
        /\ PlaceInv
        /\ BootInv
        /\ ChildInv
        /\ PidInv
        /\ FamilyInv
        /\ WaitInv

-----------------------------------------------------------------------------
(* What the invariant says of the operators of Process *)

\* thread_all_list walked from its head
LEMMA ListedIs ==
  ASSUME ListInv
  PROVE  /\ Listed \subseteq Thread
         /\ \A t \in Thread : t \in Listed <=> status[t] # "NONE"
         /\ \A t : Children(t) = {u \in Thread : status[u] # "NONE" /\ ppid[u] = pid[t]}
<1>1. \A t : t \in Listed <=> On(t, all)
  BY DEF Listed, ToSet, On
<1>2. \A t : On(t, all) => t \in Thread
  BY DEF ListInv, On
<1> QED BY <1>1, <1>2 DEF ListInv, Children

\* A search of thread_all_list among the processes in use
LEMMA SearchIs ==
  ASSUME ListInv, NEW S, S \subseteq Listed
  PROVE  \/ list_traversal(S) \in Thread \cap S
         \/ list_traversal(S) = NoThread /\ S = {}
<1>1. \A u \in S : On(u, all)
  BY DEF Listed, ToSet, On
<1> QED BY <1>1, TraversalIs DEF ListInv

\* The parent an exit looks up by its pid
LEMMA ParentIs ==
  ASSUME IInv, NEW v \in Thread, status[v] # "NONE", NEW p, pid[v] = p
  PROVE  pid2thread(p) = v
<1>1. v \in Listed /\ Listed \subseteq Thread
  BY ListedIs DEF IInv
<1> DEFINE S == {u \in Listed : pid[u] = p}
<1>2. S \subseteq Listed /\ v \in S
  BY <1>1
<1>3. list_traversal(S) \in Thread \cap S
  <2> HIDE DEF S
  <2> QED BY <1>2, SearchIs DEF IInv
<1>4. pid[v] # 0
  BY DEF IInv, PidInv, Held
<1>5. pid[list_traversal(S)] = pid[v]
  BY <1>3
<1>6. list_traversal(S) = v
  <2> HIDE DEF S
  <2> QED BY <1>3, <1>4, <1>5 DEF IInv, PidInv
<1> QED BY <1>6 DEF pid2thread

\* The process that executes
LEMMA RunningIs ==
  ASSUME IInv, NEW t \in User, Running(t)
  PROVE  /\ t = cur /\ t \in Thread /\ t # Idle /\ t # Main /\ t # NoThread
         /\ status[t] = "RUNNING" /\ panicked = FALSE
  BY ProcessAssumption DEF IInv, CpuInv, RunningIsCurrent, Running, User

\* allocate_pid finds a pid that nobody holds.
LEMMA FreshPid ==
  ASSUME IInv, 1..MaxPid \ used # {}
  PROVE  /\ allocate_pid \in 1..MaxPid \ used
         /\ \A u \in Thread : pid[u] # allocate_pid /\ freed[u] # allocate_pid
<1>1. MaxPid \in Nat
  BY ProcessAssumption
<1> DEFINE S == 1..MaxPid \ used
<1>2. S \subseteq Nat
  BY <1>1
<1>3. Min(S) \in S
  <2> HIDE DEF S
  <2> QED BY <1>2, MinIs DEF S
<1>4. allocate_pid \in S
  BY <1>3 DEF allocate_pid
<1> HIDE DEF allocate_pid
<1> QED BY <1>4 DEF IInv, PidInv

-----------------------------------------------------------------------------
(***************************************************************************)
(* Steps that make no process and end none: the part of the invariant that *)
(* tells who is whose child depends on no more than this.                  *)
(***************************************************************************)
SameNone == \A t \in Thread : status'[t] = "NONE" <=> status[t] = "NONE"
SameExiting == \A t \in Thread : pc'[t] \in Exiting <=> pc[t] \in Exiting

LEMMA StableKeeps ==
  ASSUME IInv, SameNone, SameExiting, UNCHANGED <<all, pid, ppid, child>>,
         pc'[Main] = pc[Main], pc'[Idle] = pc[Idle]
  PROVE  ListInv' /\ BootInv' /\ ChildInv' /\ FamilyInv'
<1> USE ProcessAssumption, SchedAssumption
<1>1. \A u \in Thread : Held(u)' <=> Held(u)
  BY DEF SameNone, Held, Making
<1>2. ListInv'
  BY DEF IInv, ListInv, SameNone
<1>3. BootInv'
  BY DEF IInv, BootInv, SameNone, SameExiting, Boot
<1>4. ChildInv'
  BY DEF IInv, ChildInv, SameNone
<1>5. FamilyInv'
  BY <1>1 DEF IInv, FamilyInv, SameNone, SameExiting
<1> QED BY <1>2, <1>3, <1>4, <1>5

LEMMA PidsStay ==
  ASSUME PidInv, SameNone, UNCHANGED <<pid, child, freed, used>>
  PROVE  PidInv'
<1>1. \A u \in Thread : Held(u)' <=> Held(u)
  BY DEF SameNone, Held, Making
<1>2. UNCHANGED pid /\ UNCHANGED freed /\ UNCHANGED used
  OBVIOUS
<1> QED BY <1>1, <1>2 DEF PidInv

\* The tree of processes is as before.
SameTree ==
  \A t \in Thread :
    /\ status'[t] = "NONE" <=> status[t] = "NONE"
    /\ status'[t] = "HANGING" <=> status[t] = "HANGING"
    /\ status[t] # "NONE" => /\ pc'[t] \in Exiting <=> pc[t] \in Exiting
                             /\ pid'[t] = pid[t] /\ ppid'[t] = ppid[t]

\* The scheduler does its part and the processes stay where they are: nobody
\* is made, ends or goes to sleep in wait.
Drifts(t) == /\ status'[t] = "NONE" <=> status[t] = "NONE"
             /\ status'[t] = "WAITING" => status[t] = "WAITING"
             /\ status'[t] = "HANGING" => status[t] = "HANGING"
             /\ pc[t] = "hang" => status'[t] = status[t]

LEMMA QuietKeeps ==
  ASSUME IInv, CpuInv', UNCHANGED procVars, UNCHANGED intr,
         idle' \in {"block", "woken", "hlt"}, \A t \in Thread : Drifts(t)
  PROVE  IInv'
<1>1. /\ UNCHANGED <<all, pid, ppid, child>> /\ UNCHANGED <<pid, child, freed, used>>
      /\ UNCHANGED pc /\ UNCHANGED exit_status /\ UNCHANGED result
  BY DEF procVars
<1>2. SameNone /\ SameExiting
  BY <1>1 DEF SameNone, SameExiting, Drifts
<1>3. ListInv' /\ BootInv' /\ ChildInv' /\ FamilyInv'
  BY <1>1, <1>2, StableKeeps
<1>4. PidInv'
  BY <1>1, <1>2, PidsStay DEF IInv
<1>5. TypeOK'
  BY <1>1 DEF IInv, TypeOK, SchedTypeOK, CpuInv
<1>6. PlaceInv'
  BY <1>1 DEF IInv, PlaceInv, Place, Drifts
<1>7. WaitInv'
  BY <1>1 DEF IInv, WaitInv, Drifts
<1> QED BY <1>3, <1>4, <1>5, <1>6, <1>7 DEF IInv

LEMMA QuietTree ==
  ASSUME IInv, UNCHANGED procVars, \A t \in Thread : Drifts(t)
  PROVE  SameTree
<1>1. UNCHANGED pid /\ UNCHANGED ppid /\ UNCHANGED pc
  BY DEF procVars
<1>2. \A t \in Thread : status[t] = "HANGING" => pc[t] = "hang"
  BY DEF IInv, PlaceInv, Place
<1> QED BY <1>1, <1>2 DEF SameTree, Drifts

\* schedule() disturbs nobody but the caller.
LEMMA UndisturbedDrifts ==
  ASSUME IInv, CpuInv', NEW t \in Thread, t # Idle => Undisturbed(t),
         pc[t] = "hang" => status[t] # "RUNNING"
  PROVE  Drifts(t)
<1>1. CASE t = Idle
  <2>1. /\ status[t] \in {"RUNNING", "READY", "BLOCKED"}
        /\ status'[t] \in {"RUNNING", "READY", "BLOCKED"}
        /\ pc[t] # "hang"
    BY <1>1 DEF IInv, CpuInv, BootInv
  <2> QED BY <2>1 DEF Drifts
<1>2. CASE t # Idle
  <2>1. pc[t] = "hang" => status[t] \in {"NONE", "HANGING"}
    BY DEF IInv, PlaceInv, Place
  <2> QED BY <1>2, <2>1 DEF Drifts, Undisturbed, Awake
<1> QED BY <1>1, <1>2

LEMMA NapKeeps ==
  ASSUME IInv, NEW t \in User, Nap(t)
  PROVE  IInv' /\ SameTree
<1>1. /\ t = cur /\ t \in Thread /\ t # Idle /\ status[t] = "RUNNING"
      /\ pc[t] \in {"copy", "release", "exit"}
      /\ ThreadBlock("BLOCKED") /\ "BLOCKED" \in Blocking
      /\ UNCHANGED procVars /\ UNCHANGED intr /\ UNCHANGED idle
  BY RunningIs DEF Nap, Blocking
<1>2. CpuInv'
  BY <1>1, BlockKeeps DEF IInv
<1>3. ASSUME NEW u \in Thread PROVE Drifts(u)
  <2>1. CASE u = t
    <3>1. status'[t] = "BLOCKED"
      BY <1>1, BlockStatus DEF IInv
    <3> QED BY <1>1, <2>1, <3>1 DEF Drifts
  <2>2. CASE u # t
    <3>1. u # Idle => Undisturbed(u)
      BY <1>1, <2>2, BlockStatus DEF IInv
    <3>2. status[u] # "RUNNING"
      BY <1>1, <2>2 DEF IInv, CpuInv, RunningIsCurrent
    <3> QED BY <1>2, <3>1, <3>2, UndisturbedDrifts
  <2> QED BY <2>1, <2>2
<1>4. idle' \in {"block", "woken", "hlt"}
  BY <1>1 DEF IInv, TypeOK, SchedTypeOK
<1> QED BY <1>1, <1>2, <1>3, <1>4, QuietKeeps, QuietTree

LEMMA WakeKeeps ==
  ASSUME IInv, NEW u \in User, Wake(u)
  PROVE  IInv' /\ SameTree
<1>1. /\ u \in Thread \ {Idle} /\ status[u] = "BLOCKED" /\ status[u] \in Blocking
      /\ ThreadUnblock(u)
      /\ UNCHANGED procVars /\ UNCHANGED intr /\ UNCHANGED idle
  BY DEF Wake, User, Blocking
<1>2. CpuInv'
  BY <1>1, UnblockKeeps DEF IInv
<1>3. status' = [status EXCEPT ![u] = "READY"]
  BY <1>1, UnblockStatus DEF IInv
<1>4. pc[u] # "hang"
  BY <1>1 DEF IInv, PlaceInv, Place
<1>5. \A t \in Thread : Drifts(t)
  BY <1>1, <1>3, <1>4 DEF Drifts, IInv, CpuInv
<1>6. idle' \in {"block", "woken", "hlt"}
  BY <1>1 DEF IInv, TypeOK, SchedTypeOK
<1> QED BY <1>1, <1>2, <1>5, <1>6, QuietKeeps, QuietTree

LEMMA YieldStepKeeps ==
  ASSUME IInv, Yield
  PROVE  IInv' /\ SameTree
<1>1. /\ cur = Main /\ pc[Main] = "user"
      /\ ThreadYield
      /\ UNCHANGED procVars /\ UNCHANGED intr /\ UNCHANGED idle
  BY DEF Yield, Running, IInv, BootInv
<1>2. CpuInv'
  BY <1>1, YieldKeeps DEF IInv
<1>3. ASSUME NEW t \in Thread PROVE Drifts(t)
  <2>1. t # Idle => Undisturbed(t)
    BY <1>1, YieldStatus DEF IInv
  <2>2. pc[t] = "hang" => status[t] # "RUNNING"
    BY <1>1 DEF IInv, CpuInv, RunningIsCurrent
  <2> QED BY <1>2, <2>1, <2>2, UndisturbedDrifts
<1>4. idle' \in {"block", "woken", "hlt"}
  BY <1>1 DEF IInv, TypeOK, SchedTypeOK
<1> QED BY <1>1, <1>2, <1>3, <1>4, QuietKeeps, QuietTree

LEMMA TickStepKeeps ==
  ASSUME IInv, Tick
  PROVE  IInv' /\ SameTree
<1>1. /\ intr[cur] /\ TimerInterrupt
      /\ UNCHANGED procVars /\ UNCHANGED intr
      /\ idle' = IF cur = Idle /\ idle = "hlt" THEN "block" ELSE idle
  BY DEF Tick, TimerInterrupt, Interrupt
<1>2. CpuInv'
  BY <1>1, TickKeeps DEF IInv
<1>3. ASSUME NEW t \in Thread PROVE Drifts(t)
  <2>1. t # Idle => Undisturbed(t)
    BY <1>1, TickStatus DEF IInv
  <2>2. pc[t] = "hang" => status[t] # "RUNNING"
    <3>1. cur \in Thread /\ pc[cur] = "user"
      BY <1>1 DEF IInv, CpuInv, PlaceInv, Place
    <3>2. status[t] = "RUNNING" => t = cur
      BY DEF IInv, CpuInv, RunningIsCurrent
    <3> QED BY <3>1, <3>2
  <2> QED BY <1>2, <2>1, <2>2, UndisturbedDrifts
<1>4. idle' \in {"block", "woken", "hlt"}
  BY <1>1 DEF IInv, TypeOK, SchedTypeOK
<1> QED BY <1>1, <1>2, <1>3, <1>4, QuietKeeps, QuietTree

LEMMA IdleStepKeeps ==
  ASSUME IInv, IdleStep
  PROVE  IInv' /\ SameTree
<1>1. /\ cur = Idle /\ pc[Idle] = "user"
      /\ UNCHANGED procVars /\ UNCHANGED intr
      /\ idle' \in {"block", "woken", "hlt"}
  BY DEF IdleStep, IdleBlock, IdleHalt, Running, IInv, BootInv
<1>2. \A t \in Thread : pc[t] = "hang" => status[t] # "RUNNING"
  BY <1>1 DEF IInv, CpuInv, RunningIsCurrent
<1>3. CASE IdleBlock
  <2>1. CpuInv'
    BY <1>3, IdleBlockKeeps DEF IInv
  <2>2. \A t \in Thread : t # Idle => Undisturbed(t)
    BY <1>3, IdleBlockStatus DEF IInv
  <2>3. \A t \in Thread : Drifts(t)
    BY <1>2, <2>1, <2>2, UndisturbedDrifts
  <2> QED BY <1>1, <2>1, <2>3, QuietKeeps, QuietTree
<1>4. CASE IdleHalt
  <2>1. UNCHANGED cpuVars /\ UNCHANGED status
    BY <1>4 DEF IdleHalt, cpuVars
  <2>2. CpuInv'
    BY <2>1, CpuInvUnchanged DEF IInv
  <2>3. \A t \in Thread : Drifts(t)
    BY <2>1 DEF Drifts
  <2> QED BY <1>1, <2>2, <2>3, QuietKeeps, QuietTree
<1> QED BY <1>3, <1>4 DEF IdleStep

-----------------------------------------------------------------------------
(* wait and exit, where they only move the process that calls them *)

\* A system call that stays on the CPU and touches the shared state only where
\* its own lemma says.
LEMMA SysWaitKeeps ==
  ASSUME IInv, NEW t \in User, SysWait(t)
  PROVE  IInv' /\ SameTree
<1>1. /\ t \in Thread /\ t # Idle /\ t # Main /\ status[t] = "RUNNING" /\ pc[t] = "user"
      /\ pc' = [pc EXCEPT ![t] = "wait"]
      /\ intr' = [intr EXCEPT ![t] = FALSE]
      /\ UNCHANGED cpuVars /\ UNCHANGED status /\ UNCHANGED <<all, pid, ppid, child>>
      /\ UNCHANGED <<pid, child, freed, used>>
      /\ UNCHANGED exit_status /\ UNCHANGED result /\ UNCHANGED idle
  BY RunningIs DEF SysWait, At, EnterCall, MoveTo, cpuVars
<1>2. pc \in [Thread -> {"user", "copy", "wait", "release", "exit", "hang"}]
      /\ intr \in [Thread -> BOOLEAN]
  BY DEF IInv, TypeOK, SchedTypeOK
<1>3. SameNone /\ SameExiting
  BY <1>1, <1>2 DEF SameNone, SameExiting, Exiting
<1>4. CpuInv'
  BY <1>1, CpuInvUnchanged DEF IInv
<1>5. ListInv' /\ BootInv' /\ ChildInv' /\ FamilyInv'
  BY <1>1, <1>2, <1>3, StableKeeps
<1>6. PidInv'
  BY <1>1, <1>3, PidsStay DEF IInv
<1>7. TypeOK'
  BY <1>1, <1>2, <1>4 DEF IInv, TypeOK, SchedTypeOK, CpuInv
<1>8. PlaceInv'
  <2>1. Place(t)'
    <3>1. Place(t)
      BY <1>1 DEF IInv, PlaceInv
    <3>2. /\ pc'[t] = "wait" /\ intr'[t] = FALSE /\ child'[t] = child[t]
          /\ freed'[t] = freed[t] /\ status'[t] = status[t]
          /\ exit_status'[t] = exit_status[t]
      BY <1>1, <1>2
    <3> QED BY <1>1, <3>1, <3>2 DEF Place, Exiting
  <2>2. ASSUME NEW u \in Thread, u # t PROVE Place(u)'
    BY <1>1, <1>2, <2>2 DEF IInv, PlaceInv, Place
  <2> QED BY <2>1, <2>2 DEF PlaceInv
<1>9. WaitInv'
  BY <1>1, <1>2 DEF IInv, WaitInv
<1>10. SameTree
  BY <1>1, <1>3 DEF SameTree, SameNone, SameExiting
<1> QED BY <1>4, <1>5, <1>6, <1>7, <1>8, <1>9, <1>10 DEF IInv

LEMMA ReleasePidKeeps ==
  ASSUME IInv, NEW t \in User, release_pid(t)
  PROVE  IInv' /\ SameTree
<1>1. /\ t \in Thread /\ t # Idle /\ t # Main /\ status[t] = "RUNNING" /\ pc[t] = "release"
      /\ pc' = [pc EXCEPT ![t] = "user"]
      /\ intr' = [intr EXCEPT ![t] = TRUE]
      /\ used' = used \ {freed[t]}
      /\ freed' = [freed EXCEPT ![t] = 0]
      /\ UNCHANGED cpuVars /\ UNCHANGED status /\ UNCHANGED <<all, pid, ppid, child>>
      /\ UNCHANGED pid /\ UNCHANGED child
      /\ UNCHANGED exit_status /\ UNCHANGED result /\ UNCHANGED idle
  BY RunningIs DEF release_pid, At, Leave, MoveTo, cpuVars
<1>2. /\ pc \in [Thread -> {"user", "copy", "wait", "release", "exit", "hang"}]
      /\ intr \in [Thread -> BOOLEAN] /\ freed \in [Thread -> 0..MaxPid]
      /\ MaxPid \in Nat
  BY ProcessAssumption DEF IInv, TypeOK, SchedTypeOK
<1>3. SameNone /\ SameExiting
  BY <1>1, <1>2 DEF SameNone, SameExiting, Exiting
<1>4. CpuInv'
  BY <1>1, CpuInvUnchanged DEF IInv
<1>5. ListInv' /\ BootInv' /\ ChildInv' /\ FamilyInv'
  BY <1>1, <1>2, <1>3, StableKeeps
<1>6. PidInv'
  <2>1. \A u \in Thread : Held(u)' <=> Held(u)
    BY <1>1 DEF Held, Making
  <2>2. \A u \in Thread : freed'[u] = IF u = t THEN 0 ELSE freed[u]
    BY <1>1, <1>2
  <2>3. freed[t] # 0
    BY <1>1 DEF IInv, PlaceInv, Place
  <2>4. ASSUME NEW p \in 1..MaxPid
        PROVE  p \in used' <=> \E u \in Thread : p \in {pid[u], freed'[u]}
    <3>1. p # 0
      BY <1>2
    <3>2. p \in used <=> \E u \in Thread : p \in {pid[u], freed[u]}
      BY DEF IInv, PidInv
    <3>3. \A u \in Thread : pid[u] # 0 => pid[u] # freed[t]
      BY <1>1 DEF IInv, PidInv
    <3>4. \A u \in Thread : freed[u] = freed[t] => u = t
      BY <1>1, <2>3 DEF IInv, PidInv
    <3> QED BY <1>1, <2>2, <2>3, <3>1, <3>2, <3>3, <3>4
  <2> QED BY <1>1, <2>1, <2>2, <2>4 DEF IInv, PidInv
<1>7. TypeOK'
  <2>1. used' \subseteq 1..MaxPid /\ freed' \in [Thread -> 0..MaxPid]
    <3>1. used \subseteq 1..MaxPid /\ 0 \in 0..MaxPid
      BY <1>2 DEF IInv, TypeOK
    <3> QED BY <1>1, <1>2, <3>1
  <2>2. intr' \in [Thread -> BOOLEAN]
        /\ pc' \in [Thread -> {"user", "copy", "wait", "release", "exit", "hang"}]
    BY <1>1, <1>2
  <2> QED BY <1>1, <1>4, <2>1, <2>2 DEF IInv, TypeOK, SchedTypeOK, CpuInv
<1>8. PlaceInv'
  <2>1. Place(t)'
    <3>1. Place(t)
      BY <1>1 DEF IInv, PlaceInv
    <3>2. /\ pc'[t] = "user" /\ intr'[t] = TRUE /\ child'[t] = child[t]
          /\ freed'[t] = 0 /\ status'[t] = status[t]
          /\ exit_status'[t] = exit_status[t]
      BY <1>1, <1>2
    <3> QED BY <1>1, <3>1, <3>2 DEF Place, Exiting
  <2>2. ASSUME NEW u \in Thread, u # t PROVE Place(u)'
    BY <1>1, <1>2, <2>2 DEF IInv, PlaceInv, Place
  <2> QED BY <2>1, <2>2 DEF PlaceInv
<1>9. WaitInv'
  BY <1>1, <1>2 DEF IInv, WaitInv
<1>10. SameTree
  BY <1>1, <1>3 DEF SameTree, SameNone, SameExiting
<1> QED BY <1>4, <1>5, <1>6, <1>7, <1>8, <1>9, <1>10 DEF IInv

LEMMA WaitSleepsKeeps ==
  ASSUME IInv, NEW t \in User, WaitSleeps(t)
  PROVE  IInv' /\ SameTree
<1>1. /\ t = cur /\ t \in Thread /\ t # Idle /\ t # Main
      /\ status[t] = "RUNNING" /\ pc[t] = "wait"
      /\ \A u \in Children(t) : status[u] # "HANGING"
      /\ UNCHANGED <<all, pid, ppid, child>> /\ UNCHANGED <<pid, child, freed, used>>
      /\ UNCHANGED exit_status /\ UNCHANGED result /\ UNCHANGED idle
  BY RunningIs DEF WaitSleeps, At
<1>2. /\ pc \in [Thread -> {"user", "copy", "wait", "release", "exit", "hang"}]
      /\ intr \in [Thread -> BOOLEAN] /\ idle \in {"block", "woken", "hlt"}
  BY DEF IInv, TypeOK, SchedTypeOK
<1>3. Children(t) = {u \in Thread : status[u] # "NONE" /\ ppid[u] = pid[t]}
  BY ListedIs DEF IInv
<1>4. CASE Children(t) = {}
  <2>1. /\ pc' = [pc EXCEPT ![t] = "user"]
        /\ intr' = [intr EXCEPT ![t] = TRUE]
        /\ UNCHANGED cpuVars /\ UNCHANGED status
    BY <1>4 DEF WaitSleeps, Leave, MoveTo, cpuVars
  <2>2. SameNone /\ SameExiting
    BY <1>1, <1>2, <2>1 DEF SameNone, SameExiting, Exiting
  <2>3. CpuInv'
    BY <2>1, CpuInvUnchanged DEF IInv
  <2>4. ListInv' /\ BootInv' /\ ChildInv' /\ FamilyInv'
    BY <1>1, <1>2, <2>1, <2>2, StableKeeps
  <2>5. PidInv'
    BY <1>1, <2>2, PidsStay DEF IInv
  <2>6. TypeOK'
    BY <1>1, <1>2, <2>1, <2>3 DEF IInv, TypeOK, SchedTypeOK, CpuInv
  <2>7. PlaceInv'
    <3>1. Place(t)'
      <4>1. Place(t)
        BY <1>1 DEF IInv, PlaceInv
      <4>2. /\ pc'[t] = "user" /\ intr'[t] = TRUE /\ child'[t] = child[t]
            /\ freed'[t] = freed[t] /\ status'[t] = status[t]
            /\ exit_status'[t] = exit_status[t]
        BY <1>1, <1>2, <2>1
      <4> QED BY <1>1, <4>1, <4>2 DEF Place, Exiting
    <3>2. ASSUME NEW u \in Thread, u # t PROVE Place(u)'
      BY <1>1, <1>2, <2>1, <3>2 DEF IInv, PlaceInv, Place
    <3> QED BY <3>1, <3>2 DEF PlaceInv
  <2>8. WaitInv'
    BY <1>1, <1>2, <2>1 DEF IInv, WaitInv
  <2>9. SameTree
    BY <1>1, <2>1, <2>2 DEF SameTree, SameNone, SameExiting
  <2> QED BY <2>3, <2>4, <2>5, <2>6, <2>7, <2>8, <2>9 DEF IInv
<1>5. CASE Children(t) # {}
  <2>1. /\ ThreadBlock("WAITING") /\ "WAITING" \in Blocking
        /\ UNCHANGED pc /\ UNCHANGED intr
    BY <1>5 DEF WaitSleeps, Blocking
  <2>2. CpuInv'
    BY <1>1, <2>1, BlockKeeps DEF IInv
  <2>3. status'[t] = "WAITING"
    BY <1>1, <2>1, BlockStatus DEF IInv
  <2>4. ASSUME NEW u \in Thread, u # t PROVE Drifts(u)
    <3>1. u # Idle => Undisturbed(u)
      BY <1>1, <2>1, <2>4, BlockStatus DEF IInv
    <3>2. status[u] # "RUNNING"
      BY <1>1, <2>4 DEF IInv, CpuInv, RunningIsCurrent
    <3> QED BY <2>2, <3>1, <3>2, UndisturbedDrifts
  <2>5. SameNone /\ SameExiting
    BY <1>1, <2>1, <2>3, <2>4 DEF SameNone, SameExiting, Drifts
  <2>6. ListInv' /\ BootInv' /\ ChildInv' /\ FamilyInv'
    BY <1>1, <2>1, <2>5, StableKeeps
  <2>7. PidInv'
    BY <1>1, <2>5, PidsStay DEF IInv
  <2>8. TypeOK'
    BY <1>1, <1>2, <2>1, <2>2 DEF IInv, TypeOK, SchedTypeOK, CpuInv
  <2>9. PlaceInv'
    BY <1>1, <2>1, <2>3, <2>4 DEF IInv, PlaceInv, Place, Drifts
  <2>10. WaitInv'
    <3>1. \A u \in Children(t) : pc[u] # "hang"
      <4>1. SUFFICES ASSUME NEW u \in Children(t), pc[u] = "hang" PROVE FALSE
        OBVIOUS
      <4>2. u \in Thread /\ status[u] \notin {"NONE", "HANGING"} /\ u # t
        BY <1>1, <1>3, <4>1
      <4>3. status[u] # "RUNNING"
        BY <1>1, <4>2 DEF IInv, CpuInv, RunningIsCurrent
      <4> QED BY <4>1, <4>2, <4>3 DEF IInv, PlaceInv, Place
    <3>2. ASSUME NEW w \in Thread \ Boot, status'[w] = "WAITING"
          PROVE  /\ \E u \in Thread : status'[u] # "NONE" /\ ppid[u] = pid[w]
                 /\ \A u \in Thread : status'[u] # "NONE" /\ ppid[u] = pid[w] => pc[u] # "hang"
      <4>1. CASE w = t
        BY <1>3, <1>5, <2>5, <3>1, <4>1 DEF SameNone
      <4>2. CASE w # t
        <5>1. status[w] = "WAITING"
          BY <2>4, <3>2, <4>2 DEF Drifts
        <5> QED BY <2>5, <5>1 DEF IInv, WaitInv, SameNone
      <4> QED BY <4>1, <4>2
    <3> QED BY <1>1, <2>1, <3>2 DEF WaitInv
  <2>11. SameTree
    <3>1. \A u \in Thread : status'[u] = "HANGING" <=> status[u] = "HANGING"
      BY <1>1, <2>3, <2>4 DEF Drifts, IInv, PlaceInv, Place
    <3> QED BY <1>1, <2>1, <2>5, <3>1 DEF SameTree, SameNone
  <2> QED BY <2>2, <2>6, <2>7, <2>8, <2>9, <2>10, <2>11 DEF IInv
<1> QED BY <1>4, <1>5

\* The parent is found, and if it sleeps in wait it is woken before the process
\* hangs.
LEMMA ExitWakesParentKeeps ==
  ASSUME IInv, NEW t \in User, ExitWakesParent(t)
  PROVE  IInv' /\ SameTree
<1>1. /\ t = cur /\ t \in Thread /\ t # Idle /\ t # Main
      /\ status[t] = "RUNNING" /\ pc[t] = "exit"
      /\ pc' = [pc EXCEPT ![t] = "hang"]
      /\ UNCHANGED <<all, pid, ppid, child>> /\ UNCHANGED <<pid, child, freed, used>>
      /\ UNCHANGED ppid /\ UNCHANGED exit_status /\ UNCHANGED result
      /\ UNCHANGED intr /\ UNCHANGED idle
  BY RunningIs DEF ExitWakesParent, At, MoveTo
<1>2. /\ pc \in [Thread -> {"user", "copy", "wait", "release", "exit", "hang"}]
      /\ status \in [Thread -> Status]
  BY DEF IInv, TypeOK, SchedTypeOK
<1>3. PICK v \in Thread : status[v] # "NONE" /\ pid[v] = ppid[t] /\ pc[v] \notin Exiting
  <2>1. t \in Thread \ Boot
    BY <1>1 DEF IInv, BootInv, Boot, Exiting
  <2> QED BY <1>1, <2>1 DEF IInv, FamilyInv, Held
<1>4. v # t /\ v # NoThread /\ pid2thread(ppid[t]) = v
  BY <1>1, <1>3, ParentIs, ProcessAssumption DEF Exiting
<1>5. IF status[v] = "WAITING" THEN ThreadUnblock(v) ELSE UNCHANGED cpuVars
  BY <1>4 DEF ExitWakesParent
<1>6. /\ CpuInv'
      /\ status' = IF status[v] = "WAITING" THEN [status EXCEPT ![v] = "READY"] ELSE status
  <2>1. CASE status[v] = "WAITING"
    <3>1. v # Idle /\ status[v] \in Blocking /\ ThreadUnblock(v)
      BY <1>5, <2>1 DEF IInv, CpuInv, Blocking
    <3> QED BY <2>1, <3>1, UnblockKeeps, UnblockStatus DEF IInv
  <2>2. CASE status[v] # "WAITING"
    BY <1>5, <2>2, CpuInvUnchanged DEF IInv, cpuVars
  <2> QED BY <2>1, <2>2
<1>7. /\ SameNone /\ SameExiting
      /\ \A u \in Thread : status'[u] = "HANGING" <=> status[u] = "HANGING"
  BY <1>1, <1>2, <1>6 DEF SameNone, SameExiting, Exiting
<1>8. ListInv' /\ BootInv' /\ ChildInv' /\ FamilyInv'
  BY <1>1, <1>2, <1>7, StableKeeps
<1>9. PidInv'
  BY <1>1, <1>7, PidsStay DEF IInv
<1>10. TypeOK'
  BY <1>1, <1>2, <1>6 DEF IInv, TypeOK, SchedTypeOK, CpuInv
<1>11. PlaceInv'
  <2>1. Place(t)'
    <3>1. Place(t)
      BY <1>1 DEF IInv, PlaceInv
    <3>2. /\ pc'[t] = "hang" /\ intr'[t] = intr[t] /\ child'[t] = child[t]
          /\ freed'[t] = freed[t] /\ status'[t] = "RUNNING"
          /\ exit_status'[t] = exit_status[t]
      BY <1>1, <1>2, <1>4, <1>6
    <3> QED BY <1>1, <3>1, <3>2 DEF Place, Exiting
  <2>2. ASSUME NEW u \in Thread, u # t PROVE Place(u)'
    <3>1. Place(u)
      BY DEF IInv, PlaceInv
    <3>2. /\ pc'[u] = pc[u] /\ intr'[u] = intr[u] /\ child'[u] = child[u]
          /\ freed'[u] = freed[u] /\ exit_status'[u] = exit_status[u]
      BY <1>1, <1>2, <2>2
    <3>3. \/ status'[u] = status[u]
          \/ status[u] = "WAITING" /\ status'[u] = "READY"
      BY <1>2, <1>6
    <3> QED BY <3>1, <3>2, <3>3 DEF Place
  <2> QED BY <2>1, <2>2 DEF PlaceInv
<1>12. WaitInv'
  <2>1. SUFFICES ASSUME NEW w \in Thread \ Boot, status'[w] = "WAITING"
                 PROVE  /\ \E u \in Thread : status'[u] # "NONE" /\ ppid[u] = pid[w]
                        /\ \A u \in Thread : status'[u] # "NONE" /\ ppid[u] = pid[w] => pc'[u] # "hang"
    BY <1>1 DEF WaitInv
  <2>2. status[w] = "WAITING" /\ w # v
    BY <1>2, <1>6, <2>1
  <2>3. ppid[t] # pid[w]
    BY <1>3, <2>2 DEF IInv, PidInv, Held
  <2> QED BY <1>1, <1>2, <1>7, <2>2, <2>3 DEF IInv, WaitInv, SameNone
<1>13. SameTree
  BY <1>1, <1>7 DEF SameTree, SameNone, SameExiting
<1> QED BY <1>6, <1>8, <1>9, <1>10, <1>11, <1>12, <1>13 DEF IInv

LEMMA HangKeeps ==
  ASSUME IInv, NEW t \in User, Hang(t)
  PROVE  /\ IInv'
         /\ pc[t] = "hang" /\ status[t] = "RUNNING" /\ status'[t] = "HANGING"
         /\ \A u \in Thread : u # t => Drifts(u)
<1>1. /\ t = cur /\ t \in Thread /\ t # Idle /\ t # Main
      /\ status[t] = "RUNNING" /\ pc[t] = "hang"
      /\ ThreadBlock("HANGING") /\ "HANGING" \in Blocking
      /\ UNCHANGED <<all, pid, ppid, child>> /\ UNCHANGED <<pid, child, freed, used>>
      /\ UNCHANGED pc /\ UNCHANGED exit_status /\ UNCHANGED result
      /\ UNCHANGED intr /\ UNCHANGED idle
  BY RunningIs DEF Hang, At, procVars, Blocking
<1>2. CpuInv'
  BY <1>1, BlockKeeps DEF IInv
<1>3. status'[t] = "HANGING"
  BY <1>1, BlockStatus DEF IInv
<1>4. ASSUME NEW u \in Thread, u # t PROVE Drifts(u)
  <2>1. u # Idle => Undisturbed(u)
    BY <1>1, <1>4, BlockStatus DEF IInv
  <2>2. status[u] # "RUNNING"
    BY <1>1, <1>4 DEF IInv, CpuInv, RunningIsCurrent
  <2> QED BY <1>2, <2>1, <2>2, UndisturbedDrifts
<1>5. SameNone /\ SameExiting
  BY <1>1, <1>3, <1>4 DEF SameNone, SameExiting, Drifts
<1>6. ListInv' /\ BootInv' /\ ChildInv' /\ FamilyInv'
  BY <1>1, <1>5, StableKeeps
<1>7. PidInv'
  BY <1>1, <1>5, PidsStay DEF IInv
<1>8. TypeOK'
  BY <1>1, <1>2 DEF IInv, TypeOK, SchedTypeOK, CpuInv
<1>9. PlaceInv'
  BY <1>1, <1>3, <1>4 DEF IInv, PlaceInv, Place, Drifts
<1>10. WaitInv'
  <2>1. \A w \in Thread : status'[w] = "WAITING" => status[w] = "WAITING"
    BY <1>3, <1>4 DEF Drifts
  <2> QED BY <1>1, <1>5, <2>1 DEF IInv, WaitInv, SameNone
<1> QED BY <1>1, <1>2, <1>3, <1>4, <1>6, <1>7, <1>8, <1>9, <1>10 DEF IInv

-----------------------------------------------------------------------------
(* fork, exit and wait, where they change who is whose child *)

LEMMA SysExitKeeps ==
  ASSUME IInv, NEW t \in User, NEW s \in Code[t], SysExit(t, s)
  PROVE  IInv'
<1>1. /\ t \in Thread \ Boot /\ status[t] = "RUNNING" /\ pc[t] = "user"
      /\ exit_status' = [exit_status EXCEPT ![t] = s]
      /\ ppid' = [u \in Thread |-> IF u \in Children(t) THEN 1 ELSE ppid[u]]
      /\ pc' = [pc EXCEPT ![t] = "exit"]
      /\ intr' = [intr EXCEPT ![t] = FALSE]
      /\ UNCHANGED cpuVars /\ UNCHANGED status /\ UNCHANGED all /\ UNCHANGED pid
      /\ UNCHANGED <<pid, child, freed, used>> /\ UNCHANGED child /\ UNCHANGED freed
      /\ UNCHANGED used /\ UNCHANGED result /\ UNCHANGED idle
  BY RunningIs DEF SysExit, At, EnterCall, MoveTo, cpuVars, Boot
<1>2. /\ pc \in [Thread -> {"user", "copy", "wait", "release", "exit", "hang"}]
      /\ intr \in [Thread -> BOOLEAN] /\ ppid \in [Thread -> 0..MaxPid]
      /\ pid \in [Thread -> 0..MaxPid]
      /\ exit_status \in [Thread -> AnyCode \cup {NoCode}]
  BY DEF IInv, TypeOK, SchedTypeOK
<1>3. Children(t) = {u \in Thread : status[u] # "NONE" /\ ppid[u] = pid[t]}
  BY ListedIs DEF IInv
<1>4. pid[t] # 0 /\ pid[InitProc] = 1
  BY <1>1 DEF IInv, PidInv, Held, BootInv
<1>5. SameNone
  BY <1>1 DEF SameNone
<1>6. CpuInv'
  BY <1>1, CpuInvUnchanged DEF IInv
<1>7. ListInv'
  BY <1>1 DEF IInv, ListInv
<1>8. PidInv'
  BY <1>1, <1>5, PidsStay DEF IInv
<1>9. TypeOK'
  <2>1. ppid' \in [Thread -> 0..MaxPid]
    <3>1. 1 \in 0..MaxPid
      BY ProcessAssumption
    <3> QED BY <1>1, <1>2, <3>1
  <2>2. exit_status' \in [Thread -> AnyCode \cup {NoCode}]
    <3>1. s \in AnyCode
      BY <1>1 DEF AnyCode
    <3> QED BY <1>1, <1>2, <3>1
  <2>3. /\ intr' \in [Thread -> BOOLEAN]
        /\ pc' \in [Thread -> {"user", "copy", "wait", "release", "exit", "hang"}]
    BY <1>1, <1>2
  <2> QED BY <1>1, <1>6, <2>1, <2>2, <2>3 DEF IInv, TypeOK, SchedTypeOK, CpuInv
<1>10. PlaceInv'
  <2>1. Place(t)'
    <3>1. Place(t)
      BY <1>1 DEF IInv, PlaceInv
    <3>2. /\ pc'[t] = "exit" /\ intr'[t] = FALSE /\ child'[t] = child[t]
          /\ freed'[t] = freed[t] /\ status'[t] = status[t]
      BY <1>1, <1>2
    <3> QED BY <1>1, <3>1, <3>2 DEF Place, Exiting
  <2>2. ASSUME NEW u \in Thread, u # t PROVE Place(u)'
    <3>1. Place(u)
      BY DEF IInv, PlaceInv
    <3>2. /\ pc'[u] = pc[u] /\ intr'[u] = intr[u] /\ child'[u] = child[u]
          /\ freed'[u] = freed[u] /\ status'[u] = status[u]
          /\ exit_status'[u] = exit_status[u]
      BY <1>1, <1>2, <2>2
    <3> QED BY <3>1, <3>2 DEF Place
  <2> QED BY <2>1, <2>2 DEF PlaceInv
<1>11. BootInv'
  <2>1. ASSUME NEW b \in Boot PROVE ppid'[b] = 0 /\ pc'[b] = pc[b] /\ b \in Thread
    <3>1. b \in Thread /\ ppid[b] = 0 /\ b # t
      BY <1>1, ProcessAssumption, SchedAssumption DEF IInv, BootInv, Boot
    <3> QED BY <1>1, <1>2, <1>3, <1>4, <3>1
  <2> QED BY <1>1, <2>1 DEF IInv, BootInv, Boot
<1>12. ChildInv'
  BY <1>1, <1>3 DEF IInv, ChildInv
<1>13. FamilyInv'
  <2>1. \A u \in Thread : Held(u)' <=> Held(u)
    BY <1>1 DEF Held, Making
  <2>2. SUFFICES ASSUME NEW u \in Thread \ Boot, Held(u)
                 PROVE  \E v \in Thread : status'[v] # "NONE" /\ pid'[v] = ppid'[u]
                                          /\ pc'[v] \notin Exiting
    BY <2>1 DEF FamilyInv
  <2>3. CASE u \in Children(t)
    <3>1. /\ InitProc \in Thread /\ InitProc # t
          /\ status[InitProc] # "NONE" /\ pc[InitProc] \notin Exiting
      BY <1>1, ProcessAssumption DEF IInv, BootInv, Boot
    <3> QED BY <1>1, <1>2, <1>4, <2>3, <3>1
  <2>4. CASE u \notin Children(t)
    <3>1. PICK v \in Thread : status[v] # "NONE" /\ pid[v] = ppid[u] /\ pc[v] \notin Exiting
      BY <2>2 DEF IInv, FamilyInv
    <3>2. v # t
      <4>1. CASE status[u] # "NONE"
        BY <1>3, <2>4, <3>1, <4>1
      <4>2. CASE Making(u)
        <5>1. PICK w \in Thread : child[w] = u /\ u # NoThread
          BY <4>2, ProcessAssumption DEF Making
        <5>2. ppid[u] = pid[w] /\ pc[w] = "copy"
          BY <5>1 DEF IInv, ChildInv, PlaceInv, Place
        <5>3. w # t
          BY <1>1, <5>2
        <5> QED BY <1>1, <1>4, <3>1, <5>2, <5>3 DEF IInv, PidInv
      <4> QED BY <2>2, <4>1, <4>2 DEF Held
    <3> QED BY <1>1, <1>2, <2>4, <3>1, <3>2
  <2> QED BY <2>3, <2>4
<1>14. WaitInv'
  <2>1. SUFFICES ASSUME NEW w \in Thread \ Boot, status[w] = "WAITING"
                 PROVE  /\ \E u \in Thread : status[u] # "NONE" /\ ppid'[u] = pid[w]
                        /\ \A u \in Thread : status[u] # "NONE" /\ ppid'[u] = pid[w] => pc'[u] # "hang"
    BY <1>1 DEF WaitInv
  <2>2. pid[w] # pid[t] /\ pid[w] # 1
    <3>1. w # t /\ w # InitProc /\ pid[w] # 0 /\ InitProc \in Thread
      BY <1>1, <2>1, ProcessAssumption DEF IInv, PidInv, Held, Boot
    <3> QED BY <1>1, <1>4, <3>1 DEF IInv, PidInv
  <2>3. \A u \in Thread : status[u] # "NONE" => (ppid'[u] = pid[w] <=> ppid[u] = pid[w])
    BY <1>1, <1>2, <1>3, <2>2
  <2>4. \A u \in Thread : pc'[u] = "hang" => pc[u] = "hang"
    BY <1>1, <1>2
  <2> QED BY <2>1, <2>3, <2>4 DEF IInv, WaitInv
<1> QED BY <1>6, <1>7, <1>8, <1>9, <1>10, <1>11, <1>12, <1>13, <1>14 DEF IInv

LEMMA SysForkKeeps ==
  ASSUME IInv, NEW t \in User, NEW u \in User \ {InitProc}, SysFork(t, u)
  PROVE  IInv' /\ exit_status' = exit_status
<1> DEFINE p == allocate_pid
<1>1. /\ t \in Thread /\ t # Idle /\ t # Main /\ status[t] = "RUNNING" /\ pc[t] = "user"
      /\ u \in Thread \ Boot /\ status[u] = "NONE" /\ ~Making(u) /\ u # t /\ u # NoThread
      /\ pc' = [pc EXCEPT ![t] = "copy"]
      /\ intr' = [intr EXCEPT ![t] = FALSE]
      /\ child' = [child EXCEPT ![t] = u]
      /\ pid' = [pid EXCEPT ![u] = p]
      /\ ppid' = [ppid EXCEPT ![u] = pid[t]]
      /\ exit_status' = [exit_status EXCEPT ![u] = exit_status[t]]
      /\ used' = used \cup {p}
      /\ UNCHANGED cpuVars /\ UNCHANGED status /\ UNCHANGED all /\ UNCHANGED freed
      /\ UNCHANGED result /\ UNCHANGED idle
  BY RunningIs, ProcessAssumption
     DEF SysFork, At, EnterCall, MoveTo, cpuVars, Boot, User, Making
<1>2. /\ p \in 1..MaxPid \ used
      /\ \A v \in Thread : pid[v] # p /\ freed[v] # p
  BY FreshPid DEF SysFork
<1> HIDE DEF p
<1>3. /\ pc \in [Thread -> {"user", "copy", "wait", "release", "exit", "hang"}]
      /\ intr \in [Thread -> BOOLEAN] /\ ppid \in [Thread -> 0..MaxPid]
      /\ pid \in [Thread -> 0..MaxPid] /\ freed \in [Thread -> 0..MaxPid]
      /\ child \in [Thread -> Thread \cup {NoThread}]
      /\ used \subseteq 1..MaxPid /\ MaxPid \in Nat
      /\ exit_status \in [Thread -> AnyCode \cup {NoCode}]
  BY ProcessAssumption DEF IInv, TypeOK, SchedTypeOK
<1>4. /\ Place(t) /\ Place(u)
      /\ child[t] = NoThread /\ exit_status[t] = NoCode /\ exit_status[u] = NoCode
  BY <1>1 DEF IInv, PlaceInv, Place, Exiting
<1>5. exit_status' = exit_status
  BY <1>1, <1>3, <1>4
<1>6. pid[u] = 0 /\ p # 0
  BY <1>1, <1>2, <1>3 DEF IInv, PidInv, Held
<1>7. \A v \in Thread : Held(v)' <=> Held(v) \/ v = u
  <2>1. \A v \in Thread : Making(v)' <=> Making(v) \/ v = u
    <3>1. \A w \in Thread : child'[w] = IF w = t THEN u ELSE child[w]
      BY <1>1, <1>3
    <3>2. \A v \in Thread : v # NoThread
      BY ProcessAssumption
    <3> QED BY <1>1, <1>4, <3>1, <3>2 DEF Making
  <2> QED BY <1>1, <2>1 DEF Held
<1>8. CpuInv'
  BY <1>1, CpuInvUnchanged DEF IInv
<1>9. ListInv'
  BY <1>1 DEF IInv, ListInv
<1>10. TypeOK'
  <2>1. /\ pid' \in [Thread -> 0..MaxPid] /\ ppid' \in [Thread -> 0..MaxPid]
        /\ used' \subseteq 1..MaxPid
        /\ child' \in [Thread -> Thread \cup {NoThread}]
    <3>1. p \in 0..MaxPid
      BY <1>2, <1>3
    <3> QED BY <1>1, <1>2, <1>3, <3>1
  <2>2. /\ intr' \in [Thread -> BOOLEAN]
        /\ pc' \in [Thread -> {"user", "copy", "wait", "release", "exit", "hang"}]
    BY <1>1, <1>3
  <2> QED BY <1>1, <1>5, <1>8, <2>1, <2>2 DEF IInv, TypeOK, SchedTypeOK, CpuInv
<1>11. PlaceInv'
  <2>1. Place(t)'
    <3>1. /\ pc'[t] = "copy" /\ intr'[t] = FALSE /\ child'[t] = u
          /\ freed'[t] = freed[t] /\ status'[t] = status[t]
          /\ exit_status'[t] = exit_status[t]
      BY <1>1, <1>3, <1>5
    <3> QED BY <1>1, <1>4, <3>1 DEF Place, Exiting
  <2>2. ASSUME NEW v \in Thread, v # t PROVE Place(v)'
    <3>1. Place(v)
      BY DEF IInv, PlaceInv
    <3>2. /\ pc'[v] = pc[v] /\ intr'[v] = intr[v] /\ child'[v] = child[v]
          /\ freed'[v] = freed[v] /\ status'[v] = status[v]
          /\ exit_status'[v] = exit_status[v]
      BY <1>1, <1>3, <1>5, <2>2
    <3> QED BY <3>1, <3>2 DEF Place
  <2> QED BY <2>1, <2>2 DEF PlaceInv
<1>12. BootInv'
  <2>1. \A b \in Boot : b \in Thread /\ b # u
    BY <1>1, ProcessAssumption, SchedAssumption DEF Boot
  <2>2. \A b \in Boot : pid'[b] = pid[b] /\ ppid'[b] = ppid[b]
    BY <1>1, <1>3, <2>1
  <2>3. pc'[Main] = pc[Main] /\ pc'[Idle] = pc[Idle] /\ pc'[InitProc] \notin Exiting
    BY <1>1, <1>3, <2>1 DEF IInv, BootInv, Boot, Exiting
  <2> QED BY <1>1, <2>2, <2>3 DEF IInv, BootInv, Boot
<1>13. ChildInv'
  <2>1. SUFFICES ASSUME NEW w \in Thread, child'[w] # NoThread
                 PROVE  /\ child'[w] \in Thread
                        /\ status[child'[w]] = "NONE"
                        /\ ppid'[child'[w]] = pid'[w]
                        /\ \A x \in Thread : child'[x] = child'[w] => x = w
    BY <1>1 DEF ChildInv
  <2>2. \A x \in Thread : child'[x] = IF x = t THEN u ELSE child[x]
    BY <1>1, <1>3
  <2>3. \A x \in Thread : child[x] # u
    BY <1>1 DEF Making
  <2>4. CASE w = t
    BY <1>1, <1>3, <2>2, <2>3, <2>4
  <2>5. CASE w # t
    <3>1. /\ child'[w] = child[w] /\ child[w] # NoThread /\ child[w] # u
          /\ child[w] \in Thread /\ status[child[w]] = "NONE"
          /\ ppid[child[w]] = pid[w]
          /\ \A x \in Thread : child[x] = child[w] => x = w
      BY <2>1, <2>2, <2>3, <2>5 DEF IInv, ChildInv
    <3>2. w # u
      <4>1. pc[w] = "copy"
        BY <3>1 DEF IInv, PlaceInv, Place
      <4> QED BY <1>1, <1>4, <4>1 DEF Place
    <3> QED BY <1>1, <1>3, <2>2, <3>1, <3>2
  <2> QED BY <2>4, <2>5
<1>14. PidInv'
  <2>1. \A v \in Thread : pid'[v] = IF v = u THEN p ELSE pid[v]
    BY <1>1, <1>3
  <2>2. \A v \in Thread : pid'[v] # 0 <=> Held(v)'
    BY <1>6, <1>7, <2>1 DEF IInv, PidInv
  <2>3. \A v, w \in Thread : pid'[v] # 0 /\ pid'[v] = pid'[w] => v = w
    BY <1>2, <2>1 DEF IInv, PidInv
  <2>4. \A v, w \in Thread : pid'[v] # 0 => pid'[v] # freed[w]
    BY <1>2, <2>1 DEF IInv, PidInv
  <2>5. ASSUME NEW x \in 1..MaxPid
        PROVE  x \in used' <=> \E v \in Thread : x \in {pid'[v], freed[v]}
    <3>1. x # 0
      BY <1>3
    <3>2. x \in used <=> \E v \in Thread : x \in {pid[v], freed[v]}
      BY DEF IInv, PidInv
    <3> QED BY <1>1, <1>6, <2>1, <3>1, <3>2
  <2>6. \A v, w \in Thread : freed[v] # 0 /\ freed[v] = freed[w] => v = w
    BY DEF IInv, PidInv
  <2> QED BY <1>1, <2>2, <2>3, <2>4, <2>5, <2>6 DEF PidInv
<1>15. FamilyInv'
  <2>1. SUFFICES ASSUME NEW v \in Thread \ Boot, Held(v) \/ v = u
                 PROVE  \E w \in Thread : status[w] # "NONE" /\ pid'[w] = ppid'[v]
                                          /\ pc'[w] \notin Exiting
    BY <1>1, <1>7 DEF FamilyInv
  <2>2. CASE v = u
    <3>1. pid'[t] = pid[t] /\ ppid'[u] = pid[t] /\ pc'[t] = "copy"
      BY <1>1, <1>3
    <3> QED BY <1>1, <2>2, <3>1 DEF Exiting
  <2>3. CASE v # u
    <3>1. PICK w \in Thread : status[w] # "NONE" /\ pid[w] = ppid[v] /\ pc[w] \notin Exiting
      BY <2>1, <2>3 DEF IInv, FamilyInv
    <3>2. pid'[w] = pid[w] /\ ppid'[v] = ppid[v] /\ pc'[w] \notin Exiting
      BY <1>1, <1>3, <2>3, <3>1 DEF Exiting
    <3> QED BY <3>1, <3>2
  <2> QED BY <2>2, <2>3
<1>16. WaitInv'
  <2>1. \A v \in Thread : status[v] # "NONE" =>
          ppid'[v] = ppid[v] /\ pid'[v] = pid[v] /\ (pc'[v] = "hang" => pc[v] = "hang")
    BY <1>1, <1>3
  <2> QED BY <1>1, <2>1 DEF IInv, WaitInv
<1> QED BY <1>5, <1>8, <1>9, <1>10, <1>11, <1>12, <1>13, <1>14, <1>15, <1>16 DEF IInv

\* The child is known to nobody until this step puts it on both lists.
LEMMA ForkListsChildKeeps ==
  ASSUME IInv, NEW t \in User, ForkListsChild(t)
  PROVE  /\ IInv'
         /\ pc[t] = "copy" /\ status[t] = "RUNNING"
         /\ child[t] \in Thread /\ status[child[t]] = "NONE" /\ ppid[child[t]] = pid[t]
         /\ exit_status[child[t]] = NoCode
         /\ status' = [status EXCEPT ![child[t]] = "READY"]
<1>0. PICK u : u = child[t]
  OBVIOUS
<1>1. /\ t \in Thread /\ t # Idle /\ t # Main /\ t # NoThread
      /\ status[t] = "RUNNING" /\ pc[t] = "copy"
      /\ ThreadStart(u)
      /\ all' = Append(all, u)
      /\ child' = [child EXCEPT ![t] = NoThread]
      /\ pc' = [pc EXCEPT ![t] = "user", ![u] = "user"]
      /\ intr' = [intr EXCEPT ![t] = TRUE, ![u] = TRUE]
      /\ UNCHANGED pid /\ UNCHANGED ppid /\ UNCHANGED exit_status /\ UNCHANGED used
      /\ UNCHANGED freed /\ UNCHANGED result /\ UNCHANGED idle
  BY <1>0, RunningIs DEF ForkListsChild, At
<1>2. /\ u \in Thread /\ u # NoThread /\ status[u] = "NONE" /\ ppid[u] = pid[t] /\ u # t
      /\ \A w \in Thread : child[w] = u => w = t
  BY <1>0, <1>1, ProcessAssumption DEF IInv, PlaceInv, Place, ChildInv
<1>3. /\ pc \in [Thread -> {"user", "copy", "wait", "release", "exit", "hang"}]
      /\ intr \in [Thread -> BOOLEAN] /\ status \in [Thread -> Status]
      /\ child \in [Thread -> Thread \cup {NoThread}] /\ all \in Seq(Thread)
      /\ idle \in {"block", "woken", "hlt"}
  BY DEF IInv, TypeOK, SchedTypeOK
<1>4. /\ Place(t) /\ Place(u)
      /\ child[u] = NoThread /\ freed[u] = 0 /\ exit_status[u] = NoCode /\ freed[t] = 0
      /\ u \notin Boot
  BY <1>1, <1>2 DEF IInv, PlaceInv, Place, BootInv, Boot
<1>5. status' = [status EXCEPT ![u] = "READY"]
  <2>1. ~InReady(u)
    BY <1>2 DEF IInv, CpuInv, ReadyListExact
  <2> QED BY <1>1, <2>1 DEF ThreadStart
<1>6. CpuInv'
  BY <1>1, <1>2, <1>4, StartKeeps DEF IInv, Boot
<1>7. \A v \in Thread : /\ status'[v] = IF v = u THEN "READY" ELSE status[v]
                        /\ child'[v] = IF v = t THEN NoThread ELSE child[v]
                        /\ pc'[v] = IF v \in {t, u} THEN "user" ELSE pc[v]
                        /\ intr'[v] = IF v \in {t, u} THEN TRUE ELSE intr[v]
  BY <1>1, <1>2, <1>3, <1>5
<1>8. \A v \in Thread : Held(v)' <=> Held(v)
  <2>1. \A v \in Thread : v # NoThread
    BY ProcessAssumption
  <2>2. child[t] = u
    BY <1>0
  <2>3. \A v, w \in Thread : child'[w] = v <=> child[w] = v /\ v # u
    BY <1>2, <1>7, <2>1, <2>2
  <2>4. \A v \in Thread : Making(v)' <=> Making(v) /\ v # u
    BY <2>3 DEF Making
  <2> QED BY <1>1, <1>2, <1>7, <2>2, <2>4 DEF Held, Making
<1>9. ListInv'
  <2>1. ~On(u, all) /\ NoTwice(all)
    BY <1>2 DEF IInv, ListInv
  <2>2. /\ Append(all, u) \in Seq(Thread) /\ NoTwice(Append(all, u))
        /\ \A v : On(v, Append(all, u)) <=> On(v, all) \/ v = u
    BY <1>2, <1>3, <2>1, AppendOn
  <2>3. \A v \in Thread : On(v, all) <=> status[v] # "NONE"
    BY DEF IInv, ListInv
  <2> QED BY <1>1, <1>7, <2>2, <2>3 DEF ListInv
<1>10. TypeOK'
  <2>1. all' \in Seq(Thread)
    BY <1>9 DEF ListInv
  <2>2. /\ intr' \in [Thread -> BOOLEAN]
        /\ pc' \in [Thread -> {"user", "copy", "wait", "release", "exit", "hang"}]
        /\ child' \in [Thread -> Thread \cup {NoThread}]
    BY <1>1, <1>3
  <2> QED BY <1>1, <1>6, <2>1, <2>2 DEF IInv, TypeOK, SchedTypeOK, CpuInv
<1>11. PlaceInv'
  <2>1. Place(t)'
    <3>1. /\ pc'[t] = "user" /\ intr'[t] = TRUE /\ child'[t] = NoThread
          /\ freed'[t] = 0 /\ status'[t] = "RUNNING"
          /\ exit_status'[t] = exit_status[t]
      BY <1>1, <1>2, <1>4, <1>7
    <3> QED BY <1>1, <1>4, <3>1 DEF Place, Exiting
  <2>2. Place(u)'
    <3>1. /\ pc'[u] = "user" /\ intr'[u] = TRUE /\ child'[u] = NoThread
          /\ freed'[u] = 0 /\ status'[u] = "READY" /\ exit_status'[u] = NoCode
      BY <1>1, <1>2, <1>4, <1>7
    <3> QED BY <3>1 DEF Place
  <2>3. ASSUME NEW v \in Thread, v # t, v # u PROVE Place(v)'
    <3>1. Place(v)
      BY DEF IInv, PlaceInv
    <3>2. /\ pc'[v] = pc[v] /\ intr'[v] = intr[v] /\ child'[v] = child[v]
          /\ freed'[v] = freed[v] /\ status'[v] = status[v]
          /\ exit_status'[v] = exit_status[v]
      BY <1>1, <1>7, <2>3
    <3> QED BY <3>1, <3>2 DEF Place
  <2> QED BY <2>1, <2>2, <2>3 DEF PlaceInv
<1>12. BootInv'
  <2>1. \A b \in Boot : b \in Thread /\ b # u
    BY <1>4, ProcessAssumption, SchedAssumption DEF Boot
  <2> QED BY <1>1, <1>7, <2>1 DEF IInv, BootInv, Boot, Exiting
<1>13. ChildInv'
  <2>1. SUFFICES ASSUME NEW w \in Thread, child'[w] # NoThread
                 PROVE  /\ child'[w] \in Thread
                        /\ status'[child'[w]] = "NONE"
                        /\ ppid[child'[w]] = pid[w]
                        /\ \A x \in Thread : child'[x] = child'[w] => x = w
    BY <1>1 DEF ChildInv
  <2>2. w # t /\ child'[w] = child[w] /\ child[w] # NoThread
    BY <1>7, <2>1
  <2>3. /\ child[w] \in Thread /\ status[child[w]] = "NONE"
        /\ ppid[child[w]] = pid[w]
        /\ \A x \in Thread : child[x] = child[w] => x = w
    BY <2>2 DEF IInv, ChildInv
  <2>4. child[w] # u
    BY <1>2, <2>2
  <2>5. \A x \in Thread : child'[x] = child'[w] => x = w
    BY <1>7, <2>1, <2>2, <2>3
  <2> QED BY <1>7, <2>2, <2>3, <2>4, <2>5
<1>14. PidInv'
  BY <1>1, <1>8 DEF IInv, PidInv
<1>15. FamilyInv'
  <2>1. SUFFICES ASSUME NEW v \in Thread \ Boot, Held(v)
                 PROVE  \E w \in Thread : status'[w] # "NONE" /\ pid[w] = ppid[v]
                                          /\ pc'[w] \notin Exiting
    BY <1>1, <1>8 DEF FamilyInv
  <2>2. PICK w \in Thread : status[w] # "NONE" /\ pid[w] = ppid[v] /\ pc[w] \notin Exiting
    BY <2>1 DEF IInv, FamilyInv
  <2> QED BY <1>7, <2>2 DEF Exiting
<1>16. WaitInv'
  <2>1. SUFFICES ASSUME NEW w \in Thread \ Boot, status'[w] = "WAITING"
                 PROVE  /\ \E v \in Thread : status'[v] # "NONE" /\ ppid[v] = pid[w]
                        /\ \A v \in Thread : status'[v] # "NONE" /\ ppid[v] = pid[w] => pc'[v] # "hang"
    BY <1>1 DEF WaitInv
  <2>2. status[w] = "WAITING" /\ w # t
    BY <1>1, <1>7, <2>1
  <2> QED BY <1>7, <2>2 DEF IInv, WaitInv
<1> QED BY <1>0, <1>1, <1>2, <1>4, <1>5, <1>6, <1>9, <1>10, <1>11, <1>12, <1>13, <1>14, <1>15, <1>16
        DEF IInv

\* The child is taken off both lists; its pid stays marked until release_pid.
LEMMA CollectKeeps ==
  ASSUME IInv, NEW t \in User, Collect(t)
  PROVE  /\ IInv'
         /\ \E u \in Thread :
              /\ status[u] = "HANGING" /\ ppid[u] = pid[t] /\ u # t
              /\ status' = [status EXCEPT ![u] = "NONE"]
              /\ pid' = [pid EXCEPT ![u] = 0]
              /\ ppid' = [ppid EXCEPT ![u] = 0]
              /\ exit_status' = [exit_status EXCEPT ![u] = NoCode]
              /\ result' = [result EXCEPT ![t] = exit_status[u]]
<1> DEFINE S == {v \in Children(t) : status[v] = "HANGING"}
<1>0. PICK u : u = list_traversal(S)
  OBVIOUS
<1>1. /\ t = cur /\ t \in Thread /\ t # Idle /\ t # Main
      /\ status[t] = "RUNNING" /\ pc[t] = "wait" /\ u # NoThread
      /\ result' = [result EXCEPT ![t] = exit_status[u]]
      /\ ready' = RemoveFirst(ready, u)
      /\ all' = RemoveFirst(all, u)
      /\ status' = [status EXCEPT ![u] = "NONE"]
      /\ freed' = [freed EXCEPT ![t] = pid[u]]
      /\ pid' = [pid EXCEPT ![u] = 0]
      /\ ppid' = [ppid EXCEPT ![u] = 0]
      /\ exit_status' = [exit_status EXCEPT ![u] = NoCode]
      /\ pc' = [pc EXCEPT ![t] = "release"]
      /\ UNCHANGED <<cur, ticks, panicked>> /\ UNCHANGED intr /\ UNCHANGED idle
      /\ UNCHANGED used /\ UNCHANGED child
  BY <1>0, RunningIs DEF Collect, At, MoveTo
<1>2. /\ u \in Thread /\ status[u] = "HANGING" /\ ppid[u] = pid[t] /\ u # t
  <2>1. S \subseteq Listed
    BY DEF Children
  <2>2. u \in Thread \cap S
    <3> HIDE DEF S
    <3> QED BY <1>0, <1>1, <2>1, SearchIs DEF IInv
  <2>3. u \in Children(t) /\ status[u] = "HANGING"
    BY <2>2
  <2> HIDE DEF S
  <2>4. ppid[u] = pid[t]
    BY <2>2, <2>3, ListedIs DEF IInv
  <2> QED BY <1>1, <2>2, <2>3, <2>4
<1> HIDE DEF S
<1>3. /\ pc \in [Thread -> {"user", "copy", "wait", "release", "exit", "hang"}]
      /\ status \in [Thread -> Status] /\ ready \in Seq(Thread) /\ all \in Seq(Thread)
      /\ pid \in [Thread -> 0..MaxPid] /\ ppid \in [Thread -> 0..MaxPid]
      /\ freed \in [Thread -> 0..MaxPid] /\ MaxPid \in Nat
      /\ exit_status \in [Thread -> AnyCode \cup {NoCode}]
      /\ result \in [Thread -> AnyCode \cup {NoCode}]
      /\ intr \in [Thread -> BOOLEAN] /\ idle \in {"block", "woken", "hlt"}
  BY ProcessAssumption DEF IInv, TypeOK, SchedTypeOK
<1>4. /\ Place(t) /\ Place(u) /\ pc[u] = "hang" /\ pid[u] # 0 /\ pid[t] # 0
      /\ u \notin Boot /\ ~Making(u) /\ child[u] = NoThread /\ freed[u] = 0 /\ freed[t] = 0
  <2>1. Place(t) /\ Place(u) /\ pc[u] = "hang" /\ pid[u] # 0 /\ pid[t] # 0
    BY <1>1, <1>2 DEF IInv, PlaceInv, Place, PidInv, Held
  <2>2. u \notin Boot
    BY <2>1 DEF IInv, BootInv, Boot, Exiting
  <2>3. ~Making(u)
    BY <1>2, ProcessAssumption DEF IInv, ChildInv, Making
  <2> QED BY <1>1, <2>1, <2>2, <2>3 DEF Place
<1>5. \A v \in Thread :
        /\ status'[v] = IF v = u THEN "NONE" ELSE status[v]
        /\ pid'[v] = IF v = u THEN 0 ELSE pid[v]
        /\ ppid'[v] = IF v = u THEN 0 ELSE ppid[v]
        /\ exit_status'[v] = IF v = u THEN NoCode ELSE exit_status[v]
        /\ pc'[v] = IF v = t THEN "release" ELSE pc[v]
        /\ freed'[v] = IF v = t THEN pid[u] ELSE freed[v]
  BY <1>1, <1>2, <1>3
<1>6. \A v \in Thread : Held(v)' <=> Held(v) /\ v # u
  BY <1>1, <1>2, <1>4, <1>5 DEF Held, Making
<1>7. CpuInv'
  <2>1. ready' = ready
    <3>1. ~On(u, ready) /\ NoTwice(ready)
      BY <1>2, ReadyExactOn DEF IInv, CpuInv
    <3> QED BY <1>1, <1>3, <3>1, RemoveOn
  <2>2. status' \in [Thread -> Status]
    BY <1>1, <1>3 DEF Status
  <2>3. u # cur /\ u # Idle
    BY <1>1, <1>2, <1>4 DEF Boot
  <2>4. RunningIsCurrent'
    BY <1>1, <1>2, <1>5 DEF IInv, CpuInv, RunningIsCurrent
  <2>5. ReadyListExact'
    BY <1>2, <1>5, <2>1 DEF IInv, CpuInv, ReadyListExact, InReady
  <2>6. status'[Idle] = status[Idle]
    BY <1>5, <2>3, SchedAssumption
  <2> QED BY <1>1, <2>1, <2>2, <2>4, <2>5, <2>6 DEF IInv, CpuInv
<1>8. ListInv'
  <2>1. NoTwice(all) /\ \A v \in Thread : On(v, all) <=> status[v] # "NONE"
    BY DEF IInv, ListInv
  <2>2. /\ all' \in Seq(Thread) /\ NoTwice(all')
        /\ \A v : On(v, all') <=> On(v, all) /\ v # u
    BY <1>1, <1>3, <2>1, RemoveOn
  <2> QED BY <1>5, <2>1, <2>2 DEF ListInv
<1>9. TypeOK'
  <2>1. all' \in Seq(Thread)
    BY <1>8 DEF ListInv
  <2>2. /\ pid' \in [Thread -> 0..MaxPid] /\ ppid' \in [Thread -> 0..MaxPid]
        /\ freed' \in [Thread -> 0..MaxPid]
    <3>1. 0 \in 0..MaxPid
      BY <1>3
    <3> QED BY <1>1, <1>2, <1>3, <3>1
  <2>3. pc' \in [Thread -> {"user", "copy", "wait", "release", "exit", "hang"}]
    BY <1>1, <1>3
  <2>4. /\ exit_status' \in [Thread -> AnyCode \cup {NoCode}]
        /\ result' \in [Thread -> AnyCode \cup {NoCode}]
    BY <1>1, <1>2, <1>3
  <2> QED BY <1>1, <1>7, <2>1, <2>2, <2>3, <2>4 DEF IInv, TypeOK, SchedTypeOK, CpuInv
<1>10. PlaceInv'
  <2>1. Place(t)'
    BY <1>1, <1>2, <1>4, <1>5 DEF Place, Exiting
  <2>2. Place(u)'
    <3>1. /\ pc'[u] = "hang" /\ intr'[u] = intr[u] /\ child'[u] = NoThread
          /\ freed'[u] = 0 /\ status'[u] = "NONE" /\ exit_status'[u] = NoCode
      BY <1>1, <1>2, <1>4, <1>5
    <3> QED BY <1>4, <3>1 DEF Place
  <2>3. ASSUME NEW v \in Thread, v # t, v # u PROVE Place(v)'
    <3>1. Place(v)
      BY DEF IInv, PlaceInv
    <3>2. /\ pc'[v] = pc[v] /\ intr'[v] = intr[v] /\ child'[v] = child[v]
          /\ freed'[v] = freed[v] /\ status'[v] = status[v]
          /\ exit_status'[v] = exit_status[v]
      BY <1>1, <1>5, <2>3
    <3> QED BY <3>1, <3>2 DEF Place
  <2> QED BY <2>1, <2>2, <2>3 DEF PlaceInv
<1>11. BootInv'
  <2>1. \A b \in Boot : b \in Thread /\ b # u
    BY <1>4, ProcessAssumption, SchedAssumption DEF Boot
  <2> QED BY <1>1, <1>5, <2>1 DEF IInv, BootInv, Boot, Exiting
<1>12. ChildInv'
  <2>1. SUFFICES ASSUME NEW w \in Thread, child[w] # NoThread
                 PROVE  /\ child[w] \in Thread
                        /\ status'[child[w]] = "NONE"
                        /\ ppid'[child[w]] = pid'[w]
                        /\ \A x \in Thread : child[x] = child[w] => x = w
    BY <1>1 DEF ChildInv
  <2>2. /\ child[w] \in Thread /\ status[child[w]] = "NONE"
        /\ ppid[child[w]] = pid[w]
        /\ \A x \in Thread : child[x] = child[w] => x = w
    BY <2>1 DEF IInv, ChildInv
  <2>3. w # u /\ child[w] # u
    BY <1>2, <1>4, <2>1, <2>2
  <2> QED BY <1>5, <2>2, <2>3
<1>13. PidInv'
  <2>1. \A v \in Thread : pid'[v] # 0 <=> Held(v)'
    BY <1>5, <1>6 DEF IInv, PidInv
  <2>2. \A v, w \in Thread : pid'[v] # 0 /\ pid'[v] = pid'[w] => v = w
    BY <1>5 DEF IInv, PidInv
  <2>3. \A v, w \in Thread : freed'[v] # 0 /\ freed'[v] = freed'[w] => v = w
    BY <1>2, <1>4, <1>5 DEF IInv, PidInv
  <2>4. \A v, w \in Thread : pid'[v] # 0 => pid'[v] # freed'[w]
    BY <1>2, <1>4, <1>5 DEF IInv, PidInv
  <2>5. ASSUME NEW x \in 1..MaxPid
        PROVE  x \in used' <=> \E v \in Thread : x \in {pid'[v], freed'[v]}
    <3>1. x # 0
      BY <1>3
    <3>2. x \in used <=> \E v \in Thread : x \in {pid[v], freed[v]}
      BY DEF IInv, PidInv
    <3> QED BY <1>1, <1>2, <1>4, <1>5, <3>1, <3>2
  <2> QED BY <2>1, <2>2, <2>3, <2>4, <2>5 DEF PidInv
<1>14. FamilyInv'
  <2>1. SUFFICES ASSUME NEW v \in Thread \ Boot, Held(v), v # u
                 PROVE  \E w \in Thread : status'[w] # "NONE" /\ pid'[w] = ppid'[v]
                                          /\ pc'[w] \notin Exiting
    BY <1>6 DEF FamilyInv
  <2>2. PICK w \in Thread : status[w] # "NONE" /\ pid[w] = ppid[v] /\ pc[w] \notin Exiting
    BY <2>1 DEF IInv, FamilyInv
  <2>3. w # u
    BY <1>4, <2>2 DEF Exiting
  <2> QED BY <1>5, <2>1, <2>2, <2>3 DEF Exiting
<1>15. WaitInv'
  <2>1. SUFFICES ASSUME NEW w \in Thread \ Boot, status'[w] = "WAITING"
                 PROVE  /\ \E v \in Thread : status'[v] # "NONE" /\ ppid'[v] = pid'[w]
                        /\ \A v \in Thread : status'[v] # "NONE" /\ ppid'[v] = pid'[w] => pc'[v] # "hang"
    BY DEF WaitInv
  <2>2. status[w] = "WAITING" /\ w # u /\ w # t /\ pid'[w] = pid[w]
    BY <1>1, <1>5, <2>1
  <2>3. pid[w] # pid[t]
    BY <1>1, <1>4, <2>2 DEF IInv, PidInv
  <2> QED BY <1>2, <1>5, <2>2, <2>3 DEF IInv, WaitInv
<1> QED BY <1>1, <1>2, <1>7, <1>8, <1>9, <1>10, <1>11, <1>12, <1>13, <1>14, <1>15 DEF IInv

-----------------------------------------------------------------------------
(* The invariant holds from the boot on. *)

LEMMA InitIInv == Init => IInv
<1> SUFFICES ASSUME Init PROVE IInv
  OBVIOUS
<1> USE ProcessAssumption, SchedAssumption
<1>1. /\ InitProc \in Thread /\ Main \in Thread /\ Idle \in Thread
      /\ InitProc # Main /\ InitProc # Idle /\ Main # Idle
      /\ SchedInit(Main, <<InitProc>>)
      /\ all = <<InitProc, Main, Idle>>
      /\ \A t \in Thread : pid[t] = IF t = InitProc THEN 1 ELSE IF t = Main THEN 2
                                    ELSE IF t = Idle THEN 3 ELSE 0
      /\ \A t \in Thread : /\ ppid[t] = 0 /\ exit_status[t] = NoCode /\ pc[t] = "user"
                           /\ child[t] = NoThread /\ freed[t] = 0 /\ intr[t] = TRUE
      /\ used = {1, 2, 3}
  BY DEF Init, SchedInit
<1>2. CpuInv
  <2>1. <<InitProc>> \in Seq(Thread \ {Idle, Main}) /\ NoTwice(<<InitProc>>)
    BY <1>1 DEF NoTwice
  <2> QED BY <1>1, <2>1, SchedInitCpuInv
<1>3. \A t \in Thread : status[t] = IF t = Main THEN "RUNNING"
                                    ELSE IF t \in {InitProc, Idle} THEN "READY" ELSE "NONE"
  <2>1. \A t : (\E i \in DOMAIN <<InitProc>> : <<InitProc>>[i] = t) <=> t = InitProc
    <3> DEFINE q == <<InitProc>>
    <3>1. DOMAIN q = {1} /\ q[1] = InitProc
      OBVIOUS
    <3> HIDE DEF q
    <3>2. \A t : (\E i \in DOMAIN q : q[i] = t) <=> t = InitProc
      BY <3>1
    <3> QED BY <3>2 DEF q
  <2> QED BY <1>1, <2>1 DEF SchedInit
<1>4. ListInv
  <2>1. all \in Seq(Thread) /\ DOMAIN all = {1, 2, 3}
        /\ all[1] = InitProc /\ all[2] = Main /\ all[3] = Idle
    BY <1>1
  <2>2. \A t : On(t, all) <=> t \in {InitProc, Main, Idle}
    BY <2>1 DEF On
  <2>3. NoTwice(all)
    BY <1>1, <2>1 DEF NoTwice
  <2> QED BY <1>3, <2>1, <2>2, <2>3 DEF ListInv
<1>5. TypeOK
  <2>1. \A t \in Thread : pid[t] \in 0..MaxPid
    <3>1. \A t \in Thread : pid[t] \in {0, 1, 2, 3}
      BY <1>1
    <3>2. {0, 1, 2, 3} \subseteq 0..MaxPid
      OBVIOUS
    <3> QED BY <3>1, <3>2
  <2>2. pid \in [Thread -> 0..MaxPid]
    BY <2>1 DEF Init
  <2>3. used \subseteq 1..MaxPid /\ 0 \in 0..MaxPid
    BY <1>1
  <2>4. /\ ppid \in [Thread -> 0..MaxPid] /\ freed \in [Thread -> 0..MaxPid]
        /\ exit_status \in [Thread -> AnyCode \cup {NoCode}]
        /\ result \in [Thread -> AnyCode \cup {NoCode}]
        /\ pc \in [Thread -> {"user", "copy", "wait", "release", "exit", "hang"}]
        /\ child \in [Thread -> Thread \cup {NoThread}]
        /\ intr \in [Thread -> BOOLEAN] /\ idle \in {"block", "woken", "hlt"}
    BY <2>3 DEF Init, SchedInit
  <2> QED BY <1>2, <1>4, <2>2, <2>3, <2>4 DEF TypeOK, SchedTypeOK, CpuInv, ListInv
<1>6. PlaceInv
  BY <1>1, <1>3 DEF PlaceInv, Place
<1>7. BootInv
  BY <1>1, <1>3 DEF BootInv, Boot, Exiting
<1>8. ChildInv
  BY <1>1 DEF ChildInv
<1>9. \A t \in Thread : ~Making(t)
  <2>1. \A t \in Thread : t # NoThread
    OBVIOUS
  <2> QED BY <1>1, <2>1 DEF Making
<1>10. PidInv
  <2>1. \A u \in Thread : pid[u] # 0 <=> Held(u)
    BY <1>1, <1>3, <1>9 DEF Held
  <2>2. \A u, v \in Thread : pid[u] # 0 /\ pid[u] = pid[v] => u = v
    BY <1>1
  <2>3. \A p \in 1..MaxPid : p \in used <=> \E u \in Thread : p \in {pid[u], freed[u]}
    <3>1. ASSUME NEW p \in 1..MaxPid, p \in used
          PROVE  \E u \in Thread : p \in {pid[u], freed[u]}
      <4>1. pid[InitProc] = 1 /\ pid[Main] = 2 /\ pid[Idle] = 3
        BY <1>1
      <4> QED BY <1>1, <3>1, <4>1
    <3>2. ASSUME NEW p \in 1..MaxPid, NEW u \in Thread, p \in {pid[u], freed[u]}
          PROVE  p \in used
      BY <1>1, <3>2
    <3> QED BY <3>1, <3>2
  <2> QED BY <1>1, <2>1, <2>2, <2>3 DEF PidInv
<1>11. FamilyInv
  BY <1>3, <1>9 DEF FamilyInv, Held, Boot
<1>12. WaitInv
  BY <1>3 DEF WaitInv
<1> QED BY <1>2, <1>4, <1>5, <1>6, <1>7, <1>8, <1>10, <1>11, <1>12 DEF IInv

\* The steps that leave the tree alone
LocalStep == \/ \E t \in User : SysWait(t) \/ release_pid(t) \/ WaitSleeps(t)
                                \/ ExitWakesParent(t) \/ Nap(t)
             \/ \E u \in User : Wake(u)
             \/ Yield \/ Tick \/ IdleStep

LEMMA LocalKeeps ==
  ASSUME IInv, LocalStep
  PROVE  IInv' /\ SameTree
BY SysWaitKeeps, ReleasePidKeeps, WaitSleepsKeeps, ExitWakesParentKeeps, NapKeeps,
   WakeKeeps, YieldStepKeeps, TickStepKeeps, IdleStepKeeps DEF LocalStep

\* Next, sorted by what each step does to the tree
LEMMA NextIs ==
  ASSUME Next
  PROVE  \/ LocalStep
         \/ \E t \in User : \/ \E u \in User \ {InitProc} : SysFork(t, u)
                            \/ \E s \in Code[t] : SysExit(t, s)
                            \/ ForkListsChild(t)
                            \/ Collect(t)
                            \/ Hang(t)
BY DEF Next, SyscallStep, LocalStep

LEMMA StutterKeeps ==
  ASSUME IInv, UNCHANGED vars
  PROVE  IInv' /\ SameTree
<1>1. UNCHANGED procVars /\ UNCHANGED cpuVars /\ UNCHANGED status /\ UNCHANGED intr
      /\ UNCHANGED idle
  BY DEF vars, schedVars, cpuVars
<1>2. CpuInv'
  BY <1>1, CpuInvUnchanged DEF IInv
<1>3. idle' \in {"block", "woken", "hlt"} /\ \A t \in Thread : Drifts(t)
  BY <1>1 DEF IInv, TypeOK, SchedTypeOK, Drifts
<1> QED BY <1>1, <1>2, <1>3, QuietKeeps, QuietTree

LEMMA StepIInv == IInv /\ [Next]_vars => IInv'
<1> SUFFICES ASSUME IInv, [Next]_vars PROVE IInv'
  OBVIOUS
<1>1. CASE Next
  BY <1>1, NextIs, LocalKeeps, SysForkKeeps, SysExitKeeps, ForkListsChildKeeps,
     CollectKeeps, HangKeeps
<1>2. CASE UNCHANGED vars
  BY <1>2, StutterKeeps
<1> QED BY <1>1, <1>2

\* The inductive invariant
THEOREM ProcessInvariant == Spec => []IInv
  BY InitIInv, StepIInv, PTL DEF Spec

\* Type correctness
THEOREM ProcessType == Spec => []TypeOK
<1>1. IInv => TypeOK
  BY DEF IInv
<1> QED BY <1>1, ProcessInvariant, PTL

\* No ASSERT of the scheduler fails under fork, wait and exit, and every exit
\* finds its parent on thread_all_list.
THEOREM ProcessNeverPanics == Spec => []NoPanic
<1>1. IInv => NoPanic
  BY DEF IInv, CpuInv, NoPanic
<1> QED BY <1>1, ProcessInvariant, PTL

\* A process that sleeps in wait has a child, and no child of it has ended.
THEOREM WaitMissesNoExit == Spec => []NoMissedExit
<1>1. IInv => NoMissedExit
  <2> SUFFICES ASSUME IInv, NEW t \in User \ {InitProc}, status[t] = "WAITING"
               PROVE  \E u \in Children(t) : \A v \in Children(t) :
                        status[u] # "HANGING" /\ status[v] # "HANGING"
    BY DEF NoMissedExit
  <2>1. t \in Thread \ Boot
    BY DEF User, Boot
  <2>2. Children(t) = {u \in Thread : status[u] # "NONE" /\ ppid[u] = pid[t]}
    BY ListedIs DEF IInv
  <2>3. \A u \in Thread : status[u] = "HANGING" => pc[u] = "hang"
    BY DEF IInv, PlaceInv, Place
  <2> QED BY <2>1, <2>2, <2>3 DEF IInv, WaitInv
<1> QED BY <1>1, ProcessInvariant, PTL

\* The pid pool: the marked pids are those held, each held once.
THEOREM PidPoolExact == Spec => []PidsExact
<1>1. IInv => PidsExact
  <2> SUFFICES ASSUME IInv PROVE PidsExact
    OBVIOUS
  <2> DEFINE H == Listed \cup InMaking
             R == Releasing
             A == {pid[t] : t \in H}
             B == {freed[t] : t \in R}
  <2>1. H \subseteq Thread /\ \A t \in Thread : t \in H <=> pid[t] # 0
    <3>1. /\ Listed \subseteq Thread
          /\ \A t \in Thread : t \in Listed <=> status[t] # "NONE"
      BY ListedIs DEF IInv
    <3>2. InMaking \subseteq Thread /\ \A t \in Thread : t \in InMaking <=> Making(t)
      BY ProcessAssumption DEF InMaking, Making, IInv, TypeOK
    <3>3. \A t \in Thread : pid[t] # 0 <=> Held(t)
      BY DEF IInv, PidInv
    <3> QED BY <3>1, <3>2, <3>3 DEF Held
  <2>2. R \subseteq Thread /\ \A t \in Thread : t \in R <=> freed[t] # 0
    BY DEF Releasing
  <2>3. /\ used \subseteq 1..MaxPid /\ MaxPid \in Nat
        /\ pid \in [Thread -> 0..MaxPid] /\ freed \in [Thread -> 0..MaxPid]
    BY ProcessAssumption DEF IInv, TypeOK
  <2> HIDE DEF H, R
  <2>4. used = A \cup B
    <3>1. ASSUME NEW p \in used PROVE p \in A \cup B
      <4>1. p \in 1..MaxPid /\ p # 0
        BY <2>3
      <4>2. PICK u \in Thread : p \in {pid[u], freed[u]}
        BY <4>1 DEF IInv, PidInv
      <4> QED BY <2>1, <2>2, <4>1, <4>2
    <3>2. ASSUME NEW p \in A \cup B PROVE p \in used
      <4>1. PICK u \in Thread : p \in {pid[u], freed[u]} /\ p # 0
        BY <2>1, <2>2
      <4>2. p \in 1..MaxPid
        BY <2>3, <4>1
      <4> QED BY <4>1, <4>2 DEF IInv, PidInv
    <3> QED BY <3>1, <3>2
  <2>5. A \cap B = {}
    BY <2>1, <2>2 DEF IInv, PidInv
  <2>6. IsFiniteSet(used)
    <3>1. IsFiniteSet(1..MaxPid)
      <4>1. 1 \in Int /\ MaxPid \in Int
        BY <2>3
      <4> QED BY <4>1, FS_Interval
    <3>2. used \in SUBSET (1..MaxPid)
      BY <2>3
    <3> QED BY <3>1, <3>2, FS_Subset
  <2>7. IsFiniteSet(A) /\ IsFiniteSet(B)
    <3>1. A \in SUBSET used /\ B \in SUBSET used
      BY <2>4
    <3> HIDE DEF A, B
    <3> QED BY <2>6, <3>1, FS_Subset
  <2>8. Cardinality(A) = Cardinality(H)
    <3> DEFINE f == [t \in H |-> pid[t]]
    <3>1. f \in Bijection(H, A)
      <4>1. f \in [H -> A] /\ \A x \in A : \E t \in H : f[t] = x
        OBVIOUS
      <4>2. \A t, u \in H : f[t] = f[u] => t = u
        BY <2>1 DEF IInv, PidInv
      <4> HIDE DEF f, A
      <4> QED BY <4>1, <4>2 DEF Bijection, Injection, Surjection, IsInjective
    <3>2. ExistsBijection(H, A)
      BY <3>1 DEF ExistsBijection
    <3>3. f \in Injection(H, A)
      BY <3>1 DEF Bijection
    <3> HIDE DEF f, A
    <3>4. IsFiniteSet(H)
      BY <2>7, <3>3, FS_Injection
    <3> QED BY <3>2, <3>4, FS_Bijection
  <2>9. Cardinality(B) = Cardinality(R)
    <3> DEFINE f == [t \in R |-> freed[t]]
    <3>1. f \in Bijection(R, B)
      <4>1. f \in [R -> B] /\ \A x \in B : \E t \in R : f[t] = x
        OBVIOUS
      <4>2. \A t, u \in R : f[t] = f[u] => t = u
        BY <2>2 DEF IInv, PidInv
      <4> HIDE DEF f, B
      <4> QED BY <4>1, <4>2 DEF Bijection, Injection, Surjection, IsInjective
    <3>2. ExistsBijection(R, B)
      BY <3>1 DEF ExistsBijection
    <3>3. f \in Injection(R, B)
      BY <3>1 DEF Bijection
    <3> HIDE DEF f, B
    <3>4. IsFiniteSet(R)
      BY <2>7, <3>3, FS_Injection
    <3> QED BY <3>2, <3>4, FS_Bijection
  <2>10. Cardinality(used) = Cardinality(H) + Cardinality(R)
    <3> HIDE DEF A, B
    <3>1. Cardinality(A \cup B) = Cardinality(A) + Cardinality(B) - Cardinality(A \cap B)
      BY <2>7, FS_Union
    <3>2. Cardinality({}) = 0 /\ Cardinality(A) \in Nat /\ Cardinality(B) \in Nat
      BY <2>7, FS_EmptySet, FS_CardinalityType
    <3>3. Cardinality(A \cap B) = 0
      BY <2>5, <3>2
    <3>4. Cardinality(A \cup B) = Cardinality(A) + Cardinality(B)
      BY <3>1, <3>2, <3>3
    <3> QED BY <2>4, <2>8, <2>9, <3>4
  <2> QED BY <2>4, <2>10 DEF PidsExact, H, R
<1> QED BY <1>1, ProcessInvariant, PTL

-----------------------------------------------------------------------------
(***************************************************************************)
(* Refinement.  The abstract fork is the step that lists the child, the    *)
(* abstract exit is sys_exit up to the adoption of the children, a process *)
(* dies when it hangs and is collected when wait takes it off the lists.   *)
(* The other steps, release_pid among them, are stutters.                  *)
(***************************************************************************)
familyVars == <<life, parent, exit_status, result>>

\* u is t's parent: found by its pid, and not on its way out.
Father(t, u) == /\ status[t] # "NONE" /\ status[u] # "NONE"
                /\ pid[u] = ppid[t] /\ pc[u] \notin Exiting

\* What life and parent are, for a thread of each kind
MapSound ==
  \A t \in Thread :
    /\ life[t] = IF status[t] = "NONE" THEN "none"
                 ELSE IF status[t] = "HANGING" THEN "zombie"
                 ELSE IF pc[t] \in Exiting THEN "dying" ELSE "alive"
    /\ status[t] = "NONE" \/ t \in Boot => parent[t] = NoThread
    /\ \A u \in Thread : Father(t, u) => parent[t] = u
    /\ status[t] # "NONE" /\ t \notin Boot => \E u \in Thread : Father(t, u)

LEMMA MapIs == IInv => MapSound
<1> SUFFICES ASSUME IInv, NEW t \in Thread
             PROVE  /\ life[t] = IF status[t] = "NONE" THEN "none"
                                 ELSE IF status[t] = "HANGING" THEN "zombie"
                                 ELSE IF pc[t] \in Exiting THEN "dying" ELSE "alive"
                    /\ status[t] = "NONE" \/ t \in Boot => parent[t] = NoThread
                    /\ \A u \in Thread : Father(t, u) => parent[t] = u
                    /\ status[t] # "NONE" /\ t \notin Boot => \E u \in Thread : Father(t, u)
  BY DEF MapSound
<1>1. Listed \subseteq Thread /\ \A u \in Thread : u \in Listed <=> status[u] # "NONE"
  BY ListedIs DEF IInv
<1>2. life[t] = IF status[t] = "NONE" THEN "none"
                ELSE IF status[t] = "HANGING" THEN "zombie"
                ELSE IF pc[t] \in Exiting THEN "dying" ELSE "alive"
  BY <1>1 DEF life, Exiting
<1> DEFINE has == t \in Listed /\ \E u \in Listed : pid[u] = ppid[t]
<1>3. parent[t] = IF has THEN CHOOSE u \in Listed : pid[u] = ppid[t] ELSE NoThread
  BY DEF parent
<1>4. \A u \in Thread : status[u] # "NONE" => pid[u] # 0
  BY DEF IInv, PidInv, Held
<1>5. status[t] = "NONE" \/ t \in Boot => parent[t] = NoThread
  <2>1. CASE status[t] = "NONE"
    BY <1>1, <1>3, <2>1
  <2>2. CASE t \in Boot
    <3>1. ppid[t] = 0
      BY <2>2 DEF IInv, BootInv
    <3>2. ~has
      BY <1>1, <1>4, <3>1
    <3> QED BY <1>3, <3>2
  <2> QED BY <2>1, <2>2
<1>6. ASSUME NEW u \in Thread, Father(t, u) PROVE parent[t] = u
  <2>1. t \in Listed /\ u \in Listed /\ pid[u] = ppid[t] /\ pid[u] # 0
    BY <1>1, <1>4, <1>6 DEF Father
  <2>2. \A v \in Listed : pid[v] = ppid[t] => v = u
    BY <1>1, <2>1 DEF IInv, PidInv
  <2> QED BY <1>3, <2>1, <2>2
<1>7. status[t] # "NONE" /\ t \notin Boot => \E u \in Thread : Father(t, u)
  BY DEF IInv, FamilyInv, Held, Father
<1> QED BY <1>2, <1>5, <1>6, <1>7

LEMMA InitMap == Init => Families!Init
<1> SUFFICES ASSUME Init PROVE Families!Init
  OBVIOUS
<1>1. IInv /\ MapSound
  BY InitIInv, MapIs
<1>2. \A t \in Thread : /\ ppid[t] = 0 /\ pc[t] = "user" /\ status[t] # "HANGING"
                        /\ status[t] # "NONE" => pid[t] # 0
  BY <1>1 DEF Init, IInv, PlaceInv, Place, PidInv, Held
<1>3. life \in [Thread -> {"none", "alive"}]
  <2>1. \A t \in Thread : life[t] \in {"none", "alive"}
    BY <1>1, <1>2 DEF MapSound, Exiting
  <2>2. life = [t \in Thread |-> life[t]]
    BY DEF life
  <2> QED BY <2>1, <2>2
<1>4. parent = [t \in Thread |-> NoThread]
  <2>1. \A t \in Thread : parent[t] = NoThread
    <3>1. \A t, u \in Thread : ~Father(t, u)
      BY <1>2 DEF Father
    <3> QED BY <1>1, <3>1 DEF MapSound
  <2>2. parent = [t \in Thread |-> parent[t]]
    BY DEF parent
  <2> QED BY <2>1, <2>2
<1>5. exit_status = [t \in Thread |-> NoCode] /\ result = exit_status
  BY DEF Init
<1> QED BY <1>3, <1>4, <1>5 DEF Families!Init

\* A process keeps its parent unless its parent exits.
LEMMA ParentKept ==
  ASSUME MapSound, MapSound', NEW t \in Thread,
         status'[t] = "NONE" <=> status[t] = "NONE",
         \A u \in Thread : Father(t, u) => Father(t, u)'
  PROVE  parent'[t] = parent[t]
<1>1. CASE status[t] = "NONE" \/ t \in Boot
  BY <1>1 DEF MapSound
<1>2. CASE status[t] # "NONE" /\ t \notin Boot
  <2>1. PICK u \in Thread : Father(t, u)
    BY <1>2 DEF MapSound
  <2>2. Father(t, u)'
    BY <2>1
  <2> QED BY <2>1, <2>2 DEF MapSound
<1> QED BY <1>1, <1>2

\* life and parent are functions on Thread.
MapTyped == /\ life = [t \in Thread |-> life[t]]
            /\ parent = [t \in Thread |-> parent[t]]

LEMMA MapIsTyped == MapTyped
<1>1. life = [t \in Thread |-> life[t]]
  BY DEF life
<1>2. parent = [t \in Thread |-> parent[t]]
  BY DEF parent
<1> QED BY <1>1, <1>2 DEF MapTyped

LEMMA TreeStutters ==
  ASSUME MapSound, MapSound', SameTree
  PROVE  UNCHANGED <<life, parent>>
<1>1. \A t \in Thread : life'[t] = life[t]
  BY DEF MapSound, SameTree
<1>2. ASSUME NEW t \in Thread PROVE parent'[t] = parent[t]
  <2>1. \A u \in Thread : Father(t, u) => Father(t, u)'
    BY DEF Father, SameTree
  <2> QED BY <2>1, ParentKept DEF SameTree
<1>3. MapTyped /\ MapTyped'
  BY MapIsTyped, PTL
<1> QED BY <1>1, <1>2, <1>3 DEF MapTyped

LEMMA LocalMap ==
  ASSUME IInv, IInv', LocalStep
  PROVE  UNCHANGED familyVars
<1>1. MapSound /\ MapSound'
  BY MapIs, PTL
<1>2. UNCHANGED exit_status /\ UNCHANGED result
  BY DEF LocalStep, SysWait, release_pid, WaitSleeps, ExitWakesParent, Nap, Wake, Yield,
         Tick, IdleStep, procVars
<1>3. UNCHANGED <<life, parent>>
  BY <1>1, LocalKeeps, TreeStutters
<1> QED BY <1>2, <1>3 DEF familyVars

LEMMA ForkMap ==
  ASSUME IInv, IInv', NEW t \in User, ForkListsChild(t)
  PROVE  Families!Next
<1>1. MapSound /\ MapSound'
  BY MapIs, PTL
<1>2. PICK u : u = child[t]
  OBVIOUS
<1>3. /\ t \in Thread /\ pc[t] = "copy" /\ status[t] = "RUNNING"
      /\ u \in Thread /\ status[u] = "NONE" /\ ppid[u] = pid[t]
      /\ status' = [status EXCEPT ![u] = "READY"]
  BY <1>2, ForkListsChildKeeps DEF User
<1>4. /\ pc' = [pc EXCEPT ![t] = "user", ![u] = "user"]
      /\ UNCHANGED pid /\ UNCHANGED ppid /\ UNCHANGED exit_status /\ UNCHANGED result
  BY <1>2 DEF ForkListsChild
<1>5. /\ pc \in [Thread -> {"user", "copy", "wait", "release", "exit", "hang"}]
      /\ status \in [Thread -> Status]
  BY DEF IInv, TypeOK, SchedTypeOK
<1>6. \A v \in Thread : /\ status'[v] = IF v = u THEN "READY" ELSE status[v]
                        /\ pc'[v] = IF v \in {t, u} THEN "user" ELSE pc[v]
  BY <1>3, <1>4, <1>5
<1>7. MapTyped /\ MapTyped'
  BY MapIsTyped, PTL
<1>8. life[t] = "alive" /\ life[u] = "none"
  BY <1>1, <1>3 DEF MapSound, Exiting
<1>9. life' = [life EXCEPT ![u] = "alive"]
  <2>1. \A v \in Thread : life'[v] = IF v = u THEN "alive" ELSE life[v]
    BY <1>1, <1>3, <1>6 DEF MapSound, Exiting
  <2> QED BY <1>7, <2>1 DEF MapTyped
<1>10. parent' = [parent EXCEPT ![u] = t]
  <2>1. parent'[u] = t
    <3>1. /\ status'[u] = "READY" /\ status'[t] = "RUNNING" /\ pc'[t] = "user"
          /\ pid'[t] = ppid'[u]
      BY <1>3, <1>4, <1>6
    <3>2. Father(u, t)'
      BY <3>1 DEF Father, Exiting
    <3> QED BY <1>1, <1>3, <3>2 DEF MapSound
  <2>2. ASSUME NEW v \in Thread, v # u PROVE parent'[v] = parent[v]
    <3>1. ASSUME NEW w \in Thread, Father(v, w) PROVE Father(v, w)'
      <4>1. /\ status[v] # "NONE" /\ status[w] # "NONE"
            /\ pid[w] = ppid[v] /\ pc[w] \notin Exiting
        BY <3>1 DEF Father
      <4>2. /\ status'[v] # "NONE" /\ status'[w] # "NONE" /\ pc'[w] \notin Exiting
        BY <1>6, <4>1 DEF Exiting
      <4> QED BY <1>4, <4>1, <4>2 DEF Father
    <3>2. status'[v] = "NONE" <=> status[v] = "NONE"
      BY <1>6, <2>2
    <3> QED BY <1>1, <3>1, <3>2, ParentKept
  <2> QED BY <1>7, <2>1, <2>2 DEF MapTyped
<1>11. Families!Fork(t, u)
  BY <1>4, <1>8, <1>9, <1>10 DEF Families!Fork
<1> QED BY <1>3, <1>11 DEF Families!Next

LEMMA ExitMap ==
  ASSUME IInv, IInv', NEW t \in User, NEW s \in Code[t], SysExit(t, s)
  PROVE  Families!Next
<1>1. MapSound /\ MapSound'
  BY MapIs, PTL
<1>2. /\ t \in Thread /\ t # InitProc /\ status[t] = "RUNNING" /\ pc[t] = "user"
      /\ exit_status' = [exit_status EXCEPT ![t] = s]
      /\ ppid' = [u \in Thread |-> IF u \in Children(t) THEN 1 ELSE ppid[u]]
      /\ pc' = [pc EXCEPT ![t] = "exit"]
      /\ UNCHANGED status /\ UNCHANGED pid /\ UNCHANGED result
  BY RunningIs DEF SysExit, At, EnterCall, MoveTo, cpuVars
<1>3. Children(t) = {u \in Thread : status[u] # "NONE" /\ ppid[u] = pid[t]}
  BY ListedIs DEF IInv
<1>4. /\ pc \in [Thread -> {"user", "copy", "wait", "release", "exit", "hang"}]
      /\ \A v \in Thread : pc'[v] = IF v = t THEN "exit" ELSE pc[v]
  BY <1>2 DEF IInv, TypeOK
<1>5. MapTyped /\ MapTyped'
  BY MapIsTyped, PTL
<1>6. life[t] = "alive"
  BY <1>1, <1>2 DEF MapSound, Exiting
<1>7. life' = [life EXCEPT ![t] = "dying"]
  <2>1. \A v \in Thread : life'[v] = IF v = t THEN "dying" ELSE life[v]
    BY <1>1, <1>2, <1>4 DEF MapSound, Exiting
  <2> QED BY <1>5, <2>1 DEF MapTyped
<1>8. parent' = [c \in Thread |-> IF parent[c] = t THEN InitProc ELSE parent[c]]
  <2>1. ASSUME NEW v \in Thread
        PROVE  parent'[v] = IF parent[v] = t THEN InitProc ELSE parent[v]
    <3>1. CASE v \in Children(t)
      <4>1. Father(v, t) /\ parent[v] = t
        <5>1. Father(v, t)
          BY <1>2, <1>3, <3>1 DEF Father, Exiting
        <5> QED BY <1>1, <1>2, <5>1 DEF MapSound
      <4>2. Father(v, InitProc)'
        <5>1. /\ InitProc \in Thread /\ InitProc # t /\ pid[InitProc] = 1
              /\ status[InitProc] # "NONE" /\ pc[InitProc] \notin Exiting
          BY <1>2, ProcessAssumption DEF IInv, BootInv, Boot
        <5> QED BY <1>2, <1>3, <1>4, <3>1, <5>1 DEF Father
      <4> QED BY <1>1, <4>1, <4>2, ProcessAssumption DEF MapSound
    <3>2. CASE v \notin Children(t)
      <4>1. \A u \in Thread : Father(v, u) => u # t /\ Father(v, u)'
        BY <1>2, <1>3, <1>4, <3>2 DEF Father
      <4>2. parent'[v] = parent[v]
        BY <1>1, <1>2, <4>1, ParentKept
      <4>3. parent[v] # t
        <5>1. t # NoThread
          BY <1>2, ProcessAssumption
        <5> QED BY <1>1, <4>1, <5>1 DEF MapSound
      <4> QED BY <4>2, <4>3
    <3> QED BY <3>1, <3>2
  <2> QED BY <1>5, <2>1 DEF MapTyped
<1>9. Families!Exit(t, s)
  BY <1>2, <1>6, <1>7, <1>8 DEF Families!Exit
<1>10. s \in AnyCode
  BY <1>2 DEF AnyCode
<1> QED BY <1>2, <1>9, <1>10 DEF Families!Next

LEMMA DieMap ==
  ASSUME IInv, IInv', NEW t \in User, Hang(t)
  PROVE  Families!Next
<1>1. MapSound /\ MapSound'
  BY MapIs, PTL
<1>2. /\ t \in Thread /\ pc[t] = "hang" /\ status[t] = "RUNNING" /\ status'[t] = "HANGING"
      /\ \A u \in Thread : u # t => Drifts(u)
      /\ UNCHANGED pid /\ UNCHANGED ppid /\ UNCHANGED pc
      /\ UNCHANGED exit_status /\ UNCHANGED result
  BY HangKeeps DEF Hang, procVars, User
<1>3. \A u \in Thread : /\ status'[u] = "NONE" <=> status[u] = "NONE"
                        /\ u # t => (status'[u] = "HANGING" <=> status[u] = "HANGING")
  BY <1>2 DEF Drifts, IInv, PlaceInv, Place
<1>4. MapTyped /\ MapTyped'
  BY MapIsTyped, PTL
<1>5. life[t] = "dying"
  BY <1>1, <1>2 DEF MapSound, Exiting
<1>6. life' = [life EXCEPT ![t] = "zombie"]
  <2>1. \A v \in Thread : life'[v] = IF v = t THEN "zombie" ELSE life[v]
    BY <1>1, <1>2, <1>3 DEF MapSound
  <2> QED BY <1>4, <2>1 DEF MapTyped
<1>7. parent' = parent
  <2>1. ASSUME NEW v \in Thread PROVE parent'[v] = parent[v]
    <3>1. \A u \in Thread : Father(v, u) => Father(v, u)'
      BY <1>2, <1>3 DEF Father
    <3> QED BY <1>1, <1>3, <3>1, ParentKept
  <2> QED BY <1>4, <2>1 DEF MapTyped
<1>8. Families!Die(t)
  BY <1>2, <1>5, <1>6, <1>7 DEF Families!Die
<1> QED BY <1>2, <1>8 DEF Families!Next

LEMMA CollectMap ==
  ASSUME IInv, IInv', NEW t \in User, Collect(t)
  PROVE  Families!Next
<1>1. MapSound /\ MapSound'
  BY MapIs, PTL
<1>2. /\ t \in Thread /\ status[t] = "RUNNING" /\ pc[t] = "wait"
      /\ pc' = [pc EXCEPT ![t] = "release"]
  BY RunningIs DEF Collect, At, MoveTo
<1>3. PICK u \in Thread :
        /\ status[u] = "HANGING" /\ ppid[u] = pid[t] /\ u # t
        /\ status' = [status EXCEPT ![u] = "NONE"]
        /\ pid' = [pid EXCEPT ![u] = 0]
        /\ ppid' = [ppid EXCEPT ![u] = 0]
        /\ exit_status' = [exit_status EXCEPT ![u] = NoCode]
        /\ result' = [result EXCEPT ![t] = exit_status[u]]
  BY CollectKeeps
<1>4. \A v \in Thread : /\ status'[v] = IF v = u THEN "NONE" ELSE status[v]
                        /\ pid'[v] = IF v = u THEN 0 ELSE pid[v]
                        /\ ppid'[v] = IF v = u THEN 0 ELSE ppid[v]
                        /\ pc'[v] = IF v = t THEN "release" ELSE pc[v]
  BY <1>2, <1>3 DEF IInv, TypeOK, SchedTypeOK
<1>5. MapTyped /\ MapTyped'
  BY MapIsTyped, PTL
<1>6. life[t] = "alive" /\ life[u] = "zombie" /\ parent[u] = t
  <2>1. Father(u, t)
    BY <1>2, <1>3 DEF Father, Exiting
  <2> QED BY <1>1, <1>2, <1>3, <2>1 DEF MapSound, Exiting
<1>7. life' = [life EXCEPT ![u] = "none"]
  <2>1. \A v \in Thread : life'[v] = IF v = u THEN "none" ELSE life[v]
    BY <1>1, <1>2, <1>4 DEF MapSound, Exiting
  <2> QED BY <1>5, <2>1 DEF MapTyped
<1>8. parent' = [parent EXCEPT ![u] = NoThread]
  <2>1. parent'[u] = NoThread
    BY <1>1, <1>4 DEF MapSound
  <2>2. ASSUME NEW v \in Thread, v # u PROVE parent'[v] = parent[v]
    <3>1. pc[u] \in Exiting
      BY <1>3 DEF IInv, PlaceInv, Place, Exiting
    <3>2. \A w \in Thread : Father(v, w) => Father(v, w)'
      BY <1>2, <1>4, <2>2, <3>1 DEF Father, Exiting
    <3>3. status'[v] = "NONE" <=> status[v] = "NONE"
      BY <1>4, <2>2
    <3> QED BY <1>1, <3>2, <3>3, ParentKept
  <2> QED BY <1>5, <2>1, <2>2 DEF MapTyped
<1>9. Families!Collect(t, u)
  BY <1>3, <1>6, <1>7, <1>8 DEF Families!Collect
<1> QED BY <1>2, <1>9 DEF Families!Next

\* The child a fork fills in is nobody's yet.
LEMMA SysForkMap ==
  ASSUME IInv, IInv', NEW t \in User, NEW u \in User \ {InitProc}, SysFork(t, u)
  PROVE  UNCHANGED familyVars
<1>1. MapSound /\ MapSound'
  BY MapIs, PTL
<1>2. /\ t \in Thread /\ status[u] = "NONE" /\ pc[t] = "user"
      /\ pc' = [pc EXCEPT ![t] = "copy"]
      /\ pid' = [pid EXCEPT ![u] = allocate_pid]
      /\ ppid' = [ppid EXCEPT ![u] = pid[t]]
      /\ UNCHANGED status /\ UNCHANGED result /\ UNCHANGED exit_status
  BY SysForkKeeps DEF SysFork, At, EnterCall, MoveTo, cpuVars, User
<1>3. SameTree
  <2>1. /\ pid \in [Thread -> 0..MaxPid] /\ ppid \in [Thread -> 0..MaxPid]
        /\ pc \in [Thread -> {"user", "copy", "wait", "release", "exit", "hang"}]
    BY DEF IInv, TypeOK
  <2> QED BY <1>2, <2>1 DEF SameTree, Exiting
<1>4. UNCHANGED <<life, parent>>
  BY <1>1, <1>3, TreeStutters
<1> QED BY <1>2, <1>4 DEF familyVars

LEMMA StepMap ==
  ASSUME IInv, IInv', [Next]_vars
  PROVE  Families!Next \/ UNCHANGED familyVars
<1>1. CASE Next
  BY <1>1, NextIs, LocalMap, SysForkMap, ExitMap, ForkMap, CollectMap, DieMap
<1>2. CASE UNCHANGED vars
  <2>1. SameTree /\ UNCHANGED exit_status /\ UNCHANGED result
    BY <1>2, StutterKeeps DEF vars, procVars
  <2>2. MapSound /\ MapSound'
    BY MapIs, PTL
  <2> QED BY <2>1, <2>2, TreeStutters DEF familyVars
<1> QED BY <1>1, <1>2

\* fork, exit and wait, which find processes by their pids and sleep in between,
\* implement the tree of processes: every process has one living parent, what a
\* process leaves behind goes to init, and its status to its parent, once.
THEOREM ProcessesImplementFamily == Spec => ImplementsFamily
<1>1. IInv /\ IInv' /\ [Next]_vars => [Families!Next]_familyVars
  BY StepMap
<1> QED BY <1>1, InitMap, ProcessInvariant, PTL
        DEF Spec, ImplementsFamily, Families!Spec, familyVars
=============================================================================
