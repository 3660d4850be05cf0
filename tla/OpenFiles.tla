----------------------------- MODULE OpenFiles -----------------------------
(***************************************************************************)
(* Open files: the in-core inodes of a partition (fs/inode.c), the file    *)
(* table of the system and the descriptor tables of the processes (fs/     *)
(* file.c, fs/fs.c), with what fork, exit and unlink do to them.  A file   *)
(* is its inode number; the tree it is named in is the subject of FsDisk.  *)
(* The root, which is opened at the mount and never closed, is left out.   *)
(*                                                                         *)
(* A call waits for the disk in the middle: in inode_open of an inode that *)
(* is not in memory, and in file_create and sys_unlink.  Calls follow each *)
(* other, as they do while the shell waits for the one command it started. *)
(* The calls that are made are chosen when the story begins, from Sessions.*)
(***************************************************************************)
EXTENDS Pools, FiniteSets, Sequences

CONSTANTS Proc, InitProc, \* the processes, and the one that runs first
          Number, Dirs,   \* inode numbers, and those that are directories at first
          Slots, MaxFd,   \* 32 and 64
          Object,         \* memory blocks for in-core inodes
          MaxCount,       \* bound on i_open_cnt
          Sessions, NoInode

\* An inode in memory
Node == [no : Number, cnt : Nat, deny : BOOLEAN]

ASSUME OpenFilesAssumption ==
    /\ InitProc \in Proc /\ Dirs \subseteq Number /\ NoInode \notin Object \cup Node
    /\ Object \subseteq Nat /\ Slots \in Nat /\ MaxFd \in Nat /\ MaxFd > 3
    /\ MaxCount \in Nat
    /\ \A s \in Sessions : s \subseteq {"open", "create", "unlink", "rmdir",
                                         "getcwd", "fork", "exit"}

Slot == 0 .. Slots - 1
Fd == 3 .. MaxFd - 1

VARIABLES ops,    \* the calls that are made
          core,   \* inodes in memory: number, i_open_cnt, write_deny
          list,   \* open_inodes, the head first
          table,  \* fd_inode of each slot of file_table
          fds,    \* fd_table of each process; -1 is free
          dirs,   \* the inode numbers of directories
          named,  \* the inode numbers that have an entry on the disk
          used,   \* the inode numbers whose bit is set
          alive,  \* processes
          r,      \* the call a process is in the middle of
          fault   \* "no", or what went wrong
tableVars == <<ops, core, list, table, fds, dirs, named, used, alive, r, fault>>

NoCall == [op |-> "none", no |-> 0, slot |-> 0, inode |-> NoInode, write |-> FALSE]

TablesInit ==
    /\ ops \in Sessions
    /\ core = [x \in Object |-> NoInode]
    /\ list = <<>>
    /\ table = [s \in Slot |-> NoInode]
    /\ fds = [p \in Proc |-> [d \in Fd |-> -1]]
    /\ dirs = Dirs /\ named = Dirs /\ used = Dirs
    /\ alive = {InitProc}
    /\ r = [p \in Proc |-> NoCall]
    /\ fault = "no"

-----------------------------------------------------------------------------
\* list_remove: what follows element x moves up.
list_remove(q, x) ==
    LET k == CHOOSE k \in DOMAIN q : q[k] = x
    IN  [i \in 1 .. Len(q) - 1 |-> IF i < k THEN q[i] ELSE q[i + 1]]

\* The process that makes the next step of a call
Runs(p, op) == /\ fault = "no" /\ p \in alive /\ r[p].op = op
               /\ \A q \in Proc \ {p} : r[q].op = "none"
Calls(p, op) == op \in ops /\ Runs(p, "none")

\* mutant: open_inodes is not searched
Found_never(i) == {}

\* The element of open_inodes that inode_open finds
Found(i) == {k \in DOMAIN list : core[list[k]].no = i}
InCore(i) == list[Least(Found(i))]

\* get_free_slot_in_global, and sys_malloc of an inode
FreeSlots == {s \in Slot : table[s] = NoInode}
NewObject == Least({x \in Object : core[x] = NoInode})

\* pcb_fd_install: without a free descriptor the slot stays taken.
pcb_fd_install(p, s) ==
    LET free == {d \in Fd : fds[p][d] = -1}
    IN  fds' = IF free = {} THEN fds ELSE [fds EXCEPT ![p][Least(free)] = s]

\* file_open after inode_open: a file that is being written is not opened for
\* writing, and the slot stays taken then, too.
Install(p, s, x, node, write) ==
    /\ table' = [table EXCEPT ![s] = x]
    /\ core' = [core EXCEPT ![x] = [node EXCEPT !.deny = @ \/ write]]
    /\ IF write /\ node.deny THEN UNCHANGED fds ELSE pcb_fd_install(p, s)

\* sys_open of a file that is there, and file_open: the slot is chosen before
\* inode_open waits for the disk.
Open(p, i, write) ==
    /\ Calls(p, "open") /\ i \in named \ dirs /\ FreeSlots # {}
    /\ IF Found(i) # {}
       THEN LET x == InCore(i)
            IN  /\ core[x].cnt < MaxCount
                /\ Install(p, Least(FreeSlots), x, [core[x] EXCEPT !.cnt = @ + 1], write)
                /\ UNCHANGED r
       ELSE /\ r' = [r EXCEPT ![p] = [NoCall EXCEPT !.op = "open", !.no = i, !.write = write,
                                                  !.slot = Least(FreeSlots)]]
            /\ UNCHANGED <<core, table, fds>>
    /\ UNCHANGED <<list, dirs, named, used, alive, fault>>

\* The inode was read: it enters open_inodes, whatever is there by now.
OpenRead(p) ==
    /\ Runs(p, "open") /\ \E x \in Object : core[x] = NoInode
    /\ list' = <<NewObject>> \o list
    /\ Install(p, r[p].slot, NewObject, [no |-> r[p].no, cnt |-> 1, deny |-> FALSE], r[p].write)
    /\ r' = [r EXCEPT ![p] = NoCall]
    /\ UNCHANGED <<dirs, named, used, alive, fault>>

\* sys_open without a free slot: it returns -1.
OpenFails(p) == /\ Calls(p, "open") /\ FreeSlots = {}
                /\ UNCHANGED <<core, list, table, fds, dirs, named, used, alive, r, fault>>

\* sys_open with O_CREAT, and file_create up to its first disk access
Create(p, i) ==
    /\ Calls(p, "create") /\ i \notin used /\ FreeSlots # {}
    /\ \E x \in Object : core[x] = NoInode
    /\ used' = used \cup {i}
    /\ core' = [core EXCEPT ![NewObject] = [no |-> i, cnt |-> 0, deny |-> FALSE]]
    /\ table' = [table EXCEPT ![Least(FreeSlots)] = NewObject]
    /\ r' = [r EXCEPT ![p] = [NoCall EXCEPT !.op = "create", !.no = i,
                                          !.slot = Least(FreeSlots), !.inode = NewObject]]
    /\ UNCHANGED <<list, fds, dirs, named, alive, fault>>

CreateEntry(p) ==
    /\ Runs(p, "create")
    /\ named' = named \cup {r[p].no}
    /\ r' = [r EXCEPT ![p].op = "created"]
    /\ UNCHANGED <<core, list, table, fds, dirs, used, alive, fault>>

\* The directory is full: rollback_step 3 of file_create
CreateFails(p) ==
    /\ Runs(p, "create")
    /\ table' = [table EXCEPT ![r[p].slot] = NoInode]
    /\ core' = [core EXCEPT ![r[p].inode] = NoInode]
    /\ used' = used \ {r[p].no}
    /\ r' = [r EXCEPT ![p] = NoCall]
    /\ UNCHANGED <<list, fds, dirs, named, alive, fault>>

CreateDone(p) ==
    /\ Runs(p, "created")
    /\ list' = <<r[p].inode>> \o list
    /\ core' = [core EXCEPT ![r[p].inode].cnt = 1]
    /\ pcb_fd_install(p, r[p].slot)
    /\ r' = [r EXCEPT ![p] = NoCall]
    /\ UNCHANGED <<table, dirs, named, used, alive, fault>>

\* mutant: inode_close does not look at i_open_cnt
CloseFreesInode(p, d) ==
    LET s == fds[p][d]
        x == table[s]
    IN  /\ fault = "no" /\ s # -1 /\ x # NoInode
        /\ p \in alive /\ r[p].op \in {"none", "exit"}
        /\ \A q \in Proc \ {p} : r[q].op = "none"
        /\ core' = [core EXCEPT ![x] = NoInode]
        /\ list' = list_remove(list, x)
        /\ table' = [table EXCEPT ![s] = NoInode]
        /\ fds' = [fds EXCEPT ![p][d] = -1]
        /\ UNCHANGED <<dirs, named, used, alive, r, fault>>

\* sys_close, file_close and inode_close.  The slot is free afterwards though
\* another descriptor may name it.
Close(p, d) ==
    LET s == fds[p][d]
        x == table[s]
        last == core[x].cnt = 1
    IN  /\ fault = "no" /\ s # -1 /\ p \in alive /\ r[p].op \in {"none", "exit"}
        /\ \A q \in Proc \ {p} : r[q].op = "none"
        /\ IF x = NoInode \/ core[x] = NoInode
           THEN /\ fault' = IF x = NoInode THEN "null" ELSE "freed"
                /\ UNCHANGED <<core, list, table, fds>>
           ELSE /\ core' = [core EXCEPT ![x] = IF last THEN NoInode
                                ELSE [core[x] EXCEPT !.cnt = @ - 1, !.deny = FALSE]]
                /\ list' = IF last THEN list_remove(list, x) ELSE list
                /\ table' = [table EXCEPT ![s] = NoInode]
                /\ fds' = [fds EXCEPT ![p][d] = -1]
                /\ UNCHANGED fault
        /\ UNCHANGED <<dirs, named, used, alive, r>>

\* sys_unlink of a file that is in no slot, up to delete_dir_entry
Unlink(p, i) ==
    /\ Calls(p, "unlink") /\ i \in named \ dirs
    /\ \A s \in Slot : table[s] # NoInode => core[table[s]] = NoInode \/ core[table[s]].no # i
    /\ named' = named \ {i}
    /\ r' = [r EXCEPT ![p] = [NoCall EXCEPT !.op = "release", !.no = i]]
    /\ UNCHANGED <<core, list, table, fds, dirs, used, alive, fault>>

\* sys_rmdir of an empty directory does not look who has it open.
Rmdir(p, i) ==
    /\ Calls(p, "rmdir") /\ i \in dirs
    /\ named' = named \ {i} /\ dirs' = dirs \ {i}
    /\ r' = [r EXCEPT ![p] = [NoCall EXCEPT !.op = "release", !.no = i]]
    /\ UNCHANGED <<core, list, table, fds, used, alive, fault>>

\* inode_release opens the inode, frees its number and closes it again.
Release(p) ==
    /\ Runs(p, "release")
    /\ used' = used \ {r[p].no}
    /\ r' = [r EXCEPT ![p] = NoCall]
    /\ UNCHANGED <<core, list, table, fds, dirs, named, alive, fault>>

\* sys_mkdir of a name that is there, in directory i: the error path at
\* rollback_step 0 does not close the directory.  So do get_parent_dir_inode_no
\* and get_child_dir_name of sys_getcwd.
KeepOpen(p, i) ==
    /\ Calls(p, "getcwd") /\ i \in dirs
    /\ IF Found(i) # {}
       THEN /\ core[InCore(i)].cnt < MaxCount
            /\ core' = [core EXCEPT ![InCore(i)].cnt = @ + 1]
            /\ UNCHANGED list
       ELSE /\ \E x \in Object : core[x] = NoInode
            /\ core' = [core EXCEPT ![NewObject] = [no |-> i, cnt |-> 1, deny |-> FALSE]]
            /\ list' = <<NewObject>> \o list
    /\ UNCHANGED <<table, fds, dirs, named, used, alive, r, fault>>

\* copy_pcb and update_inode_open_cnts: the child has its parent's slots.
Fork(p, q) ==
    LET Ends(x) == Cardinality({d \in Fd : fds[p][d] # -1 /\ table[fds[p][d]] = x})
    IN  /\ Calls(p, "fork") /\ q \notin alive
        /\ \A x \in Object : Ends(x) > 0 /\ core[x] # NoInode => core[x].cnt + Ends(x) =< MaxCount
        /\ IF Ends(NoInode) > 0
           THEN fault' = "null" /\ UNCHANGED <<core, fds, alive>>
           ELSE /\ core' = [x \in Object |->
                               IF core[x] = NoInode THEN NoInode
                               ELSE [core[x] EXCEPT !.cnt = @ + Ends(x)]]
                /\ fds' = [fds EXCEPT ![q] = fds[p]]
                /\ alive' = alive \cup {q}
                /\ UNCHANGED fault
        /\ UNCHANGED <<list, table, dirs, named, used, r>>

\* sys_exit: release_prog_resource closes the descriptors one by one.
Exit(p) ==
    /\ Calls(p, "exit") /\ p # InitProc
    /\ r' = [r EXCEPT ![p] = [NoCall EXCEPT !.op = "exit"]]
    /\ UNCHANGED <<core, list, table, fds, dirs, named, used, alive, fault>>

ExitDone(p) ==
    /\ Runs(p, "exit") /\ \A d \in Fd : fds[p][d] = -1
    /\ alive' = alive \ {p}
    /\ r' = [r EXCEPT ![p] = NoCall]
    /\ UNCHANGED <<core, list, table, fds, dirs, named, used, fault>>

Stopped == fault # "no" /\ UNCHANGED tableVars

Call == \/ \E p \in Proc :
              \/ \E i \in Number : \/ \E write \in BOOLEAN : Open(p, i, write)
                                   \/ Create(p, i) \/ Unlink(p, i)
                                   \/ Rmdir(p, i) \/ KeepOpen(p, i)
              \/ OpenFails(p) \/ OpenRead(p) \/ Release(p)
              \/ CreateEntry(p) \/ CreateFails(p) \/ CreateDone(p)
              \/ \E d \in Fd : Close(p, d)
              \/ \E q \in Proc : Fork(p, q)
              \/ Exit(p) \/ ExitDone(p)
        \/ Stopped
TablesNext == Call /\ UNCHANGED ops

TablesSpec == TablesInit /\ [][TablesNext]_tableVars

-----------------------------------------------------------------------------
Listed == {list[k] : k \in DOMAIN list}
Quiet == r = [p \in Proc |-> NoCall]

\* A file has one inode in memory, which is that of a file on the disk: no two
\* processes work on different sizes and blocks of one file.  A number that was
\* a directory's is not spoken of: sys_getcwd leaves directories open, and
\* sys_rmdir removes them all the same.  Nor are files with forks: once one of
\* two processes closed the file its slot is free, and sys_unlink, which looks
\* at the slots, removes it under the other.
OneInode == "fork" \notin ops => \A j \in DOMAIN list : LET i == core[list[j]].no IN i \notin Dirs =>
    /\ i \in used
    /\ \A k \in DOMAIN list : core[list[k]].no = i => j = k

\* Between calls i_open_cnt is the number of slots that have the file, those
\* included that a failed open left behind; a forked child adds to it, and never
\* takes away more than it added: an inode that a slot names is in memory.  As
\* long as nobody forks a descriptor names a slot of its own with a file in it.
UsesOf(x) == Cardinality({s \in Slot : table[s] = x})
DescriptorsLive == \A p, q \in Proc, d, e \in Fd :
    /\ fds[p][d] # -1 => table[fds[p][d]] # NoInode
    /\ fds[p][d] # -1 /\ fds[p][d] = fds[q][e] => <<p, d>> = <<q, e>>
CountIsSlots == Quiet =>
    /\ \A x \in Object :
          IF core[x] = NoInode THEN UsesOf(x) = 0 /\ x \notin Listed
          ELSE /\ x \in Listed
               /\ core[x].cnt >= UsesOf(x)
               /\ "fork" \notin ops /\ core[x].no \notin Dirs => core[x].cnt = UsesOf(x)
    /\ "fork" \notin ops => DescriptorsLive
=============================================================================
