------------------------------- MODULE Family -------------------------------
(***************************************************************************)
(* What fork, exit and wait promise, told with the processes themselves    *)
(* instead of the pids by which wait_exit.c finds them: every process has  *)
(* one living parent, a process that ends leaves its children to init, and *)
(* its exit status goes to its parent, once.                               *)
(***************************************************************************)
CONSTANTS Thread, InitProc, None, Code, NoCode

VARIABLES life,    \* "none", "alive", "dying" or "zombie"
          parent,  \* the parent, None for the processes of the boot
          code,    \* the exit status of the dying and the zombies
          got      \* the status the last wait of each process returned

Init == /\ life \in [Thread -> {"none", "alive"}]
        /\ parent = [t \in Thread |-> None]
        /\ code = [t \in Thread |-> NoCode]
        /\ got = code

Fork(p, c) == /\ life[p] = "alive"
              /\ life[c] = "none"
              /\ life' = [life EXCEPT ![c] = "alive"]
              /\ parent' = [parent EXCEPT ![c] = p]
              /\ UNCHANGED <<code, got>>

Exit(p, s) == /\ life[p] = "alive"
              /\ p # InitProc
              /\ life' = [life EXCEPT ![p] = "dying"]
              /\ parent' = [c \in Thread |-> IF parent[c] = p THEN InitProc ELSE parent[c]]
              /\ code' = [code EXCEPT ![p] = s]
              /\ UNCHANGED got

Die(p) == /\ life[p] = "dying"
          /\ life' = [life EXCEPT ![p] = "zombie"]
          /\ UNCHANGED <<parent, code, got>>

Collect(p, c) == /\ life[p] = "alive"
                 /\ life[c] = "zombie"
                 /\ parent[c] = p
                 /\ life' = [life EXCEPT ![c] = "none"]
                 /\ parent' = [parent EXCEPT ![c] = None]
                 /\ got' = [got EXCEPT ![p] = code[c]]
                 /\ code' = [code EXCEPT ![c] = NoCode]

Next == \E p \in Thread : \/ \E c \in Thread : Fork(p, c) \/ Collect(p, c)
                          \/ \E s \in Code : Exit(p, s)
                          \/ Die(p)

Spec == Init /\ [][Next]_<<life, parent, code, got>>
=============================================================================
