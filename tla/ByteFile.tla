------------------------------ MODULE ByteFile ------------------------------
(***************************************************************************)
(* What a file promises to the process that has it open: a position and a  *)
(* row of bytes.  A byte between the old end and a write beyond it may be  *)
(* anything until it is written; it becomes zero when its block is made.   *)
(***************************************************************************)
EXTENDS Integers
CONSTANTS MaxSize, Byte, Hole
VARIABLES pos, size, data

fileVars == <<pos, size, data>>
Init == pos = 0 /\ size = 0 /\ data = [x \in 0 .. MaxSize - 1 |-> Hole]

Seek == pos' \in Nat /\ UNCHANGED <<size, data>>

Read == \E n \in 0 .. size - pos : pos' = pos + n /\ UNCHANGED <<size, data>>

Write == \E n \in 0 .. MaxSize - pos, v \in Byte :
    /\ pos' = pos + n
    /\ size' = IF pos + n > size THEN pos + n ELSE size
    /\ \A x \in pos .. pos + n - 1 : data'[x] = v
    /\ \A x \in (0 .. MaxSize - 1) \ (pos .. pos + n - 1) :
          \/ data'[x] = data[x]
          \/ data[x] = Hole /\ data'[x] = 0

Next == Seek \/ Read \/ Write
Spec == Init /\ [][Next]_fileVars
=============================================================================
