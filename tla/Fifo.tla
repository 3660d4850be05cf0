-------------------------------- MODULE Fifo --------------------------------
(***************************************************************************)
(* What a keyboard queue promises a reader: the keys accepted so far come  *)
(* out once each and in order.  At most Capacity keys are pending; a key   *)
(* that arrives when the queue is full is dropped, which is a stutter.     *)
(***************************************************************************)
EXTENDS Naturals, Sequences

CONSTANTS Reader, Key, NoKey, Capacity

VARIABLES pending, out

Init == pending = <<>> /\ out = [r \in Reader |-> NoKey]

Put(k) == /\ Len(pending) < Capacity
          /\ pending' = Append(pending, k)
          /\ UNCHANGED out

Get(r) == /\ pending # <<>>
          /\ out' = [out EXCEPT ![r] = Head(pending)]
          /\ pending' = Tail(pending)

Next == (\E k \in Key : Put(k)) \/ (\E r \in Reader : Get(r))

Spec == Init /\ [][Next]_<<pending, out>>
=============================================================================
