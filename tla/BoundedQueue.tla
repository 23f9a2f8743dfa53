---------------------------- MODULE BoundedQueue ----------------------------
(***************************************************************************)
(* What a queue with room for capacity items promises to its users: an     *)
(* item that was accepted comes out once, in the order of acceptance, and  *)
(* nothing else comes out.  UsartTx, UsartRx and IpcFifo each implement    *)
(* it.  An offer that finds the queue full, or a take that finds it empty, *)
(* changes nothing here.                                                   *)
(***************************************************************************)
EXTENDS Naturals, Sequences

CONSTANTS Items

VARIABLES
  capacity,  \* how many items fit; fixed when the queue is set up
  queue,     \* the items accepted and not taken yet
  taken      \* the items taken, in order

Init == capacity \in Nat /\ queue = <<>> /\ taken = <<>>

Accept(i) ==
  /\ Len(queue) < capacity
  /\ queue' = Append(queue, i)
  /\ UNCHANGED <<capacity, taken>>

Take ==
  /\ queue # <<>>
  /\ taken' = Append(taken, Head(queue))
  /\ queue' = Tail(queue)
  /\ UNCHANGED capacity

Next == Take \/ \E i \in Items : Accept(i)

Spec == Init /\ [][Next]_<<capacity, queue, taken>>
=============================================================================
