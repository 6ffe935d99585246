----------------------------- MODULE BoundedFIFO -----------------------------
(***************************************************************************)
(* What both ring buffers of runtime/lockfree_queue.hpp promise their      *)
(* users: a bounded queue into which an item is put once, from which every *)
(* item leaves once and in the order of the puts, and in which a taken     *)
(* item belongs to exactly one thread until that thread's pop() returns.   *)
(* No cell, sequence number, cursor or memory order is visible here.       *)
(***************************************************************************)
EXTENDS Naturals, Sequences

CONSTANTS
  Item,      \* the values that travel through the queue
  Thread,    \* the threads that may pop
  Capacity,  \* the number of cells
  NoItem     \* what a thread that is not inside a successful pop holds

VARIABLES
  queue,     \* the accepted items that no thread has taken yet
  hand       \* hand[t]: the item thread t has taken and not yet returned

absVars == <<queue, hand>>

AbsInit ==
  /\ queue = <<>>
  /\ hand = [t \in Thread |-> NoItem]

Put(v) ==
  /\ Len(queue) < Capacity
  /\ queue' = Append(queue, v)
  /\ UNCHANGED hand

Take(t) ==
  /\ hand[t] = NoItem
  /\ queue # <<>>
  /\ hand' = [hand EXCEPT ![t] = Head(queue)]
  /\ queue' = Tail(queue)

Return(t) ==
  /\ hand[t] # NoItem
  /\ hand' = [hand EXCEPT ![t] = NoItem]
  /\ UNCHANGED queue

AbsNext ==
  \/ \E v \in Item : Put(v)
  \/ \E t \in Thread : Take(t) \/ Return(t)

AbsSpec == AbsInit /\ [][AbsNext]_absVars

=============================================================================
