--------------------------- MODULE LockFreeQueue ---------------------------
(* What the two queues of runtime/lockfree_queue.hpp have in common.  Each   *)
(* keeps its items in an array buffer_ of Capacity cells and counts          *)
(* positions that only grow; the cell of position n is buffer_[n & mask],    *)
(* mask being Capacity - 1.  A static_assert makes Capacity a power of two,  *)
(* for which n & mask is the remainder taken below.  No other fact about     *)
(* Capacity is used by either queue than that there is at least one cell.    *)
EXTENDS Integers, Sequences

CONSTANTS
  Item,      \* the values pushed
  NoItem,    \* content of a cell that was never written, or moved out of
  Capacity,  \* the template parameter Capacity
  MaxPush    \* bound: no push() starts once this many positions are used

Cell(n) == n % Capacity

ASSUME NoItemAssumption == NoItem \notin Item
ASSUME MaxPushAssumption == MaxPush \in Nat
ASSUME CapacityAssumption == Capacity \in Nat \ {0}

=============================================================================
