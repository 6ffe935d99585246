------------------------------ MODULE MPMCQueue ------------------------------
(***************************************************************************)
(* The multi-producer multi-consumer ring of runtime/lockfree_queue.hpp    *)
(* (Vyukov's bounded queue with a sequence number per cell).  The three    *)
(* task queues of the scheduler and every actor mailbox are one of these.  *)
(*                                                                         *)
(* Each atomic access is a step of its own, and so is each access to the   *)
(* plain data of a cell.  A thread inside push() or pop() keeps its local  *)
(* pos; the loaded sequence number is used up in the step that loads it.   *)
(*                                                                         *)
(* A stale value returned by a relaxed load of a position counter is an    *)
(* earlier load followed by a delay, so the interleavings below cover it.  *)
(* Positions are 64-bit in the code and never wrap in practice: they are   *)
(* naturals here and MaxPush bounds them.                                  *)
(***************************************************************************)
EXTENDS LockFreeQueue

CONSTANT Thread  \* the threads that use the queue; each may push and pop

VARIABLES
  enqueuePos, dequeuePos,  \* enqueue_pos_ and dequeue_pos_
  sequence,                \* sequence[c]: buffer_[c].sequence
  data,                    \* data[c]: buffer_[c].data
  pc,                      \* where each thread is inside push() or pop()
  pos,                     \* pos[t]: the local variable pos
  item,                    \* item[t]: push()'s argument, pop()'s out parameter
  log                      \* history: log[p + 1] is the item that claimed p

vars == <<enqueuePos, dequeuePos, sequence, data, pc, pos, item, log>>

(* The constructor gives cell i the sequence number i. *)
Init ==
  /\ enqueuePos = 0 /\ dequeuePos = 0
  /\ sequence = [c \in 0 .. Capacity - 1 |-> c]
  /\ data = [c \in 0 .. Capacity - 1 |-> NoItem]
  /\ pc = [t \in Thread |-> "idle"]
  /\ pos = [t \in Thread |-> 0]
  /\ item = [t \in Thread |-> NoItem]
  /\ log = <<>>

Goto(t, from, to) == pc[t] = from /\ pc' = [pc EXCEPT ![t] = to]

-----------------------------------------------------------------------------
(* push(T&&); push(const T&) copies its argument and calls it. *)

(* enqueue_pos_.load(relaxed) *)
PushBegin(t, v) ==
  /\ enqueuePos < MaxPush
  /\ Goto(t, "idle", "pushLoad")
  /\ item' = [item EXCEPT ![t] = v]
  /\ pos' = [pos EXCEPT ![t] = enqueuePos]
  /\ UNCHANGED <<enqueuePos, dequeuePos, sequence, data, log>>

(* Mutants: operators named <Action>_<Bug> are faulty versions of the next  *)
(* action that no specification uses; the properties below notice each.    *)
PushCellFree_AnyOlderLap(t) ==
  /\ sequence[Cell(pos[t])] <= pos[t]
  /\ Goto(t, "pushLoad", "pushCas")
  /\ UNCHANGED <<enqueuePos, dequeuePos, sequence, data, pos, item, log>>

(* sequence.load(acquire) and diff == 0: on to the compare-exchange. *)
PushCellFree(t) ==
  /\ sequence[Cell(pos[t])] = pos[t]
  /\ Goto(t, "pushLoad", "pushCas")
  /\ UNCHANGED <<enqueuePos, dequeuePos, sequence, data, pos, item, log>>

(* diff < 0: the cell still holds the item of the previous lap; return false. *)
PushFull(t) ==
  /\ sequence[Cell(pos[t])] < pos[t]
  /\ Goto(t, "pushLoad", "idle")
  /\ item' = [item EXCEPT ![t] = NoItem]
  /\ UNCHANGED <<enqueuePos, dequeuePos, sequence, data, pos, log>>

(* diff > 0: another producer took this position; reload enqueue_pos_. *)
PushOvertaken(t) ==
  /\ sequence[Cell(pos[t])] > pos[t]
  /\ Goto(t, "pushLoad", "pushLoad")
  /\ pos' = [pos EXCEPT ![t] = enqueuePos]
  /\ UNCHANGED <<enqueuePos, dequeuePos, sequence, data, item, log>>

PushClaim(t) ==
  /\ enqueuePos = pos[t]
  /\ Goto(t, "pushCas", "pushWrite")
  /\ enqueuePos' = pos[t] + 1
  /\ log' = Append(log, item[t])
  /\ UNCHANGED <<dequeuePos, sequence, data, pos, item>>

(* compare_exchange_weak stores the current value in pos when it fails,    *)
(* and it may fail spuriously.                                             *)
PushCasFails(t) ==
  /\ Goto(t, "pushCas", "pushLoad")
  /\ pos' = [pos EXCEPT ![t] = enqueuePos]
  /\ UNCHANGED <<enqueuePos, dequeuePos, sequence, data, item, log>>

PushWrite(t) ==
  /\ Goto(t, "pushWrite", "pushPublish")
  /\ data' = [data EXCEPT ![Cell(pos[t])] = item[t]]
  /\ UNCHANGED <<enqueuePos, dequeuePos, sequence, pos, item, log>>

PushPublish_SharedCounter(t) ==
  /\ Goto(t, "pushPublish", "idle")
  /\ sequence' = [sequence EXCEPT ![Cell(pos[t])] = enqueuePos]
  /\ item' = [item EXCEPT ![t] = NoItem]
  /\ UNCHANGED <<enqueuePos, dequeuePos, data, pos, log>>

PushPublish_NoStore(t) ==
  /\ Goto(t, "pushPublish", "idle")
  /\ item' = [item EXCEPT ![t] = NoItem]
  /\ UNCHANGED <<enqueuePos, dequeuePos, sequence, data, pos, log>>

(* sequence.store(pos + 1, release) and return true *)
PushPublish(t) ==
  /\ Goto(t, "pushPublish", "idle")
  /\ sequence' = [sequence EXCEPT ![Cell(pos[t])] = pos[t] + 1]
  /\ item' = [item EXCEPT ![t] = NoItem]
  /\ UNCHANGED <<enqueuePos, dequeuePos, data, pos, log>>

-----------------------------------------------------------------------------
(* pop(T&) *)

(* dequeue_pos_.load(relaxed) *)
PopBegin(t) ==
  /\ Goto(t, "idle", "popLoad")
  /\ pos' = [pos EXCEPT ![t] = dequeuePos]
  /\ UNCHANGED <<enqueuePos, dequeuePos, sequence, data, item, log>>

PopCellReady(t) ==
  /\ sequence[Cell(pos[t])] = pos[t] + 1
  /\ Goto(t, "popLoad", "popCas")
  /\ UNCHANGED <<enqueuePos, dequeuePos, sequence, data, pos, item, log>>

(* diff < 0: nothing published at this position yet; return false. *)
PopEmpty(t) ==
  /\ sequence[Cell(pos[t])] < pos[t] + 1
  /\ Goto(t, "popLoad", "idle")
  /\ UNCHANGED <<enqueuePos, dequeuePos, sequence, data, pos, item, log>>

PopOvertaken(t) ==
  /\ sequence[Cell(pos[t])] > pos[t] + 1
  /\ Goto(t, "popLoad", "popLoad")
  /\ pos' = [pos EXCEPT ![t] = dequeuePos]
  /\ UNCHANGED <<enqueuePos, dequeuePos, sequence, data, item, log>>

PopClaim_PlainStore(t) ==
  /\ Goto(t, "popCas", "popRead")
  /\ dequeuePos' = pos[t] + 1
  /\ UNCHANGED <<enqueuePos, sequence, data, pos, item, log>>

PopClaim(t) ==
  /\ dequeuePos = pos[t]
  /\ Goto(t, "popCas", "popRead")
  /\ dequeuePos' = pos[t] + 1
  /\ UNCHANGED <<enqueuePos, sequence, data, pos, item, log>>

PopCasFails(t) ==
  /\ Goto(t, "popCas", "popLoad")
  /\ pos' = [pos EXCEPT ![t] = dequeuePos]
  /\ UNCHANGED <<enqueuePos, dequeuePos, sequence, data, item, log>>

PopRead(t) ==
  /\ Goto(t, "popRead", "popRelease")
  /\ item' = [item EXCEPT ![t] = data[Cell(pos[t])]]
  /\ data' = [data EXCEPT ![Cell(pos[t])] = NoItem]
  /\ UNCHANGED <<enqueuePos, dequeuePos, sequence, pos, log>>

PopRelease_MaskOnly(t) ==
  /\ Goto(t, "popRelease", "idle")
  /\ sequence' = [sequence EXCEPT ![Cell(pos[t])] = pos[t] + (Capacity - 1)]
  /\ item' = [item EXCEPT ![t] = NoItem]
  /\ UNCHANGED <<enqueuePos, dequeuePos, data, pos, log>>

(* sequence.store(pos + buffer_mask_ + 1, release) and return true *)
PopRelease(t) ==
  /\ Goto(t, "popRelease", "idle")
  /\ sequence' = [sequence EXCEPT ![Cell(pos[t])] = pos[t] + Capacity]
  /\ item' = [item EXCEPT ![t] = NoItem]
  /\ UNCHANGED <<enqueuePos, dequeuePos, data, pos, log>>

-----------------------------------------------------------------------------

PushStep(t) ==
  \/ PushCellFree(t) \/ PushFull(t) \/ PushOvertaken(t)
  \/ PushClaim(t) \/ PushCasFails(t) \/ PushWrite(t) \/ PushPublish(t)

PopStep(t) ==
  \/ PopCellReady(t) \/ PopEmpty(t) \/ PopOvertaken(t)
  \/ PopClaim(t) \/ PopCasFails(t) \/ PopRead(t) \/ PopRelease(t)

Step(t) ==
  \/ \E v \in Item : PushBegin(t, v)
  \/ PopBegin(t)
  \/ PushStep(t)
  \/ PopStep(t)

Next == \E t \in Thread : Step(t)

Spec == Init /\ [][Next]_vars

-----------------------------------------------------------------------------

TypeOK ==
  /\ enqueuePos \in Nat /\ dequeuePos \in Nat
  /\ sequence \in [0 .. Capacity - 1 -> Nat]
  /\ data \in [0 .. Capacity - 1 -> Item \cup {NoItem}]
  /\ pc \in [Thread -> {"idle", "pushLoad", "pushCas", "pushWrite",
                        "pushPublish", "popLoad", "popCas", "popRead",
                        "popRelease"}]
  /\ pos \in [Thread -> Nat]
  /\ item \in [Thread -> Item \cup {NoItem}]
  /\ log \in Seq(Item)

(* The threads between a successful compare-exchange and their store of    *)
(* the sequence number: the ones that touch the data of their cell.        *)
Pushing(t) == pc[t] \in {"pushWrite", "pushPublish"}
Popping(t) == pc[t] \in {"popRead", "popRelease"}

(* No data race: a cell's plain data is never accessed by two threads at   *)
(* once, however late a thread wakes up with the position it claimed.      *)
CellOwnedOnce ==
  \A t, u \in Thread :
    (t # u /\ (Pushing(t) \/ Popping(t)) /\ (Pushing(u) \/ Popping(u)))
      => Cell(pos[t]) # Cell(pos[u])

(* The queue is bounded: the positions claimed by producers never run more *)
(* than Capacity ahead of the ones claimed by consumers.                   *)
Bounded == dequeuePos <= enqueuePos /\ enqueuePos - dequeuePos <= Capacity

(* pop() returns the item of the position it claimed: none is lost,        *)
(* handed out twice, torn, or left over from an earlier lap (no ABA).      *)
PopsWhatWasPushed ==
  \A t \in Thread :
    pc[t] = "popRelease" => pos[t] < Len(log) /\ item[t] = log[pos[t] + 1]

(* A cell moves one half lap at a time: from "free for p" to "holds p" and  *)
(* from there to "free for p + Capacity", never back and never skipping,   *)
(* which is what makes a delayed compare-exchange harmless.                *)
HalfLap(c) ==
  \/ sequence'[c] = sequence[c]
  \/ (sequence[c] % Capacity) = c /\ sequence'[c] = sequence[c] + 1
  \/ /\ ((sequence[c] - 1) % Capacity) = c
     /\ sequence'[c] = sequence[c] - 1 + Capacity

CellsTakeTurns == [][\A c \in 0 .. Capacity - 1 : HalfLap(c)]_vars

(* The claimed items that no pop() has claimed, oldest first, and the item *)
(* of each pop() that has.                                                 *)
Queued == [i \in 1 .. Len(log) - dequeuePos |-> log[dequeuePos + i]]

Hand == [t \in Thread |->
           IF pc[t] = "popRead" THEN data[Cell(pos[t])]
           ELSE IF pc[t] = "popRelease" THEN item[t]
           ELSE NoItem]

(* The ring implements the abstract queue: a push takes effect when it     *)
(* claims its position and a pop when it claims its own; an item a push    *)
(* has claimed and not yet published already counts as queued.             *)
FIFO == INSTANCE BoundedFIFO WITH queue <- Queued, hand <- Hand

ImplementsFIFO == FIFO!AbsSpec

(* Threads are scheduled and the weak compare-exchange does not fail       *)
(* spuriously for ever; every thread keeps calling pop() when it is idle,  *)
(* as the workers of the scheduler do.                                     *)
FairSpec ==
  /\ Spec
  /\ \A t \in Thread :
       /\ WF_vars(PushStep(t)) /\ SF_vars(PushClaim(t))
       /\ WF_vars(PopStep(t)) /\ SF_vars(PopClaim(t)) /\ SF_vars(PopBegin(t))

(* A claimed item is eventually taken, although pop() answers "empty" as   *)
(* long as the producer of the oldest item has not published it and even   *)
(* when later items are already there.                                     *)
EverythingDelivered ==
  \A n \in 1 .. MaxPush : (enqueuePos >= n) ~> (dequeuePos >= n)

-----------------------------------------------------------------------------
(* The inductive invariant behind the safety properties above. *)

(* A producer owns the cell that is free for its position, a consumer the  *)
(* cell that holds its own.                                                *)
OwnersOfCells ==
  \A t \in Thread :
    /\ Pushing(t) => pos[t] < enqueuePos /\ sequence[Cell(pos[t])] = pos[t]
    /\ Popping(t) => pos[t] < dequeuePos /\ sequence[Cell(pos[t])] = pos[t] + 1

(* No position is claimed twice. *)
ClaimsAreUnique ==
  \A t, u \in Thread :
    (t # u /\ ((Pushing(t) /\ Pushing(u)) \/ (Popping(t) /\ Popping(u))))
      => pos[t] # pos[u]

(* The compare-exchange acts on a cell seen in the right state earlier. *)
CasAfterLoad ==
  \A t \in Thread :
    /\ pc[t] = "pushCas" => sequence[Cell(pos[t])] >= pos[t]
    /\ pc[t] = "popCas" => sequence[Cell(pos[t])] >= pos[t] + 1

(* A position is claimed only after its cell reached it. *)
CellsKeepUp ==
  /\ \A p \in 0 .. enqueuePos - 1 : sequence[Cell(p)] >= p
  /\ \A p \in 0 .. dequeuePos - 1 : sequence[Cell(p)] >= p + 1

(* The cell is free for position s: claimed only while its producer works. *)
FreeFor(c, s) ==
  /\ Cell(s) = c /\ s < dequeuePos + Capacity
  /\ s < enqueuePos => \E t \in Thread : Pushing(t) /\ pos[t] = s

(* The cell holds position p: taken only while its consumer works. *)
Holds(c, p) ==
  /\ p \in Nat /\ Cell(p) = c /\ p < enqueuePos
  /\ p < dequeuePos => \E t \in Thread : Popping(t) /\ pos[t] = p
  /\ \/ data[c] = log[p + 1]
     \/ \E t \in Thread : pc[t] = "popRelease" /\ pos[t] = p

CellStates ==
  \A c \in 0 .. Capacity - 1 :
    FreeFor(c, sequence[c]) \/ Holds(c, sequence[c] - 1)

(* What each thread carries is the item of the position it works on. *)
CarriedItems ==
  \A t \in Thread :
    /\ pc[t] \in {"pushLoad", "pushCas", "pushWrite", "pushPublish"}
         => item[t] \in Item
    /\ pc[t] = "pushWrite" => item[t] = log[pos[t] + 1]
    /\ pc[t] = "pushPublish" => data[Cell(pos[t])] = log[pos[t] + 1]
    /\ pc[t] = "popRead" => data[Cell(pos[t])] = log[pos[t] + 1]
    /\ pc[t] = "popRelease" => item[t] = log[pos[t] + 1]

IInv ==
  /\ TypeOK
  /\ Len(log) = enqueuePos /\ Bounded
  /\ OwnersOfCells /\ ClaimsAreUnique /\ CasAfterLoad
  /\ CellsKeepUp /\ CellStates /\ CarriedItems

=============================================================================
