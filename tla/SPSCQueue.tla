------------------------------ MODULE SPSCQueue ------------------------------
(***************************************************************************)
(* The single-producer single-consumer ring of runtime/lockfree_queue.hpp. *)
(*                                                                         *)
(* head_ and tail_ are monotonic counters; each side also keeps a private  *)
(* copy of the other side's counter (tail_cached_, head_cached_) and only  *)
(* reloads it when the copy says "full" or "empty".  Every access to       *)
(* memory the other thread can write, and every access to a buffer cell,   *)
(* is a step of its own, so the two threads interleave anywhere.           *)
(*                                                                         *)
(* The counters are 64-bit in the code and do not wrap in any execution    *)
(* that can be observed; here they are naturals, and MaxPush bounds the    *)
(* number of pushes.                                                       *)
(***************************************************************************)
EXTENDS LockFreeQueue

VARIABLES
  head, tail,              \* head_ and tail_
  tailCached, headCached,  \* tail_cached_ and head_cached_
  buffer,                  \* buffer_
  prodPc, consPc,          \* where each thread is inside push() or pop()
  pushItem, popItem,       \* push()'s argument and pop()'s out parameter
  sent                     \* history: every item push() has published

spscVars == <<head, tail, tailCached, headCached, buffer, prodPc, consPc,
          pushItem, popItem, sent>>

SPSCInit ==
  /\ head = 0 /\ tail = 0
  /\ tailCached = 0 /\ headCached = 0
  /\ buffer = [c \in 0 .. Capacity - 1 |-> NoItem]
  /\ prodPc = "idle" /\ consPc = "idle"
  /\ pushItem = NoItem /\ popItem = NoItem
  /\ sent = <<>>

consVars == <<tail, headCached, consPc, popItem>>
prodVars == <<head, tailCached, prodPc, pushItem, sent>>

(* Mutants.  Operators named <Action>_<Bug> are faulty versions of the      *)
(* action that follows, one plausible mistake each; no specification uses  *)
(* them.  They show that the properties below notice the mistake.          *)
ProducerBegin_OffByOne(v) ==
  /\ prodPc = "idle" /\ head < MaxPush
  /\ pushItem' = v
  /\ prodPc' = IF head - tailCached > Capacity THEN "reload" ELSE "write"
  /\ UNCHANGED <<head, tailCached, sent, buffer, consVars>>

(* push(): the first full test uses only the producer's own data. *)
ProducerBegin(v) ==
  /\ prodPc = "idle" /\ head < MaxPush
  /\ pushItem' = v
  /\ prodPc' = IF head - tailCached >= Capacity THEN "reload" ELSE "write"
  /\ UNCHANGED <<head, tailCached, sent, buffer, consVars>>

(* tail_.load(acquire), the second full test, and return false. *)
ProducerReload ==
  /\ prodPc = "reload"
  /\ tailCached' = tail
  /\ prodPc' = IF head - tail >= Capacity THEN "idle" ELSE "write"
  /\ pushItem' = IF head - tail >= Capacity THEN NoItem ELSE pushItem
  /\ UNCHANGED <<head, sent, buffer, consVars>>

ProducerWrite ==
  /\ prodPc = "write"
  /\ buffer' = [buffer EXCEPT ![Cell(head)] = pushItem]
  /\ prodPc' = "publish"
  /\ UNCHANGED <<head, tailCached, pushItem, sent, consVars>>

(* head_.store(head + 1, release) and return true. *)
ProducerPublish ==
  /\ prodPc = "publish"
  /\ head' = head + 1
  /\ sent' = Append(sent, pushItem)
  /\ pushItem' = NoItem
  /\ prodPc' = "idle"
  /\ UNCHANGED <<tailCached, buffer, consVars>>

ConsumerBegin ==
  /\ consPc = "idle"
  /\ consPc' = IF headCached = tail THEN "reload" ELSE "read"
  /\ UNCHANGED <<tail, headCached, popItem, buffer, prodVars>>

ConsumerReload_NeverReloads ==
  /\ consPc = "reload"
  /\ consPc' = "idle"
  /\ UNCHANGED <<tail, headCached, popItem, buffer, prodVars>>

(* head_.load(acquire), the second empty test, and return false. *)
ConsumerReload ==
  /\ consPc = "reload"
  /\ headCached' = head
  /\ consPc' = IF head = tail THEN "idle" ELSE "read"
  /\ UNCHANGED <<tail, popItem, buffer, prodVars>>

ConsumerRead_NextCell ==
  /\ consPc = "read"
  /\ popItem' = buffer[Cell(tail + 1)]
  /\ buffer' = [buffer EXCEPT ![Cell(tail + 1)] = NoItem]
  /\ consPc' = "release"
  /\ UNCHANGED <<tail, headCached, prodVars>>

(* The item is moved out of its cell. *)
ConsumerRead ==
  /\ consPc = "read"
  /\ popItem' = buffer[Cell(tail)]
  /\ buffer' = [buffer EXCEPT ![Cell(tail)] = NoItem]
  /\ consPc' = "release"
  /\ UNCHANGED <<tail, headCached, prodVars>>

(* tail_.store(tail + 1, release) and return true. *)
ConsumerRelease ==
  /\ consPc = "release"
  /\ tail' = tail + 1
  /\ popItem' = NoItem
  /\ consPc' = "idle"
  /\ UNCHANGED <<headCached, buffer, prodVars>>

Push == (\E v \in Item : ProducerBegin(v)) \/ ProducerReload \/ ProducerWrite \/ ProducerPublish
Pop == ConsumerBegin \/ ConsumerReload \/ ConsumerRead \/ ConsumerRelease

SPSCNext == Push \/ Pop

SPSCSpec == SPSCInit /\ [][SPSCNext]_spscVars

(* The producer finishes the push() it is in and the consumer keeps        *)
(* calling pop(), as the consumer loop of test_phase4_async.cpp does.      *)
SPSCFairSpec ==
  /\ SPSCSpec
  /\ WF_spscVars(ProducerReload \/ ProducerWrite \/ ProducerPublish)
  /\ WF_spscVars(Pop)

----------------------------------------------------------------------------

SPSCTypeOK ==
  /\ head \in Nat /\ tail \in Nat
  /\ tailCached \in Nat /\ headCached \in Nat
  /\ buffer \in [0 .. Capacity - 1 -> Item \cup {NoItem}]
  /\ prodPc \in {"idle", "reload", "write", "publish"}
  /\ consPc \in {"idle", "reload", "read", "release"}
  /\ pushItem \in Item \cup {NoItem} /\ popItem \in Item \cup {NoItem}
  /\ sent \in Seq(Item)

(* The stale copies err only on the safe side: the producer believes in    *)
(* at least as many occupied cells as there are and the consumer in at     *)
(* most as many published ones, and the ring never holds more than         *)
(* Capacity items.                                                         *)
CursorsOrdered ==
  /\ tailCached <= tail /\ tail <= headCached /\ headCached <= head
  /\ head - tailCached <= Capacity
  /\ prodPc \in {"write", "publish"} => head - tailCached < Capacity
  /\ consPc \in {"read", "release"} => tail < headCached

(* No data race on a cell: while push() writes a cell, or has written and  *)
(* not yet published it, pop() is not reading that cell.                   *)
NoCellRace ==
  (prodPc \in {"write", "publish"} /\ consPc \in {"read", "release"})
    => Cell(head) # Cell(tail)

(* A pop() that is about to return hands out the item of its own turn: the *)
(* tail-th item pushed, never a stale, empty or overtaken cell.            *)
PopsInOrder ==
  consPc = "release" => tail < Len(sent) /\ popItem = sent[tail + 1]

(* Every published item that was not popped is still in its cell.          *)
NothingLost ==
  \A n \in tail .. head - 1 :
    (n # tail \/ consPc # "release") => buffer[Cell(n)] = sent[n + 1]

(* The inductive invariant; ItemsInHand adds what the two local variables  *)
(* hold and that the history has one entry per published position.         *)
ItemsInHand ==
  /\ Len(sent) = head
  /\ prodPc # "idle" => pushItem \in Item
  /\ prodPc = "publish" => buffer[Cell(head)] = pushItem
  /\ consPc # "release" => popItem = NoItem

SPSCInv == SPSCTypeOK /\ CursorsOrdered /\ ItemsInHand /\ NothingLost /\ PopsInOrder

(* The published items that pop() has not moved out, oldest first. *)
FirstPublished == tail + (IF consPc = "release" THEN 1 ELSE 0)

PublishedItems == [i \in 1 .. head - FirstPublished |-> buffer[Cell(FirstPublished + i - 1)]]

(* The ring implements the abstract bounded queue: an item is accepted     *)
(* when push() publishes head_ and taken when pop() moves it out.          *)
SPSCFIFO == INSTANCE BoundedFIFO WITH
  Thread <- {"consumer"},
  queue <- PublishedItems,
  hand <- [t \in {"consumer"} |-> popItem]

IsBoundedFIFO == SPSCFIFO!AbsSpec

(* Every published item is eventually handed to the consumer, although the *)
(* consumer looks at head_ only when its own copy says "empty".            *)
PublishedIsDelivered ==
  \A n \in 1 .. MaxPush : (head >= n) ~> (tail >= n)

=============================================================================
