----------------------------- MODULE RingProofs -----------------------------
(***************************************************************************)
(* Proofs about both rings of runtime/lockfree_queue.hpp.  SPSCQueue: for  *)
(* every item set, capacity and push bound a cell is never accessed by     *)
(* both threads, pops come out in push order and nothing is lost.          *)
(* MPMCQueue: for every set of threads as well, and every capacity of at   *)
(* least two cells (with one cell the queue is wrong: "free" and "full"    *)
(* look alike), cells are exclusive, the ring is bounded and popped items  *)
(* are what was pushed.  Each ring implements BoundedFIFO.                 *)
(***************************************************************************)
EXTENDS SPSCQueue, MPMCQueue, TLAPS

-----------------------------------------------------------------------------
(* The position -> cell mapping p % C of the ring. *)

(* A position maps to a cell of the ring (pos & buffer_mask_ is in range). *)
LEMMA CellInRing ==
  ASSUME NEW C \in Nat \ {0}, NEW p \in Nat
  PROVE  p % C \in 0 .. C - 1
  OBVIOUS

(* What quotient and remainder are; the solver knows them only so.         *)
LEMMA DivMod ==
  ASSUME NEW C \in Nat \ {0}, NEW p \in Nat
  PROVE  p \div C \in Nat /\ p = C * (p \div C) + (p % C)
  OBVIOUS

(* Scaling a non-zero integer by the ring size moves it at least one lap. *)
LEMMA ScaledByRing ==
  ASSUME NEW C \in Nat \ {0}, NEW k \in Int
  PROVE  /\ C * k \in Int
         /\ k > 0 => C * k >= C
         /\ k < 0 => C * k <= 0 - C
         /\ k = 0 => C * k = 0
<1>1. CASE k >= 0
  BY <1>1
<1>2. CASE k < 0
  <2>1. C * (0 - k) >= C
    BY <1>2
  <2>2. C * (0 - k) = 0 - C * k
    OBVIOUS
  <2> QED BY <2>1, <2>2, <1>2
<1> QED BY <1>1, <1>2

(* Within one lap the mapping is injective: two positions less than C      *)
(* apart share a cell only when they are equal.                            *)
LEMMA SameCellSameLap ==
  ASSUME NEW C \in Nat \ {0}, NEW p \in Nat, NEW q \in Nat,
         p % C = q % C, p <= q, q < p + C
  PROVE  p = q
<1> DEFINE a == p \div C
           b == q \div C
<1>1. a \in Nat /\ b \in Nat /\ p = C * a + (p % C) /\ q = C * b + (q % C)
  BY DivMod
<1> HIDE DEF a, b
<1>2. q - p = C * (b - a)
  BY <1>1
<1> DEFINE X == C * (b - a)
<1>3. X \in Int /\ (b > a => X >= C) /\ (b < a => X <= 0 - C) /\ (b = a => X = 0)
  BY <1>1, ScaledByRing, b - a \in Int
<1> HIDE DEF X
<1>4. q - p = X
  BY <1>2 DEF X
<1> QED BY <1>1, <1>3, <1>4

(* The first lap maps every position to itself. *)
LEMMA FirstLap ==
  ASSUME NEW C \in Nat \ {0}, NEW p \in 0 .. C - 1
  PROVE  p % C = p
<1> DEFINE a == p \div C
           X == C * a
           r == p % C
<1>0. p \in Nat
  OBVIOUS
<1>1. a \in Nat /\ p = X + r /\ r \in 0 .. C - 1
  BY <1>0, DivMod, CellInRing
<1>2. X \in Int /\ (a > 0 => X >= C) /\ (a = 0 => X = 0)
  BY <1>1, ScaledByRing
<1> HIDE DEF X, a, r
<1>3. p = r
  BY <1>1, <1>2
<1> QED BY <1>3 DEF r

(* A position keeps its cell one lap later. *)
LEMMA NextLapSameCell ==
  ASSUME NEW C \in Nat \ {0}, NEW p \in Nat
  PROVE  (p + C) % C = p % C
<1> DEFINE a == p \div C
           b == (p + C) \div C
           r == p % C
           s == (p + C) % C
<1>1. a \in Nat /\ b \in Nat /\ p = C * a + r /\ p + C = C * b + s
  BY DivMod
<1>2. r \in 0 .. C - 1 /\ s \in 0 .. C - 1
  BY CellInRing
<1> HIDE DEF a, b, r, s
<1> DEFINE X == C * (a + 1 - b)
<1>3. X = s - r
  BY <1>1, <1>2
<1>4. X \in Int /\ (a + 1 > b => X >= C) /\ (a + 1 < b => X <= 0 - C)
        /\ (a + 1 = b => X = 0)
  BY <1>1, ScaledByRing, a + 1 - b \in Int
<1> HIDE DEF X
<1>5. r = s
  BY <1>1, <1>2, <1>3, <1>4
<1> QED BY <1>5 DEF r, s

(* Neighbouring positions have different cells once there are two cells. *)
LEMMA NeighboursDiffer ==
  ASSUME NEW C \in Nat \ {0}, C >= 2, NEW p \in Nat
  PROVE  (p + 1) % C # p % C
<1> SUFFICES ASSUME (p + 1) % C = p % C PROVE FALSE
  OBVIOUS
<1>1. p + 1 \in Nat /\ p <= p + 1 /\ p + 1 < p + C
  OBVIOUS
<1>2. p = p + 1
  BY <1>1, SameCellSameLap
<1> QED BY <1>2

(* Every position has a cell. *)
LEMMA CellType == \A p \in Nat : Cell(p) \in 0 .. Capacity - 1
  BY CellInRing, CapacityAssumption DEF Cell

(* Two positions less than a lap apart share a cell only if equal. *)
LEMMA CellInjective ==
  ASSUME NEW p \in Nat, NEW q \in Nat, Cell(p) = Cell(q),
         p <= q, q < p + Capacity
  PROVE  p = q
  BY SameCellSameLap, CapacityAssumption DEF Cell

-----------------------------------------------------------------------------
(* The ring of one producer and one consumer.                               *)

(* Two positions less than a lap apart are in different cells. *)
LEMMA CellsApart ==
  ASSUME NEW m \in Nat, NEW n \in Nat, m < n, n < m + Capacity
  PROVE  Cell(m) # Cell(n)
<1> SUFFICES ASSUME m % Capacity = n % Capacity PROVE FALSE
  BY DEF Cell
<1>1. m <= n /\ m # n
  OBVIOUS
<1> QED BY <1>1, SameCellSameLap, CapacityAssumption

(* The constructor establishes the invariant. *)
LEMMA SPSCInitInv == SPSCInit => SPSCInv
<1> USE CapacityAssumption DEF SPSCInit
<1> SUFFICES ASSUME SPSCInit PROVE SPSCInv
  OBVIOUS
<1>1. SPSCTypeOK
  BY DEF SPSCTypeOK
<1>2. CursorsOrdered
  BY DEF CursorsOrdered
<1>3. ItemsInHand
  BY DEF ItemsInHand
<1>4. NothingLost /\ PopsInOrder
  BY DEF NothingLost, PopsInOrder
<1> QED BY <1>1, <1>2, <1>3, <1>4 DEF SPSCInv

(* Every step of push() and pop() preserves the invariant.  Only the two   *)
(* steps that touch a cell need the injectivity of Cell: each must leave   *)
(* the other thread's cells alone.                                         *)
LEMMA SPSCNextInv == SPSCInv /\ [SPSCNext]_spscVars => SPSCInv'
<1> SUFFICES ASSUME SPSCInv, [SPSCNext]_spscVars PROVE SPSCInv'
  OBVIOUS
<1> USE CapacityAssumption, MaxPushAssumption, NoItemAssumption
<1>1. SPSCTypeOK /\ CursorsOrdered /\ ItemsInHand /\ NothingLost /\ PopsInOrder
  BY DEF SPSCInv
<1>c. Cell(head) \in 0 .. Capacity - 1 /\ Cell(tail) \in 0 .. Capacity - 1
  BY <1>1, CellType DEF SPSCTypeOK
<1>d. \A n \in tail .. head - 1 : n \in Nat /\ Cell(n) \in 0 .. Capacity - 1
  BY <1>1, CellType DEF SPSCTypeOK
<1>2. ASSUME NEW v \in Item, ProducerBegin(v) PROVE SPSCInv'
  BY <1>1, <1>2 DEF ProducerBegin, SPSCInv, SPSCTypeOK, CursorsOrdered, ItemsInHand,
                    NothingLost, PopsInOrder, consVars
<1>3. CASE ProducerReload
  BY <1>1, <1>3 DEF ProducerReload, SPSCInv, SPSCTypeOK, CursorsOrdered, ItemsInHand,
                    NothingLost, PopsInOrder, consVars
<1>4. CASE ProducerWrite
  <2>1. SPSCTypeOK'
    BY <1>1, <1>4 DEF ProducerWrite, SPSCTypeOK, consVars, ItemsInHand
  <2>2. CursorsOrdered' /\ PopsInOrder'
    BY <1>1, <1>4 DEF ProducerWrite, CursorsOrdered, PopsInOrder, consVars
  <2>3. \A n \in tail .. head - 1 : Cell(n) # Cell(head)
    BY <1>1, <1>4, CellsApart DEF ProducerWrite, SPSCTypeOK, CursorsOrdered
  <2>4. NothingLost'
    BY <1>1, <1>4, <1>d, <2>3 DEF ProducerWrite, NothingLost, SPSCTypeOK, consVars
  <2>5. ItemsInHand'
    BY <1>1, <1>4, <1>c DEF ProducerWrite, ItemsInHand, SPSCTypeOK, consVars
  <2> QED BY <2>1, <2>2, <2>4, <2>5 DEF SPSCInv
<1>5. CASE ProducerPublish
  <2>1. pushItem \in Item /\ Len(sent) = head /\ sent' = Append(sent, pushItem)
    BY <1>1, <1>5 DEF ProducerPublish, ItemsInHand
  <2>2. /\ sent' \in Seq(Item) /\ Len(sent') = head + 1
        /\ sent'[head + 1] = pushItem
        /\ \A n \in 0 .. head - 1 : sent'[n + 1] = sent[n + 1]
    BY <1>1, <2>1 DEF SPSCTypeOK
  <2>3. SPSCTypeOK' /\ CursorsOrdered' /\ ItemsInHand'
    BY <1>1, <1>5, <2>2 DEF ProducerPublish, SPSCTypeOK, CursorsOrdered, ItemsInHand,
                            consVars
  <2>4. PopsInOrder'
    BY <1>1, <1>5, <2>1, <2>2 DEF ProducerPublish, PopsInOrder, SPSCTypeOK, consVars
  <2>5. NothingLost'
    <3>0. tail' = tail /\ head' - 1 = head /\ consPc' = consPc /\ buffer' = buffer
      BY <1>1, <1>5 DEF ProducerPublish, SPSCTypeOK, consVars
    <3> SUFFICES ASSUME NEW n \in tail .. head, n # tail \/ consPc # "release"
                 PROVE  buffer[Cell(n)] = sent'[n + 1]
      BY <3>0 DEF NothingLost, Cell
    <3>1. CASE n = head
      BY <3>1, <1>1, <1>5, <2>2 DEF ProducerPublish, ItemsInHand
    <3>2. CASE n # head
      <4>1. n \in tail .. head - 1 /\ n \in 0 .. head - 1
        BY <3>2, <1>1 DEF SPSCTypeOK
      <4>2. buffer[Cell(n)] = sent[n + 1]
        BY <4>1, <1>1 DEF NothingLost
      <4> QED BY <4>1, <4>2, <2>2
    <3> QED BY <3>1, <3>2
  <2> QED BY <2>3, <2>4, <2>5 DEF SPSCInv
<1>6. CASE ConsumerBegin
  BY <1>1, <1>6 DEF ConsumerBegin, SPSCInv, SPSCTypeOK, CursorsOrdered, ItemsInHand,
                    NothingLost, PopsInOrder, prodVars
<1>r. CASE ConsumerReload
  <2>1. SPSCTypeOK' /\ CursorsOrdered'
    BY <1>1, <1>r DEF ConsumerReload, SPSCTypeOK, CursorsOrdered, prodVars
  <2>2. ItemsInHand' /\ NothingLost' /\ PopsInOrder'
    BY <1>1, <1>r DEF ConsumerReload, SPSCTypeOK, ItemsInHand, NothingLost,
                      PopsInOrder, prodVars
  <2> QED BY <2>1, <2>2 DEF SPSCInv
<1>7. CASE ConsumerRead
  <2>1. tail < head /\ popItem' = sent[tail + 1] /\ popItem' \in Item
    <3>1. tail < head /\ tail \in tail .. head - 1
      BY <1>1, <1>7 DEF ConsumerRead, SPSCTypeOK, CursorsOrdered
    <3>2. buffer[Cell(tail)] = sent[tail + 1]
      BY <3>1, <1>1, <1>7 DEF ConsumerRead, NothingLost
    <3>3. sent[tail + 1] \in Item
      BY <3>1, <1>1 DEF SPSCTypeOK, ItemsInHand
    <3> QED BY <3>1, <3>2, <3>3, <1>7 DEF ConsumerRead
  <2>2. SPSCTypeOK' /\ CursorsOrdered' /\ PopsInOrder'
    BY <1>1, <1>7, <2>1, <1>c DEF ConsumerRead, SPSCTypeOK, CursorsOrdered, PopsInOrder,
                                  ItemsInHand, prodVars
  <2>3. \A n \in tail + 1 .. head - 1 : Cell(n) # Cell(tail)
    BY <1>1, CellsApart DEF SPSCTypeOK, CursorsOrdered
  <2>4. NothingLost'
    BY <1>1, <1>7, <1>d, <2>3 DEF ConsumerRead, NothingLost, SPSCTypeOK, prodVars
  <2>5. prodPc = "publish" => Cell(head) # Cell(tail)
    BY <1>1, <2>1, CellsApart DEF SPSCTypeOK, CursorsOrdered
  <2>6. ItemsInHand'
    BY <1>1, <1>7, <1>c, <2>5 DEF ConsumerRead, ItemsInHand, SPSCTypeOK, prodVars
  <2> QED BY <2>2, <2>4, <2>6 DEF SPSCInv
<1>8. CASE ConsumerRelease
  BY <1>1, <1>8 DEF ConsumerRelease, SPSCInv, SPSCTypeOK, CursorsOrdered, ItemsInHand,
                    NothingLost, PopsInOrder, prodVars
<1>9. CASE UNCHANGED spscVars
  BY <1>1, <1>9 DEF spscVars, SPSCInv, SPSCTypeOK, CursorsOrdered, ItemsInHand,
                    NothingLost, PopsInOrder
<1> QED
  BY <1>2, <1>3, <1>4, <1>5, <1>6, <1>r, <1>7, <1>8, <1>9 DEF SPSCNext, Push, Pop

(* The invariant holds for any number of items, cells and pushes. *)
THEOREM SPSCInvariant == SPSCSpec => []SPSCInv
  BY SPSCInitInv, SPSCNextInv, PTL DEF SPSCSpec

(* push() and pop() never access the same cell of buffer_ at once: the     *)
(* plain stores and loads of the ring are free of data races.              *)
THEOREM SPSCNoCellRace == SPSCSpec => []NoCellRace
<1>1. SPSCInv => NoCellRace
  <2> SUFFICES ASSUME SPSCInv, prodPc \in {"write", "publish"},
                      consPc \in {"read", "release"}
               PROVE  Cell(head) # Cell(tail)
    BY DEF NoCellRace
  <2>1. /\ head \in Nat /\ tail \in Nat /\ tailCached \in Nat
        /\ headCached \in Nat /\ Capacity \in Nat
        /\ tail < headCached /\ headCached <= head
        /\ tailCached <= tail /\ head - tailCached < Capacity
    BY CapacityAssumption DEF SPSCInv, SPSCTypeOK, CursorsOrdered
  <2>2. tail < head /\ head < tail + Capacity
    BY <2>1
  <2> QED BY <2>1, <2>2, CellsApart
<1> QED BY <1>1, SPSCInvariant, PTL

(* Items leave in the order they were pushed and none is overwritten       *)
(* before it left.                                                         *)
THEOREM SPSCOrder == SPSCSpec => [](PopsInOrder /\ NothingLost)
<1>1. SPSCInv => PopsInOrder /\ NothingLost
  BY DEF SPSCInv
<1> QED BY <1>1, SPSCInvariant, PTL

-----------------------------------------------------------------------------
(* The refinement of BoundedFIFO. *)

(* While nothing is published, moved out or overwritten the queue stays.   *)
LEMMA SamePublished ==
  ASSUME SPSCInv, SPSCInv', head' = head, FirstPublished' = FirstPublished,
         \A n \in FirstPublished .. head - 1 : buffer'[Cell(n)] = buffer[Cell(n)]
  PROVE  PublishedItems' = PublishedItems
<1>1. FirstPublished \in Nat /\ head \in Nat
  BY DEF SPSCInv, SPSCTypeOK, FirstPublished
<1>2. \A i \in 1 .. head - FirstPublished : FirstPublished + i - 1 \in FirstPublished .. head - 1
  BY <1>1
<1>3. PublishedItems' = [i \in 1 .. head' - FirstPublished' |-> buffer'[Cell(FirstPublished' + i - 1)]]
  BY DEF PublishedItems, Cell
<1> QED BY <1>2, <1>3 DEF PublishedItems

(* Publishing head_ puts the item at the end of a queue that has room.     *)
LEMMA PublishPuts ==
  ASSUME SPSCInv, SPSCInv', ProducerPublish
  PROVE  SPSCFIFO!Put(pushItem)
<1>1. /\ head \in Nat /\ tail \in Nat /\ FirstPublished \in Nat /\ FirstPublished' = FirstPublished
      /\ tail <= FirstPublished /\ FirstPublished <= head /\ head - FirstPublished < Capacity
  BY CapacityAssumption DEF SPSCInv, SPSCTypeOK, CursorsOrdered, ProducerPublish, consVars, FirstPublished
<1>2. /\ head' = head + 1 /\ buffer' = buffer /\ popItem' = popItem
      /\ buffer[Cell(head)] = pushItem
  BY DEF ProducerPublish, consVars, SPSCInv, ItemsInHand
<1>3. PublishedItems' = [i \in 1 .. head - FirstPublished + 1 |-> buffer[Cell(FirstPublished + i - 1)]]
  <2>1. PublishedItems' = [i \in 1 .. head' - FirstPublished' |-> buffer'[Cell(FirstPublished' + i - 1)]]
    BY DEF PublishedItems, Cell
  <2> QED BY <1>1, <1>2, <2>1
<1>4. Len(PublishedItems) = head - FirstPublished
  BY <1>1 DEF PublishedItems
<1>5. PublishedItems' = Append(PublishedItems, pushItem)
  <2>1. FirstPublished + (head - FirstPublished + 1) - 1 = head
    BY <1>1
  <2> QED BY <1>1, <1>2, <1>3, <1>4, <2>1 DEF PublishedItems
<1> QED BY <1>1, <1>2, <1>4, <1>5 DEF SPSCFIFO!Put

(* Moving an item out takes the first of the queue.                        *)
LEMMA ReadTakes ==
  ASSUME SPSCInv, SPSCInv', ConsumerRead
  PROVE  SPSCFIFO!Take("consumer")
<1>1. /\ head \in Nat /\ tail \in Nat /\ tail < head /\ head <= tail + Capacity
      /\ FirstPublished = tail /\ FirstPublished' = tail + 1 /\ head' = head
  BY CapacityAssumption DEF SPSCInv, SPSCTypeOK, CursorsOrdered, ConsumerRead, prodVars, FirstPublished
<1>2. /\ popItem = NoItem /\ popItem' = buffer[Cell(tail)]
      /\ \A n \in tail + 1 .. head - 1 : buffer'[Cell(n)] = buffer[Cell(n)]
  <2>1. \A n \in tail + 1 .. head - 1 : n \in Nat /\ tail < n /\ n < tail + Capacity
    BY <1>1, CapacityAssumption
  <2>2. \A n \in tail + 1 .. head - 1 : Cell(n) # Cell(tail) /\ Cell(n) \in 0 .. Capacity - 1
    BY <1>1, <2>1, CellsApart, CellType
  <2> QED BY <2>2 DEF SPSCInv, SPSCTypeOK, ItemsInHand, ConsumerRead
<1>3. /\ PublishedItems = [i \in 1 .. head - tail |-> buffer[Cell(tail + i - 1)]]
      /\ PublishedItems' = [i \in 1 .. head - tail - 1 |-> buffer[Cell(tail + 1 + i - 1)]]
  <2>1. PublishedItems' = [i \in 1 .. head' - FirstPublished' |-> buffer'[Cell(FirstPublished' + i - 1)]]
    BY DEF PublishedItems, Cell
  <2>2. \A i \in 1 .. head - tail - 1 : tail + 1 + i - 1 \in tail + 1 .. head - 1
    BY <1>1
  <2>3. head' - FirstPublished' = head - tail - 1
    BY <1>1
  <2> QED BY <1>1, <1>2, <2>1, <2>2, <2>3 DEF PublishedItems
<1>4. PublishedItems # <<>> /\ Head(PublishedItems) = popItem'
  BY <1>1, <1>2, <1>3
<1>5. PublishedItems' = Tail(PublishedItems)
  <2>1. Len(PublishedItems) = head - tail /\ Len(PublishedItems) \in Nat
    BY <1>1, <1>3
  <2>2. Tail(PublishedItems) = [i \in 1 .. head - tail - 1 |-> PublishedItems[i + 1]]
    BY <1>1, <1>3, <2>1
  <2>3. \A i \in 1 .. head - tail - 1 :
          i + 1 \in 1 .. head - tail /\ tail + (i + 1) - 1 = tail + 1 + i - 1
    BY <1>1
  <2> QED BY <1>3, <2>2, <2>3
<1> QED BY <1>2, <1>4, <1>5 DEF SPSCFIFO!Take

(* The ring is a bounded queue: what push() publishes enters it, what      *)
(* pop() moves out leaves it from the front, and no other step changes it. *)
THEOREM SPSCImplementsFIFO == SPSCSpec => IsBoundedFIFO
<1>1. SPSCInit => SPSCFIFO!AbsInit
  <2> SUFFICES ASSUME SPSCInit PROVE SPSCFIFO!AbsInit
    OBVIOUS
  <2>1. PublishedItems = <<>>
    BY DEF SPSCInit, PublishedItems, FirstPublished
  <2> QED BY <2>1 DEF SPSCInit, SPSCFIFO!AbsInit
<1>2. ASSUME SPSCInv, SPSCInv', [SPSCNext]_spscVars PROVE [SPSCFIFO!AbsNext]_(SPSCFIFO!absVars)
  <2>1. CASE ProducerPublish
    <3>1. pushItem \in Item
      BY <1>2, <2>1 DEF SPSCInv, ItemsInHand, ProducerPublish
    <3> QED BY <1>2, <2>1, <3>1, PublishPuts DEF SPSCFIFO!AbsNext
  <2>2. CASE ConsumerRead
    BY <1>2, <2>2, ReadTakes DEF SPSCFIFO!AbsNext
  <2>3. CASE ConsumerRelease
    <3>1. /\ head' = head /\ FirstPublished' = FirstPublished /\ buffer' = buffer
          /\ popItem' = NoItem
      BY <1>2, <2>3 DEF ConsumerRelease, prodVars, FirstPublished, SPSCInv, SPSCTypeOK
    <3>2. popItem # NoItem
      <4>1. sent[tail + 1] \in Item
        BY <1>2, <2>3 DEF ConsumerRelease, SPSCInv, PopsInOrder, SPSCTypeOK
      <4> QED BY <1>2, <2>3, <4>1, NoItemAssumption DEF ConsumerRelease, SPSCInv, PopsInOrder
    <3>3. PublishedItems' = PublishedItems
      BY <1>2, <3>1, SamePublished
    <3>4. SPSCFIFO!Return("consumer")
      BY <3>1, <3>2, <3>3 DEF SPSCFIFO!Return
    <3> QED BY <3>4 DEF SPSCFIFO!AbsNext
  <2>4. CASE ProducerWrite
    <3>1. /\ head' = head /\ FirstPublished' = FirstPublished /\ popItem' = popItem
          /\ head \in Nat /\ tail \in Nat /\ FirstPublished \in Nat
          /\ tail <= FirstPublished /\ head < tail + Capacity
      BY <1>2, <2>4, CapacityAssumption
         DEF ProducerWrite, consVars, FirstPublished, SPSCInv, SPSCTypeOK, CursorsOrdered
    <3>2. \A n \in FirstPublished .. head - 1 : n \in Nat /\ n < head /\ head < n + Capacity
      BY <3>1, CapacityAssumption
    <3>3. \A n \in FirstPublished .. head - 1 :
            Cell(n) # Cell(head) /\ Cell(n) \in 0 .. Capacity - 1
      BY <3>1, <3>2, CellsApart, CellType
    <3>4. PublishedItems' = PublishedItems
      BY <1>2, <2>4, <3>1, <3>3, SamePublished DEF ProducerWrite, SPSCInv, SPSCTypeOK
    <3> QED BY <3>1, <3>4 DEF SPSCFIFO!absVars
  <2>5. CASE \/ \E v \in Item : ProducerBegin(v)
             \/ ProducerReload \/ ConsumerBegin \/ ConsumerReload \/ UNCHANGED spscVars
    <3>1. /\ head' = head /\ FirstPublished' = FirstPublished /\ buffer' = buffer
          /\ popItem' = popItem
      BY <2>5 DEF ProducerBegin, ProducerReload, ConsumerBegin, ConsumerReload, spscVars, consVars, prodVars,
                  FirstPublished
    <3>2. PublishedItems' = PublishedItems
      BY <1>2, <3>1, SamePublished
    <3> QED BY <3>1, <3>2 DEF SPSCFIFO!absVars
  <2> QED BY <1>2, <2>1, <2>2, <2>3, <2>4, <2>5 DEF SPSCNext, Push, Pop
<1> QED BY <1>1, <1>2, SPSCInvariant, PTL DEF SPSCSpec, IsBoundedFIFO, SPSCFIFO!AbsSpec

-----------------------------------------------------------------------------
(* The ring of many producers and consumers, and what is assumed of it.      *)

TwoCells == Capacity >= 2

(* The next lap's position has the same cell. *)
LEMMA CellNextLap == \A p \in Nat : Cell(p + Capacity) = Cell(p)
  BY NextLapSameCell, CapacityAssumption DEF Cell

(* Consecutive positions have different cells: "holds p" and "free for q"  *)
(* can be told apart.                                                      *)
LEMMA CellNeighbours == TwoCells => \A p \in Nat : Cell(p + 1) # Cell(p)
  BY NeighboursDiffer, CapacityAssumption DEF Cell, TwoCells

(* The constructor establishes the invariant. *)
LEMMA InitIInv == Init => IInv
<1> SUFFICES ASSUME Init PROVE IInv
  OBVIOUS
<1> USE CapacityAssumption DEF Init
<1>1. TypeOK
  BY DEF TypeOK
<1>2. Len(log) = enqueuePos /\ Bounded
  BY DEF Bounded
<1>3. OwnersOfCells /\ ClaimsAreUnique /\ CasAfterLoad /\ CarriedItems
  BY DEF OwnersOfCells, ClaimsAreUnique, CasAfterLoad, CarriedItems,
         Pushing, Popping
<1>4. CellsKeepUp
  BY DEF CellsKeepUp
<1>5. CellStates
  <2> SUFFICES ASSUME NEW c \in 0 .. Capacity - 1 PROVE FreeFor(c, c)
    BY DEF CellStates
  <2>1. Cell(c) = c
    BY FirstLap, CapacityAssumption DEF Cell
  <2>2. c \in Nat /\ c < 0 + Capacity
    BY CapacityAssumption
  <2> QED BY <2>1, <2>2 DEF FreeFor
<1> QED BY <1>1, <1>2, <1>3, <1>4, <1>5 DEF IInv

(* When a producer's compare-exchange succeeds, its cell is still free for *)
(* the position, however long ago it loaded the sequence number.           *)
LEMMA ClaimedCellIsFree ==
  ASSUME IInv, TwoCells, NEW t \in Thread,
         pc[t] = "pushCas", enqueuePos = pos[t]
  PROVE  /\ sequence[Cell(pos[t])] = pos[t]
         /\ pos[t] < dequeuePos + Capacity
<1> DEFINE c == Cell(pos[t])
           s == sequence[c]
<1>1. /\ enqueuePos \in Nat /\ dequeuePos \in Nat /\ dequeuePos <= enqueuePos
      /\ c \in 0 .. Capacity - 1 /\ s \in Nat /\ Capacity \in Nat \ {0}
  BY CellType, CapacityAssumption DEF IInv, TypeOK, Bounded
<1>2. s >= enqueuePos
  BY DEF IInv, CasAfterLoad
<1>3. CASE FreeFor(c, s)
  <2>1. Cell(enqueuePos) = Cell(s) /\ s < enqueuePos + Capacity
        /\ s < dequeuePos + Capacity
    BY <1>1, <1>3 DEF FreeFor
  <2>2. enqueuePos = s
    BY <1>1, <1>2, <2>1, CellInjective
  <2> QED BY <2>1, <2>2
<1>4. CASE Holds(c, s - 1)
  <2>1. s - 1 \in Nat /\ Cell(s - 1) = c /\ s - 1 < enqueuePos
    BY <1>4 DEF Holds
  <2>2. s = enqueuePos /\ s - 1 + 1 = s
    BY <1>1, <1>2, <2>1
  <2>3. Cell(s) = c
    BY <2>2
  <2> QED BY <2>1, <2>2, <2>3, CellNeighbours
<1> QED BY <1>1, <1>3, <1>4 DEF IInv, CellStates

(* When a consumer's compare-exchange succeeds, its cell holds the item of *)
(* the position.                                                           *)
LEMMA ClaimedCellIsFull ==
  ASSUME IInv, TwoCells, NEW t \in Thread,
         pc[t] = "popCas", dequeuePos = pos[t]
  PROVE  /\ sequence[Cell(pos[t])] = pos[t] + 1
         /\ pos[t] < enqueuePos
         /\ data[Cell(pos[t])] = log[pos[t] + 1]
<1> DEFINE c == Cell(pos[t])
           s == sequence[c]
<1>0. /\ enqueuePos \in Nat /\ dequeuePos \in Nat /\ dequeuePos <= enqueuePos
      /\ enqueuePos <= dequeuePos + Capacity /\ Capacity \in Nat \ {0}
  BY CapacityAssumption DEF IInv, TypeOK, Bounded
<1>t. c \in 0 .. Capacity - 1 /\ s \in Nat
  BY CellType DEF IInv, TypeOK
<1>1. /\ enqueuePos \in Nat /\ dequeuePos \in Nat /\ dequeuePos <= enqueuePos
      /\ enqueuePos <= dequeuePos + Capacity
      /\ c \in 0 .. Capacity - 1 /\ s \in Nat /\ Capacity \in Nat \ {0}
  BY <1>0, <1>t
<1>2. s >= dequeuePos + 1
  BY DEF IInv, CasAfterLoad
<1>3. CASE FreeFor(c, s)
  <2>1. Cell(dequeuePos) = Cell(s) /\ s < dequeuePos + Capacity
    BY <1>1, <1>3 DEF FreeFor
  <2>a. s \in Nat /\ dequeuePos <= s
    BY <1>1, <1>2
  <2>2. dequeuePos = s
    BY <1>0, <2>a, <2>1, CellInjective
  <2> QED BY <2>2, <1>1, <1>2
<1>4. CASE Holds(c, s - 1)
  <2>1. s - 1 \in Nat /\ Cell(s - 1) = Cell(dequeuePos) /\ s - 1 < enqueuePos
    BY <1>4 DEF Holds
  <2>2. dequeuePos <= s - 1 /\ s - 1 < dequeuePos + Capacity
    BY <1>1, <1>2, <2>1
  <2>3. dequeuePos = s - 1
    BY <1>1, <2>1, <2>2, CellInjective
  <2>4. s = pos[t] + 1 /\ pos[t] < enqueuePos
    BY <2>1, <2>3, <1>1
  <2>5. ~ \E u \in Thread : pc[u] = "popRelease" /\ pos[u] = s - 1
    BY <2>3, <1>1 DEF IInv, OwnersOfCells, Popping
  <2>6. data[c] = log[(s - 1) + 1]
    BY <1>4, <2>5 DEF Holds
  <2> QED BY <2>3, <2>4, <2>6
<1> QED BY <1>1, <1>3, <1>4 DEF IInv, CellStates

(* Every step keeps the variables in their types. *)
LEMMA TypeStep == ASSUME IInv, NEW t \in Thread, Step(t) PROVE TypeOK'
<1> USE DEF Goto
<1>1. TypeOK
  BY DEF IInv
<1>2. Cell(pos[t]) \in 0 .. Capacity - 1 /\ Capacity \in Nat
  BY <1>1, CellType, CapacityAssumption DEF TypeOK
<1>3. ASSUME NEW v \in Item, PushBegin(t, v) PROVE TypeOK'
  BY <1>1, <1>3 DEF PushBegin, TypeOK
<1>4. CASE PushCellFree(t) \/ PushFull(t) \/ PushOvertaken(t) \/ PushCasFails(t)
  BY <1>1, <1>4 DEF PushCellFree, PushFull, PushOvertaken, PushCasFails, TypeOK
<1>5. CASE PushClaim(t)
  <2>1. item[t] \in Item
    BY <1>5 DEF PushClaim, IInv, CarriedItems
  <2> QED BY <1>1, <1>5, <2>1 DEF PushClaim, TypeOK
<1>6. CASE PushWrite(t)
  BY <1>1, <1>2, <1>6 DEF PushWrite, TypeOK
<1>11. CASE PushPublish(t)
  <2>1. pos[t] + 1 \in Nat
    BY <1>1 DEF TypeOK
  <2> QED BY <1>1, <1>2, <1>11, <2>1 DEF PushPublish, TypeOK
<1>7. CASE PopBegin(t) \/ PopCellReady(t) \/ PopEmpty(t) \/ PopOvertaken(t)
           \/ PopCasFails(t)
  BY <1>1, <1>7 DEF PopBegin, PopCellReady, PopEmpty, PopOvertaken,
                    PopCasFails, TypeOK
<1>8. CASE PopClaim(t)
  BY <1>1, <1>8 DEF PopClaim, TypeOK
<1>9. CASE PopRead(t)
  BY <1>1, <1>2, <1>9 DEF PopRead, TypeOK
<1>10. CASE PopRelease(t)
  <2>1. pos[t] + Capacity \in Nat
    BY <1>1, <1>2 DEF TypeOK
  <2> QED BY <1>1, <1>2, <1>10, <2>1 DEF PopRelease, TypeOK
<1> QED
  BY <1>3, <1>4, <1>5, <1>6, <1>7, <1>8, <1>9, <1>10, <1>11
  DEF Step, PushStep, PopStep

(* A step of a thread that owns no cell before or after it and leaves the  *)
(* ring alone preserves the invariant; most steps of both loops are such.  *)
LEMMA QuietStep ==
  ASSUME IInv, TypeOK', NEW t \in Thread,
         UNCHANGED <<enqueuePos, dequeuePos, sequence, data, log>>,
         ~ Pushing(t), ~ Popping(t), ~ Pushing(t)', ~ Popping(t)',
         \A u \in Thread \ {t} :
           pc'[u] = pc[u] /\ pos'[u] = pos[u] /\ item'[u] = item[u],
         pc'[t] = "pushCas" => sequence[Cell(pos'[t])] >= pos'[t],
         pc'[t] = "popCas" => sequence[Cell(pos'[t])] >= pos'[t] + 1,
         pc'[t] \in {"pushLoad", "pushCas"} => item'[t] \in Item
  PROVE  IInv'
<1>1. \A u \in Thread : /\ Pushing(u)' <=> Pushing(u)
                        /\ Popping(u)' <=> Popping(u)
                        /\ Pushing(u) \/ Popping(u) => pos'[u] = pos[u]
  BY DEF Pushing, Popping
<1>2. Len(log') = enqueuePos' /\ Bounded' /\ CellsKeepUp'
  BY DEF IInv, Bounded, CellsKeepUp, Cell
<1>3. OwnersOfCells'
  BY <1>1 DEF IInv, OwnersOfCells, Cell
<1>4. ClaimsAreUnique'
  BY <1>1 DEF IInv, ClaimsAreUnique
<1>5. CasAfterLoad'
  BY DEF IInv, CasAfterLoad, Cell
<1>6. CellStates'
  <2> SUFFICES ASSUME NEW c \in 0 .. Capacity - 1
               PROVE  FreeFor(c, sequence[c])' \/ Holds(c, sequence[c] - 1)'
    BY DEF CellStates
  <2>1. FreeFor(c, sequence[c]) => FreeFor(c, sequence[c])'
    BY <1>1 DEF FreeFor, Cell
  <2>2. Holds(c, sequence[c] - 1) => Holds(c, sequence[c] - 1)'
    <3>1. \A u \in Thread : pc[u] = "popRelease" =>
            pc'[u] = "popRelease" /\ pos'[u] = pos[u]
      BY DEF Popping
    <3> QED BY <1>1, <3>1 DEF Holds, Cell
  <2> QED BY <2>1, <2>2 DEF IInv, CellStates
<1>7. CarriedItems'
  <2> SUFFICES ASSUME NEW u \in Thread
      PROVE /\ pc'[u] \in {"pushLoad", "pushCas", "pushWrite", "pushPublish"}
                 => item'[u] \in Item
            /\ pc'[u] = "pushWrite" => item'[u] = log'[pos'[u] + 1]
            /\ pc'[u] = "pushPublish" => data'[Cell(pos'[u])] = log'[pos'[u] + 1]
            /\ pc'[u] = "popRead" => data'[Cell(pos'[u])] = log'[pos'[u] + 1]
            /\ pc'[u] = "popRelease" => item'[u] = log'[pos'[u] + 1]
    BY DEF CarriedItems, Cell
  <2>1. CASE u = t
    BY <2>1 DEF Pushing, Popping
  <2>2. CASE u # t
    BY <2>2 DEF IInv, CarriedItems
  <2> QED BY <2>1, <2>2
<1> QED BY <1>2, <1>3, <1>4, <1>5, <1>6, <1>7 DEF IInv

(* What a step of thread t leaves to the other threads. *)
LEMMA OthersUnchanged ==
  ASSUME TypeOK, NEW t \in Thread, Step(t)
  PROVE  \A u \in Thread \ {t} :
           pc'[u] = pc[u] /\ pos'[u] = pos[u] /\ item'[u] = item[u]
<1> USE DEF Goto, TypeOK
<1>1. CASE (\E v \in Item : PushBegin(t, v)) \/ PushCellFree(t) \/ PushFull(t)
           \/ PushOvertaken(t) \/ PushCasFails(t)
  BY <1>1 DEF PushBegin, PushCellFree, PushFull, PushOvertaken, PushCasFails
<1>2. CASE PushClaim(t) \/ PushWrite(t) \/ PushPublish(t)
  BY <1>2 DEF PushClaim, PushWrite, PushPublish
<1>3. CASE PopBegin(t) \/ PopCellReady(t) \/ PopEmpty(t) \/ PopOvertaken(t)
           \/ PopCasFails(t)
  BY <1>3 DEF PopBegin, PopCellReady, PopEmpty, PopOvertaken, PopCasFails
<1>4. CASE PopClaim(t) \/ PopRead(t) \/ PopRelease(t)
  BY <1>4 DEF PopClaim, PopRead, PopRelease
<1> QED BY <1>1, <1>2, <1>3, <1>4 DEF Step, PushStep, PopStep

(* The steps up to the compare-exchange, and the returns without success. *)
LEMMA LoopSteps ==
  ASSUME IInv, NEW t \in Thread, Step(t),
         \/ \E v \in Item : PushBegin(t, v)
         \/ PushCellFree(t) \/ PushFull(t) \/ PushOvertaken(t) \/ PushCasFails(t)
         \/ PopBegin(t) \/ PopCellReady(t) \/ PopEmpty(t) \/ PopOvertaken(t)
         \/ PopCasFails(t)
  PROVE  IInv'
<1> USE DEF Goto, Pushing, Popping
<1>1. TypeOK /\ TypeOK' /\ CarriedItems /\ sequence[Cell(pos[t])] \in Nat
  BY TypeStep, CellType DEF IInv, TypeOK
<1>2. \A u \in Thread \ {t} :
         pc'[u] = pc[u] /\ pos'[u] = pos[u] /\ item'[u] = item[u]
  BY <1>1, OthersUnchanged
<1>3. CASE \E v \in Item : PushBegin(t, v)
  BY <1>1, <1>2, <1>3, QuietStep DEF PushBegin, TypeOK
<1>4. CASE PushCellFree(t)
  <2>1. item[t] \in Item
    BY <1>4, <1>1 DEF PushCellFree, CarriedItems
  <2>2. sequence[Cell(pos[t])] >= pos[t]
    BY <1>4, <1>1 DEF PushCellFree, TypeOK
  <2> QED BY <1>1, <1>2, <1>4, <2>1, <2>2, QuietStep DEF PushCellFree, TypeOK
<1>5. CASE PushFull(t) \/ PopEmpty(t)
  BY <1>1, <1>2, <1>5, QuietStep DEF PushFull, PopEmpty, TypeOK
<1>6. CASE PushOvertaken(t) \/ PushCasFails(t)
  <2>1. item[t] \in Item
    BY <1>6, <1>1 DEF PushOvertaken, PushCasFails, CarriedItems
  <2> QED BY <1>1, <1>2, <1>6, <2>1, QuietStep
          DEF PushOvertaken, PushCasFails, TypeOK
<1>7. CASE PopBegin(t) \/ PopOvertaken(t) \/ PopCasFails(t)
  BY <1>1, <1>2, <1>7, QuietStep DEF PopBegin, PopOvertaken, PopCasFails, TypeOK
<1>8. CASE PopCellReady(t)
  <2>1. sequence[Cell(pos[t])] >= pos[t] + 1
    BY <1>8, <1>1 DEF PopCellReady, TypeOK
  <2> QED BY <1>1, <1>2, <1>8, <2>1, QuietStep DEF PopCellReady, TypeOK
<1> QED BY <1>3, <1>4, <1>5, <1>6, <1>7, <1>8

(* Threads between claim and publication own different cells. *)
LEMMA OwnersDiffer ==
  ASSUME IInv, TwoCells, NEW t \in Thread, NEW u \in Thread, t # u,
         Pushing(t) \/ Popping(t), Pushing(u) \/ Popping(u)
  PROVE  Cell(pos[t]) # Cell(pos[u])
<1>1. pos[t] \in Nat /\ pos[u] \in Nat
  BY DEF IInv, TypeOK
<1>2. CASE Pushing(t) /\ Pushing(u)
  BY <1>1, <1>2 DEF IInv, OwnersOfCells, ClaimsAreUnique
<1>3. CASE Popping(t) /\ Popping(u)
  <2>1. /\ pos[t] # pos[u]
        /\ sequence[Cell(pos[t])] = pos[t] + 1
        /\ sequence[Cell(pos[u])] = pos[u] + 1
    BY <1>3 DEF IInv, OwnersOfCells, ClaimsAreUnique
  <2> QED BY <1>1, <2>1
<1>4. CASE Pushing(t) /\ Popping(u)
  <2>1. sequence[Cell(pos[t])] = pos[t] /\ sequence[Cell(pos[u])] = pos[u] + 1
    BY <1>4 DEF IInv, OwnersOfCells
  <2> QED BY <1>1, <2>1, CellNeighbours
<1>5. CASE Popping(t) /\ Pushing(u)
  <2>1. sequence[Cell(pos[u])] = pos[u] /\ sequence[Cell(pos[t])] = pos[t] + 1
    BY <1>5 DEF IInv, OwnersOfCells
  <2> QED BY <1>1, <2>1, CellNeighbours
<1> QED BY <1>2, <1>3, <1>4, <1>5

(* The compare-exchange of push() preserves the invariant. *)
LEMMA PushClaimStep ==
  ASSUME IInv, TwoCells, NEW t \in Thread, PushClaim(t)
  PROVE  IInv'
<1>0. /\ enqueuePos = pos[t] /\ pc[t] = "pushCas" /\ pc'[t] = "pushWrite"
      /\ enqueuePos' = pos[t] + 1 /\ log' = Append(log, item[t])
      /\ UNCHANGED <<dequeuePos, sequence, data, pos, item>>
      /\ \A u \in Thread \ {t} : pc'[u] = pc[u]
  BY DEF PushClaim, Goto, IInv, TypeOK
<1>1. /\ enqueuePos \in Nat /\ dequeuePos \in Nat /\ pos \in [Thread -> Nat]
      /\ sequence \in [0 .. Capacity - 1 -> Nat] /\ log \in Seq(Item)
      /\ Len(log) = enqueuePos /\ item[t] \in Item /\ Capacity \in Nat
      /\ dequeuePos <= enqueuePos
  BY <1>0, CapacityAssumption DEF IInv, TypeOK, CarriedItems, Bounded
<1>2. sequence[Cell(pos[t])] = pos[t] /\ pos[t] < dequeuePos + Capacity
  BY <1>0, ClaimedCellIsFree
<1>3. /\ Len(log') = enqueuePos'
      /\ \A p \in Nat : p < enqueuePos => log'[p + 1] = log[p + 1]
      /\ log'[pos[t] + 1] = item[t]
  BY <1>0, <1>1
<1>4. TypeOK'
  BY TypeStep DEF Step, PushStep
<1>5. Bounded'
  BY <1>0, <1>1, <1>2 DEF Bounded
<1>o. /\ \A u \in Thread \ {t} : /\ Pushing(u)' <=> Pushing(u)
                                 /\ Popping(u)' <=> Popping(u)
      /\ Pushing(t)' /\ ~ Popping(t)' /\ ~ Pushing(t) /\ ~ Popping(t)
  BY <1>0 DEF Pushing, Popping
<1>6. OwnersOfCells'
  <2> SUFFICES ASSUME NEW u \in Thread
      PROVE /\ Pushing(u)' => pos[u] < enqueuePos'
                              /\ sequence[Cell(pos[u])] = pos[u]
            /\ Popping(u)' => pos[u] < dequeuePos
                              /\ sequence[Cell(pos[u])] = pos[u] + 1
    BY <1>0 DEF OwnersOfCells, Cell
  <2>1. CASE u = t
    BY <1>0, <1>1, <1>2, <1>o, <2>1
  <2>2. CASE u # t
    BY <1>0, <1>1, <1>o, <2>2 DEF IInv, OwnersOfCells
  <2> QED BY <2>1, <2>2
<1>7. ClaimsAreUnique'
  <2>1. \A u \in Thread \ {t} : Pushing(u) => pos[u] # pos[t]
    BY <1>0, <1>1 DEF IInv, OwnersOfCells
  <2> QED BY <1>0, <1>o, <2>1 DEF IInv, ClaimsAreUnique
<1>8. CasAfterLoad'
  BY <1>0 DEF IInv, CasAfterLoad, Cell
<1>9. CellsKeepUp'
  BY <1>0, <1>1, <1>2 DEF IInv, CellsKeepUp, Cell
<1>10. CellStates'
  <2> SUFFICES ASSUME NEW c \in 0 .. Capacity - 1
               PROVE  FreeFor(c, sequence[c])' \/ Holds(c, sequence[c] - 1)'
    BY DEF CellStates
  <2>1. sequence[c] \in Nat
    BY <1>1
  <2>2. ASSUME FreeFor(c, sequence[c]) PROVE FreeFor(c, sequence[c])'
    <3>1. /\ Cell(sequence[c]) = c /\ sequence[c] < dequeuePos + Capacity
          /\ sequence[c] < enqueuePos =>
               \E u \in Thread : Pushing(u) /\ pos[u] = sequence[c]
      BY <2>2 DEF FreeFor
    <3>2. sequence[c] < enqueuePos' =>
            \E u \in Thread : Pushing(u)' /\ pos[u] = sequence[c]
      BY <1>0, <1>1, <1>o, <2>1, <3>1
    <3> QED BY <1>0, <3>1, <3>2 DEF FreeFor, Cell
  <2>3. ASSUME Holds(c, sequence[c] - 1) PROVE Holds(c, sequence[c] - 1)'
    <3> DEFINE p == sequence[c] - 1
    <3>1. /\ p \in Nat /\ Cell(p) = c /\ p < enqueuePos
          /\ p < dequeuePos => \E u \in Thread : Popping(u) /\ pos[u] = p
          /\ \/ data[c] = log[p + 1]
             \/ \E u \in Thread : pc[u] = "popRelease" /\ pos[u] = p
      BY <2>3 DEF Holds
    <3>2. log'[p + 1] = log[p + 1] /\ p < enqueuePos'
      BY <1>0, <1>1, <1>3, <3>1
    <3>3. p < dequeuePos => \E u \in Thread : Popping(u)' /\ pos[u] = p
      BY <1>o, <3>1
    <3>4. (\E u \in Thread : pc[u] = "popRelease" /\ pos[u] = p) =>
          (\E u \in Thread : pc'[u] = "popRelease" /\ pos[u] = p)
      BY <1>0
    <3> QED BY <1>0, <3>1, <3>2, <3>3, <3>4 DEF Holds, Cell
  <2> QED BY <2>2, <2>3 DEF IInv, CellStates
<1>11. CarriedItems'
  <2>1. \A u \in Thread \ {t} :
           Pushing(u) \/ Popping(u) => log'[pos[u] + 1] = log[pos[u] + 1]
    BY <1>1, <1>3 DEF IInv, OwnersOfCells
  <2> QED BY <1>0, <1>1, <1>3, <2>1
          DEF IInv, CarriedItems, Pushing, Popping, Cell
<1> QED BY <1>3, <1>4, <1>5, <1>6, <1>7, <1>8, <1>9, <1>10, <1>11 DEF IInv

(* So does the move of the argument into the claimed cell. *)
LEMMA PushWriteStep ==
  ASSUME IInv, TwoCells, NEW t \in Thread, PushWrite(t)
  PROVE  IInv'
<1>0. /\ pc[t] = "pushWrite" /\ pc'[t] = "pushPublish"
      /\ data' = [data EXCEPT ![Cell(pos[t])] = item[t]]
      /\ UNCHANGED <<enqueuePos, dequeuePos, sequence, pos, item, log>>
      /\ \A u \in Thread \ {t} : pc'[u] = pc[u]
  BY DEF PushWrite, Goto, IInv, TypeOK
<1>1. /\ pos \in [Thread -> Nat] /\ Cell(pos[t]) \in 0 .. Capacity - 1
      /\ data \in [0 .. Capacity - 1 -> Item \cup {NoItem}]
      /\ sequence[Cell(pos[t])] = pos[t]
  BY <1>0, CellType DEF IInv, TypeOK, OwnersOfCells, Pushing
<1>2. \A u \in Thread : (Pushing(u)' <=> Pushing(u)) /\ (Popping(u)' <=> Popping(u))
  BY <1>0 DEF Pushing, Popping
<1>3. \A u \in Thread \ {t} : Pushing(u) \/ Popping(u) =>
         Cell(pos[u]) # Cell(pos[t])
  BY <1>0, OwnersDiffer DEF Pushing
<1>4. TypeOK' /\ Len(log') = enqueuePos' /\ Bounded' /\ CellsKeepUp'
  BY <1>0, TypeStep DEF Step, PushStep, IInv, Bounded, CellsKeepUp, Cell
<1>5. OwnersOfCells' /\ ClaimsAreUnique'
  BY <1>0, <1>2 DEF IInv, OwnersOfCells, ClaimsAreUnique, Cell
<1>6. CasAfterLoad'
  BY <1>0 DEF IInv, CasAfterLoad, Cell
<1>7. CellStates'
  <2> SUFFICES ASSUME NEW c \in 0 .. Capacity - 1
               PROVE  FreeFor(c, sequence[c])' \/ Holds(c, sequence[c] - 1)'
    BY DEF CellStates
  <2>1. ASSUME FreeFor(c, sequence[c]) PROVE FreeFor(c, sequence[c])'
    BY <1>0, <1>2, <2>1 DEF FreeFor, Cell
  <2>2. ASSUME Holds(c, sequence[c] - 1) PROVE Holds(c, sequence[c] - 1)'
    <3>1. c # Cell(pos[t])
      <4> SUFFICES ASSUME c = Cell(pos[t]) PROVE FALSE
        OBVIOUS
      <4>1. pos[t] - 1 \in Nat /\ Cell(pos[t] - 1) = c /\ pos[t] \in Nat
        BY <1>1, <2>2 DEF Holds
      <4>2. Cell((pos[t] - 1) + 1) # Cell(pos[t] - 1)
        BY <4>1, CellNeighbours
      <4>3. (pos[t] - 1) + 1 = pos[t]
        BY <4>1
      <4> QED BY <4>1, <4>2, <4>3
    <3>2. data'[c] = data[c]
      BY <1>0, <1>1, <3>1
    <3>3. \A u \in Thread : pc[u] = "popRelease" => pc'[u] = "popRelease"
      BY <1>0
    <3> QED BY <1>0, <1>2, <2>2, <3>2, <3>3 DEF Holds, Cell
  <2> QED BY <2>1, <2>2 DEF IInv, CellStates
<1>8. CarriedItems'
  <2>1. data'[Cell(pos[t])] = item[t] /\ item[t] = log[pos[t] + 1]
        /\ item[t] \in Item
    BY <1>0, <1>1 DEF IInv, CarriedItems
  <2>2. \A u \in Thread \ {t} : Pushing(u) \/ Popping(u) =>
           data'[Cell(pos[u])] = data[Cell(pos[u])]
    BY <1>0, <1>1, <1>3, CellType
  <2> QED BY <1>0, <2>1, <2>2 DEF IInv, CarriedItems, Pushing, Popping, Cell
<1> QED BY <1>4, <1>5, <1>6, <1>7, <1>8 DEF IInv

(* So does the release store that publishes the item. *)
LEMMA PushPublishStep ==
  ASSUME IInv, TwoCells, NEW t \in Thread, PushPublish(t)
  PROVE  IInv'
<1>0. /\ pc[t] = "pushPublish" /\ pc'[t] = "idle"
      /\ sequence' = [sequence EXCEPT ![Cell(pos[t])] = pos[t] + 1]
      /\ UNCHANGED <<enqueuePos, dequeuePos, data, pos, log>>
      /\ \A u \in Thread \ {t} : pc'[u] = pc[u] /\ item'[u] = item[u]
  BY DEF PushPublish, Goto, IInv, TypeOK
<1>1. /\ enqueuePos \in Nat /\ dequeuePos \in Nat /\ pos \in [Thread -> Nat]
      /\ sequence \in [0 .. Capacity - 1 -> Nat] /\ Capacity \in Nat \ {0}
      /\ Cell(pos[t]) \in 0 .. Capacity - 1
  BY CapacityAssumption, CellType DEF IInv, TypeOK
<1>2. /\ sequence[Cell(pos[t])] = pos[t] /\ pos[t] < enqueuePos
      /\ data[Cell(pos[t])] = log[pos[t] + 1]
  BY <1>0 DEF IInv, OwnersOfCells, CarriedItems, Pushing
<1>3. /\ sequence'[Cell(pos[t])] = pos[t] + 1
      /\ \A c \in 0 .. Capacity - 1 : c # Cell(pos[t]) => sequence'[c] = sequence[c]
      /\ \A c \in 0 .. Capacity - 1 : sequence'[c] >= sequence[c]
  BY <1>0, <1>1, <1>2
<1>o. /\ \A u \in Thread \ {t} : /\ Pushing(u)' <=> Pushing(u)
                                 /\ Popping(u)' <=> Popping(u)
      /\ ~ Pushing(t)' /\ ~ Popping(t)' /\ Pushing(t) /\ ~ Popping(t)
  BY <1>0 DEF Pushing, Popping
<1>4. \A u \in Thread \ {t} : Pushing(u) \/ Popping(u) =>
         /\ Cell(pos[u]) # Cell(pos[t])
         /\ sequence'[Cell(pos[u])] = sequence[Cell(pos[u])]
  BY <1>1, <1>3, <1>o, OwnersDiffer, CellType
<1>5. TypeOK' /\ Len(log') = enqueuePos' /\ Bounded'
  BY <1>0, TypeStep DEF Step, PushStep, IInv, Bounded
<1>6. OwnersOfCells'
  <2> SUFFICES ASSUME NEW u \in Thread
      PROVE /\ Pushing(u)' => pos[u] < enqueuePos
                              /\ sequence'[Cell(pos[u])] = pos[u]
            /\ Popping(u)' => pos[u] < dequeuePos
                              /\ sequence'[Cell(pos[u])] = pos[u] + 1
    BY <1>0 DEF OwnersOfCells, Cell
  <2> QED BY <1>o, <1>4 DEF IInv, OwnersOfCells
<1>7. ClaimsAreUnique'
  BY <1>0, <1>o DEF IInv, ClaimsAreUnique
<1>8. CasAfterLoad'
  <2> SUFFICES ASSUME NEW u \in Thread
      PROVE /\ pc'[u] = "pushCas" => sequence'[Cell(pos[u])] >= pos[u]
            /\ pc'[u] = "popCas" => sequence'[Cell(pos[u])] >= pos[u] + 1
    BY <1>0 DEF CasAfterLoad, Cell
  <2>1. /\ Cell(pos[u]) \in 0 .. Capacity - 1 /\ pos[u] \in Nat
        /\ sequence[Cell(pos[u])] \in Nat /\ sequence'[Cell(pos[u])] \in Nat
        /\ sequence'[Cell(pos[u])] >= sequence[Cell(pos[u])]
    BY <1>1, <1>3, <1>5, CellType DEF TypeOK
  <2>2. /\ pc'[u] = "pushCas" => sequence[Cell(pos[u])] >= pos[u]
        /\ pc'[u] = "popCas" => sequence[Cell(pos[u])] >= pos[u] + 1
    BY <1>0 DEF IInv, CasAfterLoad
  <2> QED BY <2>1, <2>2
<1>9. CellsKeepUp'
  <2>0. /\ enqueuePos' = enqueuePos /\ dequeuePos' = dequeuePos
        /\ \A p \in 0 .. enqueuePos - 1 : p \in Nat /\ p < enqueuePos
        /\ \A p \in 0 .. dequeuePos - 1 : p \in Nat /\ p < dequeuePos
    BY <1>0, <1>1
  <2> SUFFICES ASSUME NEW p \in Nat
      PROVE /\ p < enqueuePos => sequence'[Cell(p)] >= p
            /\ p < dequeuePos => sequence'[Cell(p)] >= p + 1
    BY <2>0, Zenon DEF CellsKeepUp, Cell
  <2>1. /\ Cell(p) \in 0 .. Capacity - 1
        /\ sequence[Cell(p)] \in Nat /\ sequence'[Cell(p)] \in Nat
        /\ sequence'[Cell(p)] >= sequence[Cell(p)]
    BY <1>1, <1>3, <1>5, CellType DEF TypeOK
  <2>2. /\ p < enqueuePos => sequence[Cell(p)] >= p
        /\ p < dequeuePos => sequence[Cell(p)] >= p + 1
    BY <1>1 DEF IInv, CellsKeepUp
  <2> QED BY <2>1, <2>2
<1>10. CellStates'
  <2> SUFFICES ASSUME NEW c \in 0 .. Capacity - 1
               PROVE  FreeFor(c, sequence[c])' \/ Holds(c, sequence[c] - 1)'
    BY DEF CellStates
  <2>1. CASE c = Cell(pos[t])
    <3>0. pos[t] \in Nat /\ sequence'[c] = pos[t] + 1
      BY <1>1, <1>3, <2>1
    <3>1. sequence'[c] - 1 = pos[t]
      BY <3>0
    <3>2. ~ (pos[t] < dequeuePos)
      <4>1. pos[t] < dequeuePos => sequence[Cell(pos[t])] >= pos[t] + 1
        BY <1>1, <3>0 DEF IInv, CellsKeepUp
      <4> QED BY <1>2, <3>0, <4>1
    <3> QED BY <1>0, <1>1, <1>2, <2>1, <3>1, <3>2 DEF Holds, Cell
  <2>2. CASE c # Cell(pos[t])
    <3>1. sequence'[c] = sequence[c]
      BY <1>3, <2>2
    <3>2. ASSUME FreeFor(c, sequence[c]) PROVE FreeFor(c, sequence[c])'
      <4>1. /\ Cell(sequence[c]) = c /\ sequence[c] < dequeuePos + Capacity
            /\ sequence[c] < enqueuePos =>
                 \E u \in Thread : Pushing(u) /\ pos[u] = sequence[c]
        BY <3>2 DEF FreeFor
      <4>2. sequence[c] < enqueuePos =>
              \E u \in Thread : Pushing(u)' /\ pos[u] = sequence[c]
        BY <1>o, <2>2, <4>1
      <4> QED BY <1>0, <3>1, <4>1, <4>2 DEF FreeFor, Cell
    <3>3. ASSUME Holds(c, sequence[c] - 1) PROVE Holds(c, sequence[c] - 1)'
      <4> DEFINE p == sequence[c] - 1
      <4>1. /\ p \in Nat /\ Cell(p) = c /\ p < enqueuePos
            /\ p < dequeuePos => \E u \in Thread : Popping(u) /\ pos[u] = p
            /\ \/ data[c] = log[p + 1]
               \/ \E u \in Thread : pc[u] = "popRelease" /\ pos[u] = p
        BY <3>3 DEF Holds
      <4>2. p < dequeuePos => \E u \in Thread : Popping(u)' /\ pos[u] = p
        BY <1>o, <4>1
      <4>3. (\E u \in Thread : pc[u] = "popRelease" /\ pos[u] = p) =>
            (\E u \in Thread : pc'[u] = "popRelease" /\ pos[u] = p)
        BY <1>0
      <4> QED BY <1>0, <3>1, <4>1, <4>2, <4>3 DEF Holds, Cell
    <3> QED BY <3>2, <3>3 DEF IInv, CellStates
  <2> QED BY <2>1, <2>2
<1>11. CarriedItems'
  BY <1>0 DEF IInv, CarriedItems, Cell
<1> QED BY <1>5, <1>6, <1>7, <1>8, <1>9, <1>10, <1>11 DEF IInv

(* So does the compare-exchange of pop(). *)
LEMMA PopClaimStep ==
  ASSUME IInv, TwoCells, NEW t \in Thread, PopClaim(t)
  PROVE  IInv'
<1>0. /\ dequeuePos = pos[t] /\ pc[t] = "popCas" /\ pc'[t] = "popRead"
      /\ dequeuePos' = pos[t] + 1
      /\ UNCHANGED <<enqueuePos, sequence, data, pos, item, log>>
      /\ \A u \in Thread \ {t} : pc'[u] = pc[u]
  BY DEF PopClaim, Goto, IInv, TypeOK
<1>1. /\ enqueuePos \in Nat /\ dequeuePos \in Nat /\ pos \in [Thread -> Nat]
      /\ sequence \in [0 .. Capacity - 1 -> Nat] /\ Capacity \in Nat \ {0}
      /\ enqueuePos <= dequeuePos + Capacity
  BY CapacityAssumption DEF IInv, TypeOK, Bounded
<1>2. /\ sequence[Cell(pos[t])] = pos[t] + 1 /\ pos[t] < enqueuePos
      /\ data[Cell(pos[t])] = log[pos[t] + 1]
  BY <1>0, ClaimedCellIsFull
<1>o. /\ \A u \in Thread \ {t} : /\ Pushing(u)' <=> Pushing(u)
                                 /\ Popping(u)' <=> Popping(u)
      /\ ~ Pushing(t)' /\ Popping(t)' /\ ~ Pushing(t) /\ ~ Popping(t)
  BY <1>0 DEF Pushing, Popping
<1>3. TypeOK' /\ Len(log') = enqueuePos'
  BY <1>0, TypeStep DEF Step, PopStep, IInv
<1>4. Bounded'
  BY <1>0, <1>1, <1>2 DEF Bounded
<1>5. OwnersOfCells'
  <2> SUFFICES ASSUME NEW u \in Thread
      PROVE /\ Pushing(u)' => pos[u] < enqueuePos
                              /\ sequence[Cell(pos[u])] = pos[u]
            /\ Popping(u)' => pos[u] < dequeuePos'
                              /\ sequence[Cell(pos[u])] = pos[u] + 1
    BY <1>0 DEF OwnersOfCells, Cell
  <2>1. CASE u = t
    BY <1>0, <1>1, <1>2, <1>o, <2>1
  <2>2. CASE u # t
    BY <1>0, <1>1, <1>o, <2>2 DEF IInv, OwnersOfCells
  <2> QED BY <2>1, <2>2
<1>6. ClaimsAreUnique'
  <2>1. \A u \in Thread \ {t} : Popping(u) => pos[u] # pos[t]
    BY <1>0, <1>1 DEF IInv, OwnersOfCells
  <2> QED BY <1>0, <1>o, <2>1 DEF IInv, ClaimsAreUnique
<1>7. CasAfterLoad'
  BY <1>0 DEF IInv, CasAfterLoad, Cell
<1>8. CellsKeepUp'
  <2> SUFFICES ASSUME NEW p \in Nat
      PROVE /\ p < enqueuePos => sequence[Cell(p)] >= p
            /\ p < dequeuePos' => sequence[Cell(p)] >= p + 1
    <3>1. \A p \in 0 .. enqueuePos - 1 : p \in Nat /\ p < enqueuePos
      BY <1>1
    <3>2. \A p \in 0 .. dequeuePos' - 1 : p \in Nat /\ p < dequeuePos'
      BY <1>0, <1>1
    <3> QED BY <1>0, <3>1, <3>2, Zenon DEF CellsKeepUp, Cell
  <2>1. /\ p < enqueuePos => sequence[Cell(p)] >= p
        /\ p < dequeuePos => sequence[Cell(p)] >= p + 1
    BY <1>1 DEF IInv, CellsKeepUp
  <2>2. p = dequeuePos => sequence[Cell(p)] >= p + 1
    BY <1>0, <1>1, <1>2
  <2>3. p < dequeuePos' => p < dequeuePos \/ p = dequeuePos
    BY <1>0, <1>1
  <2> QED BY <2>1, <2>2, <2>3
<1>9. CellStates'
  <2> SUFFICES ASSUME NEW c \in 0 .. Capacity - 1
               PROVE  FreeFor(c, sequence[c])' \/ Holds(c, sequence[c] - 1)'
    BY DEF CellStates
  <2>1. sequence[c] \in Nat
    BY <1>1
  <2>2. ASSUME FreeFor(c, sequence[c]) PROVE FreeFor(c, sequence[c])'
    <3>1. /\ Cell(sequence[c]) = c /\ sequence[c] < dequeuePos + Capacity
          /\ sequence[c] < enqueuePos =>
               \E u \in Thread : Pushing(u) /\ pos[u] = sequence[c]
      BY <2>2 DEF FreeFor
    <3>2. sequence[c] < enqueuePos =>
            \E u \in Thread : Pushing(u)' /\ pos[u] = sequence[c]
      BY <1>o, <3>1
    <3>3. sequence[c] < dequeuePos' + Capacity
      BY <1>0, <1>1, <2>1, <3>1
    <3> QED BY <1>0, <3>1, <3>2, <3>3 DEF FreeFor, Cell
  <2>3. ASSUME Holds(c, sequence[c] - 1) PROVE Holds(c, sequence[c] - 1)'
    <3> DEFINE p == sequence[c] - 1
    <3>1. /\ p \in Nat /\ Cell(p) = c /\ p < enqueuePos
          /\ p < dequeuePos => \E u \in Thread : Popping(u) /\ pos[u] = p
          /\ \/ data[c] = log[p + 1]
             \/ \E u \in Thread : pc[u] = "popRelease" /\ pos[u] = p
      BY <2>3 DEF Holds
    <3>2. p < dequeuePos' => \E u \in Thread : Popping(u)' /\ pos[u] = p
      BY <1>0, <1>1, <1>o, <3>1
    <3>3. (\E u \in Thread : pc[u] = "popRelease" /\ pos[u] = p) =>
          (\E u \in Thread : pc'[u] = "popRelease" /\ pos[u] = p)
      BY <1>0
    <3> QED BY <1>0, <3>1, <3>2, <3>3 DEF Holds, Cell
  <2> QED BY <2>2, <2>3 DEF IInv, CellStates
<1>10. CarriedItems'
  BY <1>0, <1>2 DEF IInv, CarriedItems, Cell
<1> QED BY <1>3, <1>4, <1>5, <1>6, <1>7, <1>8, <1>9, <1>10 DEF IInv

(* So does moving the item out of the cell. *)
LEMMA PopReadStep ==
  ASSUME IInv, TwoCells, NEW t \in Thread, PopRead(t)
  PROVE  IInv'
<1>0. /\ pc[t] = "popRead" /\ pc'[t] = "popRelease"
      /\ data' = [data EXCEPT ![Cell(pos[t])] = NoItem]
      /\ item'[t] = data[Cell(pos[t])]
      /\ UNCHANGED <<enqueuePos, dequeuePos, sequence, pos, log>>
      /\ \A u \in Thread \ {t} : pc'[u] = pc[u] /\ item'[u] = item[u]
  BY DEF PopRead, Goto, IInv, TypeOK
<1>1. /\ pos \in [Thread -> Nat] /\ Cell(pos[t]) \in 0 .. Capacity - 1
      /\ data \in [0 .. Capacity - 1 -> Item \cup {NoItem}]
      /\ sequence[Cell(pos[t])] = pos[t] + 1
      /\ data[Cell(pos[t])] = log[pos[t] + 1]
  BY <1>0, CellType DEF IInv, TypeOK, OwnersOfCells, CarriedItems, Popping
<1>2. \A u \in Thread : (Pushing(u)' <=> Pushing(u)) /\ (Popping(u)' <=> Popping(u))
  BY <1>0 DEF Pushing, Popping
<1>3. \A u \in Thread \ {t} : Pushing(u) \/ Popping(u) =>
         data'[Cell(pos[u])] = data[Cell(pos[u])]
  <2>1. Popping(t)
    BY <1>0 DEF Popping
  <2>2. \A u \in Thread \ {t} : Pushing(u) \/ Popping(u) =>
           Cell(pos[u]) # Cell(pos[t])
    BY <2>1, OwnersDiffer
  <2> QED BY <1>0, <1>1, <2>2, CellType
<1>4. TypeOK' /\ Len(log') = enqueuePos' /\ Bounded' /\ CellsKeepUp'
  BY <1>0, TypeStep DEF Step, PopStep, IInv, Bounded, CellsKeepUp, Cell
<1>5. OwnersOfCells' /\ ClaimsAreUnique'
  BY <1>0, <1>2 DEF IInv, OwnersOfCells, ClaimsAreUnique, Cell
<1>6. CasAfterLoad'
  BY <1>0 DEF IInv, CasAfterLoad, Cell
<1>7. CellStates'
  <2> SUFFICES ASSUME NEW c \in 0 .. Capacity - 1
               PROVE  FreeFor(c, sequence[c])' \/ Holds(c, sequence[c] - 1)'
    BY DEF CellStates
  <2>1. ASSUME FreeFor(c, sequence[c]) PROVE FreeFor(c, sequence[c])'
    BY <1>0, <1>2, <2>1 DEF FreeFor, Cell
  <2>2. ASSUME Holds(c, sequence[c] - 1) PROVE Holds(c, sequence[c] - 1)'
    <3> DEFINE p == sequence[c] - 1
    <3>1. /\ p \in Nat /\ Cell(p) = c /\ p < enqueuePos
          /\ p < dequeuePos => \E u \in Thread : Popping(u) /\ pos[u] = p
          /\ \/ data[c] = log[p + 1]
             \/ \E u \in Thread : pc[u] = "popRelease" /\ pos[u] = p
      BY <2>2 DEF Holds
    <3>2. p < dequeuePos => \E u \in Thread : Popping(u)' /\ pos[u] = p
      BY <1>2, <3>1
    <3>3. \/ data'[c] = log[p + 1]
          \/ \E u \in Thread : pc'[u] = "popRelease" /\ pos[u] = p
      <4>1. CASE c = Cell(pos[t])
        <5>1. p = pos[t]
          BY <1>1, <4>1
        <5> QED BY <1>0, <5>1
      <4>2. CASE c # Cell(pos[t])
        BY <1>0, <1>1, <3>1, <4>2
      <4> QED BY <4>1, <4>2
    <3> QED BY <1>0, <3>1, <3>2, <3>3 DEF Holds, Cell
  <2> QED BY <2>1, <2>2 DEF IInv, CellStates
<1>8. CarriedItems'
  BY <1>0, <1>1, <1>3 DEF IInv, CarriedItems, Pushing, Popping, Cell
<1> QED BY <1>4, <1>5, <1>6, <1>7, <1>8 DEF IInv

(* So does the release store that frees the cell for the next lap. *)
LEMMA PopReleaseStep ==
  ASSUME IInv, TwoCells, NEW t \in Thread, PopRelease(t)
  PROVE  IInv'
<1>0. /\ pc[t] = "popRelease" /\ pc'[t] = "idle"
      /\ sequence' = [sequence EXCEPT ![Cell(pos[t])] = pos[t] + Capacity]
      /\ UNCHANGED <<enqueuePos, dequeuePos, data, pos, log>>
      /\ \A u \in Thread \ {t} : pc'[u] = pc[u] /\ item'[u] = item[u]
  BY DEF PopRelease, Goto, IInv, TypeOK
<1>1. /\ enqueuePos \in Nat /\ dequeuePos \in Nat /\ pos \in [Thread -> Nat]
      /\ sequence \in [0 .. Capacity - 1 -> Nat]
      /\ Capacity \in Nat /\ Capacity >= 2
      /\ Cell(pos[t]) \in 0 .. Capacity - 1
  BY CapacityAssumption, CellType DEF IInv, TypeOK, TwoCells
<1>2. /\ sequence[Cell(pos[t])] = pos[t] + 1 /\ pos[t] < dequeuePos
  BY <1>0 DEF IInv, OwnersOfCells, Popping
<1>3. /\ sequence'[Cell(pos[t])] = pos[t] + Capacity
      /\ \A c \in 0 .. Capacity - 1 : c # Cell(pos[t]) => sequence'[c] = sequence[c]
      /\ \A c \in 0 .. Capacity - 1 : sequence'[c] >= sequence[c]
  BY <1>0, <1>1, <1>2
<1>o. /\ \A u \in Thread \ {t} : /\ Pushing(u)' <=> Pushing(u)
                                 /\ Popping(u)' <=> Popping(u)
      /\ ~ Pushing(t)' /\ ~ Popping(t)' /\ ~ Pushing(t) /\ Popping(t)
  BY <1>0 DEF Pushing, Popping
<1>4. \A u \in Thread \ {t} : Pushing(u) \/ Popping(u) =>
         /\ Cell(pos[u]) # Cell(pos[t])
         /\ sequence'[Cell(pos[u])] = sequence[Cell(pos[u])]
  BY <1>1, <1>3, <1>o, OwnersDiffer, CellType
<1>5. TypeOK' /\ Len(log') = enqueuePos' /\ Bounded'
  BY <1>0, TypeStep DEF Step, PopStep, IInv, Bounded
<1>6. OwnersOfCells'
  <2> SUFFICES ASSUME NEW u \in Thread
      PROVE /\ Pushing(u)' => pos[u] < enqueuePos
                              /\ sequence'[Cell(pos[u])] = pos[u]
            /\ Popping(u)' => pos[u] < dequeuePos
                              /\ sequence'[Cell(pos[u])] = pos[u] + 1
    BY <1>0 DEF OwnersOfCells, Cell
  <2> QED BY <1>o, <1>4 DEF IInv, OwnersOfCells
<1>7. ClaimsAreUnique'
  BY <1>0, <1>o DEF IInv, ClaimsAreUnique
<1>8. CasAfterLoad'
  <2> SUFFICES ASSUME NEW u \in Thread
      PROVE /\ pc'[u] = "pushCas" => sequence'[Cell(pos[u])] >= pos[u]
            /\ pc'[u] = "popCas" => sequence'[Cell(pos[u])] >= pos[u] + 1
    BY <1>0 DEF CasAfterLoad, Cell
  <2>1. /\ Cell(pos[u]) \in 0 .. Capacity - 1 /\ pos[u] \in Nat
        /\ sequence[Cell(pos[u])] \in Nat /\ sequence'[Cell(pos[u])] \in Nat
        /\ sequence'[Cell(pos[u])] >= sequence[Cell(pos[u])]
    BY <1>1, <1>3, <1>5, CellType DEF TypeOK
  <2>2. /\ pc'[u] = "pushCas" => sequence[Cell(pos[u])] >= pos[u]
        /\ pc'[u] = "popCas" => sequence[Cell(pos[u])] >= pos[u] + 1
    BY <1>0 DEF IInv, CasAfterLoad
  <2> QED BY <2>1, <2>2
<1>9. CellsKeepUp'
  <2> SUFFICES ASSUME NEW p \in Nat
      PROVE /\ p < enqueuePos => sequence'[Cell(p)] >= p
            /\ p < dequeuePos => sequence'[Cell(p)] >= p + 1
    <3>1. \A p \in 0 .. enqueuePos - 1 : p \in Nat /\ p < enqueuePos
      BY <1>1
    <3>2. \A p \in 0 .. dequeuePos - 1 : p \in Nat /\ p < dequeuePos
      BY <1>1
    <3> QED BY <1>0, <3>1, <3>2, Zenon DEF CellsKeepUp, Cell
  <2>1. /\ Cell(p) \in 0 .. Capacity - 1
        /\ sequence[Cell(p)] \in Nat /\ sequence'[Cell(p)] \in Nat
        /\ sequence'[Cell(p)] >= sequence[Cell(p)]
    BY <1>1, <1>3, <1>5, CellType DEF TypeOK
  <2>2. /\ p < enqueuePos => sequence[Cell(p)] >= p
        /\ p < dequeuePos => sequence[Cell(p)] >= p + 1
    BY <1>1 DEF IInv, CellsKeepUp
  <2> QED BY <2>1, <2>2
<1>10. CellStates'
  <2> SUFFICES ASSUME NEW c \in 0 .. Capacity - 1
               PROVE  FreeFor(c, sequence[c])' \/ Holds(c, sequence[c] - 1)'
    BY DEF CellStates
  <2>1. CASE c = Cell(pos[t])
    <3>1. /\ pos[t] \in Nat /\ sequence'[c] = pos[t] + Capacity
          /\ pos[t] + Capacity \in Nat
      BY <1>1, <1>3, <2>1
    <3>2. Cell(pos[t] + Capacity) = c
      BY <2>1, <3>1, CellNextLap
    <3>3. ~ (pos[t] + Capacity < enqueuePos)
      <4>1. pos[t] + Capacity < enqueuePos =>
              sequence[Cell(pos[t] + Capacity)] >= pos[t] + Capacity
        BY <1>1, <3>1 DEF IInv, CellsKeepUp
      <4>2. sequence[Cell(pos[t] + Capacity)] = pos[t] + 1
        BY <1>2, <2>1, <3>2
      <4> QED BY <1>1, <3>1, <4>1, <4>2
    <3>4. pos[t] + Capacity < dequeuePos + Capacity
      BY <1>1, <1>2, <3>1
    <3> QED BY <1>0, <3>1, <3>2, <3>3, <3>4 DEF FreeFor, Cell
  <2>2. CASE c # Cell(pos[t])
    <3>1. sequence'[c] = sequence[c]
      BY <1>3, <2>2
    <3>2. ASSUME FreeFor(c, sequence[c]) PROVE FreeFor(c, sequence[c])'
      <4>1. /\ Cell(sequence[c]) = c /\ sequence[c] < dequeuePos + Capacity
            /\ sequence[c] < enqueuePos =>
                 \E u \in Thread : Pushing(u) /\ pos[u] = sequence[c]
        BY <3>2 DEF FreeFor
      <4>2. sequence[c] < enqueuePos =>
              \E u \in Thread : Pushing(u)' /\ pos[u] = sequence[c]
        BY <1>o, <2>2, <4>1
      <4> QED BY <1>0, <3>1, <4>1, <4>2 DEF FreeFor, Cell
    <3>3. ASSUME Holds(c, sequence[c] - 1) PROVE Holds(c, sequence[c] - 1)'
      <4> DEFINE p == sequence[c] - 1
      <4>1. /\ p \in Nat /\ Cell(p) = c /\ p < enqueuePos
            /\ p < dequeuePos => \E u \in Thread : Popping(u) /\ pos[u] = p
            /\ \/ data[c] = log[p + 1]
               \/ \E u \in Thread : pc[u] = "popRelease" /\ pos[u] = p
        BY <3>3 DEF Holds
      <4>2. p < dequeuePos => \E u \in Thread : Popping(u)' /\ pos[u] = p
        BY <1>o, <2>2, <4>1
      <4>3. (\E u \in Thread : pc[u] = "popRelease" /\ pos[u] = p) =>
            (\E u \in Thread : pc'[u] = "popRelease" /\ pos[u] = p)
        BY <1>0, <2>2, <4>1
      <4> QED BY <1>0, <3>1, <4>1, <4>2, <4>3 DEF Holds, Cell
    <3> QED BY <3>2, <3>3 DEF IInv, CellStates
  <2> QED BY <2>1, <2>2
<1>11. CarriedItems'
  BY <1>0 DEF IInv, CarriedItems, Cell
<1> QED BY <1>5, <1>6, <1>7, <1>8, <1>9, <1>10, <1>11 DEF IInv

(* No step at all: the invariant speaks of the variables only. *)
LEMMA StutterStep == ASSUME IInv, UNCHANGED vars PROVE IInv'
<1> USE DEF vars
<1>1. TypeOK' /\ Len(log') = enqueuePos' /\ Bounded'
  BY DEF IInv, TypeOK, Bounded
<1>2. OwnersOfCells' /\ ClaimsAreUnique' /\ CasAfterLoad' /\ CellsKeepUp'
  BY DEF IInv, OwnersOfCells, ClaimsAreUnique, CasAfterLoad, CellsKeepUp,
         Pushing, Popping, Cell
<1>3. CellStates' /\ CarriedItems'
  BY DEF IInv, CellStates, CarriedItems, FreeFor, Holds, Pushing, Popping, Cell
<1> QED BY <1>1, <1>2, <1>3 DEF IInv

(* Every step preserves the invariant. *)
LEMMA NextIInv == ASSUME IInv, TwoCells, [Next]_vars PROVE IInv'
<1>1. ASSUME NEW t \in Thread, Step(t) PROVE IInv'
  <2>1. CASE PushClaim(t)
    BY <2>1, PushClaimStep
  <2>2. CASE PushWrite(t)
    BY <2>2, PushWriteStep
  <2>3. CASE PushPublish(t)
    BY <2>3, PushPublishStep
  <2>4. CASE PopClaim(t)
    BY <2>4, PopClaimStep
  <2>5. CASE PopRead(t)
    BY <2>5, PopReadStep
  <2>6. CASE PopRelease(t)
    BY <2>6, PopReleaseStep
  <2>7. CASE \/ \E v \in Item : PushBegin(t, v)
             \/ PushCellFree(t) \/ PushFull(t) \/ PushOvertaken(t)
             \/ PushCasFails(t) \/ PopBegin(t) \/ PopCellReady(t)
             \/ PopEmpty(t) \/ PopOvertaken(t) \/ PopCasFails(t)
    BY <1>1, <2>7, LoopSteps
  <2> QED BY <1>1, <2>1, <2>2, <2>3, <2>4, <2>5, <2>6, <2>7
          DEF Step, PushStep, PopStep
<1> QED BY <1>1, StutterStep DEF Next

(* The invariant holds in every state, for every number of threads.  The   *)
(* hypothesis TwoCells is needed: Bounded fails with a single cell.        *)
THEOREM MPMCInvariant == ASSUME TwoCells PROVE Spec => []IInv
<1>1. IInv /\ [Next]_vars => IInv'
  BY NextIInv
<1> QED BY InitIInv, <1>1, PTL DEF Spec

(* Mutual exclusion on the plain data of a cell: no data race however late *)
(* a thread resumes between its compare-exchange and its release store.    *)
THEOREM MPMCCellOwnedOnce == ASSUME TwoCells PROVE Spec => []CellOwnedOnce
<1>1. IInv => CellOwnedOnce
  BY OwnersDiffer DEF CellOwnedOnce
<1> QED BY <1>1, MPMCInvariant, PTL

(* A full ring refuses the next push: at most Capacity items are queued. *)
THEOREM MPMCBounded == ASSUME TwoCells PROVE Spec => []Bounded
<1>1. IInv => Bounded
  BY DEF IInv
<1> QED BY <1>1, MPMCInvariant, PTL

(* pop() hands out exactly the item pushed at the position it claimed. *)
THEOREM MPMCPopsWhatWasPushed ==
  ASSUME TwoCells PROVE Spec => []PopsWhatWasPushed
<1>1. IInv => PopsWhatWasPushed
  <2> SUFFICES ASSUME IInv, NEW t \in Thread, pc[t] = "popRelease"
               PROVE  pos[t] < Len(log) /\ item[t] = log[pos[t] + 1]
    BY DEF PopsWhatWasPushed
  <2>1. pos[t] < dequeuePos /\ dequeuePos <= enqueuePos /\ Len(log) = enqueuePos
    BY DEF IInv, OwnersOfCells, Popping, Bounded
  <2>2. pos[t] \in Nat /\ dequeuePos \in Nat /\ enqueuePos \in Nat
    BY DEF IInv, TypeOK
  <2> QED BY <2>1, <2>2 DEF IInv, CarriedItems
<1> QED BY <1>1, MPMCInvariant, PTL

(* Only the two release stores change a sequence number, each by half a    *)
(* lap of its own cell.                                                    *)
THEOREM MPMCCellsTakeTurns == ASSUME TwoCells PROVE Spec => CellsTakeTurns
<1>1. ASSUME IInv, [Next]_vars
      PROVE  [\A c \in 0 .. Capacity - 1 : HalfLap(c)]_vars
  <2> SUFFICES ASSUME NEW t \in Thread, Step(t), NEW c \in 0 .. Capacity - 1
               PROVE  HalfLap(c)
    BY <1>1 DEF Next
  <2>0. /\ pos[t] \in Nat /\ Capacity \in Nat
        /\ sequence \in [0 .. Capacity - 1 -> Nat]
        /\ Cell(pos[t]) \in 0 .. Capacity - 1
    BY <1>1, CellType, CapacityAssumption DEF IInv, TypeOK
  <2>1. CASE PushPublish(t)
    <3>1. sequence[Cell(pos[t])] = pos[t]
      BY <1>1, <2>1 DEF IInv, OwnersOfCells, Pushing, PushPublish, Goto
    <3>2. sequence' = [sequence EXCEPT ![Cell(pos[t])] = pos[t] + 1]
      BY <2>1 DEF PushPublish
    <3>3. CASE c = Cell(pos[t])
      <4>1. sequence'[c] = sequence[c] + 1
        BY <2>0, <3>1, <3>2, <3>3
      <4>2. (sequence[c] % Capacity) = c
        BY <3>1, <3>3, Zenon DEF Cell
      <4> QED BY <4>1, <4>2 DEF HalfLap
    <3>4. CASE c # Cell(pos[t])
      BY <2>0, <3>2, <3>4 DEF HalfLap
    <3> QED BY <3>3, <3>4
  <2>2. CASE PopRelease(t)
    <3>1. sequence[Cell(pos[t])] = pos[t] + 1
      BY <1>1, <2>2 DEF IInv, OwnersOfCells, Popping, PopRelease, Goto
    <3>2. sequence' = [sequence EXCEPT ![Cell(pos[t])] = pos[t] + Capacity]
      BY <2>2 DEF PopRelease
    <3>3. CASE c = Cell(pos[t])
      <4>1. sequence[c] - 1 = pos[t] /\ sequence'[c] = pos[t] + Capacity
        BY <2>0, <3>1, <3>2, <3>3
      <4>2. ((sequence[c] - 1) % Capacity) = c
        BY <4>1, <3>3, Zenon DEF Cell
      <4> QED BY <4>1, <4>2 DEF HalfLap
    <3>4. CASE c # Cell(pos[t])
      BY <2>0, <3>2, <3>4 DEF HalfLap
    <3> QED BY <3>3, <3>4
  <2>3. CASE \/ \E v \in Item : PushBegin(t, v)
             \/ PushCellFree(t) \/ PushFull(t) \/ PushOvertaken(t)
             \/ PushCasFails(t) \/ PopBegin(t) \/ PopCellReady(t)
             \/ PopEmpty(t) \/ PopOvertaken(t) \/ PopCasFails(t)
             \/ PushClaim(t) \/ PushWrite(t) \/ PopClaim(t) \/ PopRead(t)
    BY <2>3 DEF PushBegin, PushCellFree, PushFull, PushOvertaken, PushCasFails,
                PopBegin, PopCellReady, PopEmpty, PopOvertaken, PopCasFails,
                PushClaim, PushWrite, PopClaim, PopRead, HalfLap
  <2> QED BY <2>1, <2>2, <2>3 DEF Step, PushStep, PopStep
<1> QED BY <1>1, MPMCInvariant, PTL DEF Spec, CellsTakeTurns

-----------------------------------------------------------------------------
(* The refinement of BoundedFIFO. *)

(* What the other threads hold stays in their hands: nobody writes the     *)
(* data of a cell that a consumer has claimed.                             *)
LEMMA OthersHands ==
  ASSUME IInv, TwoCells, NEW t \in Thread, Step(t), NEW u \in Thread, u # t
  PROVE  Hand'[u] = Hand[u]
<1>1. pc'[u] = pc[u] /\ pos'[u] = pos[u] /\ item'[u] = item[u]
  BY OthersUnchanged DEF IInv
<1>2. Hand'[u] = IF pc'[u] = "popRead" THEN data'[Cell(pos'[u])]
                 ELSE IF pc'[u] = "popRelease" THEN item'[u] ELSE NoItem
  BY DEF Hand, Cell
<1>3. ASSUME pc[u] = "popRead" PROVE data'[Cell(pos[u])] = data[Cell(pos[u])]
  <2>1. CASE data' = data
    BY <2>1
  <2>2. CASE PushWrite(t) \/ PopRead(t)
    <3>1. Cell(pos[t]) # Cell(pos[u])
      BY <1>3, <2>2, OwnersDiffer DEF PushWrite, PopRead, Goto, Pushing, Popping
    <3>2. Cell(pos[u]) \in 0 .. Capacity - 1
      BY CellType DEF IInv, TypeOK
    <3> QED BY <2>2, <3>1, <3>2 DEF PushWrite, PopRead, IInv, TypeOK
  <2> QED BY <2>1, <2>2
          DEF Step, PushStep, PopStep, PushBegin, PushCellFree, PushFull, PushOvertaken,
              PushClaim, PushCasFails, PushPublish, PopBegin, PopCellReady, PopEmpty,
              PopOvertaken, PopClaim, PopCasFails, PopRelease
<1> QED BY <1>1, <1>2, <1>3 DEF Hand

(* Claiming a position for a push puts the item at the end of a queue that *)
(* has room.                                                               *)
LEMMA ClaimPuts ==
  ASSUME IInv, TwoCells, NEW t \in Thread, PushClaim(t)
  PROVE  FIFO!AbsNext
<1>1. /\ Len(log) = enqueuePos /\ enqueuePos \in Nat /\ dequeuePos \in Nat
      /\ dequeuePos <= enqueuePos /\ dequeuePos' = dequeuePos
      /\ log' = Append(log, item[t]) /\ log \in Seq(Item)
      /\ pc[t] = "pushCas" /\ pc'[t] = "pushWrite" /\ item[t] \in Item
  BY DEF IInv, TypeOK, Bounded, CarriedItems, PushClaim, Goto
<1>2. enqueuePos < dequeuePos + Capacity /\ Capacity \in Nat
  BY <1>1, ClaimedCellIsFree, CapacityAssumption DEF PushClaim
<1>3. /\ Len(log') = enqueuePos + 1 /\ log'[enqueuePos + 1] = item[t]
      /\ \A n \in 1 .. enqueuePos : log'[n] = log[n]
  BY <1>1
<1>4. Len(Queued) = enqueuePos - dequeuePos
  BY <1>1 DEF Queued
<1>5. Queued' = Append(Queued, item[t])
  <2>1. Queued' = [i \in 1 .. enqueuePos - dequeuePos + 1 |-> log'[dequeuePos + i]]
    <3>1. Queued' = [i \in 1 .. Len(log') - dequeuePos' |-> log'[dequeuePos' + i]]
      BY DEF Queued
    <3>2. Len(log') - dequeuePos' = enqueuePos - dequeuePos + 1
      BY <1>1, <1>3
    <3> QED BY <1>1, <3>1, <3>2
  <2>2. \A i \in 1 .. enqueuePos - dequeuePos : log'[dequeuePos + i] = log[dequeuePos + i]
    <3>1. \A i \in 1 .. enqueuePos - dequeuePos : dequeuePos + i \in 1 .. enqueuePos
      BY <1>1
    <3> QED BY <1>3, <3>1
  <2>3. dequeuePos + (enqueuePos - dequeuePos + 1) = enqueuePos + 1
    BY <1>1
  <2> QED BY <1>1, <1>3, <1>4, <2>1, <2>2, <2>3 DEF Queued
<1>6. Hand' = Hand
  <2>1. Hand'[t] = Hand[t]
    BY <1>1 DEF Hand
  <2>2. Step(t)
    BY DEF Step, PushStep
  <2> QED BY <2>1, <2>2, OthersHands DEF Hand
<1>7. FIFO!Put(item[t])
  BY <1>1, <1>2, <1>4, <1>5, <1>6 DEF FIFO!Put
<1> QED BY <1>1, <1>7 DEF FIFO!AbsNext

(* Claiming a position for a pop takes the first item.                     *)
LEMMA ClaimTakes ==
  ASSUME IInv, IInv', TwoCells, NEW t \in Thread, PopClaim(t)
  PROVE  FIFO!AbsNext
<1>1. /\ Len(log) = enqueuePos /\ enqueuePos \in Nat /\ dequeuePos \in Nat
      /\ dequeuePos = pos[t] /\ dequeuePos' = dequeuePos + 1 /\ log' = log
      /\ log \in Seq(Item) /\ pc[t] = "popCas" /\ pc'[t] = "popRead"
      /\ data' = data /\ pos' = pos
  BY DEF IInv, TypeOK, PopClaim, Goto
<1>2. dequeuePos < enqueuePos /\ data[Cell(pos[t])] = log[dequeuePos + 1]
  BY <1>1, ClaimedCellIsFull
<1>3. /\ Queued = [i \in 1 .. enqueuePos - dequeuePos |-> log[dequeuePos + i]]
      /\ Queued' = [i \in 1 .. enqueuePos - dequeuePos - 1 |-> log[dequeuePos + 1 + i]]
  <2>1. Queued' = [i \in 1 .. Len(log') - dequeuePos' |-> log'[dequeuePos' + i]]
    BY DEF Queued
  <2>2. Len(log') - dequeuePos' = enqueuePos - dequeuePos - 1
    BY <1>1
  <2> QED BY <1>1, <2>1, <2>2 DEF Queued
<1>4. Queued # <<>> /\ Head(Queued) = log[dequeuePos + 1]
  <2>1. Len(Queued) = enqueuePos - dequeuePos /\ 1 \in 1 .. enqueuePos - dequeuePos
    BY <1>1, <1>2, <1>3
  <2>2. Queued # <<>>
    BY <1>1, <1>2, <2>1
  <2>3. Queued[1] = log[dequeuePos + 1]
    BY <1>3, <2>1
  <2>4. Head(Queued) = Queued[1]
    OBVIOUS
  <2> QED BY <2>2, <2>3, <2>4
<1>5. Queued' = Tail(Queued)
  <2>1. Len(Queued) = enqueuePos - dequeuePos /\ Len(Queued) \in Nat
    BY <1>1, <1>2, <1>3
  <2>2. Tail(Queued) = [i \in 1 .. enqueuePos - dequeuePos - 1 |-> Queued[i + 1]]
    BY <1>1, <1>3, <2>1
  <2>3. \A i \in 1 .. enqueuePos - dequeuePos - 1 :
          i + 1 \in 1 .. enqueuePos - dequeuePos /\ dequeuePos + (i + 1) = dequeuePos + 1 + i
    BY <1>1
  <2> QED BY <1>3, <2>2, <2>3
<1>6. Hand[t] = NoItem /\ Hand' = [Hand EXCEPT ![t] = Head(Queued)]
  <2>1. Hand[t] = NoItem
    BY <1>1 DEF Hand
  <2>2. Hand'[t] = data'[Cell(pos'[t])]
    BY <1>1 DEF Hand, Cell
  <2>3. Step(t)
    BY DEF Step, PopStep
  <2> QED BY <1>1, <1>2, <1>4, <2>1, <2>2, <2>3, OthersHands DEF Hand
<1>7. FIFO!Take(t)
  BY <1>4, <1>5, <1>6 DEF FIFO!Take
<1> QED BY <1>7 DEF FIFO!AbsNext

(* The return of a pop lets go of its item.                                *)
LEMMA ReleaseReturns ==
  ASSUME IInv, TwoCells, NEW t \in Thread, PopRelease(t)
  PROVE  FIFO!AbsNext
<1>1. /\ pc[t] = "popRelease" /\ pc'[t] = "idle" /\ log' = log /\ dequeuePos' = dequeuePos
      /\ item[t] = log[pos[t] + 1] /\ pos[t] < dequeuePos /\ dequeuePos <= Len(log)
      /\ pos[t] \in Nat /\ dequeuePos \in Nat /\ log \in Seq(Item)
  BY DEF IInv, TypeOK, Bounded, OwnersOfCells, Popping, CarriedItems, PopRelease, Goto
<1>2. item[t] \in Item
  BY <1>1
<1>3. Hand[t] # NoItem
  BY <1>1, <1>2, NoItemAssumption DEF Hand
<1>4. Hand' = [Hand EXCEPT ![t] = NoItem]
  <2>1. Hand'[t] = NoItem
    BY <1>1 DEF Hand
  <2>2. Step(t)
    BY DEF Step, PopStep
  <2> QED BY <2>1, <2>2, OthersHands DEF Hand
<1>5. FIFO!Return(t)
  BY <1>1, <1>3, <1>4 DEF FIFO!Return, Queued
<1> QED BY <1>5 DEF FIFO!AbsNext

(* Every other step leaves queue and hands as they are.                    *)
LEMMA InvisibleStep ==
  ASSUME IInv, TwoCells, NEW t \in Thread, Step(t),
         ~ PushClaim(t), ~ PopClaim(t), ~ PopRelease(t)
  PROVE  UNCHANGED FIFO!absVars
<1> USE DEF Goto
<1>1. log' = log /\ dequeuePos' = dequeuePos
  BY DEF Step, PushStep, PopStep, PushBegin, PushCellFree, PushFull, PushOvertaken,
         PushCasFails, PushWrite, PushPublish, PopBegin, PopCellReady, PopEmpty,
         PopOvertaken, PopCasFails, PopRead
<1>2. Queued' = Queued
  BY <1>1 DEF Queued
<1>3. Hand'[t] = Hand[t]
  <2>1. CASE PopRead(t)
    <3>1. /\ pc[t] = "popRead" /\ pc'[t] = "popRelease"
          /\ item'[t] = data[Cell(pos[t])]
      BY <2>1 DEF PopRead, IInv, TypeOK
    <3> QED BY <3>1 DEF Hand
  <2>2. CASE ~ PopRead(t)
    <3>1. pc[t] \notin {"popRead", "popRelease"} /\ pc'[t] \notin {"popRead", "popRelease"}
      BY <2>2 DEF Step, PushStep, PopStep, PushBegin, PushCellFree, PushFull, PushOvertaken,
         PushCasFails, PushWrite, PushPublish, PopBegin, PopCellReady, PopEmpty,
         PopOvertaken, PopCasFails, IInv, TypeOK
    <3> QED BY <3>1 DEF Hand
  <2> QED BY <2>1, <2>2
<1>4. Hand' = Hand
  BY <1>3, OthersHands DEF Hand
<1> QED BY <1>2, <1>4 DEF FIFO!absVars

(* Vyukov's ring is a bounded queue, for any threads, items and number of  *)
(* cells from two: pushes and pops take effect in the order of their       *)
(* claims, whatever is still being written or read behind them.            *)
THEOREM MPMCImplementsFIFO == ASSUME TwoCells PROVE Spec => ImplementsFIFO
<1>1. Init => FIFO!AbsInit
  <2> SUFFICES ASSUME Init PROVE FIFO!AbsInit
    OBVIOUS
  <2>1. Queued = <<>> /\ Hand = [t \in Thread |-> NoItem]
    BY DEF Init, Queued, Hand
  <2> QED BY <2>1 DEF FIFO!AbsInit
<1>2. ASSUME IInv, IInv', [Next]_vars PROVE [FIFO!AbsNext]_(FIFO!absVars)
  <2>1. ASSUME NEW t \in Thread, Step(t) PROVE FIFO!AbsNext \/ UNCHANGED FIFO!absVars
    BY <1>2, <2>1, ClaimPuts, ClaimTakes, ReleaseReturns, InvisibleStep
  <2>2. CASE UNCHANGED vars
    BY <2>2 DEF vars, FIFO!absVars, Queued, Hand, Cell
  <2> QED BY <1>2, <2>1, <2>2 DEF Next
<1> QED BY <1>1, <1>2, MPMCInvariant, PTL DEF Spec, ImplementsFIFO, FIFO!AbsSpec

=============================================================================
