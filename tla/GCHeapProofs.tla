------------------------------ MODULE GCHeapProofs ------------------------------
(***************************************************************************)
(* Safety of the collector, for any number of slots, size classes, objects *)
(* and references: nothing in use is recycled, the free lists are exact,   *)
(* and a collection removes exactly what is unreachable.  The assumption   *)
(* ~ LargeTraced is what the code lacks: see the run gc_large_objects.     *)
(***************************************************************************)
EXTENDS GCHeap, TLAPS, WellFoundedInduction, FiniteSetTheorems

-----------------------------------------------------------------------------
(* Types *)

LEMMA Addresses ==
  /\ Slot \subseteq Object /\ Large \subseteq Object /\ Slot \cap Large = {}
  /\ Class \subseteq Nat /\ Slot \subseteq Nat
BY HeapAssumption DEF HeapAssumption, Slot, Object

LEMMA TypeInit == Init => TypeOK
BY HeapAssumption DEF Init, TypeOK, HeapAssumption, Slot, Object, Color

(* What an allocation that hands out o does to the types. *)
LEMMA HandOutTypes ==
  ASSUME TypeOK, NEW o \in Object, NEW size \in Nat, HandOut(o, size)
  PROVE  /\ color' \in [Object -> Color] /\ refs' \in [Object -> SUBSET Object]
         /\ roots' \subseteq Object /\ phase' = "safepoint" /\ live' \in Nat
         /\ UNCHANGED <<worklist, at, freed, threshold>>
BY DEF TypeOK, HandOut, Goto, Color, sweep

LEMMA MarkPointersTypes ==
  ASSUME NEW S \in SUBSET Object, NEW before \in [Object -> Color],
         NEW rest \in SUBSET Object, MarkPointers(S, before, rest)
  PROVE  color' \in [Object -> Color] /\ worklist' \subseteq Object
BY DEF MarkPointers, Color

LEMMA TypeStep == TypeOK /\ [Next]_vars => TypeOK'
<1> SUFFICES ASSUME TypeOK, [Next]_vars PROVE TypeOK'
  OBVIOUS
<1>1. ASSUME NEW k \in Class, AllocateFromList(k) PROVE TypeOK'
  <2>1. freeList[k] \in Seq(Slot) /\ freeList[k] # <<>>
    BY <1>1 DEF AllocateFromList, TypeOK
  <2>2. Head(freeList[k]) \in Slot /\ Tail(freeList[k]) \in Seq(Slot)
    BY <2>1
  <2>3. HandOut(Head(freeList[k]), k) /\ Head(freeList[k]) \in Object /\ k \in Nat
    BY <1>1, <2>2, Addresses DEF AllocateFromList
  <2>4. /\ bumped' = bumped /\ class' = class /\ largeUsed' = largeUsed
        /\ free' \subseteq free /\ freeList' \in [Class -> Seq(Slot)]
    BY <1>1, <2>2 DEF AllocateFromList, TypeOK
  <2> QED BY <2>3, <2>4, HandOutTypes DEF TypeOK
<1>2. ASSUME NEW k \in Class, AllocateBump(k) PROVE TypeOK'
  <2>1. bumped + 1 \in Slot /\ bumped + 1 \in 0 .. MaxSlots /\ bumped \in Nat
    BY <1>2, HeapAssumption DEF AllocateBump, TypeOK, Slot, HeapAssumption
  <2>2. HandOut(bumped + 1, k) /\ bumped + 1 \in Object /\ k \in Nat
    BY <1>2, <2>1, Addresses DEF AllocateBump
  <2>3. /\ bumped' = bumped + 1 /\ class' \in [Slot -> Class]
        /\ UNCHANGED <<free, freeList, largeUsed>>
    BY <1>2 DEF AllocateBump, TypeOK
  <2>4. free' \subseteq 1 .. bumped'
    BY <2>1, <2>3 DEF TypeOK
  <2> QED BY <2>1, <2>2, <2>3, <2>4, HandOutTypes DEF TypeOK
<1>3. ASSUME NEW o \in Large, AllocateLarge(o) PROVE TypeOK'
  <2>1. HandOut(o, LargeSize) /\ o \in Object /\ LargeSize \in Nat
    BY <1>3, Addresses, HeapAssumption DEF AllocateLarge, HeapAssumption
  <2>2. largeUsed' \subseteq Large /\ UNCHANGED <<bumped, class, free, freeList>>
    BY <1>3 DEF AllocateLarge, TypeOK
  <2> QED BY <2>1, <2>2, HandOutTypes DEF TypeOK
<1>4. ASSUME NEW o \in Object, NEW p \in Object, Store(o, p) \/ Erase(o, p) \/ Load(o, p)
      PROVE  TypeOK'
  <2>1. /\ UNCHANGED <<heap, phase, worklist, sweep, bytes>>
        /\ refs' \in [Object -> SUBSET Object] /\ roots' \subseteq Object
    <3>1. CASE Store(o, p)
      BY <3>1 DEF Store, Mutate, TypeOK
    <3>2. CASE Erase(o, p)
      BY <3>2 DEF Erase, Mutate, TypeOK
    <3>3. CASE Load(o, p)
      BY <3>3 DEF Load, Mutate, TypeOK
    <3> QED BY <1>4, <3>1, <3>2, <3>3
  <2>2. color' \in [Object -> Color]
    BY <1>4 DEF Store, Erase, Load, TypeOK, Color
  <2> QED BY <2>1, <2>2 DEF TypeOK, heap, sweep, bytes
<1>5. ASSUME NEW o \in Object, Drop(o) PROVE TypeOK'
  BY <1>5 DEF Drop, Mutate, TypeOK, heap, sweep, bytes
<1>6. CASE MarkRoots
  <2>1. color' \in [Object -> Color] /\ worklist' \subseteq Object
    BY <1>6, MarkPointersTypes DEF MarkRoots, TypeOK
  <2> QED BY <1>6, <2>1 DEF MarkRoots, Goto, TypeOK, heap, graph, sweep, bytes
<1>7. CASE Safepoint
  BY <1>7 DEF Safepoint, Goto, TypeOK, heap, graph, sweep, bytes
<1>8. ASSUME NEW o \in Object, Trace(o) PROVE TypeOK'
  <2>1. [color EXCEPT ![o] = "black"] \in [Object -> Color] /\ refs[o] \subseteq Object
        /\ worklist \ {o} \subseteq Object
    BY DEF TypeOK, Color
  <2>2. color' \in [Object -> Color] /\ worklist' \subseteq Object
    BY <1>8, <2>1, MarkPointersTypes DEF Trace
  <2> QED BY <1>8, <2>2 DEF Trace, TypeOK, heap, graph, sweep, bytes
<1>9. CASE MarkEnd
  BY <1>9 DEF MarkEnd, Goto, TypeOK, heap, graph, sweep, bytes
<1>10. ASSUME Sweeping PROVE at \in Slot /\ at' \in 1 .. MaxSlots + 1
  BY <1>10, HeapAssumption DEF Sweeping, TypeOK, Slot, HeapAssumption
<1>11. CASE SweepFree \/ SweepSurvivor
  <2>1. color' \in [Object -> Color]
    BY <1>11 DEF SweepFree, SweepSurvivor, TypeOK, Color
  <2> QED BY <1>10, <1>11, <2>1 DEF SweepFree, SweepSurvivor, Sweeping, TypeOK, heap, graph, bytes
<1>12. CASE SweepDead
  <2>1. at \in Slot /\ at' \in 1 .. MaxSlots + 1 /\ class[at] \in Class /\ class[at] \in Nat
    BY <1>10, <1>12, Addresses DEF SweepDead, TypeOK
  <2>2. <<at>> \o freeList[class[at]] \in Seq(Slot)
    BY <2>1 DEF TypeOK
  <2>3. freeList' \in [Class -> Seq(Slot)]
    BY <1>12, <2>1, <2>2 DEF SweepDead, TypeOK
  <2>4. free' \subseteq 1 .. bumped' /\ freed' \in Nat
    BY <1>12, <2>1 DEF SweepDead, Sweeping, TypeOK
  <2>5. refs' \in [Object -> SUBSET Object]
    BY <1>12, <2>1, Addresses DEF SweepDead, TypeOK
  <2> QED BY <1>12, <2>1, <2>3, <2>4, <2>5 DEF SweepDead, Sweeping, TypeOK, bytes
<1>13. CASE SweepEnd
  <2>1. live' \in Nat /\ threshold' \in Nat
    BY <1>13, HeapAssumption DEF SweepEnd, MaxOf, TypeOK, HeapAssumption
  <2>2. 1 \in 1 .. MaxSlots + 1
    BY HeapAssumption DEF HeapAssumption
  <2> QED BY <1>13, <2>1, <2>2 DEF SweepEnd, Goto, TypeOK, heap, graph
<1>14. CASE UNCHANGED vars
  BY <1>14 DEF vars, heap, graph, sweep, bytes, TypeOK
<1> QED BY <1>1, <1>2, <1>3, <1>4, <1>5, <1>6, <1>7, <1>8, <1>9, <1>11, <1>12, <1>13, <1>14
        DEF Next, CollectorStep

-----------------------------------------------------------------------------
(* The free lists *)

LEMMA FreeListsInit == Init => FreeListsExact
BY HeapAssumption DEF Init, FreeListsExact

LEMMA FreeListsStep ==
  TypeOK /\ TypeOK' /\ FreeListsExact /\ [Next]_vars => FreeListsExact'
<1> SUFFICES ASSUME TypeOK, TypeOK', FreeListsExact, [Next]_vars PROVE FreeListsExact'
  OBVIOUS
<1>0. /\ freeList \in [Class -> Seq(Slot)] /\ class \in [Slot -> Class]
      /\ free \subseteq Slot
  BY HeapAssumption DEF TypeOK, Slot, HeapAssumption
<1> USE <1>0
<1>1. ASSUME NEW k \in Class, AllocateFromList(k) PROVE FreeListsExact'
  <2> DEFINE h == Head(freeList[k])
  <2>1. /\ freeList[k] \in Seq(Slot) /\ Len(freeList[k]) \in Nat \ {0}
        /\ h = freeList[k][1]
    BY <1>1 DEF AllocateFromList
  <2>2. /\ freeList' = [freeList EXCEPT ![k] = Tail(freeList[k])]
        /\ free' = free \ {h} /\ class' = class
    BY <1>1 DEF AllocateFromList
  <2>3. /\ Len(Tail(freeList[k])) = Len(freeList[k]) - 1
        /\ \A i \in 1 .. Len(freeList[k]) - 1 : Tail(freeList[k])[i] = freeList[k][i + 1]
    BY <2>1
  <2>4. h \in free /\ class[h] = k
    BY <2>1 DEF FreeListsExact
  <2>5. ASSUME NEW c \in Class, NEW i \in 1 .. Len(freeList'[c])
        PROVE  /\ freeList'[c][i] \in free' /\ class'[freeList'[c][i]] = c
               /\ \A j \in 1 .. Len(freeList'[c]) :
                    freeList'[c][i] = freeList'[c][j] => i = j
    <3>1. CASE c = k
      <4>1. /\ freeList'[c] = Tail(freeList[k]) /\ i \in 1 .. Len(freeList[k]) - 1
            /\ freeList'[c][i] = freeList[k][i + 1]
        BY <3>1, <2>2, <2>3
      <4>2. i + 1 \in 1 .. Len(freeList[k]) /\ 1 \in 1 .. Len(freeList[k])
        BY <4>1, <2>1
      <4>3. /\ freeList[k][i + 1] \in free /\ class[freeList[k][i + 1]] = k
            /\ freeList[k][i + 1] # freeList[k][1]
        BY <4>2 DEF FreeListsExact
      <4>4. ASSUME NEW j \in 1 .. Len(freeList'[c]), freeList'[c][i] = freeList'[c][j]
            PROVE  i = j
        <5>1. j + 1 \in 1 .. Len(freeList[k]) /\ freeList'[c][j] = freeList[k][j + 1]
          BY <4>1, <2>1, <2>3
        <5>2. i + 1 = j + 1
          BY <5>1, <4>1, <4>2, <4>4 DEF FreeListsExact
        <5> QED BY <5>1, <5>2, <4>1
      <4> QED BY <4>1, <4>3, <4>4, <2>1, <2>2, <3>1
    <3>2. CASE c # k
      BY <3>2, <2>2, <2>4 DEF FreeListsExact
    <3> QED BY <3>1, <3>2
  <2>6. ASSUME NEW s \in free'
        PROVE  \E i \in 1 .. Len(freeList'[class'[s]]) : freeList'[class'[s]][i] = s
    <3>1. s \in free /\ s # h
      BY <2>2
    <3>2. PICK i \in 1 .. Len(freeList[class[s]]) : freeList[class[s]][i] = s
      BY <3>1 DEF FreeListsExact
    <3>3. CASE class[s] = k
      <4>1. i - 1 \in 1 .. Len(Tail(freeList[k]))
        BY <3>1, <3>2, <3>3, <2>1, <2>3
      <4>2. Tail(freeList[k])[i - 1] = s
        BY <4>1, <3>2, <3>3, <2>3
      <4> QED BY <4>1, <4>2, <3>3, <2>2
    <3>4. CASE class[s] # k
      BY <3>2, <3>4, <2>2
    <3> QED BY <3>3, <3>4
  <2> QED BY <2>5, <2>6 DEF FreeListsExact
<1>2. ASSUME NEW k \in Class, AllocateBump(k) PROVE FreeListsExact'
  <2>1. /\ freeList' = freeList /\ free' = free
        /\ \A s \in free : s \in Slot /\ class'[s] = class[s] /\ class[s] \in Class
    <3>1. \A s \in free : s # bumped + 1
      BY DEF TypeOK
    <3> QED BY <1>2, <3>1 DEF AllocateBump
  <2>2. \A c \in Class : \A i \in 1 .. Len(freeList[c]) :
          class'[freeList[c][i]] = class[freeList[c][i]]
    BY <2>1 DEF FreeListsExact
  <2>3. \A c \in Class : \A i, j \in 1 .. Len(freeList'[c]) :
          /\ freeList'[c][i] \in free' /\ class'[freeList'[c][i]] = c
          /\ freeList'[c][i] = freeList'[c][j] => i = j
    BY <2>1, <2>2 DEF FreeListsExact
  <2>4. \A s \in free' : \E i \in 1 .. Len(freeList'[class'[s]]) : freeList'[class'[s]][i] = s
    BY <2>1 DEF FreeListsExact
  <2> QED BY <2>3, <2>4 DEF FreeListsExact
<1>3. CASE SweepDead
  <2> DEFINE c == class[at]
  <2>1. /\ at \in Slot /\ c \in Class /\ at \notin free
        /\ freeList' = [freeList EXCEPT ![c] = <<at>> \o freeList[c]]
        /\ free' = free \cup {at} /\ class' = class
    BY <1>3, HeapAssumption DEF SweepDead, Sweeping, TypeOK, Slot, HeapAssumption
  <2>2. /\ freeList[c] \in Seq(Slot)
        /\ Len(<<at>> \o freeList[c]) = Len(freeList[c]) + 1
        /\ (<<at>> \o freeList[c])[1] = at
        /\ \A i \in 1 .. Len(freeList[c]) : (<<at>> \o freeList[c])[i + 1] = freeList[c][i]
    BY <2>1
  <2>3. \A i \in 2 .. Len(freeList[c]) + 1 :
          /\ i - 1 \in 1 .. Len(freeList[c])
          /\ (<<at>> \o freeList[c])[i] = freeList[c][i - 1]
    <3> SUFFICES ASSUME NEW i \in 2 .. Len(freeList[c]) + 1
                 PROVE  /\ i - 1 \in 1 .. Len(freeList[c])
                        /\ (<<at>> \o freeList[c])[(i - 1) + 1] = freeList[c][i - 1]
      OBVIOUS
    <3> QED BY <2>2
  <2> HIDE DEF c
  <2>4. ASSUME NEW d \in Class, NEW i \in 1 .. Len(freeList'[d])
        PROVE  /\ freeList'[d][i] \in free' /\ class'[freeList'[d][i]] = d
               /\ \A j \in 1 .. Len(freeList'[d]) :
                    freeList'[d][i] = freeList'[d][j] => i = j
    <3>1. CASE d = c
      <4>1. /\ freeList'[d] = <<at>> \o freeList[c] /\ class[at] = c
            /\ \A j \in 1 .. Len(freeList[c]) :
                 freeList[c][j] # at /\ freeList[c][j] \in free /\ class[freeList[c][j]] = c
            /\ \A j, n \in 1 .. Len(freeList[c]) : freeList[c][j] = freeList[c][n] => j = n
        BY <3>1, <2>1 DEF FreeListsExact, c
      <4>2. CASE i = 1
        BY <4>1, <4>2, <2>1, <2>2, <2>3, <3>1
      <4>3. CASE i # 1
        <5>1. i \in 2 .. Len(freeList[c]) + 1
          BY <4>1, <4>3, <2>2
        <5>2. /\ i - 1 \in 1 .. Len(freeList[c])
              /\ freeList'[d][i] = freeList[c][i - 1]
          BY <5>1, <4>1, <2>3
        <5>3. /\ freeList'[d][i] \in free /\ class[freeList'[d][i]] = c
              /\ freeList'[d][i] # at
          BY <5>2, <4>1
        <5>4. ASSUME NEW j \in 1 .. Len(freeList'[d]), freeList'[d][i] = freeList'[d][j]
              PROVE  i = j
          <6>1. j # 1
            BY <5>3, <5>4, <4>1, <2>2
          <6>2. j \in 2 .. Len(freeList[c]) + 1
            BY <6>1, <4>1, <2>2
          <6>3. /\ j - 1 \in 1 .. Len(freeList[c])
                /\ freeList'[d][j] = freeList[c][j - 1]
            BY <6>2, <4>1, <2>3
          <6>4. i - 1 = j - 1
            BY <6>3, <5>2, <5>4, <4>1
          <6> QED BY <6>4, <5>1, <6>2
        <5> QED BY <5>3, <5>4, <2>1, <3>1
      <4> QED BY <4>2, <4>3
    <3>2. CASE d # c
      BY <3>2, <2>1 DEF FreeListsExact
    <3> QED BY <3>1, <3>2
  <2>5. ASSUME NEW s \in free'
        PROVE  \E i \in 1 .. Len(freeList'[class'[s]]) : freeList'[class'[s]][i] = s
    <3>1. CASE s = at
      BY <3>1, <2>1, <2>2 DEF c
    <3>2. CASE s # at
      <4>1. PICK i \in 1 .. Len(freeList[class[s]]) : freeList[class[s]][i] = s
        BY <3>2, <2>1 DEF FreeListsExact
      <4>2. CASE class[s] = c
        <5>1. i + 1 \in 1 .. Len(<<at>> \o freeList[c])
              /\ (<<at>> \o freeList[c])[i + 1] = s
          BY <4>1, <4>2, <2>2
        <5> QED BY <5>1, <4>2, <2>1
      <4>3. CASE class[s] # c
        BY <4>1, <4>3, <2>1
      <4> QED BY <4>2, <4>3
    <3> QED BY <3>1, <3>2
  <2> QED BY <2>4, <2>5 DEF FreeListsExact
<1>4. CASE UNCHANGED <<freeList, free, class>>
  BY <1>4 DEF FreeListsExact
<1>5. \/ \E k \in Class : AllocateFromList(k) \/ AllocateBump(k)
      \/ SweepDead
      \/ UNCHANGED <<freeList, free, class>>
  BY DEF Next, CollectorStep, AllocateLarge, Store, Erase, Load, Drop, Mutate, MarkRoots,
         Safepoint, Trace, MarkEnd, SweepFree, SweepSurvivor, SweepEnd, vars, heap
<1> QED BY <1>1, <1>2, <1>3, <1>4, <1>5

-----------------------------------------------------------------------------
(* Colours and references.  Proof holds what every lemma below concludes.  *)

Graph == ColoursAtRest /\ LargeAreLeaves /\ TriColour /\ SweptBehind /\ Whole

LEMMA GraphInit == Init => Graph
BY HeapAssumption, Addresses
   DEF Init, Graph, ColoursAtRest, LargeAreLeaves, TriColour, SweptBehind, Whole, Kept,
       Allocated, Doomed, Slot

(* Outside a sweep nothing is doomed. *)
LEMMA NothingDoomed == phase # "sweep" => Kept = Allocated
BY DEF Kept, Doomed

LEMMA HandOutGraph ==
  ASSUME IInv, NEW o \in Object, NEW size, HandOut(o, size), o \notin Allocated,
         Allocated' = Allocated \cup {o}
  PROVE  Graph'
<1>1. phase = "run" /\ phase' = "safepoint" /\ worklist' = worklist /\ at' = at
  BY DEF HandOut, Goto, sweep
<1>2. Kept = Allocated /\ Kept' = Allocated'
  BY <1>1 DEF Kept, Doomed
<1>3. /\ color' = [color EXCEPT ![o] = "white"] /\ color \in [Object -> Color]
      /\ refs' = [refs EXCEPT ![o] = {}] /\ refs \in [Object -> SUBSET Object]
      /\ roots' = roots \cup {o}
  BY DEF HandOut, IInv, TypeOK
<1>4. /\ \A s \in Slot : color[s] = "white"
      /\ worklist = {} /\ at = 1 /\ \A p \in Object : color[p] # "grey"
  BY <1>1 DEF IInv, ColoursAtRest
<1>5. ColoursAtRest'
  BY <1>1, <1>3, <1>4, Addresses DEF ColoursAtRest
<1>6. LargeAreLeaves'
  BY <1>3, Addresses DEF IInv, LargeAreLeaves
<1>7. Whole'
  <2>1. roots \subseteq Allocated /\ \A p \in Allocated : refs[p] \subseteq Allocated
    BY <1>2 DEF IInv, Whole
  <2>2. Kept' = Allocated \cup {o}
    BY <1>2
  <2>3. Allocated \subseteq Object
    BY HeapAssumption, Addresses DEF IInv, TypeOK, Slot, HeapAssumption, Allocated
  <2> QED BY <1>3, <2>1, <2>2, <2>3 DEF Whole
<1> QED BY <1>1, <1>5, <1>6, <1>7 DEF Graph, TriColour, SweptBehind

(* The three ways to allocate hand out what was not allocated. *)
LEMMA Fresh ==
  ASSUME IInv, NEW k \in Class
  PROVE  /\ AllocateFromList(k) => /\ Head(freeList[k]) \in Object \ Allocated
                                   /\ Allocated' = Allocated \cup {Head(freeList[k])}
         /\ AllocateBump(k) => /\ bumped + 1 \in Object \ Allocated
                               /\ Allocated' = Allocated \cup {bumped + 1}
<1>1. ASSUME AllocateFromList(k)
      PROVE  /\ Head(freeList[k]) \in Object \ Allocated
             /\ Allocated' = Allocated \cup {Head(freeList[k])}
  <2>1. freeList[k] \in Seq(Slot) /\ freeList[k] # <<>>
    BY <1>1 DEF AllocateFromList, IInv, TypeOK
  <2>2. Head(freeList[k]) = freeList[k][1] /\ 1 \in 1 .. Len(freeList[k])
    BY <2>1
  <2>3. Head(freeList[k]) \in free
    BY <2>2 DEF IInv, FreeListsExact
  <2>4. /\ Head(freeList[k]) \in 1 .. bumped /\ Head(freeList[k]) \in Slot
        /\ Head(freeList[k]) \notin largeUsed
    <3>1. freeList[k] \in Seq(Slot) => Head(freeList[k]) \in Slot
      BY <2>2
    <3>2. free \subseteq 1 .. bumped /\ largeUsed \subseteq Large
      BY DEF IInv, TypeOK
    <3> QED BY <3>1, <3>2, <2>1, <2>3, Addresses
  <2> QED BY <1>1, <2>3, <2>4, Addresses DEF AllocateFromList, Allocated
<1>2. ASSUME AllocateBump(k)
      PROVE  /\ bumped + 1 \in Object \ Allocated
             /\ Allocated' = Allocated \cup {bumped + 1}
  <2>1. /\ bumped + 1 \in Slot /\ bumped \in Nat
        /\ bumped + 1 \notin largeUsed /\ free \subseteq 1 .. bumped
    BY <1>2, HeapAssumption, Addresses DEF AllocateBump, IInv, TypeOK, Slot, HeapAssumption
  <2>2. 1 .. bumped' = (1 .. bumped) \cup {bumped + 1} /\ bumped + 1 \notin 1 .. bumped
    BY <1>2, <2>1 DEF AllocateBump
  <2> QED BY <1>2, <2>1, <2>2, Addresses DEF AllocateBump, Allocated
<1> QED BY <1>1, <1>2

LEMMA FreshLarge ==
  ASSUME IInv, NEW o \in Large, AllocateLarge(o)
  PROVE  o \in Object \ Allocated /\ Allocated' = Allocated \cup {o}
<1>1. o \notin Slot /\ 1 .. bumped \subseteq Slot
  BY Addresses, HeapAssumption DEF IInv, TypeOK, Slot, HeapAssumption
<1> QED BY <1>1, Addresses DEF AllocateLarge, Allocated

LEMMA MutateGraph ==
  ASSUME IInv, ~ LargeTraced, NEW o \in Object, NEW p \in Object,
         Store(o, p) \/ Erase(o, p) \/ Load(o, p) \/ Drop(o)
  PROVE  Graph' /\ color' = color /\ Kept' = Kept
<1>1. /\ phase = "run" /\ UNCHANGED <<heap, phase, worklist, sweep, bytes>>
  BY DEF Store, Erase, Load, Drop, Mutate
<1>2. Kept = Allocated /\ Kept' = Kept /\ Allocated' = Allocated
  BY <1>1 DEF Kept, Doomed, Allocated, heap
<1>3. color' = color
  <2>1. CASE Store(o, p)
    <3>1. o \in Slot
      BY <2>1 DEF Store, Object
    <3>2. color[o] = "white"
      BY <3>1, <1>1 DEF IInv, ColoursAtRest
    <3> QED BY <2>1, <3>2 DEF Store, IInv, TypeOK
  <2>2. CASE Erase(o, p) \/ Load(o, p) \/ Drop(o)
    BY <2>2 DEF Erase, Load, Drop
  <2> QED BY <2>1, <2>2
<1>4. /\ refs \in [Object -> SUBSET Object]
      /\ roots' \subseteq Kept /\ LargeAreLeaves'
      /\ \A q \in Kept : refs'[q] \subseteq Kept
  <2>1. CASE Store(o, p)
    <3>1. o \notin Large
      BY <2>1 DEF Store
    <3> QED BY <2>1, <3>1, Addresses DEF Store, IInv, TypeOK, Whole, LargeAreLeaves
  <2>2. CASE Erase(o, p)
    BY <2>2, Addresses DEF Erase, IInv, TypeOK, Whole, LargeAreLeaves
  <2>3. CASE Load(o, p)
    BY <2>3 DEF Load, IInv, TypeOK, Whole, LargeAreLeaves
  <2>4. CASE Drop(o)
    BY <2>4 DEF Drop, IInv, TypeOK, Whole, LargeAreLeaves
  <2> QED BY <2>1, <2>2, <2>3, <2>4
<1>5. ColoursAtRest'
  BY <1>1, <1>2, <1>3 DEF IInv, ColoursAtRest, sweep
<1> QED BY <1>1, <1>2, <1>3, <1>4, <1>5 DEF Graph, Whole, TriColour, SweptBehind

LEMMA MarkRootsGraph ==
  ASSUME IInv, MarkRoots
  PROVE  Graph' /\ Kept' = Kept
<1>1. /\ phase \in {"run", "safepoint"} /\ phase' = "mark"
      /\ UNCHANGED <<heap, refs, roots, at>>
  BY DEF MarkRoots, Goto, graph, sweep
<1>2. Kept = Allocated /\ Kept' = Kept /\ Allocated' = Allocated
  BY <1>1 DEF Kept, Doomed, Allocated, heap
<1> DEFINE white == {o \in roots : color[o] = "white"}
<1>3. /\ color' = [o \in Object |-> IF o \in white THEN "grey" ELSE color[o]]
      /\ worklist' = white /\ white \subseteq Object
  BY DEF MarkRoots, MarkPointers, IInv, TypeOK
<1>4. /\ \A s \in Slot : color[s] = "white"
      /\ at = 1 /\ \A p \in Object : color[p] # "grey"
  BY <1>1 DEF IInv, ColoursAtRest
<1>5. ColoursAtRest'
  <2>1. white \subseteq Allocated
    BY <1>2 DEF IInv, Whole
  <2> QED BY <1>1, <1>2, <1>3, <1>4, <2>1, Addresses DEF ColoursAtRest
<1>6. TriColour'
  <2>1. roots' \subseteq Marked'
    BY <1>1, <1>3 DEF Marked, IInv, TypeOK
  <2>2. ASSUME NEW o \in Object, color'[o] = "black" PROVE refs'[o] \subseteq Marked'
    <3>1. o \in Large
      BY <2>2, <1>3, <1>4 DEF Object
    <3> QED BY <3>1, <1>1 DEF IInv, LargeAreLeaves
  <2>3. \A s \in Slot \cap Marked' : s \in roots'
    BY <1>1, <1>3, <1>4, Addresses DEF Marked
  <2> QED BY <2>1, <2>2, <2>3 DEF TriColour
<1>7. LargeAreLeaves' /\ Whole'
  BY <1>1, <1>2 DEF IInv, LargeAreLeaves, Whole
<1> QED BY <1>1, <1>2, <1>5, <1>6, <1>7 DEF Graph, SweptBehind

LEMMA TraceGraph ==
  ASSUME IInv, NEW o \in Object, Trace(o)
  PROVE  Graph' /\ Kept' = Kept
<1>1. /\ phase = "mark" /\ phase' = "mark" /\ o \in worklist
      /\ UNCHANGED <<heap, refs, roots, at>>
  BY DEF Trace, graph, sweep
<1>2. Kept = Allocated /\ Kept' = Kept /\ Allocated' = Allocated
  BY <1>1 DEF Kept, Doomed, Allocated, heap
<1> DEFINE white == {p \in refs[o] : color[p] = "white"}
<1>3. /\ color' = [p \in Object |-> IF p \in white THEN "grey"
                                    ELSE IF p = o THEN "black" ELSE color[p]]
      /\ worklist' = (worklist \ {o}) \cup white
      /\ white \subseteq Object /\ o \notin white /\ color[o] = "grey"
  <2>1. color[o] = "grey" /\ color \in [Object -> Color] /\ refs[o] \subseteq Object
    BY <1>1 DEF IInv, ColoursAtRest, TypeOK
  <2>2. {p \in refs[o] : [color EXCEPT ![o] = "black"][p] = "white"} = white
    BY <2>1
  <2> QED BY <2>1, <2>2 DEF Trace, MarkPointers
<1>4. worklist = {p \in Object : color[p] = "grey"}
  BY DEF IInv, ColoursAtRest
<1>5. white \subseteq Allocated /\ (white # {} => o \in Slot \cap Allocated)
  <2>1. CASE o \in Large
    BY <2>1 DEF IInv, LargeAreLeaves
  <2>2. CASE o \in Slot
    <3>1. o \in Allocated
      BY <2>2, <1>3 DEF IInv, ColoursAtRest
    <3> QED BY <3>1, <2>2, <1>2 DEF IInv, Whole
  <2> QED BY <2>1, <2>2 DEF Object
<1>6. ColoursAtRest'
  BY <1>1, <1>2, <1>3, <1>4, <1>5, Addresses DEF ColoursAtRest, IInv
<1>7. Marked' = Marked \cup white
  BY <1>3 DEF Marked
<1>8. TriColour'
  <2>1. roots' \subseteq Marked'
    BY <1>1, <1>7 DEF IInv, TriColour
  <2>2. ASSUME NEW p \in Object, color'[p] = "black" PROVE refs'[p] \subseteq Marked'
    <3>1. CASE p = o
      BY <3>1, <1>1, <1>7 DEF Marked, IInv, TypeOK
    <3>2. CASE p # o
      <4>1. color[p] = "black"
        BY <3>2, <2>2, <1>3
      <4> QED BY <4>1, <1>1, <1>7 DEF IInv, TriColour
    <3> QED BY <3>1, <3>2
  <2>3. ASSUME NEW s \in Slot \cap Marked', NEW S \in SUBSET Object, roots' \subseteq S,
               \A p \in S \cap Allocated' : refs'[p] \subseteq S
        PROVE  s \in S
    <3>1. \A t \in Slot \cap Marked : t \in S
      BY <2>3, <1>1, <1>2 DEF IInv, TriColour
    <3>2. CASE s \in white
      <4>1. o \in S \cap Allocated
        BY <3>1, <3>2, <1>5, <1>3 DEF Marked
      <4> QED BY <4>1, <3>2, <2>3, <1>1, <1>2
    <3>3. CASE s \notin white
      BY <3>1, <3>3, <1>7
    <3> QED BY <3>2, <3>3
  <2> QED BY <2>1, <2>2, <2>3 DEF TriColour
<1>9. LargeAreLeaves' /\ Whole'
  BY <1>1, <1>2 DEF IInv, LargeAreLeaves, Whole
<1> QED BY <1>1, <1>2, <1>6, <1>8, <1>9 DEF Graph, SweptBehind

(* When marking is over, what is marked is closed, and it is what is kept. *)
LEMMA MarkEndGraph ==
  ASSUME IInv, MarkEnd
  PROVE  /\ Graph' /\ Kept' = {o \in Kept : o \in Marked \/ o \in Large}
         /\ \A o \in Marked : refs[o] \subseteq Marked
<1>1. /\ phase = "mark" /\ phase' = "sweep" /\ worklist = {} /\ at = 1
      /\ UNCHANGED <<heap, color, refs, roots, at, worklist>>
  BY DEF MarkEnd, Goto, graph, sweep, IInv, ColoursAtRest
<1>2. Kept = Allocated /\ Allocated' = Allocated /\ Marked' = Marked
  BY <1>1 DEF Kept, Doomed, Allocated, Marked, heap
<1>3. 1 .. bumped \subseteq Slot /\ Allocated \subseteq Object
  BY HeapAssumption, Addresses DEF IInv, TypeOK, Slot, HeapAssumption, Allocated
<1>4. Kept' = {o \in Kept : o \in Marked \/ o \in Large}
  <2>1. Doomed' = {s \in 1 .. bumped : color[s] = "white"}
    BY <1>1 DEF Doomed, heap
  <2>2. \A o \in Allocated : o \in Large \/ o \in 1 .. bumped
    BY DEF Allocated, IInv, TypeOK
  <2>3. \A o \in Large : o \notin 1 .. bumped
    BY <1>3, Addresses
  <2> QED BY <1>2, <1>3, <2>1, <2>2, <2>3 DEF Kept, Marked
<1>5. \A o \in Marked : color[o] = "black" /\ refs[o] \subseteq Marked
  <2>1. \A o \in Object : color[o] # "grey"
    BY <1>1 DEF IInv, ColoursAtRest
  <2> QED BY <1>1, <2>1 DEF IInv, TriColour, Marked, TypeOK, Color
<1>6. Whole'
  <2>1. roots' \subseteq Kept'
    BY <1>1, <1>4 DEF IInv, Whole, TriColour
  <2>2. \A o \in Kept' : refs'[o] \subseteq Kept'
    BY <1>1, <1>4, <1>5 DEF IInv, Whole, LargeAreLeaves
  <2> QED BY <2>1, <2>2 DEF Whole
<1>7. ColoursAtRest' /\ LargeAreLeaves'
  BY <1>1, <1>2 DEF IInv, ColoursAtRest, LargeAreLeaves
<1>8. SweptBehind'
  BY <1>1, Addresses DEF SweptBehind, Slot
<1> QED BY <1>1, <1>4, <1>5, <1>6, <1>7, <1>8 DEF Graph, TriColour

(* A step of the sweep changes neither what is kept nor its references. *)
LEMMA SweepGraph ==
  ASSUME IInv, SweepFree \/ SweepDead \/ SweepSurvivor
  PROVE  /\ Graph' /\ Kept' = Kept
         /\ roots' = roots /\ \A o \in Kept : refs'[o] = refs[o]
<1>1. /\ phase = "sweep" /\ phase' = "sweep" /\ at \in Slot /\ at <= bumped
      /\ at' = at + 1 /\ at \in 1 .. bumped
      /\ UNCHANGED <<bumped, largeUsed, roots, worklist>>
  BY HeapAssumption DEF SweepFree, SweepDead, SweepSurvivor, Sweeping, IInv, TypeOK, Slot,
                        HeapAssumption, heap, graph
<1>2. /\ 1 .. bumped \subseteq Slot /\ Slot \cap largeUsed = {} /\ Slot \subseteq Nat
      /\ bumped \in Nat /\ largeUsed \subseteq Object
  BY HeapAssumption, Addresses DEF IInv, TypeOK, Slot, HeapAssumption
<1>3. /\ color \in [Object -> Color] /\ refs \in [Object -> SUBSET Object]
      /\ worklist = {} /\ \A o \in Object : color[o] # "grey"
      /\ \A s \in Slot : s \notin Allocated => color[s] = "white"
      /\ at \in Object
  BY <1>1, Addresses DEF IInv, TypeOK, ColoursAtRest
<1>4. at' .. bumped = (at .. bumped) \ {at}
  BY <1>1, <1>2
<1> DEFINE doomedAhead == {s \in (at .. bumped) \ {at} : color[s] = "white"}
<1>5. Doomed' = doomedAhead
  <2>1. color' = color \/ color' = [color EXCEPT ![at] = "white"]
    BY <1>3 DEF SweepFree, SweepDead, SweepSurvivor, Color
  <2>2. \A s \in Object \ {at} : color'[s] = color[s]
    BY <2>1, <1>3
  <2>3. (at .. bumped) \ {at} \subseteq Object \ {at}
    BY <1>1, <1>2, Addresses DEF Slot
  <2> QED BY <1>1, <1>4, <2>2, <2>3 DEF Doomed
<1>6. Doomed = doomedAhead \cup (IF color[at] = "white" THEN {at} ELSE {})
  BY <1>1 DEF Doomed
<1>7. CASE SweepFree
  <2>1. at \notin Allocated /\ Allocated' = Allocated
    BY <1>1, <1>2, <1>7 DEF SweepFree, Allocated, heap
  <2>2. UNCHANGED <<color, refs>>
    BY <1>7 DEF SweepFree, graph
  <2>3. Kept' = Kept
    BY <1>5, <1>6, <2>1 DEF Kept
  <2>4. color[at] = "white"
    BY <1>1, <1>3, <2>1
  <2>5. SweptBehind'
    BY <1>1, <1>2, <2>2, <2>4 DEF IInv, SweptBehind
  <2> QED BY <1>1, <2>1, <2>2, <2>3, <2>5
          DEF Graph, IInv, ColoursAtRest, LargeAreLeaves, TriColour, Whole
<1>8. CASE SweepDead
  <2>1. /\ at \in Allocated /\ Allocated' = Allocated \ {at} /\ color[at] = "white"
        /\ color' = color /\ refs' = [refs EXCEPT ![at] = {}]
    BY <1>1, <1>2, <1>8 DEF SweepDead, Allocated
  <2>2. Kept' = Kept /\ at \notin Kept
    BY <1>5, <1>6, <2>1 DEF Kept
  <2>3. \A o \in Kept : refs'[o] = refs[o]
    <3>1. Kept \subseteq Object
      BY <1>2, Addresses DEF Kept, Allocated
    <3> QED BY <3>1, <2>1, <2>2, <1>3
  <2>4. SweptBehind'
    BY <1>1, <1>2, <2>1 DEF IInv, SweptBehind
  <2>5. ColoursAtRest'
    BY <1>1, <1>3, <2>1 DEF ColoursAtRest
  <2>6. LargeAreLeaves'
    BY <1>3, <2>1, Addresses DEF IInv, LargeAreLeaves
  <2> QED BY <1>1, <2>2, <2>3, <2>4, <2>5, <2>6 DEF Graph, IInv, TriColour, Whole
<1>9. CASE SweepSurvivor
  <2>1. /\ at \in Allocated /\ Allocated' = Allocated
        /\ color[at] = "black" /\ color' = [color EXCEPT ![at] = "white"]
        /\ UNCHANGED refs
    BY <1>1, <1>2, <1>3, <1>9 DEF SweepSurvivor, Allocated, heap, graph, Color
  <2>2. Kept' = Kept
    BY <1>5, <1>6, <2>1 DEF Kept
  <2>3. SweptBehind'
    BY <1>1, <1>2, <1>3, <2>1 DEF IInv, SweptBehind
  <2>4. ColoursAtRest'
    BY <1>1, <1>3, <2>1, Addresses DEF ColoursAtRest
  <2> QED BY <1>1, <2>1, <2>2, <2>3, <2>4 DEF Graph, IInv, LargeAreLeaves, TriColour, Whole
<1> QED BY <1>7, <1>8, <1>9

LEMMA SweepEndGraph ==
  ASSUME IInv, SweepEnd
  PROVE  Graph' /\ Kept' = Kept /\ UNCHANGED <<refs, roots>>
<1>1. /\ phase = "sweep" /\ phase' = "run" /\ at > bumped /\ at' = 1
      /\ UNCHANGED <<heap, color, refs, roots, worklist>>
  BY DEF SweepEnd, Goto, graph
<1>2. Allocated' = Allocated /\ Kept = Allocated /\ Kept' = Kept
  <2>1. bumped \in Nat /\ at \in Nat
    BY HeapAssumption DEF IInv, TypeOK, HeapAssumption
  <2>2. Doomed = {} /\ Doomed' = {}
    BY <1>1, <2>1 DEF Doomed
  <2> QED BY <1>1, <2>2 DEF Allocated, Kept, heap
<1>3. \A s \in Slot : color[s] = "white"
  <2> SUFFICES ASSUME NEW s \in Slot PROVE color[s] = "white"
    OBVIOUS
  <2>1. s \in Nat /\ at \in Nat /\ bumped \in Nat /\ s \notin largeUsed
    BY HeapAssumption, Addresses DEF IInv, TypeOK, HeapAssumption
  <2>2. CASE s < at
    BY <1>1, <2>2 DEF IInv, SweptBehind
  <2>3. CASE ~ (s < at)
    <3>1. s \notin Allocated
      BY <1>1, <2>1, <2>3 DEF Allocated
    <3> QED BY <3>1 DEF IInv, ColoursAtRest
  <2> QED BY <2>2, <2>3
<1>4. ColoursAtRest'
  BY <1>1, <1>2, <1>3 DEF IInv, ColoursAtRest
<1> QED BY <1>1, <1>2, <1>4 DEF Graph, IInv, LargeAreLeaves, TriColour, SweptBehind, Whole

LEMMA UnchangedGraph ==
  ASSUME IInv, Safepoint \/ UNCHANGED vars
  PROVE  Graph' /\ Kept' = Kept /\ UNCHANGED <<refs, roots>>
<1>1. /\ UNCHANGED <<heap, color, refs, roots, worklist, at>>
      /\ phase' = phase \/ (phase = "safepoint" /\ phase' = "run")
  BY DEF Safepoint, Goto, vars, graph, sweep
<1>2. Allocated' = Allocated /\ Kept' = Kept
  BY <1>1 DEF Allocated, Kept, Doomed, heap
<1> QED BY <1>1, <1>2 DEF Graph, IInv, ColoursAtRest, LargeAreLeaves, TriColour, SweptBehind,
                          Whole, Marked

(* Every step is one of the steps of the lemmas above. *)
LEMMA Steps ==
  ASSUME [Next]_vars
  PROVE  \/ \E k \in Class : AllocateFromList(k) \/ AllocateBump(k)
         \/ \E o \in Large : AllocateLarge(o)
         \/ \E o, p \in Object : Store(o, p) \/ Erase(o, p) \/ Load(o, p) \/ Drop(o)
         \/ MarkRoots \/ (\E o \in Object : Trace(o)) \/ MarkEnd
         \/ SweepFree \/ SweepDead \/ SweepSurvivor \/ SweepEnd
         \/ Safepoint \/ UNCHANGED vars
BY DEF Next, CollectorStep

LEMMA GraphStep ==
  ASSUME ~ LargeTraced, IInv, [Next]_vars
  PROVE  Graph'
<1>1. ASSUME NEW k \in Class, AllocateFromList(k) PROVE Graph'
  <2>1. HandOut(Head(freeList[k]), k)
    BY <1>1 DEF AllocateFromList
  <2> QED BY <1>1, <2>1, Fresh, HandOutGraph
<1>2. ASSUME NEW k \in Class, AllocateBump(k) PROVE Graph'
  <2>1. HandOut(bumped + 1, k)
    BY <1>2 DEF AllocateBump
  <2> QED BY <1>2, <2>1, Fresh, HandOutGraph
<1>3. ASSUME NEW o \in Large, AllocateLarge(o) PROVE Graph'
  <2>1. HandOut(o, LargeSize)
    BY <1>3 DEF AllocateLarge
  <2> QED BY <1>3, <2>1, FreshLarge, HandOutGraph
<1>4. ASSUME NEW o \in Object, NEW p \in Object,
             Store(o, p) \/ Erase(o, p) \/ Load(o, p) \/ Drop(o)
      PROVE  Graph'
  BY <1>4, MutateGraph
<1> QED BY Steps, <1>1, <1>2, <1>3, <1>4, MarkRootsGraph, TraceGraph, MarkEndGraph, SweepGraph,
           SweepEndGraph, UnchangedGraph

-----------------------------------------------------------------------------
(* The collector keeps its invariant: colours are right between and during *)
(* collections, what is marked is reachable, what is kept is closed.       *)
THEOREM GCInvariant == ASSUME ~ LargeTraced PROVE Spec => []IInv
<1>1. Init => IInv
  BY TypeInit, FreeListsInit, GraphInit DEF IInv, Graph
<1>2. IInv /\ [Next]_vars => IInv'
  BY TypeStep, FreeListsStep, GraphStep DEF IInv, Graph
<1> QED BY <1>1, <1>2, PTL DEF Spec

(* The free lists hold the free slots of their class, each once.  This     *)
(* needs no assumption on large objects.                                   *)
THEOREM GCFreeLists == Spec => []FreeListsExact
<1>1. Init => TypeOK /\ FreeListsExact
  BY TypeInit, FreeListsInit
<1>2. TypeOK /\ FreeListsExact /\ [Next]_vars => TypeOK' /\ FreeListsExact'
  BY TypeStep, FreeListsStep
<1> QED BY <1>1, <1>2, PTL DEF Spec

(* The steps of the concrete heap as steps of the abstract one. *)
mrefs == [o \in Object |-> IF o \in Kept THEN refs[o] ELSE {}]

LEMMA SameHeap ==
  ASSUME Kept' = Kept, \A o \in Kept : refs'[o] = refs[o], roots' = roots
  PROVE  UNCHANGED Managed!hvars
BY DEF Managed!hvars

LEMMA HandOutAllocates ==
  ASSUME IInv, NEW o \in Object, NEW size, HandOut(o, size), o \notin Allocated,
         Allocated' = Allocated \cup {o}
  PROVE  Managed!Allocate(o)
<1>1. Kept = Allocated /\ Kept' = Kept \cup {o}
  BY DEF HandOut, Goto, Kept, Doomed
<1>2. refs \in [Object -> SUBSET Object] /\ refs' = [refs EXCEPT ![o] = {}]
      /\ roots' = roots \cup {o}
  BY DEF HandOut, IInv, TypeOK
<1>3. mrefs' = mrefs
  <2>1. \A p \in Object : (IF p \in Kept' THEN refs'[p] ELSE {})
                          = (IF p \in Kept THEN refs[p] ELSE {})
    BY <1>1, <1>2
  <2> QED BY <2>1 DEF mrefs
<1> QED BY <1>1, <1>2, <1>3 DEF Managed!Allocate, mrefs

LEMMA MutationsMap ==
  ASSUME IInv, ~ LargeTraced, NEW o \in Object, NEW p \in Object,
         Store(o, p) \/ Erase(o, p) \/ Load(o, p) \/ Drop(o)
  PROVE  Managed!Next
<1>1. Kept' = Kept
  BY MutateGraph
<1>2. /\ roots \subseteq Kept /\ refs \in [Object -> SUBSET Object]
      /\ mrefs = [q \in Object |-> IF q \in Kept THEN refs[q] ELSE {}]
      /\ mrefs' = [q \in Object |-> IF q \in Kept' THEN refs'[q] ELSE {}]
  BY DEF IInv, Whole, TypeOK, mrefs
<1>3. CASE Store(o, p)
  <2>1. /\ o \in roots /\ p \in roots /\ roots' = roots
        /\ refs' = [refs EXCEPT ![o] = refs[o] \cup {p}]
    BY <1>3 DEF Store
  <2>2. mrefs' = [mrefs EXCEPT ![o] = mrefs[o] \cup {p}]
    BY <1>1, <1>2, <2>1
  <2>3. Managed!Store(o, p)
    BY <1>1, <2>1, <2>2 DEF Managed!Store, mrefs
  <2> QED BY <2>3 DEF Managed!Next
<1>4. CASE Erase(o, p)
  <2>1. /\ o \in roots /\ roots' = roots /\ refs' = [refs EXCEPT ![o] = refs[o] \ {p}]
    BY <1>4 DEF Erase
  <2>2. mrefs' = [mrefs EXCEPT ![o] = mrefs[o] \ {p}]
    BY <1>1, <1>2, <2>1
  <2>3. Managed!Erase(o, p)
    BY <1>1, <2>1, <2>2 DEF Managed!Erase, mrefs
  <2> QED BY <2>3 DEF Managed!Next
<1>5. CASE Load(o, p)
  <2>1. /\ o \in roots /\ p \in refs[o] /\ roots' = roots \cup {p} /\ refs' = refs
    BY <1>5 DEF Load
  <2>2. mrefs' = mrefs /\ p \in mrefs[o]
    BY <1>1, <1>2, <2>1
  <2>3. Managed!Load(o, p)
    BY <1>1, <2>1, <2>2 DEF Managed!Load, mrefs
  <2> QED BY <2>3 DEF Managed!Next
<1>6. CASE Drop(o)
  <2>1. roots' = roots \ {o} /\ refs' = refs
    BY <1>6 DEF Drop
  <2>2. Managed!Drop(o)
    BY <1>1, <1>2, <2>1 DEF Managed!Drop
  <2> QED BY <2>2 DEF Managed!Next
<1> QED BY <1>3, <1>4, <1>5, <1>6

(* What the marking has reached is exactly what is reachable. *)
LEMMA MarkEndCollects ==
  ASSUME IInv, MarkEnd
  PROVE  Managed!Collect
<1>1. /\ phase = "mark" /\ refs' = refs /\ roots' = roots
      /\ Kept' = {o \in Kept : o \in Marked \/ o \in Large}
      /\ Kept = Allocated /\ Kept \subseteq Object
  <2>1. 1 .. bumped \subseteq Slot /\ Allocated \subseteq Object
    BY HeapAssumption, Addresses DEF IInv, TypeOK, Slot, HeapAssumption, Allocated
  <2> QED BY <2>1, MarkEndGraph, NothingDoomed DEF MarkEnd, Goto, graph
<1>2. /\ refs \in [Object -> SUBSET Object] /\ mrefs \in [Object -> SUBSET Object]
      /\ \A o \in Object : mrefs[o] \subseteq refs[o]
      /\ \A o \in Allocated : mrefs[o] = refs[o]
  BY <1>1 DEF IInv, TypeOK, mrefs
<1>3. Marked \subseteq Object /\ roots \subseteq Marked
  BY <1>1 DEF Marked, IInv, TriColour
<1>4. Managed!Closed(Marked)
  <2>1. \A o \in Marked : mrefs[o] \subseteq Marked
    BY <1>2, <1>3, MarkEndGraph
  <2> QED BY <2>1 DEF Managed!Closed, mrefs
<1>5. ASSUME NEW o \in Managed!Reachable PROVE o \in Marked
  BY <1>3, <1>4, <1>5 DEF Managed!Reachable
<1>6. ASSUME NEW o \in Slot \cap Marked PROVE o \in Managed!Reachable
  <2>1. ASSUME NEW S \in SUBSET Object, roots \subseteq S, Managed!Closed(S)
        PROVE  o \in S
    <3>1. \A p \in S \cap Allocated : refs[p] \subseteq S
      <4>1. \A p \in S : mrefs[p] \subseteq S
        BY <2>1 DEF Managed!Closed, mrefs
      <4> QED BY <4>1, <1>2
    <3> QED BY <1>1, <2>1, <3>1 DEF IInv, TriColour
  <2> QED BY <2>1, Addresses DEF Managed!Reachable
<1>7. Kept' = {o \in Kept : o \in Managed!Reachable \/ o \in Large}
  BY <1>1, <1>5, <1>6 DEF Object
<1>8. mrefs' = [o \in Object |-> IF o \in Kept' THEN mrefs[o] ELSE {}]
  BY <1>1 DEF mrefs
<1> QED BY <1>1, <1>7, <1>8 DEF Managed!Collect, mrefs

(* The collected heap is a managed heap: allocations and mutations are     *)
(* those of the abstract heap, the end of marking is the collection, and   *)
(* tracing and sweeping are invisible.                                     *)
THEOREM GCImplementsHeap == ASSUME ~ LargeTraced PROVE Spec => ImplementsHeap
<1>1. Init => Managed!Init
  <2> SUFFICES ASSUME Init PROVE Managed!Init
    OBVIOUS
  <2>1. Allocated = {}
    BY DEF Init, Allocated
  <2> QED BY <2>1 DEF Init, Managed!Init, Kept
<1>2. ASSUME IInv, [Next]_vars PROVE [Managed!Next]_(Managed!hvars)
  <2>1. ASSUME NEW o \in Object, Managed!Allocate(o) PROVE Managed!Next
    BY <2>1 DEF Managed!Next
  <2>2. ASSUME NEW k \in Class, AllocateFromList(k) \/ AllocateBump(k) PROVE Managed!Next
    <3>1. CASE AllocateFromList(k)
      <4>1. HandOut(Head(freeList[k]), k)
        BY <3>1 DEF AllocateFromList
      <4> QED BY <3>1, <4>1, <1>2, <2>1, Fresh, HandOutAllocates
    <3>2. CASE AllocateBump(k)
      <4>1. HandOut(bumped + 1, k)
        BY <3>2 DEF AllocateBump
      <4> QED BY <3>2, <4>1, <1>2, <2>1, Fresh, HandOutAllocates
    <3> QED BY <2>2, <3>1, <3>2
  <2>3. ASSUME NEW o \in Large, AllocateLarge(o) PROVE Managed!Next
    <3>1. HandOut(o, LargeSize)
      BY <2>3 DEF AllocateLarge
    <3> QED BY <2>3, <3>1, <1>2, <2>1, FreshLarge, HandOutAllocates
  <2>4. ASSUME MarkRoots \/ \E o \in Object : Trace(o) PROVE UNCHANGED Managed!hvars
    <3>1. Kept' = Kept
      BY <1>2, <2>4, MarkRootsGraph, TraceGraph
    <3>2. UNCHANGED <<refs, roots>>
      BY <2>4 DEF MarkRoots, Trace, graph
    <3> QED BY <3>1, <3>2, SameHeap
  <2>5. ASSUME SweepFree \/ SweepDead \/ SweepSurvivor PROVE UNCHANGED Managed!hvars
    BY <1>2, <2>5, SweepGraph, SameHeap
  <2>6. ASSUME SweepEnd \/ Safepoint \/ UNCHANGED vars PROVE UNCHANGED Managed!hvars
    <3>1. Kept' = Kept /\ UNCHANGED <<refs, roots>>
      BY <1>2, <2>6, SweepEndGraph, UnchangedGraph
    <3> QED BY <3>1, SameHeap
  <2>7. MarkEnd => Managed!Next
    BY <1>2, MarkEndCollects DEF Managed!Next
  <2> QED BY <1>2, Steps, <2>2, <2>3, <2>4, <2>5, <2>6, <2>7, MutationsMap
<1> QED BY <1>1, <1>2, GCInvariant, PTL DEF Spec, ImplementsHeap, Managed!Spec

(* No use after free, when large objects hold no references. *)
THEOREM GCNoDangling == ASSUME ~ LargeTraced PROVE Spec => []NoDangling
<1>1. IInv => NoDangling
  <2>1. Kept \subseteq Allocated
    BY DEF Kept
  <2> QED BY <2>1, NothingDoomed DEF IInv, Whole, NoDangling
<1> QED BY <1>1, GCInvariant, PTL

-----------------------------------------------------------------------------
(* Induction.  The library's induction theorems are about an operator; a   *)
(* set of numbers serves as well, and needs only that < is well-founded.   *)

LEMMA Least ==
  ASSUME NEW T \in SUBSET Nat, T # {}
  PROVE  \E n \in T : \A m \in T : n <= m
<1> DEFINE R == OpToRel(<, Nat)
<1>1. IsWellFoundedOn(R, Nat)
  BY NatLessThanWellFounded, Zenon
<1>2. \A n, m \in Nat : n < m => <<n, m>> \in R
  BY DEF OpToRel
<1> HIDE DEF R
<1>3. PICK x \in T : \A y \in T : ~ (<<y, x>> \in R)
  BY <1>1, WFMin
<1>4. ASSUME NEW y \in T PROVE x <= y
  <2>1. x \in Nat /\ y \in Nat
    OBVIOUS
  <2>2. ~ (y < x)
    BY <1>2, <1>3, <2>1
  <2> QED BY <2>1, <2>2
<1> QED BY <1>4

(* A set with 0 in it that is closed under + 1 up to m. *)
LEMMA SetInduction ==
  ASSUME NEW m \in Nat, NEW T, 0 \in T, \A n \in 1 .. m : n - 1 \in T => n \in T
  PROVE  0 .. m \subseteq T
<1> SUFFICES ASSUME (0 .. m) \ T # {} PROVE FALSE
  OBVIOUS
<1> DEFINE U == (0 .. m) \ T
<1>2. U \in SUBSET Nat /\ U # {}
  OBVIOUS
<1> HIDE DEF U
<1>1. PICK n \in U : \A k \in U : n <= k
  BY <1>2, Least
<1>3. n \in 0 .. m /\ n \notin T /\ n # 0
  BY DEF U
<1>4. n - 1 \in T
  <2>1. n - 1 \in 0 .. m /\ ~ (n <= n - 1)
    BY <1>3
  <2> QED BY <2>1, <1>1 DEF U
<1> QED BY <1>3, <1>4

-----------------------------------------------------------------------------
(* Sums over the slots.  Sized is SizeOf as a function of the three        *)
(* variables it is about: b slots carved out, fr free, cl their classes.   *)

Weights(b, fr, cl) == [n \in Slot |-> IF n <= b /\ n \notin fr THEN cl[n] ELSE 0]

(* f[n] is the sum of w[1] .. w[n]. *)
IsSum(f, w, m) ==
  f \in [0 .. m -> Nat] /\ f[0] = 0 /\ \A n \in 1 .. m : f[n] = f[n - 1] + w[n]

(* Every weight has its sums, so the recursive definition defines a function. *)
LEMMA SumExists ==
  ASSUME NEW w \in [Slot -> Nat]
  PROVE  \E f : IsSum(f, w, MaxSlots)
<1> DEFINE T == {m \in 0 .. MaxSlots : \E f : IsSum(f, w, m)}
<1>0. MaxSlots \in Nat
  BY HeapAssumption DEF HeapAssumption
<1>1. 0 \in T
  <2>1. IsSum([n \in 0 .. 0 |-> 0], w, 0)
    BY DEF IsSum
  <2> QED BY <2>1, <1>0
<1>2. ASSUME NEW n \in 1 .. MaxSlots, n - 1 \in T PROVE n \in T
  <2>1. PICK f : IsSum(f, w, n - 1)
    BY <1>2
  <2> DEFINE g == [k \in 0 .. n |-> IF k = n THEN f[n - 1] + w[n] ELSE f[k]]
  <2>2. IsSum(g, w, n)
    <3>1. w[n] \in Nat /\ f[n - 1] \in Nat /\ n - 1 \in 0 .. n - 1 /\ f \in [0 .. n - 1 -> Nat]
      BY <2>1, <1>0 DEF Slot, IsSum
    <3>2. g \in [0 .. n -> Nat] /\ g[0] = 0
      BY <2>1, <3>1 DEF IsSum
    <3>3. ASSUME NEW k \in 1 .. n PROVE g[k] = g[k - 1] + w[k]
      <4>1. CASE k = n
        BY <4>1, <3>1
      <4>2. CASE k # n
        BY <4>2, <2>1, <3>1 DEF IsSum
      <4> QED BY <4>1, <4>2
    <3> HIDE DEF g
    <3> QED BY <3>2, <3>3 DEF IsSum
  <2> QED BY <2>2
<1> HIDE DEF T
<1>3. 0 .. MaxSlots \subseteq T
  BY <1>0, <1>1, <1>2, SetInduction
<1> QED BY <1>0, <1>3 DEF T

Sized(b, fr, cl) ==
  CHOOSE F : F = [n \in 0 .. MaxSlots |->
                    IF n = 0 THEN 0
                    ELSE F[n - 1] + (IF n <= b /\ n \notin fr THEN cl[n] ELSE 0)]

LEMMA SizedSums ==
  ASSUME NEW b \in Nat, NEW fr, NEW cl \in [Slot -> Nat]
  PROVE  IsSum(Sized(b, fr, cl), Weights(b, fr, cl), MaxSlots)
<1> DEFINE w == Weights(b, fr, cl)
           Step(F) == [n \in 0 .. MaxSlots |->
                        IF n = 0 THEN 0
                        ELSE F[n - 1] + (IF n <= b /\ n \notin fr THEN cl[n] ELSE 0)]
<1>0. MaxSlots \in Nat
  BY HeapAssumption DEF HeapAssumption
<1>1. w \in [Slot -> Nat] /\ \A n \in 1 .. MaxSlots :
         w[n] = IF n <= b /\ n \notin fr THEN cl[n] ELSE 0
  BY <1>0 DEF Weights, Slot
<1>2. PICK f : IsSum(f, w, MaxSlots)
  <2> HIDE DEF w
  <2> QED BY <1>1, SumExists
<1>3. f = Step(f)
  <2>1. f = [n \in 0 .. MaxSlots |-> f[n]]
    BY <1>2 DEF IsSum
  <2>2. \A n \in 0 .. MaxSlots : f[n] = Step(f)[n]
    <3> HIDE DEF w
    <3> QED BY <1>0, <1>1, <1>2 DEF IsSum
  <2> QED BY <2>1, <2>2
<1>4. Sized(b, fr, cl) = Step(Sized(b, fr, cl))
  BY <1>3 DEF Sized
<1> DEFINE F == Sized(b, fr, cl)
<1> HIDE DEF F
<1>5. F = Step(F)
  BY <1>4 DEF F
<1>6. F[0] = 0 /\ \A n \in 1 .. MaxSlots : F[n] = F[n - 1] + w[n]
  <2> HIDE DEF w
  <2>0. 0 \in 0 .. MaxSlots
    BY <1>0
  <2>1. \A n \in 0 .. MaxSlots : F[n] = Step(F)[n]
    BY <1>5
  <2>2. F[0] = 0
    BY <2>0, <2>1
  <2>3. ASSUME NEW n \in 1 .. MaxSlots PROVE F[n] = F[n - 1] + w[n]
    <3>1. n \in 0 .. MaxSlots /\ n # 0
      BY <1>0
    <3>2. F[n] = Step(F)[n]
      BY <3>1, <2>1
    <3>3. Step(F)[n] = F[n - 1] + (IF n <= b /\ n \notin fr THEN cl[n] ELSE 0)
      BY <3>1
    <3> HIDE DEF Step
    <3> QED BY <3>2, <3>3, <1>1
  <2> QED BY <2>2, <2>3
<1>7. F \in [0 .. MaxSlots -> Nat]
  <2> DEFINE T == {n \in 0 .. MaxSlots : F[n] \in Nat}
  <2> HIDE DEF w
  <2>1. 0 \in T
    BY <1>0, <1>6
  <2>2. ASSUME NEW n \in 1 .. MaxSlots, n - 1 \in T PROVE n \in T
    <3>1. w[n] \in Nat
      BY <1>0, <1>1 DEF Slot
    <3> QED BY <2>2, <3>1, <1>6, <1>0
  <2> HIDE DEF T
  <2>3. 0 .. MaxSlots \subseteq T
    BY <1>0, <2>1, <2>2, SetInduction
  <2>4. \A n \in 0 .. MaxSlots : F[n] \in Nat
    BY <2>3 DEF T
  <2>5. F = [n \in 0 .. MaxSlots |-> F[n]]
    BY <1>5
  <2> QED BY <2>4, <2>5
<1> QED BY <1>6, <1>7 DEF IsSum, F

(* Two sums whose weights differ in one slot differ by as much as the weights. *)
LEMMA SumsDiffer ==
  ASSUME NEW v \in [Slot -> Nat], NEW w \in [Slot -> Nat], NEW f, NEW g, NEW s \in Slot,
         IsSum(f, v, MaxSlots), IsSum(g, w, MaxSlots), \A n \in Slot \ {s} : v[n] = w[n]
  PROVE  g[MaxSlots] = f[MaxSlots] + w[s] - v[s]
<1> DEFINE T == {n \in 0 .. MaxSlots : g[n] = f[n] + (IF n < s THEN 0 ELSE w[s] - v[s])}
<1>0. MaxSlots \in Nat /\ s \in 1 .. MaxSlots /\ v[s] \in Nat /\ w[s] \in Nat
  BY HeapAssumption DEF HeapAssumption, Slot
<1>1. 0 \in T
  BY <1>0 DEF IsSum
<1>2. ASSUME NEW n \in 1 .. MaxSlots, n - 1 \in T PROVE n \in T
  <2>1. /\ f[n] = f[n - 1] + v[n] /\ g[n] = g[n - 1] + w[n] /\ n \in Slot
        /\ v[n] \in Nat /\ w[n] \in Nat /\ f[n - 1] \in Nat /\ g[n - 1] \in Nat
    <3>1. n \in Slot /\ v[n] \in Nat /\ w[n] \in Nat
      BY DEF Slot
    <3>2. n - 1 \in 0 .. MaxSlots
      BY <1>0
    <3>3. f \in [0 .. MaxSlots -> Nat] /\ g \in [0 .. MaxSlots -> Nat]
      BY DEF IsSum
    <3>4. f[n] = f[n - 1] + v[n] /\ g[n] = g[n - 1] + w[n]
      BY DEF IsSum
    <3> QED BY <3>1, <3>2, <3>3, <3>4
  <2>2. g[n - 1] = f[n - 1] + (IF n - 1 < s THEN 0 ELSE w[s] - v[s])
    BY <1>2
  <2>3. CASE n = s
    BY <2>1, <2>2, <2>3, <1>0
  <2>4. CASE n # s
    <3>1. v[n] = w[n] /\ (n - 1 < s <=> n < s)
      BY <2>1, <2>4, <1>0
    <3> QED BY <2>1, <2>2, <3>1, <1>0
  <2> QED BY <2>3, <2>4
<1> HIDE DEF T
<1>3. 0 .. MaxSlots \subseteq T
  BY <1>0, <1>1, <1>2, SetInduction
<1>4. MaxSlots \in T
  BY <1>0, <1>3
<1> QED BY <1>0, <1>4 DEF T

-----------------------------------------------------------------------------
(* bytes_live_ *)

LEMMA SizeOfIsSized ==
  SizeOf = Sized(bumped, free, class) /\ SizeOf' = Sized(bumped', free', class')
BY DEF SizeOf, Sized

(* Classes are numbers. *)
LEMMA Widened ==
  /\ MaxSlots \in Nat /\ \A b \in 0 .. MaxSlots : b \in Nat
  /\ \A f \in [Slot -> Class] : f \in [Slot -> Nat]
<1>1. MaxSlots \in Nat /\ Class \subseteq Nat
  BY HeapAssumption DEF HeapAssumption
<1>2. ASSUME NEW f \in [Slot -> Class] PROVE f \in [Slot -> Nat]
  <2>1. \A s \in Slot : f[s] \in Nat
    BY <1>1
  <2> QED BY <2>1
<1> QED BY <1>1, <1>2

(* One slot is handed out or found dead. *)
LEMMA OneSlot ==
  ASSUME TypeOK, TypeOK', NEW s \in Slot, NEW before \in Nat, NEW after \in Nat,
         Weights(bumped, free, class)[s] = before, Weights(bumped', free', class')[s] = after,
         \A n \in Slot \ {s} : Weights(bumped, free, class)[n] = Weights(bumped', free', class')[n]
  PROVE  /\ SizeOf'[MaxSlots] = SizeOf[MaxSlots] + after - before
         /\ SizeOf[MaxSlots] \in Nat
<1>0. /\ bumped \in Nat /\ class \in [Slot -> Nat] /\ bumped' \in Nat /\ class' \in [Slot -> Nat]
      /\ MaxSlots \in Nat
  <2>1. /\ bumped \in 0 .. MaxSlots /\ class \in [Slot -> Class]
        /\ bumped' \in 0 .. MaxSlots /\ class' \in [Slot -> Class]
    BY DEF TypeOK
  <2> QED BY <2>1, Widened
<1> DEFINE v == Weights(bumped, free, class)
           w == Weights(bumped', free', class')
<1>1. v \in [Slot -> Nat] /\ w \in [Slot -> Nat]
  BY <1>0 DEF Weights
<1>2. IsSum(SizeOf, v, MaxSlots) /\ IsSum(SizeOf', w, MaxSlots)
  BY <1>0, SizeOfIsSized, SizedSums
<1> HIDE DEF v, w
<1>3. SizeOf'[MaxSlots] = SizeOf[MaxSlots] + w[s] - v[s]
  <2>1. \A n \in Slot \ {s} : v[n] = w[n]
    BY DEF v, w
  <2> QED BY <1>1, <1>2, <2>1, SumsDiffer
<1>4. SizeOf[MaxSlots] \in Nat
  BY <1>0, <1>2 DEF IsSum
<1> QED BY <1>3, <1>4 DEF v, w

LEMMA SizeIsNat == TypeOK => SizeOf[MaxSlots] \in Nat
<1> SUFFICES ASSUME TypeOK PROVE SizeOf[MaxSlots] \in Nat
  OBVIOUS
<1>1. bumped \in 0 .. MaxSlots /\ class \in [Slot -> Class]
  BY DEF TypeOK
<1>2. MaxSlots \in Nat /\ bumped \in Nat /\ class \in [Slot -> Nat]
  BY <1>1, Widened
<1>3. IsSum(SizeOf, Weights(bumped, free, class), MaxSlots)
  BY <1>2, SizeOfIsSized, SizedSums
<1> QED BY <1>2, <1>3 DEF IsSum

LEMMA SameSlots ==
  ASSUME UNCHANGED <<bumped, class, free>>
  PROVE  SizeOf' = SizeOf
BY SizeOfIsSized

(* bytes_live_ is what is allocated and what the sweep has found dead so far. *)
BytesCounted ==
  /\ live = SizeOf[MaxSlots] + LargeSize * Cardinality(largeUsed) + freed
  /\ phase # "sweep" => freed = 0

LEMMA BytesInit == Init => BytesCounted
<1> SUFFICES ASSUME Init PROVE BytesCounted
  OBVIOUS
<1>1. MaxSlots \in Nat /\ Class \subseteq Nat /\ Class # {} /\ LargeSize \in Nat
  BY HeapAssumption DEF HeapAssumption
<1>2. bumped = 0 /\ free = {} /\ class \in [Slot -> Nat] /\ largeUsed = {}
      /\ live = 0 /\ freed = 0
  BY <1>1 DEF Init
<1> DEFINE w == Weights(bumped, free, class)
<1>3. IsSum(SizeOf, w, MaxSlots)
  BY <1>2, SizeOfIsSized, SizedSums
<1>4. w \in [Slot -> Nat] /\ \A n \in Slot : w[n] = 0
  BY <1>1, <1>2 DEF Weights, Slot
<1> DEFINE T == {n \in 0 .. MaxSlots : SizeOf[n] = 0}
<1> HIDE DEF w
<1>5. 0 \in T /\ \A n \in 1 .. MaxSlots : n - 1 \in T => n \in T
  BY <1>1, <1>3, <1>4 DEF IsSum, Slot
<1> HIDE DEF T
<1>6. MaxSlots \in T
  BY <1>1, <1>5, SetInduction
<1>7. SizeOf[MaxSlots] = 0 /\ Cardinality(largeUsed) = 0
  BY <1>2, <1>6, FS_EmptySet DEF T
<1> QED BY <1>1, <1>2, <1>7 DEF BytesCounted

LEMMA LargeCounted ==
  ASSUME TypeOK
  PROVE  /\ IsFiniteSet(largeUsed) /\ Cardinality(largeUsed) \in Nat
         /\ LargeSize * Cardinality(largeUsed) \in Nat
         /\ \A o \in Large \ largeUsed :
              LargeSize * Cardinality(largeUsed \cup {o})
                = LargeSize * Cardinality(largeUsed) + LargeSize
<1>1. IsFiniteSet(Large) /\ LargeSize \in Nat /\ largeUsed \subseteq Large
  BY HeapAssumption DEF HeapAssumption, TypeOK
<1>2. IsFiniteSet(largeUsed)
  BY <1>1, FS_Subset
<1>3. Cardinality(largeUsed) \in Nat
  BY <1>2, FS_CardinalityType
<1>4. \A a, b \in Nat : a * b \in Nat /\ a * (b + 1) = a * b + a
  OBVIOUS
<1>5. ASSUME NEW o \in Large \ largeUsed
      PROVE  Cardinality(largeUsed \cup {o}) = Cardinality(largeUsed) + 1
  BY <1>2, FS_AddElement
<1> QED BY <1>1, <1>2, <1>3, <1>4, <1>5

LEMMA HandOutBytes ==
  ASSUME TypeOK, TypeOK', FreeListsExact, BytesCounted, NEW k \in Class,
         AllocateFromList(k) \/ AllocateBump(k)
  PROVE  BytesCounted'
<1>0. /\ k \in Nat /\ class \in [Slot -> Class] /\ free \subseteq 1 .. bumped
      /\ bumped \in 0 .. MaxSlots /\ MaxSlots \in Nat
      /\ freeList \in [Class -> Seq(Slot)]
  BY HeapAssumption DEF TypeOK, HeapAssumption
<1>1. PICK s \in Slot :
        /\ Weights(bumped, free, class)[s] = 0 /\ Weights(bumped', free', class')[s] = k
        /\ \A n \in Slot \ {s} :
             Weights(bumped, free, class)[n] = Weights(bumped', free', class')[n]
  <2>1. CASE AllocateFromList(k)
    <3> DEFINE h == Head(freeList[k])
    <3>1. h = freeList[k][1] /\ 1 \in 1 .. Len(freeList[k]) /\ h \in Slot
      BY <1>0, <2>1 DEF AllocateFromList
    <3>2. h \in free /\ class[h] = k
      BY <3>1 DEF FreeListsExact
    <3>3. free' = free \ {h} /\ bumped' = bumped /\ class' = class
      BY <2>1 DEF AllocateFromList
    <3> HIDE DEF h
    <3>4. h <= bumped
      BY <3>2, <1>0
    <3> QED BY <3>1, <3>2, <3>3, <3>4, <1>0 DEF Weights
  <2>2. CASE AllocateBump(k)
    <3>1. /\ bumped + 1 \in Slot /\ bumped + 1 \notin free /\ bumped' = bumped + 1
          /\ class' = [class EXCEPT ![bumped + 1] = k] /\ free' = free
      BY <1>0, <2>2 DEF AllocateBump, Slot
    <3>2. \A n \in Slot : n # bumped + 1 => (n <= bumped + 1 <=> n <= bumped)
      BY <1>0 DEF Slot
    <3>3. ~ (bumped + 1 <= bumped)
      BY <1>0
    <3> QED BY <3>1, <3>2, <3>3, <1>0 DEF Weights
  <2> QED BY <2>1, <2>2
<1>2. SizeOf'[MaxSlots] = SizeOf[MaxSlots] + k /\ SizeOf[MaxSlots] \in Nat
  BY <1>0, <1>1, OneSlot
<1>3. /\ live' = live + k /\ freed' = freed /\ largeUsed' = largeUsed
      /\ phase = "run" /\ phase' = "safepoint"
  BY DEF AllocateFromList, AllocateBump, HandOut, Goto, sweep
<1>4. freed \in Nat
  BY DEF TypeOK
<1> QED BY <1>0, <1>2, <1>3, <1>4, LargeCounted DEF BytesCounted

LEMMA SweepBytes ==
  ASSUME TypeOK, TypeOK', BytesCounted, SweepDead
  PROVE  BytesCounted'
<1>0. /\ at \in Slot /\ at <= bumped /\ at \notin free /\ class \in [Slot -> Nat]
      /\ free' = free \cup {at} /\ bumped' = bumped /\ class' = class
  <2>1. /\ at <= bumped /\ at \notin free /\ free' = free \cup {at}
        /\ bumped' = bumped /\ class' = class
    BY DEF SweepDead, Sweeping
  <2>2. at \in 1 .. MaxSlots + 1 /\ bumped \in 0 .. MaxSlots /\ class \in [Slot -> Class]
    BY DEF TypeOK
  <2>3. class \in [Slot -> Nat] /\ MaxSlots \in Nat
    BY <2>2, Widened
  <2> QED BY <2>1, <2>2, <2>3 DEF Slot
<1>1. /\ Weights(bumped, free, class)[at] = class[at]
      /\ Weights(bumped', free', class')[at] = 0
      /\ \A n \in Slot \ {at} :
           Weights(bumped, free, class)[n] = Weights(bumped', free', class')[n]
  BY <1>0 DEF Weights
<1>2. SizeOf'[MaxSlots] = SizeOf[MaxSlots] - class[at] /\ SizeOf[MaxSlots] \in Nat
  <2>1. class[at] \in Nat /\ 0 \in Nat
    BY <1>0
  <2>2. /\ SizeOf'[MaxSlots] = SizeOf[MaxSlots] + 0 - class[at]
        /\ SizeOf[MaxSlots] \in Nat
    BY <1>0, <1>1, <2>1, OneSlot
  <2> QED BY <2>1, <2>2
<1>3. /\ live' = live /\ freed' = freed + class[at] /\ largeUsed' = largeUsed
      /\ phase = "sweep" /\ phase' = "sweep"
  BY DEF SweepDead, Sweeping, bytes
<1>4. freed \in Nat /\ class[at] \in Nat
  BY <1>0 DEF TypeOK
<1> QED BY <1>2, <1>3, <1>4, LargeCounted DEF BytesCounted

LEMMA BytesStep ==
  TypeOK /\ TypeOK' /\ FreeListsExact /\ BytesCounted /\ [Next]_vars => BytesCounted'
<1> SUFFICES ASSUME TypeOK, TypeOK', FreeListsExact, BytesCounted, [Next]_vars
             PROVE  BytesCounted'
  OBVIOUS
<1>1. ASSUME NEW o \in Large, AllocateLarge(o) PROVE BytesCounted'
  <2>1. /\ SizeOf' = SizeOf /\ o \in Large \ largeUsed /\ largeUsed' = largeUsed \cup {o}
    BY <1>1, SameSlots DEF AllocateLarge
  <2>2. /\ live' = live + LargeSize /\ freed' = freed /\ phase = "run" /\ phase' = "safepoint"
    BY <1>1 DEF AllocateLarge, HandOut, Goto, sweep
  <2>3. SizeOf[MaxSlots] \in Nat /\ freed \in Nat /\ LargeSize \in Nat
    BY SizeIsNat, HeapAssumption DEF TypeOK, HeapAssumption
  <2> QED BY <2>1, <2>2, <2>3, LargeCounted DEF BytesCounted
<1>2. CASE SweepEnd
  <2>1. SizeOf' = SizeOf /\ largeUsed' = largeUsed
    BY <1>2, SameSlots DEF SweepEnd, heap
  <2>2. SizeOf[MaxSlots] \in Nat /\ freed \in Nat
    BY SizeIsNat DEF TypeOK
  <2>3. live >= freed
    BY <2>2, LargeCounted DEF BytesCounted
  <2>4. live' = live - freed /\ freed' = 0
    BY <1>2, <2>3 DEF SweepEnd
  <2> QED BY <2>1, <2>2, <2>4, LargeCounted DEF BytesCounted
<1>3. ASSUME UNCHANGED <<bumped, class, free, largeUsed, live, freed>>,
             phase' = "sweep" \/ freed = 0
      PROVE  BytesCounted'
  <2>1. SizeOf' = SizeOf
    BY <1>3, SameSlots
  <2> QED BY <1>3, <2>1 DEF BytesCounted
<1>4. ASSUME NEW o \in Object, NEW p \in Object,
             Store(o, p) \/ Erase(o, p) \/ Load(o, p) \/ Drop(o)
      PROVE  BytesCounted'
  <2>1. UNCHANGED <<heap, bytes, sweep>> /\ phase = "run"
    BY <1>4 DEF Store, Erase, Load, Drop, Mutate
  <2> QED BY <2>1, <1>3 DEF BytesCounted, heap, bytes, sweep
<1>5. ASSUME MarkRoots \/ (\E o \in Object : Trace(o)) \/ MarkEnd \/ Safepoint PROVE BytesCounted'
  <2>1. UNCHANGED <<heap, bytes, sweep>> /\ phase # "sweep"
    BY <1>5 DEF MarkRoots, Trace, MarkEnd, Safepoint, Goto
  <2> QED BY <2>1, <1>3 DEF BytesCounted, heap, bytes, sweep
<1>6. ASSUME SweepFree \/ SweepSurvivor PROVE BytesCounted'
  <2>1. UNCHANGED <<heap, bytes, freed>> /\ phase' = "sweep"
    BY <1>6 DEF SweepFree, SweepSurvivor, Sweeping
  <2> QED BY <2>1, <1>3 DEF heap, bytes
<1>7. CASE UNCHANGED vars
  <2>1. UNCHANGED <<heap, bytes, sweep, phase>>
    BY <1>7 DEF vars
  <2> QED BY <2>1, <1>3 DEF BytesCounted, heap, bytes, sweep
<1> QED BY Steps, HandOutBytes, SweepBytes, <1>1, <1>2, <1>4, <1>5, <1>6, <1>7

(* bytes_live_, which decides when to collect, never drifts: outside a     *)
(* sweep it is the size of everything allocated, after any number of       *)
(* allocations and collections.  This needs no assumption on large objects *)
(* either: the sum is over the slots, whatever they refer to.              *)
THEOREM GCLiveExact == Spec => []LiveExact
<1>1. Init => TypeOK /\ FreeListsExact /\ BytesCounted
  BY TypeInit, FreeListsInit, BytesInit
<1>2. TypeOK /\ FreeListsExact /\ BytesCounted /\ [Next]_vars
        => TypeOK' /\ FreeListsExact' /\ BytesCounted'
  BY TypeStep, FreeListsStep, BytesStep
<1>3. TypeOK /\ BytesCounted => LiveExact
  BY SizeIsNat, LargeCounted DEF BytesCounted, LiveExact
<1> QED BY <1>1, <1>2, <1>3, PTL DEF Spec
=============================================================================
