-------------------------------- MODULE GCHeap --------------------------------
(***************************************************************************)
(* The managed heap and its collector: vm/gc_heap, gc_engine, gc_roots.    *)
(* Small objects are slots, bump-allocated in regions or taken from the    *)
(* free list of their size class; large objects come from the arena.  A    *)
(* collection marks from the roots through a grey worklist and then sweeps *)
(* the regions in address order.  The program is stopped meanwhile, and    *)
(* every object traced and every slot swept is a step.                     *)
(*                                                                         *)
(* The mutator is any user of the interface: it holds objects on the       *)
(* operand stack, in locals, globals, JIT frames and native handles (all   *)
(* of them one set of roots here), and reads and writes references only    *)
(* through objects it holds.  Payloads, ages and the padding of sizes are  *)
(* left out; a new region is only a jump in the addresses.                 *)
(***************************************************************************)
EXTENDS Integers, Sequences, FiniteSets

CONSTANTS
  MaxSlots,      \* bound: slots ever bump-allocated
  Class,         \* the size classes; a class is the size of its slots
  Large,         \* large objects
  LargeSize,
  LargeTraced,   \* whether a large object may hold references
  MaxRefs,       \* bound: references one object holds
  MinThreshold   \* min_threshold_

Slot == 1 .. MaxSlots
Object == Slot \cup Large

ASSUME HeapAssumption ==
  /\ MaxSlots \in Nat /\ Class \subseteq Nat \ {0} /\ Class # {} /\ Slot \cap Large = {}
  /\ IsFiniteSet(Large) /\ LargeSize \in Nat /\ LargeTraced \in BOOLEAN
  /\ MaxRefs \in Nat /\ MinThreshold \in Nat \ {0}

VARIABLES
  bumped,     \* slots 1 .. bumped have been carved out of the regions
  class,      \* class[s]: the size class of slot s
  free,       \* slots whose header has GC_FLAG_FREE
  freeList,   \* free_lists_, per class
  largeUsed,  \* large objects handed out
  color,      \* the colour in the header
  refs,       \* the references an object holds
  roots,      \* what mark_roots() finds
  phase,      \* where the program or the collection is
  worklist,   \* grey_worklist_
  at,         \* the slot the sweep has come to
  freed,      \* freed_bytes of the running sweep
  live,       \* bytes_live_
  threshold   \* gc_threshold_

heap == <<bumped, class, free, freeList, largeUsed>>
graph == <<refs, roots>>
sweep == <<at, freed>>
bytes == <<live, threshold>>
vars == <<heap, color, graph, phase, worklist, sweep, bytes>>

Allocated == ((1 .. bumped) \ free) \cup largeUsed

Init ==
  /\ bumped = 0 /\ class = [s \in Slot |-> CHOOSE k \in Class : TRUE]
  /\ free = {} /\ freeList = [k \in Class |-> <<>>] /\ largeUsed = {}
  /\ color = [o \in Object |-> "white"]
  /\ refs = [o \in Object |-> {}] /\ roots = {}
  /\ phase = "run" /\ worklist = {} /\ at = 1 /\ freed = 0
  /\ live = 0 /\ threshold = MinThreshold

Goto(from, to) == phase = from /\ phase' = to

-----------------------------------------------------------------------------
(* Allocation.  The new object is white, empty and held by the program, and *)
(* the allocation is followed by a check of the threshold.                 *)

HandOut(o, size) ==
  /\ Goto("run", "safepoint")
  /\ color' = [color EXCEPT ![o] = "white"]
  /\ refs' = [refs EXCEPT ![o] = {}]
  /\ roots' = roots \cup {o}
  /\ live' = live + size
  /\ UNCHANGED <<worklist, sweep, threshold>>

(* Mutant: the slot stays at the head of the list. *)
AllocateFromList_NotUnlinked(k) ==
  /\ freeList[k] # <<>>
  /\ free' = free \ {Head(freeList[k])}
  /\ HandOut(Head(freeList[k]), k)
  /\ UNCHANGED <<freeList, bumped, class, largeUsed>>

AllocateFromList(k) ==
  /\ freeList[k] # <<>>
  /\ freeList' = [freeList EXCEPT ![k] = Tail(@)]
  /\ free' = free \ {Head(freeList[k])}
  /\ HandOut(Head(freeList[k]), k)
  /\ UNCHANGED <<bumped, class, largeUsed>>

AllocateBump(k) ==
  /\ freeList[k] = <<>> /\ bumped < MaxSlots
  /\ bumped' = bumped + 1
  /\ class' = [class EXCEPT ![bumped + 1] = k]
  /\ HandOut(bumped + 1, k)
  /\ UNCHANGED <<free, freeList, largeUsed>>

(* A large object is put into no list: head_large_ stays null. *)
AllocateLarge(o) ==
  /\ o \notin largeUsed
  /\ largeUsed' = largeUsed \cup {o}
  /\ HandOut(o, LargeSize)
  /\ UNCHANGED <<bumped, class, free, freeList>>

(* Too little is in use for a collection. *)
Safepoint ==
  /\ Goto("safepoint", "run") /\ live < threshold
  /\ UNCHANGED <<heap, color, graph, worklist, sweep, bytes>>

-----------------------------------------------------------------------------
(* The program reads and writes references. *)

Mutate == phase = "run" /\ UNCHANGED <<heap, phase, worklist, sweep, bytes>>

(* A write and its barrier, which shades a black source but queues nothing. *)
Store(o, p) ==
  /\ Mutate
  /\ o \in roots /\ p \in roots
  /\ o \in Large => LargeTraced
  /\ Cardinality(refs[o] \cup {p}) <= MaxRefs
  /\ refs' = [refs EXCEPT ![o] = @ \cup {p}]
  /\ color' = [color EXCEPT ![o] =
                 IF @ = "black" /\ color[p] = "white" THEN "grey" ELSE @]
  /\ UNCHANGED roots

Erase(o, p) ==
  /\ Mutate
  /\ o \in roots /\ p \in refs[o]
  /\ refs' = [refs EXCEPT ![o] = @ \ {p}]
  /\ UNCHANGED <<color, roots>>

Load(o, p) ==
  /\ Mutate
  /\ o \in roots /\ p \in refs[o]
  /\ roots' = roots \cup {p}
  /\ UNCHANGED <<color, refs>>

Drop(o) ==
  /\ Mutate
  /\ o \in roots
  /\ roots' = roots \ {o}
  /\ UNCHANGED <<color, refs>>

-----------------------------------------------------------------------------
(* collect_garbage(): at a safepoint over the threshold, or called directly *)

(* mark_pointer() for every pointer of S. *)
MarkPointers(S, before, rest) ==
  LET white == {o \in S : before[o] = "white"}
  IN  /\ color' = [o \in Object |-> IF o \in white THEN "grey" ELSE before[o]]
      /\ worklist' = rest \cup white

MarkRoots ==
  /\ \/ Goto("run", "mark")
     \/ Goto("safepoint", "mark") /\ live >= threshold
  /\ MarkPointers(roots, color, {})
  /\ UNCHANGED <<heap, graph, sweep, bytes>>

(* Mutants: the children are not followed; grey objects are queued again.  *)
Trace_Shallow(o) ==
  /\ phase = "mark" /\ o \in worklist
  /\ color' = [color EXCEPT ![o] = "black"] /\ worklist' = worklist \ {o}
  /\ UNCHANGED <<heap, graph, phase, sweep, bytes>>

Trace_Requeues(o) ==
  /\ phase = "mark" /\ o \in worklist
  /\ color' = [p \in Object |-> IF p \in refs[o] THEN "grey" ELSE
                                IF p = o THEN "black" ELSE color[p]]
  /\ worklist' = (worklist \ {o}) \cup refs[o]
  /\ UNCHANGED <<heap, graph, phase, sweep, bytes>>

Trace(o) ==
  /\ phase = "mark" /\ o \in worklist
  /\ MarkPointers(refs[o], [color EXCEPT ![o] = "black"], worklist \ {o})
  /\ UNCHANGED <<heap, graph, phase, sweep, bytes>>

MarkEnd ==
  /\ Goto("mark", "sweep") /\ worklist = {}
  /\ UNCHANGED <<heap, color, graph, worklist, sweep, bytes>>

Sweeping == phase = "sweep" /\ at <= bumped /\ at' = at + 1

SweepFree ==
  /\ Sweeping /\ at \in free
  /\ UNCHANGED <<heap, color, graph, phase, worklist, freed, bytes>>

(* Mutant: a slot that is free already is recycled again. *)
SweepDead_FreeToo ==
  /\ Sweeping /\ color[at] = "white"
  /\ free' = free \cup {at}
  /\ freeList' = [freeList EXCEPT ![class[at]] = <<at>> \o @]
  /\ refs' = [refs EXCEPT ![at] = {}]
  /\ freed' = freed + class[at]
  /\ UNCHANGED <<bumped, class, largeUsed, color, roots, phase, worklist, bytes>>

SweepDead ==
  /\ Sweeping /\ at \notin free /\ color[at] = "white"
  /\ free' = free \cup {at}
  /\ freeList' = [freeList EXCEPT ![class[at]] = <<at>> \o @]
  /\ refs' = [refs EXCEPT ![at] = {}]
  /\ freed' = freed + class[at]
  /\ UNCHANGED <<bumped, class, largeUsed, color, roots, phase, worklist, bytes>>

(* Mutant: the survivor stays black. *)
SweepSurvivor_StaysBlack ==
  /\ Sweeping /\ at \notin free /\ color[at] # "white"
  /\ UNCHANGED <<heap, color, graph, phase, worklist, freed, bytes>>

(* A black survivor is white again; a grey one would stay grey. *)
SweepSurvivor ==
  /\ Sweeping /\ at \notin free /\ color[at] # "white"
  /\ color' = [color EXCEPT ![at] = IF @ = "black" THEN "white" ELSE @]
  /\ UNCHANGED <<heap, graph, phase, worklist, freed, bytes>>

MaxOf(a, b) == IF a > b THEN a ELSE b

(* Mutant: the sum of the freed bytes is not taken off. *)
SweepEnd_NotSubtracted ==
  /\ Goto("sweep", "run") /\ at > bumped
  /\ threshold' = MaxOf(2 * live, MinThreshold)
  /\ at' = 1 /\ freed' = 0
  /\ UNCHANGED <<heap, color, graph, worklist, live>>

SweepEnd ==
  /\ Goto("sweep", "run") /\ at > bumped
  /\ live' = IF live >= freed THEN live - freed ELSE 0
  /\ threshold' = MaxOf(2 * live', MinThreshold)
  /\ at' = 1 /\ freed' = 0
  /\ UNCHANGED <<heap, color, graph, worklist>>

-----------------------------------------------------------------------------

CollectorStep ==
  \/ Safepoint \/ (phase = "safepoint" /\ MarkRoots)
  \/ \E o \in Object : Trace(o)
  \/ MarkEnd \/ SweepFree \/ SweepDead \/ SweepSurvivor \/ SweepEnd

Next ==
  \/ \E k \in Class : AllocateFromList(k) \/ AllocateBump(k)
  \/ \E o \in Large : AllocateLarge(o)
  \/ \E o, p \in Object : Store(o, p) \/ Erase(o, p) \/ Load(o, p)
  \/ \E o \in Object : Drop(o)
  \/ MarkRoots \/ CollectorStep

Spec == Init /\ [][Next]_vars

(* A collection is a call that runs to its end. *)
FairSpec == Spec /\ WF_vars(CollectorStep)

-----------------------------------------------------------------------------

Color == {"white", "grey", "black"}

TypeOK ==
  /\ bumped \in 0 .. MaxSlots /\ class \in [Slot -> Class]
  /\ free \subseteq 1 .. bumped /\ freeList \in [Class -> Seq(Slot)]
  /\ largeUsed \subseteq Large
  /\ color \in [Object -> Color]
  /\ refs \in [Object -> SUBSET Object] /\ roots \subseteq Object
  /\ phase \in {"run", "safepoint", "mark", "sweep"}
  /\ worklist \subseteq Object
  /\ at \in 1 .. MaxSlots + 1 /\ freed \in Nat
  /\ live \in Nat /\ threshold \in Nat

(* No use after free: whatever the program holds, and whatever an object   *)
(* it can come across refers to, is allocated, collections in progress     *)
(* included.                                                               *)
NoDangling ==
  /\ roots \subseteq Allocated
  /\ phase # "sweep" => \A o \in Allocated : refs[o] \subseteq Allocated

(* A free list holds the free slots of its class, each once: a slot on two *)
(* lists, or twice on one, would be handed out to two owners.              *)
FreeListsExact ==
  /\ \A k \in Class : \A i, j \in 1 .. Len(freeList[k]) :
       /\ freeList[k][i] \in free /\ class[freeList[k][i]] = k
       /\ freeList[k][i] = freeList[k][j] => i = j
  /\ \A s \in free : \E i \in 1 .. Len(freeList[class[s]]) : freeList[class[s]][i] = s

(* bytes_live_, which decides when to collect, does not drift: outside a   *)
(* sweep it is the size of what is allocated.                              *)
SizeOf[n \in 0 .. MaxSlots] ==
  IF n = 0 THEN 0
  ELSE SizeOf[n - 1] + (IF n <= bumped /\ n \notin free THEN class[n] ELSE 0)

LiveExact ==
  phase # "sweep" =>
    live = SizeOf[MaxSlots] + LargeSize * Cardinality(largeUsed)

(* A collection comes to its end. *)
CollectionEnds == (phase = "mark") ~> (phase = "run")

-----------------------------------------------------------------------------
(* The heap implements ManagedHeap: the collection takes place when the    *)
(* sweep begins, and what the sweep has not come to yet is as good as gone *)
(* if it is white.  Large objects are never removed.                       *)

Doomed == IF phase = "sweep" THEN {s \in at .. bumped : color[s] = "white"} ELSE {}

Kept == Allocated \ Doomed

Managed == INSTANCE ManagedHeap WITH
  Immortal <- Large,
  allocated <- Kept,
  refs <- [o \in Object |-> IF o \in Kept THEN refs[o] ELSE {}]

(* Every step does what the abstract heap allows, and a collection removes *)
(* exactly the unreachable small objects.                                  *)
ImplementsHeap == Managed!Spec

-----------------------------------------------------------------------------
(* The inductive invariant behind NoDangling and ImplementsHeap, for heaps  *)
(* whose large objects hold no references.                                 *)

Marked == {o \in Object : color[o] # "white"}

(* Colours outside a collection, and of what is not allocated.             *)
ColoursAtRest ==
  /\ \A s \in Slot : (phase \in {"run", "safepoint"} \/ s \notin Allocated)
                      => color[s] = "white"
  /\ worklist = {o \in Object : color[o] = "grey"}
  /\ phase # "mark" => worklist = {}
  /\ phase # "sweep" => at = 1

LargeAreLeaves == \A o \in Large : refs[o] = {}

(* Marking: nothing black refers to anything white, the roots are marked,  *)
(* and what is marked is allocated and reachable.                          *)
TriColour ==
  phase = "mark" =>
    /\ roots \subseteq Marked
    /\ \A o \in Object : color[o] = "black" => refs[o] \subseteq Marked
    /\ \A s \in Slot \cap Marked, S \in SUBSET Object :
         (roots \subseteq S /\ \A o \in S \cap Allocated : refs[o] \subseteq S) => s \in S

(* Sweeping: the slots behind the sweep are white, and what is kept is     *)
(* closed.                                                                 *)
SweptBehind ==
  phase = "sweep" => \A s \in Slot : s < at => color[s] = "white"

Whole ==
  /\ roots \subseteq Kept
  /\ \A o \in Kept : refs[o] \subseteq Kept

IInv ==
  /\ TypeOK /\ FreeListsExact /\ ColoursAtRest /\ LargeAreLeaves
  /\ TriColour /\ SweptBehind /\ Whole

=============================================================================
