------------------------------ MODULE ManagedHeap ------------------------------
(***************************************************************************)
(* What a garbage-collected heap promises its user: objects come to be,    *)
(* hold references to one another and are held by roots; a collection      *)
(* removes exactly what no chain of references from a root reaches.  What  *)
(* is in Immortal is never removed.                                        *)
(***************************************************************************)
CONSTANTS Object, Immortal

VARIABLES
  allocated,  \* the objects there are
  roots,      \* the objects the program holds
  refs        \* refs[o]: the objects o refers to

hvars == <<allocated, roots, refs>>

Closed(S) == \A o \in S : refs[o] \subseteq S

(* The least closed set that contains the roots. *)
Reachable ==
  {o \in Object : \A S \in SUBSET Object : (roots \subseteq S /\ Closed(S)) => o \in S}

Init == allocated = {} /\ roots = {} /\ refs = [o \in Object |-> {}]

Allocate(o) ==
  /\ o \notin allocated
  /\ allocated' = allocated \cup {o} /\ roots' = roots \cup {o} /\ UNCHANGED refs

Store(o, p) ==
  /\ o \in roots /\ p \in roots
  /\ refs' = [refs EXCEPT ![o] = @ \cup {p}] /\ UNCHANGED <<allocated, roots>>

Erase(o, p) ==
  /\ o \in roots
  /\ refs' = [refs EXCEPT ![o] = @ \ {p}] /\ UNCHANGED <<allocated, roots>>

Load(o, p) ==
  /\ o \in roots /\ p \in refs[o]
  /\ roots' = roots \cup {p} /\ UNCHANGED <<allocated, refs>>

Drop(o) == roots' = roots \ {o} /\ UNCHANGED <<allocated, refs>>

Collect ==
  /\ allocated' = {o \in allocated : o \in Reachable \/ o \in Immortal}
  /\ refs' = [o \in Object |-> IF o \in allocated' THEN refs[o] ELSE {}]
  /\ UNCHANGED roots

Next ==
  \/ \E o \in Object : Allocate(o) \/ Drop(o)
  \/ \E o, p \in Object : Store(o, p) \/ Erase(o, p) \/ Load(o, p)
  \/ Collect

Spec == Init /\ [][Next]_hvars

=============================================================================
