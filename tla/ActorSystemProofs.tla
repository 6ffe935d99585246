--------------------------- MODULE ActorSystemProofs ---------------------------
(***************************************************************************)
(* Proofs about ActorSystem for any actors, messages, clients, workers and *)
(* mailbox capacities: the two counters are exact, no wake-up is lost, and *)
(* with a single client wait_all() returns only when what it covers is     *)
(* handled.                                                                *)
(***************************************************************************)
EXTENDS ActorSystem, FiniteSetTheorems, TLAPS

DrainPc == {"drain", "receive", "publish", "schedule", "spawn", "endActor"}

(* The threads are finitely many, so are the sets of them that are counted. *)
LEMMA ThreadSets ==
  /\ IsFiniteSet(Spawning) /\ IsFiniteSet(Draining) /\ IsFiniteSet(Busy)
  /\ Cardinality(Spawning) \in Nat /\ Cardinality(Draining) \in Nat
  /\ Cardinality(Busy) \in Nat
<1>1. /\ Spawning \in SUBSET Thread /\ Draining \in SUBSET Thread
      /\ Busy \in SUBSET Thread
  BY DEF Spawning, Draining, Busy, Thread
<1>2. IsFiniteSet(Thread)
  BY ActorAssumption
<1> QED BY <1>1, <1>2, FS_Subset, FS_CardinalityType

(* How a thread that joins or leaves a set changes its size.               *)
LEMMA Joins ==
  ASSUME NEW S, IsFiniteSet(S), NEW t
  PROVE  Cardinality(S \cup {t}) = Cardinality(S) + 1 - (IF t \in S THEN 1 ELSE 0)
  BY FS_AddElement, FS_CardinalityType

(* ... and when it leaves one.                                             *)
LEMMA Leaves ==
  ASSUME NEW S, IsFiniteSet(S), NEW t
  PROVE  Cardinality(S \ {t}) = Cardinality(S) - (IF t \in S THEN 1 ELSE 0)
  BY FS_RemoveElement, FS_CardinalityType

(* What moving one thread does to the three sizes.                         *)
LEMMA ThreadStep ==
  ASSUME pc \in [Thread -> Place], NEW t \in Thread, NEW to \in Place,
         pc' = [pc EXCEPT ![t] = to]
  PROVE  /\ Cardinality(Spawning') =
              Cardinality(Spawning) + (IF to = "spawn" THEN 1 ELSE 0)
                                    - (IF pc[t] = "spawn" THEN 1 ELSE 0)
         /\ t \in Worker =>
              /\ Cardinality(Draining') =
                   Cardinality(Draining) + (IF to \in DrainPc THEN 1 ELSE 0)
                                         - (IF pc[t] \in DrainPc THEN 1 ELSE 0)
              /\ Cardinality(Busy') =
                   Cardinality(Busy) + (IF to # "idle" THEN 1 ELSE 0)
                                     - (IF pc[t] # "idle" THEN 1 ELSE 0)
         /\ t \notin Worker => Draining' = Draining /\ Busy' = Busy
<1>1. /\ Worker \subseteq Thread
      /\ pc'[t] = to /\ \A u \in Thread : u # t => pc'[u] = pc[u]
  BY DEF Thread
<1>2. /\ Spawning' = {u \in Thread : pc'[u] = "spawn"}
      /\ Draining' = {w \in Worker : pc'[w] \in DrainPc}
      /\ Busy' = {w \in Worker : pc'[w] # "idle"}
      /\ Draining = {w \in Worker : pc[w] \in DrainPc}
  BY DEF Spawning, Draining, Busy, InDrain, DrainPc
<1>3. /\ to = "spawn" => Spawning' = Spawning \cup {t}
      /\ to # "spawn" => Spawning' = Spawning \ {t}
      /\ t \in Spawning <=> pc[t] = "spawn"
  BY <1>1, <1>2 DEF Spawning
<1>4. ASSUME t \in Worker
      PROVE  /\ to \in DrainPc => Draining' = Draining \cup {t}
             /\ to \notin DrainPc => Draining' = Draining \ {t}
             /\ t \in Draining <=> pc[t] \in DrainPc
  BY <1>1, <1>2, <1>4
<1>5. ASSUME t \in Worker
      PROVE  /\ to # "idle" => Busy' = Busy \cup {t}
             /\ to = "idle" => Busy' = Busy \ {t}
             /\ t \in Busy <=> pc[t] # "idle"
  BY <1>1, <1>2, <1>5 DEF Busy
<1>6. Cardinality(Spawning') =
        Cardinality(Spawning) + (IF to = "spawn" THEN 1 ELSE 0)
                              - (IF pc[t] = "spawn" THEN 1 ELSE 0)
  BY <1>3, ThreadSets, Joins, Leaves
<1>7. t \in Worker =>
        Cardinality(Draining') =
          Cardinality(Draining) + (IF to \in DrainPc THEN 1 ELSE 0)
                                - (IF pc[t] \in DrainPc THEN 1 ELSE 0)
  <2> SUFFICES ASSUME t \in Worker
               PROVE  Cardinality(Draining') =
                        Cardinality(Draining) + (IF to \in DrainPc THEN 1 ELSE 0)
                                              - (IF pc[t] \in DrainPc THEN 1 ELSE 0)
    OBVIOUS
  <2>1. /\ Cardinality(Draining \cup {t}) =
             Cardinality(Draining) + 1 - (IF t \in Draining THEN 1 ELSE 0)
        /\ Cardinality(Draining \ {t}) =
             Cardinality(Draining) - (IF t \in Draining THEN 1 ELSE 0)
    BY ThreadSets, Joins, Leaves
  <2>2. CASE to \in DrainPc
    BY <1>4, <2>1, <2>2, ThreadSets
  <2>3. CASE to \notin DrainPc
    BY <1>4, <2>1, <2>3, ThreadSets
  <2> QED BY <2>2, <2>3
<1>8. t \in Worker =>
        Cardinality(Busy') =
          Cardinality(Busy) + (IF to # "idle" THEN 1 ELSE 0)
                            - (IF pc[t] # "idle" THEN 1 ELSE 0)
  BY <1>5, ThreadSets, Joins, Leaves
<1>9. t \notin Worker => Draining' = Draining /\ Busy' = Busy
  BY <1>1, <1>2 DEF Busy
<1> QED BY <1>6, <1>7, <1>8, <1>9

(* A spawned drain waits, and a started one does not.                      *)
LEMMA WaitingStep ==
  ASSUME TypeOK, IsFiniteSet(Waiting), NEW a \in Actor
  PROVE  /\ pending' = [pending EXCEPT ![a] = @ + 1] =>
              /\ IsFiniteSet(Waiting')
              /\ Cardinality(Waiting') = Cardinality(Waiting) + 1
         /\ pending[a] > 0 /\ pending' = [pending EXCEPT ![a] = @ - 1] =>
              /\ IsFiniteSet(Waiting')
              /\ Cardinality(Waiting') = Cardinality(Waiting) - 1
<1>1. pending \in [Actor -> Nat]
  BY DEF TypeOK
<1>2. \A p : p \in Waiting <=> \E b \in Actor : \E i \in 1 .. pending[b] : p = <<b, i>>
  BY DEF Waiting
<1>3. \A p : p \in Waiting' <=> \E b \in Actor : \E i \in 1 .. pending'[b] : p = <<b, i>>
  BY DEF Waiting
<1>4. ASSUME pending' = [pending EXCEPT ![a] = @ + 1]
      PROVE  /\ IsFiniteSet(Waiting')
             /\ Cardinality(Waiting') = Cardinality(Waiting) + 1
  <2> DEFINE new == <<a, pending[a] + 1>>
  <2>1. new \notin Waiting
    BY <1>1, <1>2
  <2>2. pending'[a] = pending[a] + 1 /\ \A b \in Actor : b # a => pending'[b] = pending[b]
    BY <1>1, <1>4
  <2>3. ASSUME NEW p \in Waiting' PROVE p \in Waiting \cup {new}
    <3>1. PICK b \in Actor : \E i \in 1 .. pending'[b] : p = <<b, i>>
      BY <1>3, <2>3
    <3>2. PICK i \in 1 .. pending'[b] : p = <<b, i>>
      BY <3>1
    <3>3. CASE b = a /\ i = pending[a] + 1
      BY <3>2, <3>3
    <3>4. CASE ~ (b = a /\ i = pending[a] + 1)
      <4>1. i \in 1 .. pending[b]
        BY <1>1, <2>2, <3>4
      <4> QED BY <1>2, <3>2, <4>1
    <3> QED BY <3>3, <3>4
  <2>4. ASSUME NEW p \in Waiting \cup {new} PROVE p \in Waiting'
    <3>1. CASE p = new
      <4>1. pending[a] + 1 \in 1 .. pending'[a]
        BY <1>1, <2>2
      <4> QED BY <1>3, <3>1, <4>1
    <3>2. CASE p \in Waiting
      <4>1. PICK b \in Actor : \E i \in 1 .. pending[b] : p = <<b, i>>
        BY <1>2, <3>2
      <4>2. PICK i \in 1 .. pending[b] : p = <<b, i>>
        BY <4>1
      <4>3. i \in 1 .. pending'[b]
        BY <1>1, <2>2
      <4> QED BY <1>3, <4>2, <4>3
    <3> QED BY <2>4, <3>1, <3>2
  <2>5. Waiting' = Waiting \cup {new}
    BY <2>3, <2>4
  <2> QED BY <2>1, <2>5, FS_AddElement
<1>5. ASSUME pending[a] > 0, pending' = [pending EXCEPT ![a] = @ - 1]
      PROVE  /\ IsFiniteSet(Waiting')
             /\ Cardinality(Waiting') = Cardinality(Waiting) - 1
  <2> DEFINE old == <<a, pending[a]>>
  <2>1. old \in Waiting
    <3>1. pending[a] \in 1 .. pending[a]
      BY <1>1, <1>5
    <3> QED BY <1>2, <3>1
  <2>2. pending'[a] = pending[a] - 1 /\ \A b \in Actor : b # a => pending'[b] = pending[b]
    BY <1>1, <1>5
  <2>3. ASSUME NEW p \in Waiting' PROVE p \in Waiting /\ p # old
    <3>1. PICK b \in Actor : \E i \in 1 .. pending'[b] : p = <<b, i>>
      BY <1>3, <2>3
    <3>2. PICK i \in 1 .. pending'[b] : p = <<b, i>>
      BY <3>1
    <3>3. i \in 1 .. pending[b] /\ (b = a => i # pending[a])
      BY <1>1, <1>5, <2>2
    <3> QED BY <1>2, <3>2, <3>3
  <2>4. ASSUME NEW p \in Waiting, p # old PROVE p \in Waiting'
    <3>1. PICK b \in Actor : \E i \in 1 .. pending[b] : p = <<b, i>>
      BY <1>2, <2>4
    <3>2. PICK i \in 1 .. pending[b] : p = <<b, i>>
      BY <3>1
    <3>3. i \in 1 .. pending'[b]
      BY <1>1, <1>5, <2>2, <2>4, <3>2
    <3> QED BY <1>3, <3>2, <3>3
  <2>5. Waiting' = Waiting \ {old}
    BY <2>3, <2>4
  <2> QED BY <2>1, <2>5, FS_RemoveElement
<1> QED BY <1>4, <1>5

-----------------------------------------------------------------------------
(* The counters. *)

(* A step that does not spawn or start a drain leaves the tasks waiting.   *)
LEMMA SameWaiting == pending' = pending => Waiting' = Waiting
  BY DEF Waiting

(* What a step does to the sizes that the counters are compared with. *)
Moved(s, d, b) ==
  /\ Cardinality(Spawning') = Cardinality(Spawning) + s
  /\ Cardinality(Draining') = Cardinality(Draining) + d
  /\ Cardinality(Busy') = Cardinality(Busy) + b

(* What a worker that goes from one place to another does to them ...      *)
LEMMA WorkerMoves ==
  ASSUME TypeOK, NEW w \in Worker, NEW from, NEW to \in Place, Goto(w, from, to),
         NEW s \in Int, NEW d \in Int, NEW b \in Int,
         s = (IF to = "spawn" THEN 1 ELSE 0) - (IF from = "spawn" THEN 1 ELSE 0),
         d = (IF to \in DrainPc THEN 1 ELSE 0) - (IF from \in DrainPc THEN 1 ELSE 0),
         b = (IF to # "idle" THEN 1 ELSE 0) - (IF from # "idle" THEN 1 ELSE 0)
  PROVE  Moved(s, d, b)
<1>1. /\ w \in Thread /\ pc \in [Thread -> Place]
      /\ pc[w] = from /\ pc' = [pc EXCEPT ![w] = to]
  <2>1. w \in Thread
    BY DEF Thread
  <2> QED BY <2>1 DEF TypeOK, Goto
<1>2. /\ Cardinality(Spawning') =
           Cardinality(Spawning) + (IF to = "spawn" THEN 1 ELSE 0)
                                 - (IF from = "spawn" THEN 1 ELSE 0)
      /\ Cardinality(Draining') =
           Cardinality(Draining) + (IF to \in DrainPc THEN 1 ELSE 0)
                                 - (IF from \in DrainPc THEN 1 ELSE 0)
      /\ Cardinality(Busy') =
           Cardinality(Busy) + (IF to # "idle" THEN 1 ELSE 0)
                             - (IF from # "idle" THEN 1 ELSE 0)
  BY <1>1, ThreadStep
<1>3. Cardinality(Spawning') = Cardinality(Spawning) + s
  BY <1>2, ThreadSets
<1>4. Cardinality(Draining') = Cardinality(Draining) + d
  <2> DEFINE x == to \in DrainPc
             y == from \in DrainPc
  <2>1. CASE x /\ y
    BY <1>2, <2>1, ThreadSets
  <2>2. CASE x /\ ~ y
    BY <1>2, <2>2, ThreadSets
  <2>3. CASE ~ x /\ y
    BY <1>2, <2>3, ThreadSets
  <2>4. CASE ~ x /\ ~ y
    BY <1>2, <2>4, ThreadSets
  <2> QED BY <2>1, <2>2, <2>3, <2>4
<1>5. Cardinality(Busy') = Cardinality(Busy) + b
  BY <1>2, ThreadSets
<1> QED BY <1>3, <1>4, <1>5 DEF Moved

(* ... and a client, which counts only while it is about to spawn.         *)
LEMMA ClientMoves ==
  ASSUME TypeOK, NEW c \in Client, NEW from, NEW to \in Place, Goto(c, from, to),
         NEW s \in Int,
         s = (IF to = "spawn" THEN 1 ELSE 0) - (IF from = "spawn" THEN 1 ELSE 0)
  PROVE  Moved(s, 0, 0)
<1>1. /\ c \in Thread /\ c \notin Worker /\ pc \in [Thread -> Place]
      /\ pc[c] = from /\ pc' = [pc EXCEPT ![c] = to]
  <2>1. c \in Thread /\ c \notin Worker
    BY ActorAssumption DEF Thread
  <2> QED BY <2>1 DEF TypeOK, Goto
<1>2. /\ Cardinality(Spawning') =
           Cardinality(Spawning) + (IF to = "spawn" THEN 1 ELSE 0)
                                 - (IF from = "spawn" THEN 1 ELSE 0)
      /\ Draining' = Draining /\ Busy' = Busy
  BY <1>1, ThreadStep
<1> QED BY <1>2, ThreadSets DEF Moved

(* The counters stay exact when they follow the sizes.                     *)
LEMMA CountersFollow ==
  ASSUME CountersExact, NEW s \in Int, NEW d \in Int, NEW b \in Int, NEW p \in Int,
         Moved(s, d, b), IsFiniteSet(Waiting'),
         Cardinality(Waiting') = Cardinality(Waiting) + p,
         runningActors' = runningActors + s + d + p,
         activeTasks' = activeTasks + b + p
  PROVE  CountersExact'
<1>1. Cardinality(Waiting) \in Nat
  BY FS_CardinalityType DEF CountersExact
<1> QED BY <1>1, ThreadSets DEF CountersExact, Moved

(* schedule_actor() and the drain task keep both counters exact: between  *)
(* the two additions, and between the two subtractions, only one of them   *)
(* is ahead.                                                               *)
LEMMA CountersStep ==
  ASSUME IInv, [Next]_vars
  PROVE  CountersExact'
<1>1. /\ TypeOK /\ CountersExact /\ IsFiniteSet(Waiting)
      /\ runningActors \in Nat /\ activeTasks \in Nat
      /\ Cardinality(Waiting) \in Nat
  BY FS_CardinalityType DEF IInv, CountersExact, TypeOK
<1>2. Client \cap Worker = {} /\ Thread = Client \cup Worker
  BY ActorAssumption DEF Thread
<1>3. ASSUME pending' = pending
      PROVE  IsFiniteSet(Waiting') /\ Cardinality(Waiting') = Cardinality(Waiting) + 0
  BY <1>1, <1>3, SameWaiting
<1>4. ASSUME NEW t \in Thread, NEW m \in Message, SendClaim(t, m) PROVE CountersExact'
  <2>1. IsFiniteSet(Waiting') /\ Cardinality(Waiting') = Cardinality(Waiting) + 0
    BY <1>3, <1>4 DEF SendClaim, MaySend, Goto
  <2>2. CASE t \in Client
    <3>1. Moved(0, 0, 0)
      <4>1. Goto(t, pc[t], "publish") /\ "publish" \in Place /\ pc[t] # "spawn"
        BY <1>2, <1>4, <2>2 DEF SendClaim, MaySend, Goto, Place
      <4> QED BY <1>1, <4>1, <1>2, <1>4, <2>2, ClientMoves
    <3>2. /\ runningActors' = runningActors + 0 + 0 + 0
          /\ activeTasks' = activeTasks + 0 + 0
      BY <1>1, <1>4 DEF SendClaim, MaySend, Goto
    <3> QED BY <1>1, <2>1, <3>1, <3>2, CountersFollow
  <2>3. CASE t \in Worker
    <3>1. Moved(0, 0, 0)
      <4>1. Goto(t, "receive", "publish") /\ "publish" \in Place
        BY <1>2, <1>4, <2>3 DEF SendClaim, MaySend, Goto, Place
      <4>2. "publish" \in DrainPc /\ "receive" \in DrainPc
        BY DEF DrainPc
      <4> QED BY <1>1, <4>1, <4>2, <1>2, <1>4, <2>3, WorkerMoves
    <3>2. /\ runningActors' = runningActors + 0 + 0 + 0
          /\ activeTasks' = activeTasks + 0 + 0
      BY <1>1, <1>4 DEF SendClaim, MaySend, Goto
    <3> QED BY <1>1, <2>1, <3>1, <3>2, CountersFollow
  <2> QED BY <1>2, <2>2, <2>3
<1>5. ASSUME NEW t \in Thread, SendPublish(t) PROVE CountersExact'
  <2>1. IsFiniteSet(Waiting') /\ Cardinality(Waiting') = Cardinality(Waiting) + 0
    BY <1>3, <1>5 DEF SendPublish, Goto
  <2>2. CASE t \in Client
    <3>1. Moved(0, 0, 0)
      <4>1. Goto(t, "publish", "schedule") /\ "schedule" \in Place
        BY <1>2, <1>5, <2>2 DEF SendPublish, Goto, Place
      <4> QED BY <1>1, <4>1, <1>2, <1>5, <2>2, ClientMoves
    <3>2. /\ runningActors' = runningActors + 0 + 0 + 0
          /\ activeTasks' = activeTasks + 0 + 0
      BY <1>1, <1>5 DEF SendPublish, Goto
    <3> QED BY <1>1, <2>1, <3>1, <3>2, CountersFollow
  <2>3. CASE t \in Worker
    <3>1. Moved(0, 0, 0)
      <4>1. Goto(t, "publish", "schedule") /\ "schedule" \in Place
        BY <1>2, <1>5, <2>3 DEF SendPublish, Goto, Place
      <4>2. "schedule" \in DrainPc /\ "publish" \in DrainPc
        BY DEF DrainPc
      <4> QED BY <1>1, <4>1, <4>2, <1>2, <1>5, <2>3, WorkerMoves
    <3>2. /\ runningActors' = runningActors + 0 + 0 + 0
          /\ activeTasks' = activeTasks + 0 + 0
      BY <1>1, <1>5 DEF SendPublish, Goto
    <3> QED BY <1>1, <2>1, <3>1, <3>2, CountersFollow
  <2> QED BY <1>2, <2>2, <2>3
<1>6. ASSUME NEW t \in Thread, ScheduleCount(t) PROVE CountersExact'
  <2>1. IsFiniteSet(Waiting') /\ Cardinality(Waiting') = Cardinality(Waiting) + 0
    BY <1>3, <1>6 DEF ScheduleCount, Goto
  <2>2. CASE t \in Client
    <3>1. Moved(1, 0, 0)
      <4>1. Goto(t, "schedule", "spawn") /\ "spawn" \in Place
        BY <1>2, <1>6, <2>2 DEF ScheduleCount, Goto, Place
      <4> QED BY <1>1, <4>1, <1>2, <1>6, <2>2, ClientMoves
    <3>2. /\ runningActors' = runningActors + (1) + 0 + 0
          /\ activeTasks' = activeTasks + 0 + 0
      BY <1>1, <1>6 DEF ScheduleCount, Goto
    <3> QED BY <1>1, <2>1, <3>1, <3>2, CountersFollow
  <2>3. CASE t \in Worker
    <3>1. Moved(1, 0, 0)
      <4>1. Goto(t, "schedule", "spawn") /\ "spawn" \in Place
        BY <1>2, <1>6, <2>3 DEF ScheduleCount, Goto, Place
      <4>2. "spawn" \in DrainPc /\ "schedule" \in DrainPc
        BY DEF DrainPc
      <4> QED BY <1>1, <4>1, <4>2, <1>2, <1>6, <2>3, WorkerMoves
    <3>2. /\ runningActors' = runningActors + (1) + 0 + 0
          /\ activeTasks' = activeTasks + 0 + 0
      BY <1>1, <1>6 DEF ScheduleCount, Goto
    <3> QED BY <1>1, <2>1, <3>1, <3>2, CountersFollow
  <2> QED BY <1>2, <2>2, <2>3
<1>7. ASSUME NEW t \in Thread, ScheduleSpawn(t) PROVE CountersExact'
  <2>0. Target[sending[t]] \in Actor
    BY <1>1, ActorAssumption DEF TypeOK
  <2>1. IsFiniteSet(Waiting') /\ Cardinality(Waiting') = Cardinality(Waiting) + 1
    <3>1. pending' = [pending EXCEPT ![Target[sending[t]]] = @ + 1]
      BY <1>7 DEF ScheduleSpawn
    <3> QED BY <1>1, <2>0, <3>1, WaitingStep
  <2>2. CASE t \in Client
    <3>1. Moved(-1, 0, 0)
      <4>1. Goto(t, "spawn", "idle") /\ "idle" \in Place
        BY <1>2, <1>7, <2>2 DEF ScheduleSpawn, Goto, Place
      <4> QED BY <1>1, <4>1, <1>2, <1>7, <2>2, ClientMoves
    <3>2. /\ runningActors' = runningActors + (-1) + 0 + 1
          /\ activeTasks' = activeTasks + (0) + 1
      BY <1>1, <1>7 DEF ScheduleSpawn, Goto
    <3> QED BY <1>1, <2>1, <3>1, <3>2, CountersFollow
  <2>3. CASE t \in Worker
    <3>1. Moved(-1, 0, 0)
      <4>1. Goto(t, "spawn", "receive") /\ "receive" \in Place
        BY <1>2, <1>7, <2>3 DEF ScheduleSpawn, Goto, Place
      <4>2. "receive" \in DrainPc /\ "spawn" \in DrainPc
        BY DEF DrainPc
      <4> QED BY <1>1, <4>1, <4>2, <1>2, <1>7, <2>3, WorkerMoves
    <3>2. /\ runningActors' = runningActors + (-1) + 0 + 1
          /\ activeTasks' = activeTasks + (0) + 1
      BY <1>1, <1>7 DEF ScheduleSpawn, Goto
    <3> QED BY <1>1, <2>1, <3>1, <3>2, CountersFollow
  <2> QED BY <1>2, <2>2, <2>3
<1>8. ASSUME NEW w \in Worker, NEW a \in Actor, Start(w, a) PROVE CountersExact'
  <2>1. IsFiniteSet(Waiting') /\ Cardinality(Waiting') = Cardinality(Waiting) + (-1)
    <3>1. pending[a] > 0 /\ pending' = [pending EXCEPT ![a] = @ - 1]
      BY <1>8 DEF Start
    <3>2. IsFiniteSet(Waiting') /\ Cardinality(Waiting') = Cardinality(Waiting) - 1
      BY <1>1, <3>1, WaitingStep
    <3> QED BY <1>1, <3>2
  <2>2. Moved(0, 1, 1)
    <3>1. Goto(w, "idle", "drain") /\ "drain" \in Place
      BY <1>8 DEF Start, Goto, Place
    <3>2. "drain" \in DrainPc /\ "idle" \notin DrainPc
      BY DEF DrainPc
    <3> QED BY <1>1, <3>1, <3>2, <1>8, WorkerMoves
  <2>3. /\ runningActors' = runningActors + 0 + 1 + (-1)
        /\ activeTasks' = activeTasks + 1 + (-1)
    BY <1>1, <1>8 DEF Start, Goto
  <2> QED BY <1>1, <2>1, <2>2, <2>3, CountersFollow
<1>9. ASSUME NEW w \in Worker, Receive(w) PROVE CountersExact'
  <2>1. IsFiniteSet(Waiting') /\ Cardinality(Waiting') = Cardinality(Waiting) + 0
    BY <1>3, <1>9 DEF Receive, Goto
  <2>2. Moved(0, 0, 0)
    <3>1. Goto(w, "drain", "receive") /\ "receive" \in Place
      BY <1>9 DEF Receive, Goto, Place
    <3>2. "receive" \in DrainPc /\ "drain" \in DrainPc
      BY DEF DrainPc
    <3> QED BY <1>1, <3>1, <3>2, <1>9, WorkerMoves
  <2>3. /\ runningActors' = runningActors + 0 + 0 + 0
        /\ activeTasks' = activeTasks + 0 + 0
    BY <1>1, <1>9 DEF Receive, Goto
  <2> QED BY <1>1, <2>1, <2>2, <2>3, CountersFollow
<1>10. ASSUME NEW w \in Worker, Received(w) PROVE CountersExact'
  <2>1. IsFiniteSet(Waiting') /\ Cardinality(Waiting') = Cardinality(Waiting) + 0
    BY <1>3, <1>10 DEF Received, Goto
  <2>2. Moved(0, 0, 0)
    <3>1. Goto(w, "receive", "drain") /\ "drain" \in Place
      BY <1>10 DEF Received, Goto, Place
    <3>2. "drain" \in DrainPc /\ "receive" \in DrainPc
      BY DEF DrainPc
    <3> QED BY <1>1, <3>1, <3>2, <1>10, WorkerMoves
  <2>3. /\ runningActors' = runningActors + 0 + 0 + 0
        /\ activeTasks' = activeTasks + 0 + 0
    BY <1>1, <1>10 DEF Received, Goto
  <2> QED BY <1>1, <2>1, <2>2, <2>3, CountersFollow
<1>11. ASSUME NEW w \in Worker, Drained(w) PROVE CountersExact'
  <2>1. IsFiniteSet(Waiting') /\ Cardinality(Waiting') = Cardinality(Waiting) + 0
    BY <1>3, <1>11 DEF Drained, Goto
  <2>2. Moved(0, 0, 0)
    <3>1. Goto(w, "drain", "endActor") /\ "endActor" \in Place
      BY <1>11 DEF Drained, Goto, Place
    <3>2. "endActor" \in DrainPc /\ "drain" \in DrainPc
      BY DEF DrainPc
    <3> QED BY <1>1, <3>1, <3>2, <1>11, WorkerMoves
  <2>3. /\ runningActors' = runningActors + 0 + 0 + 0
        /\ activeTasks' = activeTasks + 0 + 0
    BY <1>1, <1>11 DEF Drained, Goto
  <2> QED BY <1>1, <2>1, <2>2, <2>3, CountersFollow
<1>12. ASSUME NEW w \in Worker, EndActor(w) PROVE CountersExact'
  <2>1. IsFiniteSet(Waiting') /\ Cardinality(Waiting') = Cardinality(Waiting) + 0
    BY <1>3, <1>12 DEF EndActor, Goto
  <2>2. Moved(0, -1, 0)
    <3>1. Goto(w, "endActor", "endTask") /\ "endTask" \in Place
      BY <1>12 DEF EndActor, Goto, Place
    <3>2. "endTask" \notin DrainPc /\ "endActor" \in DrainPc
      BY DEF DrainPc
    <3> QED BY <1>1, <3>1, <3>2, <1>12, WorkerMoves
  <2>3. /\ runningActors' = runningActors + 0 + (-1) + 0
        /\ activeTasks' = activeTasks + 0 + 0
    BY <1>1, <1>12 DEF EndActor, Goto
  <2> QED BY <1>1, <2>1, <2>2, <2>3, CountersFollow
<1>13. ASSUME NEW w \in Worker, EndTask(w) PROVE CountersExact'
  <2>1. IsFiniteSet(Waiting') /\ Cardinality(Waiting') = Cardinality(Waiting) + 0
    BY <1>3, <1>13 DEF EndTask, Goto
  <2>2. Moved(0, 0, -1)
    <3>1. Goto(w, "endTask", "idle") /\ "idle" \in Place
      BY <1>13 DEF EndTask, Goto, Place
    <3>2. "idle" \notin DrainPc /\ "endTask" \notin DrainPc
      BY DEF DrainPc
    <3> QED BY <1>1, <3>1, <3>2, <1>13, WorkerMoves
  <2>3. /\ runningActors' = runningActors + 0 + 0 + 0
        /\ activeTasks' = activeTasks + (-1) + 0
    BY <1>1, <1>13 DEF EndTask, Goto
  <2> QED BY <1>1, <2>1, <2>2, <2>3, CountersFollow
<1>14. ASSUME NEW c \in Client, WaitBegin(c) PROVE CountersExact'
  <2>1. IsFiniteSet(Waiting') /\ Cardinality(Waiting') = Cardinality(Waiting) + 0
    BY <1>3, <1>14 DEF WaitBegin
  <2>2. Moved(0, 0, 0)
    <3>1. Goto(c, pc[c], "waitActors") /\ "waitActors" \in Place /\ pc[c] # "spawn"
      BY <1>14 DEF WaitBegin, Goto, Place
    <3> QED BY <1>1, <3>1, <1>14, ClientMoves
  <2>3. /\ runningActors' = runningActors + 0 + 0 + 0
        /\ activeTasks' = activeTasks + 0 + 0
    BY <1>1, <1>14 DEF WaitBegin
  <2> QED BY <1>1, <2>1, <2>2, <2>3, CountersFollow
<1>15. ASSUME NEW c \in Client, WaitActors(c) PROVE CountersExact'
  <2>1. IsFiniteSet(Waiting') /\ Cardinality(Waiting') = Cardinality(Waiting) + 0
    BY <1>3, <1>15 DEF WaitActors
  <2>2. Moved(0, 0, 0)
    <3>1. Goto(c, "waitActors", "waitTasks") /\ "waitTasks" \in Place
      BY <1>15 DEF WaitActors, Goto, Place
    <3> QED BY <1>1, <3>1, <1>15, ClientMoves
  <2>3. /\ runningActors' = runningActors + 0 + 0 + 0
        /\ activeTasks' = activeTasks + 0 + 0
    BY <1>1, <1>15 DEF WaitActors
  <2> QED BY <1>1, <2>1, <2>2, <2>3, CountersFollow
<1>16. ASSUME NEW c \in Client, WaitTasks(c) PROVE CountersExact'
  <2>1. IsFiniteSet(Waiting') /\ Cardinality(Waiting') = Cardinality(Waiting) + 0
    BY <1>3, <1>16 DEF WaitTasks
  <2>2. Moved(0, 0, 0)
    <3>1. Goto(c, "waitTasks", "waited") /\ "waited" \in Place
      BY <1>16 DEF WaitTasks, Goto, Place
    <3> QED BY <1>1, <3>1, <1>16, ClientMoves
  <2>3. /\ runningActors' = runningActors + 0 + 0 + 0
        /\ activeTasks' = activeTasks + 0 + 0
    BY <1>1, <1>16 DEF WaitTasks
  <2> QED BY <1>1, <2>1, <2>2, <2>3, CountersFollow
<1>17. ASSUME UNCHANGED <<pc, runningActors, activeTasks, pending>> PROVE CountersExact'
  <2>1. /\ Spawning' = Spawning /\ Draining' = Draining /\ Busy' = Busy
        /\ Waiting' = Waiting
    BY <1>17 DEF Spawning, Draining, Busy, InDrain, Waiting
  <2> QED BY <1>1, <2>1, <1>17 DEF CountersExact
<1>18. ASSUME NEW t \in Thread, NEW m \in Message, SendRefused(t, m) PROVE CountersExact'
  BY <1>17, <1>18 DEF SendRefused
<1> QED
  BY <1>4, <1>5, <1>6, <1>7, <1>8, <1>9, <1>10, <1>11, <1>12, <1>13, <1>14, <1>15, <1>16, <1>17, <1>18
     DEF Next, CallStep, WorkerStep, WaitStep, vars

-----------------------------------------------------------------------------
(* The other parts of the invariant. *)

(* The constructor establishes the invariant. *)
LEMMA InitIInv == Init => IInv
<1> SUFFICES ASSUME Init PROVE IInv
  OBVIOUS
<1>1. (CHOOSE m \in Message : TRUE) \in Message /\ Worker \subseteq Thread
  BY ActorAssumption DEF Thread
<1>2. TypeOK
  BY <1>1, ActorAssumption DEF Init, TypeOK, MStatus, Place
<1>3. MailboxesExact /\ InHand /\ NoLostWakeup /\ CoversSent
  BY DEF Init, MailboxesExact, InHand, NoLostWakeup, Ready, CoversSent
<1>4. CountersExact
  <2>1. Spawning = {} /\ Waiting = {} /\ Draining = {} /\ Busy = {}
    BY <1>1 DEF Init, Spawning, Waiting, Draining, Busy, InDrain
  <2> QED BY <2>1, FS_EmptySet DEF Init, CountersExact
<1> QED BY <1>2, <1>3, <1>4 DEF IInv

(* The counters stay naturals because they stay sizes. *)
LEMMA TypeStep ==
  ASSUME IInv, [Next]_vars, CountersExact'
  PROVE  TypeOK'
<1>1. TypeOK /\ Target \in [Message -> Actor] /\ Thread = Client \cup Worker
  BY ActorAssumption DEF IInv, Thread
<1>2. runningActors' \in Nat /\ activeTasks' \in Nat
  <2>1. /\ Spawning' \in SUBSET Thread /\ Draining' \in SUBSET Thread
        /\ Busy' \in SUBSET Thread
    BY DEF Spawning, Draining, Busy, Thread
  <2>2. /\ Cardinality(Spawning') \in Nat /\ Cardinality(Draining') \in Nat
        /\ Cardinality(Busy') \in Nat
    BY <2>1, ActorAssumption, FS_Subset, FS_CardinalityType
  <2>3. Cardinality(Waiting') \in Nat
    BY FS_CardinalityType DEF CountersExact
  <2> QED BY <2>2, <2>3 DEF CountersExact
<1> USE DEF TypeOK, Place, MStatus, Goto, Mark
<1>3. ASSUME NEW t \in Thread, NEW m \in Message, SendClaim(t, m) PROVE TypeOK'
  BY <1>1, <1>2, <1>3 DEF SendClaim
<1>4. ASSUME NEW t \in Thread, NEW m \in Message, SendRefused(t, m) PROVE TypeOK'
  BY <1>1, <1>2, <1>4 DEF SendRefused
<1>5. ASSUME NEW t \in Thread, SendPublish(t) PROVE TypeOK'
  BY <1>1, <1>2, <1>5 DEF SendPublish
<1>6. ASSUME NEW t \in Thread, ScheduleCount(t) PROVE TypeOK'
  BY <1>1, <1>2, <1>6 DEF ScheduleCount
<1>7. ASSUME NEW t \in Thread, ScheduleSpawn(t) PROVE TypeOK'
  BY <1>1, <1>2, <1>7 DEF ScheduleSpawn
<1>8. ASSUME NEW w \in Worker, NEW a \in Actor, Start(w, a) PROVE TypeOK'
  <2>1. pending[a] - 1 \in Nat
    BY <1>1, <1>8 DEF Start
  <2> QED BY <1>1, <1>2, <1>8, <2>1 DEF Start
<1>9. ASSUME NEW w \in Worker, Receive(w) PROVE TypeOK'
  <2>1. /\ Head(mailbox[draining[w]]) \in Message
        /\ Tail(mailbox[draining[w]]) \in Seq(Message)
    BY <1>1, <1>9 DEF Receive, Ready
  <2> QED BY <1>1, <1>2, <1>9, <2>1 DEF Receive
<1>10. ASSUME NEW w \in Worker, Received(w) PROVE TypeOK'
  BY <1>1, <1>2, <1>10 DEF Received
<1>11. ASSUME NEW w \in Worker, Drained(w) \/ EndActor(w) \/ EndTask(w) PROVE TypeOK'
  BY <1>1, <1>2, <1>11 DEF Drained, EndActor, EndTask
<1>12. ASSUME NEW c \in Client, WaitStep(c) \/ WaitBegin(c) PROVE TypeOK'
  <2>1. Scheduled \in SUBSET Message /\ c \in Thread
    BY <1>1 DEF Scheduled
  <2>2. CASE WaitStep(c)
    BY <1>1, <1>2, <2>1, <2>2 DEF WaitStep, WaitActors, WaitTasks
  <2>3. CASE WaitBegin(c)
    BY <1>1, <1>2, <2>1, <2>3 DEF WaitBegin
  <2> QED BY <1>12, <2>2, <2>3
<1>13. CASE UNCHANGED vars
  BY <1>1, <1>13 DEF vars
<1> QED
  BY <1>3, <1>4, <1>5, <1>6, <1>7, <1>8, <1>9, <1>10, <1>11, <1>12, <1>13
     DEF Next, CallStep, WorkerStep

(* Messages enter a mailbox new and leave it from the front. *)
LEMMA MailboxesStep ==
  ASSUME IInv, [Next]_vars
  PROVE  MailboxesExact'
<1>1. /\ TypeOK /\ MailboxesExact /\ Target \in [Message -> Actor]
  BY ActorAssumption DEF IInv
<1> USE DEF Goto, Mark
<1>2. ASSUME NEW t \in Thread, NEW m \in Message, SendClaim(t, m) PROVE MailboxesExact'
  <2> DEFINE b == Target[m]
             n == Len(mailbox[b])
  <2>1. /\ b \in Actor /\ mailbox[b] \in Seq(Message) /\ n \in Nat
        /\ mailbox' = [mailbox EXCEPT ![b] = Append(@, m)]
        /\ mstatus[m] = "new" /\ mstatus' = [mstatus EXCEPT ![m] = "claimed"]
    BY <1>1, <1>2 DEF SendClaim, TypeOK
  <2>2. /\ Len(mailbox'[b]) = n + 1 /\ mailbox'[b][n + 1] = m
        /\ \A i \in 1 .. n : mailbox'[b][i] = mailbox[b][i]
        /\ \A a \in Actor : a # b => mailbox'[a] = mailbox[a]
    BY <1>1, <2>1 DEF TypeOK
  <2>3. ASSUME NEW a \in Actor, NEW i \in 1 .. Len(mailbox[a])
        PROVE  /\ mailbox[a][i] \in Message /\ mailbox[a][i] # m
               /\ mstatus'[mailbox[a][i]] = mstatus[mailbox[a][i]]
    BY <1>1, <2>1 DEF TypeOK, MailboxesExact
  <2> HIDE DEF b, n
  <2>4. ASSUME NEW a \in Actor, NEW i \in 1 .. Len(mailbox'[a]), NEW j \in 1 .. Len(mailbox'[a])
        PROVE  /\ Target[mailbox'[a][i]] = a
               /\ mstatus'[mailbox'[a][i]] \in {"claimed", "queued"}
               /\ mailbox'[a][i] = mailbox'[a][j] => i = j
    <3>1. CASE a # b
      BY <1>1, <2>2, <2>3, <3>1 DEF MailboxesExact
    <3>2. CASE a = b
      <4>1. /\ i \in 1 .. n \/ i = n + 1
            /\ j \in 1 .. n \/ j = n + 1
        BY <2>1, <2>2, <3>2
      <4>2. mstatus'[m] = "claimed" /\ Target[m] = b
        BY <1>1, <2>1 DEF TypeOK, b
      <4> QED BY <1>1, <2>2, <2>3, <3>2, <4>1, <4>2 DEF MailboxesExact, n
    <3> QED BY <3>1, <3>2
  <2>5. ASSUME NEW k \in Message, mstatus'[k] \in {"claimed", "queued"}
        PROVE  \E i \in 1 .. Len(mailbox'[Target[k]]) : mailbox'[Target[k]][i] = k
    <3>1. CASE k = m
      <4>1. n + 1 \in 1 .. Len(mailbox'[Target[k]]) /\ mailbox'[Target[k]][n + 1] = k
        BY <2>1, <2>2, <3>1 DEF b
      <4> QED BY <4>1
    <3>2. CASE k # m
      <4>1. mstatus'[k] = mstatus[k] /\ Target[k] \in Actor
        BY <1>1, <2>1, <3>2 DEF TypeOK
      <4>2. PICK i \in 1 .. Len(mailbox[Target[k]]) : mailbox[Target[k]][i] = k
        BY <1>1, <2>5, <4>1 DEF MailboxesExact, InMailbox
      <4>3. CASE Target[k] = b
        BY <2>1, <2>2, <4>2, <4>3 DEF n
      <4>4. CASE Target[k] # b
        BY <2>2, <4>1, <4>2, <4>4
      <4> QED BY <4>3, <4>4
    <3> QED BY <3>1, <3>2
  <2> QED BY <2>4, <2>5 DEF MailboxesExact, InMailbox
<1>3. ASSUME mailbox' = mailbox, NEW m \in Message,
             \/ Mark(m, "new", "dropped") \/ Mark(m, "claimed", "queued")
             \/ Mark(m, "received", "handled")
      PROVE  MailboxesExact'
  <2>1. \A k \in Message :
          /\ mstatus'[k] \in {"claimed", "queued"} => mstatus[k] \in {"claimed", "queued"}
          /\ mstatus[k] \in {"claimed", "queued"} => mstatus'[k] \in {"claimed", "queued"}
    BY <1>1, <1>3 DEF TypeOK
  <2>2. \A a \in Actor : \A i \in 1 .. Len(mailbox[a]) : mailbox[a][i] \in Message
    BY <1>1 DEF TypeOK
  <2> QED BY <1>1, <1>3, <2>1, <2>2 DEF MailboxesExact, InMailbox
<1>4. ASSUME NEW w \in Worker, Receive(w) PROVE MailboxesExact'
  <2> DEFINE b == draining[w]
             n == Len(mailbox[b])
             h == mailbox[b][1]
  <2>1. b \in Actor /\ mailbox[b] \in Seq(Message) /\ mailbox[b] # <<>>
    BY <1>1, <1>4 DEF Receive, Ready, TypeOK
  <2>2. /\ n \in Nat \ {0} /\ h \in Message /\ Target[h] = b
        /\ mailbox' = [mailbox EXCEPT ![b] = Tail(@)]
        /\ mstatus' = [mstatus EXCEPT ![h] = "received"]
    BY <1>1, <1>4, <2>1 DEF Receive, MailboxesExact
  <2>3. /\ Len(mailbox'[b]) = n - 1
        /\ \A i \in 1 .. n - 1 : mailbox'[b][i] = mailbox[b][i + 1]
        /\ \A a \in Actor : a # b => mailbox'[a] = mailbox[a]
    BY <1>1, <2>1, <2>2 DEF TypeOK
  <2>4. ASSUME NEW a \in Actor, NEW i \in 1 .. Len(mailbox[a]), a # b \/ i # 1
        PROVE  /\ mailbox[a][i] \in Message /\ mailbox[a][i] # h
               /\ mstatus'[mailbox[a][i]] = mstatus[mailbox[a][i]]
    <3>1. mailbox[a][i] \in Message
      BY <1>1 DEF TypeOK
    <3>2. mailbox[a][i] # h
      <4>1. 1 \in 1 .. n
        BY <2>2
      <4> QED BY <1>1, <2>1, <2>2, <2>4, <4>1 DEF MailboxesExact
    <3> QED BY <1>1, <2>2, <3>1, <3>2 DEF TypeOK
  <2> HIDE DEF b, n, h
  <2>5. ASSUME NEW a \in Actor, NEW i \in 1 .. Len(mailbox'[a]), NEW j \in 1 .. Len(mailbox'[a])
        PROVE  /\ Target[mailbox'[a][i]] = a
               /\ mstatus'[mailbox'[a][i]] \in {"claimed", "queued"}
               /\ mailbox'[a][i] = mailbox'[a][j] => i = j
    <3>1. CASE a # b
      BY <1>1, <2>3, <2>4, <3>1 DEF MailboxesExact
    <3>2. CASE a = b
      <4>1. /\ i + 1 \in 1 .. Len(mailbox[a]) /\ j + 1 \in 1 .. Len(mailbox[a])
            /\ i + 1 # 1 /\ i \in 1 .. n - 1 /\ j \in 1 .. n - 1
        BY <2>2, <2>3, <3>2 DEF n
      <4>2. mailbox'[a][i] = mailbox[a][i + 1] /\ mailbox'[a][j] = mailbox[a][j + 1]
        BY <2>3, <3>2, <4>1
      <4>3. mailbox[a][i + 1] = mailbox[a][j + 1] => i + 1 = j + 1
        BY <1>1, <4>1 DEF MailboxesExact
      <4>4. /\ Target[mailbox[a][i + 1]] = a
            /\ mstatus'[mailbox[a][i + 1]] \in {"claimed", "queued"}
        BY <1>1, <2>4, <4>1 DEF MailboxesExact
      <4> QED BY <4>1, <4>2, <4>3, <4>4
    <3> QED BY <3>1, <3>2
  <2>6. ASSUME NEW k \in Message, mstatus'[k] \in {"claimed", "queued"}
        PROVE  \E i \in 1 .. Len(mailbox'[Target[k]]) : mailbox'[Target[k]][i] = k
    <3>1. k # h /\ mstatus'[k] = mstatus[k] /\ Target[k] \in Actor
      BY <1>1, <2>2, <2>6 DEF TypeOK
    <3>2. PICK i \in 1 .. Len(mailbox[Target[k]]) : mailbox[Target[k]][i] = k
      BY <1>1, <2>6, <3>1 DEF MailboxesExact, InMailbox
    <3>3. CASE Target[k] = b
      <4>1. i # 1
        BY <3>1, <3>2, <3>3 DEF h
      <4>2. i - 1 \in 1 .. n - 1 /\ (i - 1) + 1 = i
        BY <2>2, <3>2, <3>3, <4>1 DEF n
      <4>3. mailbox'[b][i - 1] = mailbox[b][i]
        BY <2>3, <4>2
      <4> QED BY <2>3, <3>2, <3>3, <4>2, <4>3
    <3>4. CASE Target[k] # b
      BY <2>3, <3>1, <3>2, <3>4
    <3> QED BY <3>3, <3>4
  <2> QED BY <2>5, <2>6 DEF MailboxesExact, InMailbox
<1>5. ASSUME UNCHANGED <<mailbox, mstatus>> PROVE MailboxesExact'
  BY <1>1, <1>5 DEF MailboxesExact, InMailbox
<1>6. ASSUME NEW t \in Thread, NEW m \in Message, SendRefused(t, m) PROVE MailboxesExact'
  BY <1>3, <1>6 DEF SendRefused
<1>7. ASSUME NEW t \in Thread, SendPublish(t) PROVE MailboxesExact'
  BY <1>1, <1>3, <1>7 DEF SendPublish, TypeOK
<1>8. ASSUME NEW w \in Worker, Received(w) PROVE MailboxesExact'
  BY <1>1, <1>3, <1>8 DEF Received, TypeOK
<1> QED
  BY <1>2, <1>4, <1>5, <1>6, <1>7, <1>8
     DEF Next, CallStep, WorkerStep, WaitStep, vars, ScheduleCount, ScheduleSpawn,
         Start, Drained, EndActor, EndTask, WaitActors, WaitTasks, WaitBegin

(* A message half sent or half handled keeps the thread that works on it.  *)
LEMMA InHandStep ==
  ASSUME IInv, [Next]_vars
  PROVE  InHand'
<1>1. TypeOK /\ InHand /\ Client \cap Worker = {} /\ Thread = Client \cup Worker
  BY ActorAssumption DEF IInv, Thread
<1> USE DEF Goto, Mark, Handling, TypeOK
<1>2. ASSUME NEW t \in Thread, NEW m \in Message, SendClaim(t, m) PROVE InHand'
  BY <1>1, <1>2 DEF SendClaim, MaySend, InHand
<1>3. ASSUME NEW t \in Thread, NEW m \in Message, SendRefused(t, m) PROVE InHand'
  BY <1>1, <1>3 DEF SendRefused, InHand
<1>4. ASSUME NEW t \in Thread, SendPublish(t) PROVE InHand'
  BY <1>1, <1>4 DEF SendPublish, InHand
<1>5. ASSUME NEW t \in Thread, ScheduleCount(t) PROVE InHand'
  BY <1>1, <1>5 DEF ScheduleCount, InHand
<1>6. ASSUME NEW t \in Thread, ScheduleSpawn(t) PROVE InHand'
  BY <1>1, <1>6 DEF ScheduleSpawn, InHand
<1>7. ASSUME NEW w \in Worker, NEW a \in Actor, Start(w, a) PROVE InHand'
  BY <1>1, <1>7 DEF Start, InHand
<1>8. ASSUME NEW w \in Worker, Receive(w) PROVE InHand'
  <2> DEFINE h == Head(mailbox[draining[w]])
  <2>1. /\ w \in Thread /\ h \in Message /\ pc[w] = "drain"
        /\ pc' = [pc EXCEPT ![w] = "receive"] /\ message' = [message EXCEPT ![w] = h]
        /\ mstatus' = [mstatus EXCEPT ![h] = "received"] /\ sending' = sending
    BY <1>1, <1>8 DEF Receive, Ready
  <2> HIDE DEF h
  <2>2. \A t \in Thread : pc[t] = "publish" => pc'[t] = "publish"
    BY <1>1, <2>1
  <2>3. Handling(w)' /\ message'[w] = h
    BY <1>1, <2>1
  <2>4. \A u \in Worker : Handling(u) => Handling(u)' /\ message'[u] = message[u]
    BY <1>1, <2>1
  <2>5. \A m \in Message : m # h => mstatus'[m] = mstatus[m]
    BY <1>1, <2>1
  <2>6. mstatus'[h] = "received"
    BY <1>1, <2>1
  <2> HIDE DEF Handling
  <2> QED BY <1>1, <2>1, <2>2, <2>3, <2>4, <2>5, <2>6 DEF InHand
<1>9. ASSUME NEW w \in Worker, Received(w) PROVE InHand'
  BY <1>1, <1>9 DEF Received, InHand
<1>10. ASSUME NEW w \in Worker, Drained(w) \/ EndActor(w) \/ EndTask(w) PROVE InHand'
  <2>1. /\ pc[w] \in {"drain", "endActor", "endTask"}
        /\ \E to \in {"endActor", "endTask", "idle"} : pc' = [pc EXCEPT ![w] = to]
        /\ UNCHANGED <<mstatus, sending, message>>
    BY <1>10 DEF Drained, EndActor, EndTask
  <2>2. \A t \in Thread : t # w => pc'[t] = pc[t]
    BY <1>1, <2>1
  <2>3. \A t \in Thread : pc[t] = "publish" => pc'[t] = "publish"
    BY <2>1, <2>2
  <2>4. \A u \in Worker : Handling(u) => Handling(u)'
    BY <1>1, <2>1, <2>2
  <2> HIDE DEF Handling
  <2> QED BY <1>1, <2>1, <2>3, <2>4 DEF InHand
<1>11. ASSUME NEW c \in Client, WaitStep(c) \/ WaitBegin(c) PROVE InHand'
  <2>1. /\ pc[c] \in {"idle", "waitActors", "waitTasks", "waited"} /\ c \notin Worker
        /\ \E to \in {"waitActors", "waitTasks", "waited"} : pc' = [pc EXCEPT ![c] = to]
        /\ UNCHANGED <<mstatus, sending, message>>
    BY <1>1, <1>11 DEF WaitStep, WaitActors, WaitTasks, WaitBegin
  <2>2. \A t \in Thread : t # c => pc'[t] = pc[t]
    BY <1>1, <2>1
  <2>3. \A t \in Thread : pc[t] = "publish" => pc'[t] = "publish"
    BY <2>1, <2>2
  <2>4. \A u \in Worker : Handling(u) => Handling(u)'
    BY <1>1, <2>1, <2>2
  <2> HIDE DEF Handling
  <2> QED BY <1>1, <2>1, <2>3, <2>4 DEF InHand
<1>12. CASE UNCHANGED vars
  BY <1>1, <1>12 DEF vars, InHand
<1> QED
  BY <1>2, <1>3, <1>4, <1>5, <1>6, <1>7, <1>8, <1>9, <1>10, <1>11, <1>12
     DEF Next, CallStep, WorkerStep

(* wait_all() goes by what is sent, and a sent message stays sent.         *)
LEMMA CoversStep ==
  ASSUME IInv, [Next]_vars
  PROVE  CoversSent'
<1>1. TypeOK /\ CoversSent /\ Thread = Client \cup Worker
  BY DEF IInv, Thread
<1> USE DEF Goto, Mark, TypeOK
<1>2. ASSUME NEW c \in Client, WaitBegin(c) PROVE CoversSent'
  BY <1>1, <1>2 DEF WaitBegin, Scheduled, CoversSent
<1>3. ASSUME covered' = covered,
             \A m \in Message : mstatus'[m] \in {"new", "dropped"} => mstatus[m] \in {"new", "dropped"}
      PROVE  CoversSent'
  BY <1>1, <1>3 DEF CoversSent
<1>4. ASSUME NEW t \in Thread, NEW m \in Message, SendClaim(t, m) \/ SendRefused(t, m)
      PROVE  CoversSent'
  <2>1. /\ covered' = covered
        /\ Mark(m, "new", "claimed") \/ Mark(m, "new", "dropped")
    BY <1>4 DEF SendClaim, SendRefused
  <2> QED BY <1>1, <1>3, <2>1
<1>5. ASSUME NEW t \in Thread, CallStep(t) PROVE CoversSent'
  <2>1. /\ covered' = covered
        /\ mstatus' = mstatus \/ Mark(sending[t], "claimed", "queued")
    BY <1>5 DEF CallStep, SendPublish, ScheduleCount, ScheduleSpawn
  <2> QED BY <1>1, <1>3, <2>1
<1>6. ASSUME NEW w \in Worker, WorkerStep(w) PROVE CoversSent'
  <2>1. /\ covered' = covered
        /\ \/ mstatus' = mstatus \/ Mark(message[w], "received", "handled")
           \/ mstatus' = [mstatus EXCEPT ![Head(mailbox[draining[w]])] = "received"]
    BY <1>6 DEF WorkerStep, Start, Receive, Received, Drained, EndActor, EndTask
  <2> QED BY <1>1, <1>3, <2>1
<1>7. CASE UNCHANGED vars \/ \E c \in Client : WaitStep(c)
  <2>1. covered' = covered /\ mstatus' = mstatus
    BY <1>7 DEF vars, WaitStep, WaitActors, WaitTasks
  <2> QED BY <1>3, <2>1
<1> QED BY <1>2, <1>4, <1>5, <1>6, <1>7 DEF Next

(* Who makes NoLostWakeup true for an actor. *)
Awake(a) ==
  \/ pending[a] > 0
  \/ \E w \in Worker : InDrain(w) /\ draining[w] = a
  \/ \E t \in Thread : pc[t] \in {"schedule", "spawn"} /\ Target[sending[t]] = a

(* The messages that can be at the front of a mailbox. *)
LEMMA Front ==
  ASSUME TypeOK, MailboxesExact, NEW a \in Actor, mailbox[a] # <<>>
  PROVE  /\ Head(mailbox[a]) \in Message /\ Target[Head(mailbox[a])] = a
         /\ mstatus[Head(mailbox[a])] \in {"claimed", "queued"}
<1>1. mailbox[a] \in Seq(Message) /\ 1 \in 1 .. Len(mailbox[a])
  BY DEF TypeOK
<1> QED BY <1>1 DEF MailboxesExact

(* Nobody wakes an actor and goes without leaving a drain of it behind.    *)
LEMMA WakeupStep ==
  ASSUME IInv, [Next]_vars
  PROVE  NoLostWakeup'
<1>1. /\ TypeOK /\ MailboxesExact /\ Client \cap Worker = {}
      /\ Thread = Client \cup Worker /\ Target \in [Message -> Actor]
  BY ActorAssumption DEF IInv, Thread
<1>2. /\ \A a \in Actor : Ready(a) => Awake(a)
      /\ NoLostWakeup' <=> \A a \in Actor : Ready(a)' => Awake(a)'
  BY DEF IInv, NoLostWakeup, Awake
<1>3. ASSUME mailbox' = mailbox, NEW m \in Message, NEW from, NEW to \in MStatus,
             Mark(m, from, to), to # "queued"
      PROVE  \A a \in Actor : Ready(a)' => Ready(a)
  <2> SUFFICES ASSUME NEW a \in Actor, Ready(a)' PROVE Ready(a)
    OBVIOUS
  <2>1. mailbox[a] # <<>> /\ Head(mailbox[a]) \in Message
    BY <1>1, <1>3, Front DEF Ready
  <2> QED BY <1>1, <1>3, <2>1 DEF Ready, Mark, TypeOK
<1>4. ASSUME mailbox' = mailbox, mstatus' = mstatus
      PROVE  \A a \in Actor : Ready(a)' => Ready(a)
  BY <1>4 DEF Ready
<1> USE DEF Goto, TypeOK
<1>5. ASSUME NEW t \in Thread, NEW m \in Message, SendClaim(t, m) PROVE NoLostWakeup'
  <2>1. ASSUME NEW a \in Actor, Ready(a)' PROVE Ready(a)
    <3>1. /\ mailbox' = [mailbox EXCEPT ![Target[m]] = Append(@, m)]
          /\ mstatus[m] = "new" /\ mstatus' = [mstatus EXCEPT ![m] = "claimed"]
      BY <1>5 DEF SendClaim, Mark
    <3>2. CASE mailbox[a] = <<>>
      <4>1. a = Target[m] => mailbox'[a] = <<m>>
        BY <1>1, <3>1, <3>2
      <4>2. a # Target[m] => mailbox'[a] = <<>>
        BY <1>1, <3>1, <3>2
      <4>3. mstatus'[m] = "claimed"
        BY <1>1, <3>1
      <4> QED BY <2>1, <4>1, <4>2, <4>3 DEF Ready
    <3>3. CASE mailbox[a] # <<>>
      <4>1. /\ Head(mailbox[a]) \in Message
            /\ mstatus[Head(mailbox[a])] \in {"claimed", "queued"}
        BY <1>1, <3>3, Front
      <4>2. Head(mailbox'[a]) = Head(mailbox[a])
        BY <1>1, <3>1, <3>3
      <4> QED BY <1>1, <2>1, <3>1, <3>3, <4>1, <4>2 DEF Ready
    <3> QED BY <3>2, <3>3
  <2>2. ASSUME NEW a \in Actor, Awake(a) PROVE Awake(a)'
    BY <1>1, <1>5, <2>2 DEF SendClaim, MaySend, Awake, InDrain
  <2> QED BY <1>2, <2>1, <2>2
<1>6. ASSUME NEW t \in Thread, NEW m \in Message, SendRefused(t, m) PROVE NoLostWakeup'
  <2>1. \A a \in Actor : Ready(a)' => Ready(a)
    BY <1>3, <1>6 DEF SendRefused, MStatus
  <2>2. \A a \in Actor : Awake(a) => Awake(a)'
    BY <1>6 DEF SendRefused, Awake, InDrain
  <2> QED BY <1>2, <2>1, <2>2
<1>7. ASSUME NEW t \in Thread, SendPublish(t) PROVE NoLostWakeup'
  <2>1. ASSUME NEW a \in Actor, Ready(a)' PROVE Ready(a) \/ Target[sending[t]] = a
    <3>1. mailbox[a] # <<>> /\ Head(mailbox[a]) \in Message /\ Target[Head(mailbox[a])] = a
      BY <1>1, <1>7, <2>1, Front DEF SendPublish, Ready
    <3> QED BY <1>1, <1>7, <2>1, <3>1 DEF SendPublish, Mark, Ready
  <2>2. ASSUME NEW a \in Actor, Awake(a) PROVE Awake(a)'
    BY <1>1, <1>7, <2>2 DEF SendPublish, Awake, InDrain
  <2>3. ASSUME NEW a \in Actor, Target[sending[t]] = a PROVE Awake(a)'
    BY <1>1, <1>7, <2>3 DEF SendPublish, Awake
  <2> QED BY <1>2, <2>1, <2>2, <2>3
<1>8. ASSUME NEW t \in Thread, ScheduleCount(t) PROVE NoLostWakeup'
  <2>1. ASSUME NEW a \in Actor, Awake(a) PROVE Awake(a)'
    BY <1>1, <1>8, <2>1 DEF ScheduleCount, Awake, InDrain
  <2> QED BY <1>2, <1>4, <1>8, <2>1 DEF ScheduleCount
<1>9. ASSUME NEW t \in Thread, ScheduleSpawn(t) PROVE NoLostWakeup'
  <2>1. /\ Target[sending[t]] \in Actor /\ pending' = [pending EXCEPT ![Target[sending[t]]] = @ + 1]
        /\ UNCHANGED <<mailbox, mstatus, sending, draining>>
    BY <1>1, <1>9 DEF ScheduleSpawn
  <2>2. ASSUME NEW a \in Actor, Awake(a) PROVE Awake(a)'
    <3>1. CASE pending[a] > 0 \/ Target[sending[t]] = a
      <4>1. pending'[a] > 0
        BY <1>1, <2>1, <3>1
      <4> QED BY <4>1 DEF Awake
    <3>2. CASE \E w \in Worker : InDrain(w) /\ draining[w] = a
      BY <1>1, <1>9, <2>1, <3>2 DEF ScheduleSpawn, Awake, InDrain
    <3>3. CASE ~ (pending[a] > 0 \/ Target[sending[t]] = a)
               /\ \E u \in Thread : pc[u] \in {"schedule", "spawn"} /\ Target[sending[u]] = a
      BY <1>1, <1>9, <2>1, <3>3 DEF ScheduleSpawn, Awake
    <3> QED BY <2>2, <3>1, <3>2, <3>3 DEF Awake
  <2> QED BY <1>2, <1>4, <2>1, <2>2
<1>10. ASSUME NEW w \in Worker, NEW a \in Actor, Start(w, a) PROVE NoLostWakeup'
  <2>1. ASSUME NEW b \in Actor, Awake(b) PROVE Awake(b)'
    <3>1. CASE b = a
      BY <1>1, <1>10, <3>1 DEF Start, Awake, InDrain
    <3>2. CASE b # a
      BY <1>1, <1>10, <2>1, <3>2 DEF Start, Awake, InDrain
    <3> QED BY <3>1, <3>2
  <2> QED BY <1>2, <1>4, <1>10, <2>1 DEF Start
<1>11. ASSUME NEW w \in Worker, Receive(w) PROVE NoLostWakeup'
  <2>1. ASSUME NEW a \in Actor, Awake(a) PROVE Awake(a)'
    BY <1>1, <1>11, <2>1 DEF Receive, Awake, InDrain
  <2>2. ASSUME NEW a \in Actor, draining[w] = a PROVE Awake(a)'
    BY <1>1, <1>11, <2>2 DEF Receive, Awake, InDrain
  <2>3. ASSUME NEW a \in Actor, Ready(a)', a # draining[w] PROVE Ready(a)
    <3>1. /\ draining[w] \in Actor /\ mailbox[draining[w]] # <<>>
          /\ mailbox'[a] = mailbox[a]
          /\ mstatus' = [mstatus EXCEPT ![Head(mailbox[draining[w]])] = "received"]
      BY <1>1, <1>11, <2>3 DEF Receive, Ready
    <3>2. /\ Head(mailbox[a]) \in Message /\ mailbox[a] # <<>>
          /\ Head(mailbox[a]) # Head(mailbox[draining[w]])
      BY <1>1, <2>3, <3>1, Front DEF Ready
    <3> QED BY <1>1, <2>3, <3>1, <3>2 DEF Ready
  <2> QED BY <1>2, <2>1, <2>2, <2>3
<1>12. ASSUME NEW w \in Worker, Received(w) PROVE NoLostWakeup'
  <2>1. \A a \in Actor : Ready(a)' => Ready(a)
    BY <1>1, <1>3, <1>12 DEF Received, MStatus
  <2>2. ASSUME NEW a \in Actor, Awake(a) PROVE Awake(a)'
    BY <1>1, <1>12, <2>2 DEF Received, Awake, InDrain
  <2> QED BY <1>2, <2>1, <2>2
<1>13. ASSUME NEW w \in Worker, Drained(w) PROVE NoLostWakeup'
  <2>1. ASSUME NEW a \in Actor, Awake(a), Ready(a) PROVE Awake(a)'
    BY <1>1, <1>13, <2>1 DEF Drained, Awake, InDrain
  <2> QED BY <1>2, <1>4, <1>13, <2>1 DEF Drained
<1>14. ASSUME NEW w \in Worker, EndActor(w) \/ EndTask(w) PROVE NoLostWakeup'
  <2>1. ASSUME NEW a \in Actor, Awake(a) PROVE Awake(a)'
    BY <1>1, <1>14, <2>1 DEF EndActor, EndTask, Awake, InDrain
  <2> QED BY <1>2, <1>4, <1>14, <2>1 DEF EndActor, EndTask
<1>15. ASSUME NEW c \in Client, WaitStep(c) \/ WaitBegin(c) PROVE NoLostWakeup'
  <2>1. ASSUME NEW a \in Actor, Awake(a) PROVE Awake(a)'
    BY <1>1, <1>15, <2>1 DEF WaitStep, WaitActors, WaitTasks, WaitBegin, Awake, InDrain
  <2> QED BY <1>2, <1>4, <1>15, <2>1 DEF WaitStep, WaitActors, WaitTasks, WaitBegin
<1>16. CASE UNCHANGED vars
  BY <1>2, <1>16 DEF vars, Ready, Awake, InDrain
<1> QED
  BY <1>5, <1>6, <1>7, <1>8, <1>9, <1>10, <1>11, <1>12, <1>13, <1>14, <1>15, <1>16
     DEF Next, CallStep, WorkerStep

(* Every step preserves it. *)
LEMMA NextIInv == IInv /\ [Next]_vars => IInv'
<1> SUFFICES ASSUME IInv, [Next]_vars PROVE IInv'
  OBVIOUS
<1>1. CountersExact'
  BY CountersStep
<1>2. TypeOK' /\ MailboxesExact' /\ InHand' /\ NoLostWakeup' /\ CoversSent'
  BY <1>1, TypeStep, MailboxesStep, InHandStep, WakeupStep, CoversStep
<1> QED BY <1>1, <1>2 DEF IInv

-----------------------------------------------------------------------------

(* The counters of the actors and of the pool are exact, mailboxes hold    *)
(* what was claimed and not received, and no wake-up is lost, for any      *)
(* actors, replies, clients, workers and mailbox capacity.                 *)
THEOREM ActorsInvariant == Spec => []IInv
  BY InitIInv, NextIInv, PTL DEF Spec

(* While the oldest message of a mailbox can be popped, a drain of its     *)
(* actor is running, queued, or about to be spawned (schedule_actor() and  *)
(* the drain task of actor_system.hpp).                                    *)
THEOREM ActorsNoLostWakeup == Spec => []NoLostWakeup
<1>1. IInv => NoLostWakeup
  BY DEF IInv
<1> QED BY <1>1, ActorsInvariant, PTL

(* When running_actors_ is zero nothing is scheduled and nobody drains.    *)
LEMMA NothingRuns ==
  ASSUME IInv, runningActors = 0
  PROVE  /\ \A t \in Thread : pc[t] # "spawn"
         /\ \A w \in Worker : ~ InDrain(w) /\ pc[w] # "endActor"
         /\ \A a \in Actor : ~ pending[a] > 0
<1>1. IsFiniteSet(Waiting) /\ Cardinality(Waiting) \in Nat
  BY FS_CardinalityType DEF IInv, CountersExact
<1>2. /\ Cardinality(Spawning) = 0 /\ Cardinality(Waiting) = 0
      /\ Cardinality(Draining) = 0
  BY <1>1, ThreadSets DEF IInv, CountersExact
<1>3. Spawning = {} /\ Waiting = {} /\ Draining = {}
  BY <1>1, <1>2, ThreadSets, FS_EmptySet
<1>4. ASSUME NEW a \in Actor, pending[a] > 0 PROVE FALSE
  <2>1. pending[a] \in Nat
    BY DEF IInv, TypeOK
  <2>2. <<a, 1>> \in {a} \X (1 .. pending[a])
    BY <1>4, <2>1
  <2> QED BY <1>3, <2>2 DEF Waiting
<1> QED BY <1>3, <1>4 DEF Spawning, Draining

(* If moreover the only client waits, no message is on its way.            *)
LEMMA NothingOnItsWay ==
  ASSUME IInv, runningActors = 0, \A c \in Client : pc[c] \notin {"publish", "schedule"}
  PROVE  \A m \in Message : mstatus[m] \in {"new", "dropped", "handled"}
<1> SUFFICES ASSUME NEW m \in Message PROVE mstatus[m] \in {"new", "dropped", "handled"}
  OBVIOUS
<1>1. /\ mstatus[m] \in MStatus /\ TypeOK /\ MailboxesExact /\ InHand /\ NoLostWakeup
      /\ Thread = Client \cup Worker /\ Target[m] \in Actor
  BY ActorAssumption DEF IInv, TypeOK, Thread
<1>2. \A w \in Worker : pc[w] \notin {"drain", "receive", "publish", "schedule", "spawn"}
  BY NothingRuns DEF InDrain
<1>3. \A t \in Thread : pc[t] \notin {"publish", "schedule", "spawn"}
  BY <1>1, <1>2, NothingRuns
<1>4. \A k \in Message : mstatus[k] \notin {"claimed", "received"}
  BY <1>1, <1>2, <1>3 DEF InHand, Handling
<1>5. mstatus[m] # "queued"
  <2> SUFFICES ASSUME mstatus[m] = "queued" PROVE FALSE
    OBVIOUS
  <2>1. PICK i \in 1 .. Len(mailbox[Target[m]]) : mailbox[Target[m]][i] = m
    BY <1>1 DEF MailboxesExact, InMailbox
  <2>2. mailbox[Target[m]] # <<>>
    BY <1>1, <2>1 DEF TypeOK
  <2>3. Ready(Target[m])
    BY <1>1, <1>4, <2>2, Front DEF Ready
  <2> QED BY <1>1, <1>3, <2>3, NothingRuns DEF NoLostWakeup
<1> QED BY <1>1, <1>4, <1>5 DEF MStatus

(* Before the first call nobody waits. *)
LEMMA InitAtRest == Init => AtRest
<1> SUFFICES ASSUME Init, NEW c \in Client PROVE pc[c] \notin {"waitTasks", "waited"}
  BY DEF AtRest
<1> QED BY DEF Init, Thread

(* A system at rest stays so: a worker that was doing something would be   *)
(* counted, and the only client is waiting.                                *)
LEMMA AtRestStep ==
  ASSUME OneClient, IInv, AtRest, [Next]_vars
  PROVE  AtRest'
<1> SUFFICES ASSUME NEW c \in Client, pc'[c] \in {"waitTasks", "waited"}
             PROVE  /\ runningActors' = 0
                    /\ \A m \in Message : mstatus'[m] \in {"new", "dropped", "handled"}
  BY DEF AtRest
<1>1. /\ TypeOK /\ \A d \in Client : d = c
      /\ Client \cap Worker = {} /\ Thread = Client \cup Worker
  BY ActorAssumption DEF IInv, OneClient, Thread
<1> USE DEF Goto, Mark, TypeOK
<1>2. CASE WaitActors(c)
  <2>1. /\ runningActors = 0 /\ UNCHANGED <<runningActors, mstatus>>
        /\ \A d \in Client : pc[d] = "waitActors"
    BY <1>1, <1>2 DEF WaitActors
  <2> QED BY <2>1, NothingOnItsWay
<1>3. CASE pc[c] \in {"waitTasks", "waited"}
  <2>1. /\ runningActors = 0
        /\ \A m \in Message : mstatus[m] \in {"new", "dropped", "handled"}
    BY <1>3 DEF AtRest
  <2>2. /\ \A t \in Thread : pc[t] \notin {"spawn", "schedule", "publish"}
        /\ \A w \in Worker : pc[w] \notin {"drain", "receive", "endActor"}
    BY <1>1, <1>3, <2>1, NothingRuns DEF InDrain
  <2>3. ASSUME NEW t \in Thread, CallStep(t) PROVE FALSE
    BY <2>2, <2>3 DEF CallStep, SendPublish, ScheduleCount, ScheduleSpawn
  <2>4. ASSUME NEW t \in Thread, NEW m \in Message, SendClaim(t, m) PROVE FALSE
    <3>1. t \in Worker => pc[t] = "receive"
      BY <1>1, <2>4 DEF SendClaim, MaySend
    <3>2. t \in Client => pc'[c] = "publish"
      BY <1>1, <2>4 DEF SendClaim
    <3> QED BY <1>1, <2>2, <3>1, <3>2
  <2>5. ASSUME NEW t \in Thread, NEW m \in Message, SendRefused(t, m)
        PROVE  /\ runningActors' = 0
               /\ \A k \in Message : mstatus'[k] \in {"new", "dropped", "handled"}
    BY <1>1, <2>1, <2>5 DEF SendRefused
  <2>6. ASSUME NEW w \in Worker, WorkerStep(w) PROVE UNCHANGED <<runningActors, mstatus>>
    BY <2>1, <2>2, <2>6, NothingRuns
       DEF WorkerStep, Start, Receive, Received, Drained, EndActor, EndTask
  <2>7. ASSUME NEW d \in Client, WaitStep(d) \/ WaitBegin(d)
        PROVE  UNCHANGED <<runningActors, mstatus>>
    BY <2>7 DEF WaitStep, WaitActors, WaitTasks, WaitBegin
  <2> QED BY <2>1, <2>3, <2>4, <2>5, <2>6, <2>7 DEF Next, vars
<1>4. CASE pc[c] \notin {"waitTasks", "waited"} /\ ~ WaitActors(c)
  <2>1. ASSUME NEW t \in Thread, NEW to, pc' = [pc EXCEPT ![t] = to],
               to \notin {"waitTasks", "waited"}
        PROVE  FALSE
    BY <1>1, <1>4, <2>1
  <2>2. pc' # pc
    BY <1>4
  <2>3. ASSUME NEW t \in Thread, CallStep(t) PROVE FALSE
    BY <2>1, <2>3 DEF CallStep, SendPublish, ScheduleCount, ScheduleSpawn
  <2>4. ASSUME NEW t \in Thread, NEW m \in Message, SendClaim(t, m) \/ SendRefused(t, m)
        PROVE  FALSE
    BY <2>1, <2>2, <2>4 DEF SendClaim, SendRefused
  <2>5. ASSUME NEW w \in Worker, WorkerStep(w) PROVE FALSE
    BY <1>1, <2>1, <2>5
       DEF WorkerStep, Start, Receive, Received, Drained, EndActor, EndTask
  <2>6. ASSUME NEW d \in Client, WaitStep(d) \/ WaitBegin(d) PROVE FALSE
    <3>1. d = c
      BY <1>1
    <3> QED BY <1>1, <1>4, <2>1, <2>6, <3>1 DEF WaitStep, WaitActors, WaitTasks, WaitBegin
  <2> QED BY <2>2, <2>3, <2>4, <2>5, <2>6 DEF Next, vars
<1> QED BY <1>2, <1>3, <1>4

(* With one client, wait_all() returns only when every message whose       *)
(* send() and schedule_actor() had returned has been handled, replies sent *)
(* meanwhile notwithstanding.                                              *)
THEOREM ActorsWaitAllSound ==
  ASSUME OneClient
  PROVE  Spec => []WaitAllSound
<1>1. IInv /\ AtRest => WaitAllSound
  BY DEF IInv, AtRest, CoversSent, WaitAllSound, TypeOK
<1>2. IInv /\ AtRest /\ [Next]_vars => IInv' /\ AtRest'
  BY NextIInv, AtRestStep
<1> QED BY <1>1, <1>2, InitIInv, InitAtRest, PTL DEF Spec

=============================================================================
