---------------------- MODULE TriPrioritySchedulerProofs ----------------------
(***************************************************************************)
(* Proofs about TriPriorityScheduler for every finite set of tasks and     *)
(* every pool, set of clients, priorities and queue capacity: the counter  *)
(* active_tasks_ is exact, wait_all() returns only when all it covers is   *)
(* done, and so does the join in stop().                                   *)
(***************************************************************************)
EXTENDS TriPriorityScheduler, FiniteSetTheorems, TLAPS

(* Unfinished tasks are finitely many, and counting them works. *)
LEMMA UnfinishedFinite == IsFiniteSet(Unfinished) /\ Cardinality(Unfinished) \in Nat
<1>1. Unfinished \subseteq Task
  BY DEF Unfinished
<1> QED BY <1>1, TaskAssumption, FS_Subset, FS_CardinalityType

(* A counter at zero means that every spawned task is done. *)
LEMMA CounterZero ==
  ASSUME TypeOK, ActiveCounts, active = 0 PROVE Finished(Spawned)
<1>1. Unfinished = {}
  BY UnfinishedFinite, FS_EmptySet DEF ActiveCounts
<1> QED BY <1>1 DEF Unfinished, Finished, Spawned

LEMMA InitIInv == Init => IInv
<1> SUFFICES ASSUME Init PROVE IInv
  OBVIOUS
<1> USE DEF Init
<1>1. (CHOOSE k \in Task : TRUE) \in Task
  BY TaskAssumption
<1>2. TypeOK
  BY <1>1 DEF TypeOK, Status, Thread, Level
<1>3. ActiveCounts
  <2>1. Unfinished = {}
    BY DEF Unfinished
  <2> QED BY <2>1, FS_EmptySet DEF ActiveCounts
<1>4. Places
  BY WorkerAssumption DEF Places, Thread
<1>5. BeingSpawned /\ InQueues /\ HeldByWorkers
  BY DEF BeingSpawned, InQueues, HeldByWorkers, InSpawn, Busy, Thread
<1>6. Promises
  BY WorkerAssumption DEF Promises, Finished, Thread
<1> QED BY <1>2, <1>3, <1>4, <1>5, <1>6 DEF IInv

(* A step that only moves program counters outside spawn() and task bodies *)
(* keeps the tasks where they are.                                         *)
LEMMA PcStep ==
  ASSUME IInv, UNCHANGED <<active, queue, status, spawning, task>>,
         TypeOK', Places', Promises',
         \A t \in Thread : InSpawn(t)' => pc'[t] = pc[t],
         \A w \in Worker : Busy(w)' => pc'[w] = pc[w]
  PROVE  IInv'
<1>1. ActiveCounts'
  BY DEF IInv, ActiveCounts, Unfinished
<1>2. BeingSpawned'
  BY DEF IInv, BeingSpawned, InSpawn
<1>3. InQueues'
  BY DEF IInv, InQueues
<1>4. HeldByWorkers'
  BY DEF IInv, HeldByWorkers, Busy
<1> QED BY <1>1, <1>2, <1>3, <1>4 DEF IInv

(* The loop conditions, the polls that find nothing, and the calls and     *)
(* returns of wait_all() and stop().                                       *)
LEMMA PcSteps ==
  ASSUME IInv,
         \/ \E w \in Worker : \/ CheckRunning(w) \/ CheckActive(w)
                              \/ \E l \in Level : Miss(w, l)
         \/ \E c \in Client : WaitBegin(c) \/ WaitReturn(c)
                              \/ StopBegin(c) \/ StopJoined(c)
  PROVE  IInv'
<1> USE DEF Goto
<1>0. TypeOK /\ Places /\ Promises /\ ActiveCounts
  BY DEF IInv
<1>1. ASSUME NEW w \in Worker, CheckRunning(w) PROVE IInv'
  <2>1. TypeOK'
    BY <1>0, <1>1 DEF CheckRunning, TypeOK
  <2>2. Places'
    BY <1>0, <1>1, WorkerAssumption DEF CheckRunning, TypeOK, Places, Thread
  <2>3. Promises'
    BY <1>0, <1>1, WorkerAssumption
    DEF CheckRunning, TypeOK, Promises, Finished, Spawned, Thread
  <2> QED BY <1>0, <1>1, <2>1, <2>2, <2>3, PcStep
          DEF CheckRunning, TypeOK, InSpawn, Busy, Thread
<1>2. ASSUME NEW w \in Worker, CheckActive(w) PROVE IInv'
  <2>1. TypeOK'
    BY <1>0, <1>2 DEF CheckActive, TypeOK
  <2>2. Places'
    BY <1>0, <1>2, WorkerAssumption DEF CheckActive, TypeOK, Places, Thread
  <2>3. Promises'
    <3>1. CASE active > 0
      BY <1>0, <1>2, <3>1, WorkerAssumption
      DEF CheckActive, TypeOK, Promises, Finished, Spawned, Thread
    <3>2. CASE ~ (active > 0)
      <4>1. active = 0
        BY <1>0, <3>2 DEF TypeOK
      <4>2. Finished(Spawned)
        BY <1>0, <4>1, CounterZero
      <4>3. \A c \in Client : Finished(promised[c])
        BY <1>0, <4>2 DEF Promises, Finished
      <4> QED BY <1>0, <1>2, <3>2, <4>3, WorkerAssumption
              DEF CheckActive, TypeOK, Promises, Finished, Spawned, Thread
    <3> QED BY <3>1, <3>2
  <2> QED BY <1>0, <1>2, <2>1, <2>2, <2>3, PcStep
          DEF CheckActive, TypeOK, InSpawn, Busy, Thread
<1>3. ASSUME NEW w \in Worker, NEW l \in Level, Miss(w, l) PROVE IInv'
  <2>1. TypeOK'
    BY <1>0, <1>3 DEF Miss, After, TypeOK, Level
  <2>2. Places'
    BY <1>0, <1>3, WorkerAssumption
    DEF Miss, After, TypeOK, Places, Thread, Level
  <2>3. Promises'
    BY <1>0, <1>3, WorkerAssumption
    DEF Miss, After, TypeOK, Promises, Finished, Spawned, Thread, Level
  <2> QED BY <1>0, <1>3, <2>1, <2>2, <2>3, PcStep
          DEF Miss, After, TypeOK, InSpawn, Busy, Thread, Level
<1>4. ASSUME NEW c \in Client, WaitBegin(c) PROVE IInv'
  <2>1. TypeOK'
    BY <1>0, <1>4 DEF WaitBegin, TypeOK, Spawned
  <2>2. Places'
    BY <1>0, <1>4, WorkerAssumption DEF WaitBegin, TypeOK, Places, Thread
  <2>3. Promises'
    BY <1>0, <1>4, WorkerAssumption
    DEF WaitBegin, MayCall, TypeOK, Promises, Finished, Spawned, Thread
  <2> QED BY <1>0, <1>4, <2>1, <2>2, <2>3, PcStep, WorkerAssumption
          DEF WaitBegin, TypeOK, InSpawn, Busy, Thread
<1>5. ASSUME NEW c \in Client, WaitReturn(c) PROVE IInv'
  <2>1. TypeOK'
    BY <1>0, <1>5 DEF WaitReturn, TypeOK
  <2>2. Places'
    BY <1>0, <1>5, WorkerAssumption DEF WaitReturn, TypeOK, Places, Thread
  <2>3. Finished(promised[c])
    BY <1>0, <1>5, CounterZero DEF WaitReturn, Promises, Finished
  <2>4. Promises'
    BY <1>0, <1>5, <2>3, WorkerAssumption
    DEF WaitReturn, TypeOK, Promises, Finished, Spawned, Thread
  <2> QED BY <1>0, <1>5, <2>1, <2>2, <2>4, PcStep, WorkerAssumption
          DEF WaitReturn, TypeOK, InSpawn, Busy, Thread
<1>6. ASSUME NEW c \in Client, StopBegin(c) PROVE IInv'
  <2>1. TypeOK'
    BY <1>0, <1>6 DEF StopBegin, TypeOK, Spawned
  <2>2. Places'
    BY <1>0, <1>6, WorkerAssumption DEF StopBegin, TypeOK, Places, Thread
  <2>3. Promises'
    BY <1>0, <1>6, WorkerAssumption
    DEF StopBegin, MayCall, TypeOK, Promises, Finished, Spawned, Thread
  <2> QED BY <1>0, <1>6, <2>1, <2>2, <2>3, PcStep, WorkerAssumption
          DEF StopBegin, TypeOK, InSpawn, Busy, Thread
<1>7. ASSUME NEW c \in Client, StopJoined(c) PROVE IInv'
  <2>1. TypeOK'
    BY <1>0, <1>7 DEF StopJoined, TypeOK
  <2>2. Places'
    BY <1>0, <1>7, WorkerAssumption DEF StopJoined, TypeOK, Places, Thread
  <2>3. Promises'
    BY <1>0, <1>7, WorkerAssumption
    DEF StopJoined, TypeOK, Promises, Finished, Spawned, Thread
  <2> QED BY <1>0, <1>7, <2>1, <2>2, <2>3, PcStep, WorkerAssumption
          DEF StopJoined, TypeOK, InSpawn, Busy, Thread
<1> QED BY <1>1, <1>2, <1>3, <1>4, <1>5, <1>6, <1>7

(* spawn() counts the task. *)
LEMMA SpawnCountStep ==
  ASSUME IInv, NEW t \in Thread, NEW k \in Task, SpawnCount(t, k)
  PROVE  IInv'
<1> USE DEF Mark
<1>0. TypeOK /\ Places /\ Promises /\ ActiveCounts /\ BeingSpawned /\ InQueues
      /\ HeldByWorkers
  BY DEF IInv
<1>1. /\ status[k] = "new" /\ status' = [status EXCEPT ![k] = "counted"]
      /\ pc' = [pc EXCEPT ![t] = "push"] /\ active' = active + 1
      /\ spawning' = [spawning EXCEPT ![t] = k]
      /\ UNCHANGED <<running, queue, task>>
      /\ t \in Client => pc[t] \in {"idle", "waited"}
      /\ t \in Worker => pc[t] = "run"
  BY WorkerAssumption DEF SpawnCount, MaySpawn, MayCall
<1>2. TypeOK'
  <2>1. promised' \in [Client -> SUBSET Task]
    BY <1>0 DEF SpawnCount, Inherit, TypeOK
  <2> QED BY <1>0, <1>1, <2>1 DEF TypeOK, Status
<1>3. ActiveCounts'
  <2>1. Unfinished' = Unfinished \cup {k} /\ k \notin Unfinished
    BY <1>0, <1>1 DEF Unfinished, TypeOK
  <2> QED BY <1>0, <1>1, <2>1, UnfinishedFinite, FS_AddElement DEF ActiveCounts
<1>4. Places'
  BY <1>0, <1>1, WorkerAssumption DEF Places, TypeOK, Thread
<1>5. BeingSpawned'
  BY <1>0, <1>1 DEF BeingSpawned, InSpawn, TypeOK
<1>6. InQueues'
  <2>1. \A l \in Level : \A i \in 1 .. Len(queue[l]) :
           queue[l][i] # k /\ queue[l][i] \in Task
    BY <1>0, <1>1 DEF InQueues, TypeOK
  <2> QED BY <1>0, <1>1, <2>1 DEF InQueues, TypeOK
<1>7. HeldByWorkers'
  <2>1. \A w \in Worker : Busy(w) => task[w] # k
    BY <1>0, <1>1 DEF HeldByWorkers
  <2>2. \A w \in Worker : Busy(w)' <=> Busy(w)
    BY <1>0, <1>1, WorkerAssumption DEF Busy, TypeOK, Thread, Places
  <2>3. \A w \in Worker : pc'[w] = "sub" <=> pc[w] = "sub"
    BY <1>0, <1>1 DEF TypeOK, Thread
  <2> QED BY <1>0, <1>1, <2>1, <2>2, <2>3 DEF HeldByWorkers, TypeOK
<1>8. Promises'
  <2>0. promised' = [c \in Client |->
                       IF t \in Worker /\ task[t] \in promised[c]
                       THEN promised[c] \cup {k} ELSE promised[c]]
    BY DEF SpawnCount, Inherit
  <2>1. Spawned' = Spawned \cup {k}
    BY <1>0, <1>1 DEF Spawned, TypeOK
  <2>2. \A c \in Client : Finished(promised[c]) => promised'[c] = promised[c]
    <3>1. t \in Worker => status[task[t]] = "held"
      BY <1>0, <1>1 DEF HeldByWorkers, Busy
    <3> QED BY <2>0, <3>1 DEF Finished
  <2>3. \A c \in Client : Finished(promised[c]) => Finished(promised[c])'
    BY <1>0, <1>1, <2>2 DEF Finished, TypeOK
  <2>4. \A c \in Client : promised'[c] \subseteq Spawned'
    BY <1>0, <2>0, <2>1 DEF Promises
  <2>5. \A c \in Client : /\ pc'[c] = "waited" => pc[c] = "waited"
                          /\ pc'[c] = "joining" <=> pc[c] = "joining"
                          /\ pc'[c] = "joined" <=> pc[c] = "joined"
    BY <1>0, <1>1 DEF TypeOK, Thread
  <2>6. \A w \in Worker : /\ pc'[w] = "exited" <=> pc[w] = "exited"
                          /\ pc'[w] = "checkActive" <=> pc[w] = "checkActive"
    BY <1>0, <1>1, WorkerAssumption DEF TypeOK, Thread
  <2> QED BY <1>0, <1>1, <2>3, <2>4, <2>5, <2>6 DEF Promises
<1> QED BY <1>2, <1>3, <1>4, <1>5, <1>6, <1>7, <1>8 DEF IInv

(* The effect on covered tasks and on calls in progress of a step that     *)
(* neither spawns a task nor enters or leaves a call or the worker loop.   *)
LEMMA PromisesStep ==
  ASSUME TypeOK, Promises, UNCHANGED <<running, promised>>,
         Spawned \subseteq Spawned',
         \A k \in Task : status[k] = "done" => status'[k] = "done",
         \A c \in Client : /\ pc'[c] = "waited" => pc[c] = "waited"
                           /\ pc'[c] = "joining" <=> pc[c] = "joining"
                           /\ pc'[c] = "joined" <=> pc[c] = "joined",
         \A w \in Worker : /\ pc'[w] = "exited" <=> pc[w] = "exited"
                           /\ pc'[w] = "checkActive" <=> pc[w] = "checkActive"
  PROVE  Promises'
<1>1. \A c \in Client : Finished(promised[c]) => Finished(promised[c])'
  BY DEF Finished, TypeOK
<1>2. \A c \in Client : promised'[c] \subseteq Spawned'
  BY DEF Promises
<1> QED BY <1>1, <1>2 DEF Promises

(* The push claims a position. *)
LEMMA SpawnClaimStep ==
  ASSUME IInv, NEW t \in Thread, SpawnClaim(t)
  PROVE  IInv'
<1> DEFINE k == spawning[t]
           l == Priority[k]
<1> USE DEF Mark, Goto
<1>0. TypeOK /\ Places /\ Promises /\ ActiveCounts /\ BeingSpawned /\ InQueues
      /\ HeldByWorkers
  BY DEF IInv
<1>1. /\ pc[t] = "push" /\ pc' = [pc EXCEPT ![t] = "publish"]
      /\ status[k] = "counted" /\ status' = [status EXCEPT ![k] = "claimed"]
      /\ queue' = [queue EXCEPT ![l] = Append(queue[l], k)]
      /\ UNCHANGED <<running, active, spawning, task, promised>>
  BY DEF SpawnClaim
<1>2. k \in Task /\ l \in Level /\ queue[l] \in Seq(Task)
  BY <1>0, PriorityAssumption DEF TypeOK
<1> HIDE DEF k, l
<1>3. TypeOK'
  BY <1>0, <1>1, <1>2 DEF TypeOK, Status
<1>4. ActiveCounts'
  <2>1. Unfinished' = Unfinished
    BY <1>0, <1>1, <1>2 DEF Unfinished, TypeOK
  <2> QED BY <1>0, <1>1, <2>1 DEF ActiveCounts
<1>5. Places'
  BY <1>0, <1>1, WorkerAssumption DEF Places, TypeOK, Thread
<1>6. BeingSpawned'
  BY <1>0, <1>1, <1>2 DEF BeingSpawned, InSpawn, TypeOK, k
<1>7. InQueues'
  <2>1. \A m \in Level : \A i \in 1 .. Len(queue[m]) :
           queue[m][i] # k /\ queue[m][i] \in Task
    BY <1>0, <1>1 DEF InQueues, TypeOK
  <2>2. /\ queue'[l] = Append(queue[l], k)
        /\ \A m \in Level : m # l => queue'[m] = queue[m]
    BY <1>0, <1>1, <1>2 DEF TypeOK
  <2>3. \A i \in 1 .. Len(queue[l]) + 1 :
           queue'[l][i] = IF i = Len(queue[l]) + 1 THEN k ELSE queue[l][i]
    BY <1>2, <2>2
  <2>4. Len(queue'[l]) = Len(queue[l]) + 1
    BY <1>2, <2>2
  <2> SUFFICES ASSUME NEW m \in Level, NEW i \in 1 .. Len(queue'[m])
               PROVE  /\ status'[queue'[m][i]] \in {"claimed", "queued"}
                      /\ Priority[queue'[m][i]] = m
                      /\ \A j \in 1 .. Len(queue'[m]) :
                           i # j => queue'[m][i] # queue'[m][j]
    BY DEF InQueues
  <2>5. CASE m # l
    BY <1>0, <1>1, <2>1, <2>2, <2>5 DEF InQueues, TypeOK
  <2>6. CASE m = l
    <3>1. Len(queue[l]) \in Nat
      BY <1>2
    <3>2. CASE i = Len(queue[l]) + 1
      <4>1. queue'[m][i] = k
        BY <2>3, <2>4, <2>6, <3>2
      <4>2. status'[k] = "claimed" /\ Priority[k] = l
        BY <1>0, <1>1, <1>2 DEF TypeOK, l
      <4>3. \A j \in 1 .. Len(queue'[m]) : i # j => queue'[m][j] # k
        BY <2>1, <2>3, <2>4, <2>6, <3>1, <3>2, <1>2
      <4> QED BY <2>6, <4>1, <4>2, <4>3
    <3>3. CASE i # Len(queue[l]) + 1
      <4>1. i \in 1 .. Len(queue[l])
        BY <2>4, <2>6, <3>1, <3>3
      <4>2. queue'[m][i] = queue[l][i]
        BY <2>3, <2>6, <4>1, <3>1, <3>3
      <4>3. queue[l][i] # k /\ queue[l][i] \in Task
        BY <1>2, <2>1, <4>1
      <4>4. status'[queue[l][i]] = status[queue[l][i]]
        BY <1>0, <1>1, <4>3 DEF TypeOK
      <4>5. \A j \in 1 .. Len(queue'[m]) : i # j => queue'[m][j] # queue[l][i]
        BY <1>0, <1>2, <2>3, <2>4, <2>6, <3>1, <4>1, <4>3 DEF InQueues
      <4> QED BY <1>0, <1>2, <2>6, <4>1, <4>2, <4>4, <4>5 DEF InQueues
    <3> QED BY <3>2, <3>3
  <2> QED BY <2>5, <2>6
<1>8. HeldByWorkers'
  <2>1. \A w \in Worker : Busy(w) => task[w] # k
    BY <1>0, <1>1 DEF HeldByWorkers
  <2>2. \A w \in Worker : Busy(w)' <=> Busy(w)
    BY <1>0, <1>1, WorkerAssumption DEF Busy, TypeOK, Thread
  <2>3. \A w \in Worker : pc'[w] = "sub" <=> pc[w] = "sub"
    BY <1>0, <1>1 DEF TypeOK, Thread
  <2> QED BY <1>0, <1>1, <2>1, <2>2, <2>3 DEF HeldByWorkers, TypeOK
<1>9. Promises'
  <2>1. Spawned \subseteq Spawned'
        /\ \A j \in Task : status[j] = "done" => status'[j] = "done"
    BY <1>0, <1>1 DEF Spawned, TypeOK
  <2>2. \A u \in Thread : pc'[u] = pc[u] \/ (pc[u] = "push" /\ pc'[u] = "publish")
    BY <1>0, <1>1 DEF TypeOK
  <2> QED BY <1>0, <1>1, <2>1, <2>2, PromisesStep DEF Thread
<1> QED BY <1>3, <1>4, <1>5, <1>6, <1>7, <1>8, <1>9 DEF IInv

(* The push publishes the position. *)
LEMMA SpawnPublishStep ==
  ASSUME IInv, NEW t \in Thread, SpawnPublish(t)
  PROVE  IInv'
<1> DEFINE k == spawning[t]
<1> USE DEF Mark, Goto
<1>0. TypeOK /\ Places /\ Promises /\ ActiveCounts /\ BeingSpawned /\ InQueues
      /\ HeldByWorkers
  BY DEF IInv
<1>1. /\ pc[t] = "publish"
      /\ pc' = [pc EXCEPT ![t] = IF t \in Worker THEN "run" ELSE "idle"]
      /\ status[k] = "claimed" /\ status' = [status EXCEPT ![k] = "queued"]
      /\ UNCHANGED <<running, active, queue, spawning, task, promised>>
  BY DEF SpawnPublish
<1>2. k \in Task
  BY <1>0 DEF TypeOK
<1> HIDE DEF k
<1>3. TypeOK'
  BY <1>0, <1>1, <1>2 DEF TypeOK, Status
<1>4. ActiveCounts'
  <2>1. Unfinished' = Unfinished
    BY <1>0, <1>1, <1>2 DEF Unfinished, TypeOK
  <2> QED BY <1>0, <1>1, <2>1 DEF ActiveCounts
<1>5. Places'
  BY <1>0, <1>1, WorkerAssumption DEF Places, TypeOK, Thread
<1>6. BeingSpawned'
  BY <1>0, <1>1, <1>2 DEF BeingSpawned, InSpawn, TypeOK, k
<1>7. InQueues'
  BY <1>0, <1>1, <1>2 DEF InQueues, TypeOK
<1>8. HeldByWorkers'
  <2>1. \A w \in Worker : Busy(w) => task[w] # k
    BY <1>0, <1>1 DEF HeldByWorkers
  <2>2. \A w \in Worker : Busy(w)' <=> Busy(w)
    BY <1>0, <1>1, WorkerAssumption DEF Busy, TypeOK, Thread
  <2>3. \A w \in Worker : pc'[w] = "sub" <=> pc[w] = "sub"
    BY <1>0, <1>1 DEF TypeOK, Thread
  <2> QED BY <1>0, <1>1, <2>1, <2>2, <2>3 DEF HeldByWorkers, TypeOK
<1>9. Promises'
  <2>1. Spawned \subseteq Spawned'
        /\ \A j \in Task : status[j] = "done" => status'[j] = "done"
    BY <1>0, <1>1 DEF Spawned, TypeOK
  <2>2. \A u \in Thread :
           pc'[u] = pc[u] \/ (pc[u] = "publish" /\ pc'[u] \in {"run", "idle"})
    BY <1>0, <1>1 DEF TypeOK
  <2> QED BY <1>0, <1>1, <2>1, <2>2, PromisesStep DEF Thread
<1> QED BY <1>3, <1>4, <1>5, <1>6, <1>7, <1>8, <1>9 DEF IInv

(* A worker pops a task. *)
LEMMA TakeStep ==
  ASSUME IInv, NEW w \in Worker, NEW l \in Level, Take(w, l)
  PROVE  IInv'
<1> DEFINE q == queue[l]
           k == Head(q)
<1> USE DEF Goto
<1>0. TypeOK /\ Places /\ Promises /\ ActiveCounts /\ BeingSpawned /\ InQueues
      /\ HeldByWorkers
  BY DEF IInv
<1>1. /\ q # <<>> /\ status[k] = "queued" /\ pc[w] = l
      /\ pc' = [pc EXCEPT ![w] = "run"] /\ task' = [task EXCEPT ![w] = k]
      /\ status' = [status EXCEPT ![k] = "held"]
      /\ queue' = [queue EXCEPT ![l] = Tail(q)]
      /\ UNCHANGED <<running, active, spawning, promised>>
  BY DEF Take, Ready
<1>2. /\ q \in Seq(Task) /\ Len(q) \in Nat /\ Len(q) > 0
      /\ k = q[1] /\ k \in Task
      /\ Tail(q) \in Seq(Task) /\ Len(Tail(q)) = Len(q) - 1
      /\ \A i \in 1 .. Len(q) - 1 : Tail(q)[i] = q[i + 1]
  BY <1>0, <1>1 DEF TypeOK
<1>3. \A m \in Level : \A i \in 1 .. Len(queue[m]) :
         /\ queue[m][i] \in Task
         /\ queue[m][i] = k => m = l /\ i = 1
  <2>1. Priority[k] = l /\ 1 \in 1 .. Len(q)
    BY <1>0, <1>2 DEF InQueues
  <2> QED BY <1>0, <1>2, <2>1 DEF InQueues, TypeOK
<1>4. \A v \in Worker : Busy(v) => task[v] # k
  BY <1>0, <1>1 DEF HeldByWorkers
<1>5. ~ Busy(w)
  BY <1>1 DEF Busy, Level
<1>6. queue'[l] = Tail(q) /\ \A m \in Level : m # l => queue'[m] = queue[m]
  BY <1>0, <1>1 DEF TypeOK
<1> HIDE DEF k, q
<1>7. TypeOK'
  BY <1>0, <1>1, <1>2 DEF TypeOK, Status
<1>8. ActiveCounts'
  <2>1. Unfinished' = Unfinished
    BY <1>0, <1>1, <1>2 DEF Unfinished, TypeOK
  <2> QED BY <1>0, <1>1, <2>1 DEF ActiveCounts
<1>9. Places'
  BY <1>0, <1>1, WorkerAssumption DEF Places, TypeOK, Thread
<1>10. BeingSpawned'
  <2>1. \A t \in Thread : InSpawn(t)' <=> InSpawn(t)
    BY <1>0, <1>1 DEF InSpawn, TypeOK, Level
  <2>2. \A t \in Thread : InSpawn(t) => pc'[t] = pc[t]
    BY <1>0, <1>1 DEF InSpawn, TypeOK, Level
  <2>3. \A t \in Thread : InSpawn(t) => spawning[t] # k /\ spawning[t] \in Task
    BY <1>0, <1>1 DEF BeingSpawned, InSpawn, TypeOK
  <2>4. \A t \in Thread : InSpawn(t) => status'[spawning[t]] = status[spawning[t]]
    BY <1>0, <1>1, <2>3 DEF TypeOK
  <2> QED BY <1>0, <1>1, <2>1, <2>2, <2>4 DEF BeingSpawned, InSpawn
<1>11. InQueues'
  <2> SUFFICES ASSUME NEW m \in Level, NEW i \in 1 .. Len(queue'[m])
               PROVE  /\ status'[queue'[m][i]] \in {"claimed", "queued"}
                      /\ Priority[queue'[m][i]] = m
                      /\ \A j \in 1 .. Len(queue'[m]) :
                           i # j => queue'[m][i] # queue'[m][j]
    BY DEF InQueues
  <2>1. CASE m # l
    <3>1. queue'[m] = queue[m] /\ i \in 1 .. Len(queue[m])
      BY <1>6, <2>1
    <3>2. status'[queue[m][i]] = status[queue[m][i]]
      BY <1>0, <1>1, <1>3, <2>1, <3>1 DEF TypeOK
    <3> QED BY <1>0, <3>1, <3>2 DEF InQueues
  <2>2. CASE m = l
    <3>1. queue'[m] = Tail(q) /\ Len(queue'[m]) = Len(q) - 1 /\ q = queue[l]
      BY <1>2, <1>6, <2>2 DEF q
    <3>2. \A j \in 1 .. Len(queue'[m]) :
             /\ queue'[m][j] = queue[l][j + 1]
             /\ j + 1 \in 1 .. Len(queue[l]) /\ j + 1 # 1
      BY <1>2, <3>1
    <3>3. queue'[m][i] # k /\ queue'[m][i] \in Task
      BY <1>3, <3>2
    <3>4. status'[queue'[m][i]] = status[queue'[m][i]]
      BY <1>0, <1>1, <3>3 DEF TypeOK
    <3>5. \A j \in 1 .. Len(queue'[m]) : i # j => i + 1 # j + 1
      OBVIOUS
    <3> QED BY <1>0, <2>2, <3>2, <3>4, <3>5 DEF InQueues
  <2> QED BY <2>1, <2>2
<1>12. HeldByWorkers'
  <2>1. \A v \in Worker \ {w} :
           (Busy(v)' <=> Busy(v)) /\ pc'[v] = pc[v] /\ task'[v] = task[v]
    BY <1>0, <1>1 DEF Busy, TypeOK, Thread
  <2>2. pc'[w] = "run" /\ task'[w] = k /\ status'[k] = "held"
    BY <1>0, <1>1, <1>2 DEF TypeOK, Thread
  <2>3. \A v \in Worker : Busy(v) => status'[task[v]] = status[task[v]]
    BY <1>0, <1>1, <1>4 DEF TypeOK
  <2> QED BY <1>0, <1>4, <2>1, <2>2, <2>3 DEF HeldByWorkers
<1>13. Promises'
  <2>1. Spawned \subseteq Spawned'
        /\ \A j \in Task : status[j] = "done" => status'[j] = "done"
    BY <1>0, <1>1 DEF Spawned, TypeOK
  <2>2. \A u \in Thread : pc'[u] = pc[u] \/ (pc[u] \in Level /\ pc'[u] = "run")
    BY <1>0, <1>1 DEF TypeOK
  <2> QED BY <1>0, <1>1, <2>1, <2>2, PromisesStep DEF Thread, Level
<1> QED BY <1>7, <1>8, <1>9, <1>10, <1>11, <1>12, <1>13 DEF IInv

(* The body of the task returns, or its worker takes it off the counter. *)
LEMMA RunTaskStep ==
  ASSUME IInv, NEW w \in Worker, RunTask(w) \/ TaskDone(w)
  PROVE  IInv'
<1> DEFINE k == task[w]
<1> USE DEF Goto, Mark
<1>0. TypeOK /\ Places /\ Promises /\ ActiveCounts /\ BeingSpawned /\ InQueues
      /\ HeldByWorkers
  BY DEF IInv
<1>1. /\ status[k] \in {"held", "ran"} /\ pc[w] \in {"run", "sub"}
      /\ \/ /\ pc' = [pc EXCEPT ![w] = "sub"] /\ active' = active
            /\ status' = [status EXCEPT ![k] = "ran"]
         \/ /\ pc' = [pc EXCEPT ![w] = "check"] /\ active' = active - 1
            /\ status' = [status EXCEPT ![k] = "done"]
      /\ UNCHANGED <<running, queue, spawning, task, promised>>
  BY DEF RunTask, TaskDone
<1>2. k \in Task
  BY <1>0 DEF TypeOK
<1>3. \A v \in Worker \ {w} : Busy(v) => task[v] # k
  BY <1>0, <1>1 DEF HeldByWorkers, Busy
<1> HIDE DEF k
<1>4. ActiveCounts' /\ active' \in Nat
  <2>1. CASE active' = active /\ status' = [status EXCEPT ![k] = "ran"]
    <3>1. Unfinished' = Unfinished
      BY <1>0, <1>1, <1>2, <2>1 DEF Unfinished, TypeOK
    <3> QED BY <1>0, <2>1, <3>1 DEF ActiveCounts, TypeOK
  <2>2. CASE active' = active - 1 /\ status' = [status EXCEPT ![k] = "done"]
    <3>1. Unfinished' = Unfinished \ {k} /\ k \in Unfinished
      BY <1>0, <1>1, <1>2, <2>2 DEF Unfinished, TypeOK
    <3>2. Cardinality(Unfinished') = Cardinality(Unfinished) - 1
      BY <3>1, UnfinishedFinite, FS_RemoveElement
    <3>3. IsFiniteSet(Unfinished') /\ Cardinality(Unfinished') \in Nat
      BY <3>1, UnfinishedFinite, FS_RemoveElement, FS_CardinalityType
    <3> QED BY <1>0, <2>2, <3>2, <3>3 DEF ActiveCounts
  <2> QED BY <1>1, <2>1, <2>2
<1>5. TypeOK'
  BY <1>0, <1>1, <1>2, <1>4 DEF TypeOK, Status
<1>6. Places'
  BY <1>0, <1>1, WorkerAssumption DEF Places, TypeOK, Thread
<1>7. BeingSpawned'
  <2>1. \A t \in Thread : (InSpawn(t)' <=> InSpawn(t))
                            /\ (InSpawn(t) => pc'[t] = pc[t])
    BY <1>0, <1>1 DEF InSpawn, TypeOK
  <2>2. \A t \in Thread : InSpawn(t) => spawning[t] # k /\ spawning[t] \in Task
    BY <1>0, <1>1 DEF BeingSpawned, InSpawn, TypeOK
  <2>3. \A t \in Thread : InSpawn(t) => status'[spawning[t]] = status[spawning[t]]
    BY <1>0, <1>1, <2>2 DEF TypeOK
  <2> QED BY <1>0, <1>1, <2>1, <2>3 DEF BeingSpawned, InSpawn
<1>8. InQueues'
  <2>1. \A m \in Level : \A i \in 1 .. Len(queue[m]) :
           queue[m][i] # k /\ queue[m][i] \in Task
    BY <1>0, <1>1 DEF InQueues, TypeOK
  <2> QED BY <1>0, <1>1, <2>1 DEF InQueues, TypeOK
<1>9. HeldByWorkers'
  <2>1. \A v \in Worker \ {w} :
           (Busy(v)' <=> Busy(v)) /\ pc'[v] = pc[v] /\ task'[v] = task[v]
    BY <1>0, <1>1 DEF Busy, TypeOK, Thread
  <2>2. \A v \in Worker \ {w} : Busy(v) => status'[task[v]] = status[task[v]]
    BY <1>0, <1>1, <1>3 DEF TypeOK
  <2>3. Busy(w)' => pc'[w] = "sub" /\ task'[w] = k /\ status'[k] = "ran"
    BY <1>0, <1>1, <1>2 DEF Busy, TypeOK, Thread, k
  <2> QED BY <1>0, <1>3, <2>1, <2>2, <2>3 DEF HeldByWorkers
<1>10. Promises'
  <2>1. Spawned \subseteq Spawned'
        /\ \A j \in Task : status[j] = "done" => status'[j] = "done"
    BY <1>0, <1>1 DEF Spawned, TypeOK
  <2>2. \A u \in Thread : \/ pc'[u] = pc[u]
                          \/ pc[u] \in {"run", "sub"} /\ pc'[u] \in {"sub", "check"}
    BY <1>0, <1>1 DEF TypeOK
  <2> QED BY <1>0, <1>1, <2>1, <2>2, PromisesStep DEF Thread
<1> QED BY <1>4, <1>5, <1>6, <1>7, <1>8, <1>9, <1>10 DEF IInv

LEMMA StutterStep == ASSUME IInv, UNCHANGED vars PROVE IInv'
<1> USE DEF vars
<1>1. TypeOK' /\ Places' /\ Promises'
  BY DEF IInv, TypeOK, Places, Promises, Finished, Spawned
<1> QED BY <1>1, PcStep DEF IInv

LEMMA NextIInv == ASSUME IInv, [Next]_vars PROVE IInv'
<1>1. ASSUME NEW t \in Thread, SpawnStep(t) \/ \E k \in Task : SpawnCount(t, k)
      PROVE  IInv'
  BY <1>1, SpawnCountStep, SpawnClaimStep, SpawnPublishStep DEF SpawnStep
<1>2. ASSUME NEW w \in Worker, WorkerStep(w) PROVE IInv'
  BY <1>2, PcSteps, TakeStep, RunTaskStep DEF WorkerStep
<1>3. ASSUME NEW c \in Client, ClientStep(c) \/ WaitBegin(c) \/ StopBegin(c)
      PROVE  IInv'
  BY <1>3, PcSteps DEF ClientStep
<1> QED BY <1>1, <1>2, <1>3, StutterStep DEF Next

(* The invariant holds in every state, for pools and clients of any number. *)
THEOREM SchedulerInvariant == Spec => []IInv
  BY InitIInv, NextIInv, PTL DEF Spec

(* active_tasks_ is exactly the number of tasks between their fetch_add and *)
(* their fetch_sub, so it never wraps below zero.                          *)
THEOREM SchedulerActiveCounts == Spec => []ActiveCounts
<1>1. IInv => ActiveCounts
  BY DEF IInv
<1> QED BY <1>1, SchedulerInvariant, PTL

(* wait_all() returns only when every task spawned before it, and every    *)
(* task these spawned meanwhile, has run and been taken off the counter.   *)
THEOREM SchedulerWaitAllSound == Spec => []WaitAllSound
<1>1. IInv => WaitAllSound
  BY DEF IInv, Promises, WaitAllSound
<1> QED BY <1>1, SchedulerInvariant, PTL

(* The join in stop() ends only when the same holds for the tasks it       *)
(* covers: no task is left behind by a worker that leaves early.           *)
THEOREM SchedulerStopDrains == Spec => []StopDrains
<1>1. IInv => StopDrains
  BY WorkerAssumption DEF IInv, Promises, StopDrains
<1> QED BY <1>1, SchedulerInvariant, PTL

=============================================================================
