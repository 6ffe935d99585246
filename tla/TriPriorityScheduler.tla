-------------------------- MODULE TriPriorityScheduler --------------------------
(***************************************************************************)
(* The three-level task pool of runtime/async_scheduler.hpp: a set of      *)
(* worker threads polls three lock-free queues, HIGH before NORMAL before  *)
(* LOW, and the first worker (the "high core") never looks at LOW.  Client *)
(* threads call spawn(), wait_all() and stop(); a task body may call       *)
(* spawn() as well.                                                        *)
(*                                                                         *)
(* Each queue is an MPMCQueue, used here through what that module shows:   *)
(* push() claims the next position and publishes it later, and pop()       *)
(* answers "empty" while the oldest position is unpublished.  A refused    *)
(* push() is retried for ever, which changes no state.  Task identifiers   *)
(* (next_task_id_) are left out: nothing reads them.  A worker's pc is     *)
(* where it is in worker_loop(), a client's the call it is in.             *)
(***************************************************************************)
EXTENDS Integers, Sequences, FiniteSets

CONSTANTS
  Task,       \* one call of spawn() each
  Worker,     \* the threads of the pool
  HighCore,   \* the first of them
  Client,     \* threads outside the pool
  Priority,   \* Priority[k]: the level task k is spawned with
  Children,   \* Children[k]: the tasks the body of task k may spawn
  QueueCap    \* capacity of each queue (65536 in the code)

Level == {"high", "normal", "low"}
Thread == Worker \cup Client

ASSUME TaskAssumption == IsFiniteSet(Task) /\ Task # {}
ASSUME WorkerAssumption == HighCore \in Worker /\ Worker \cap Client = {}
ASSUME PriorityAssumption == Priority \in [Task -> Level]
ASSUME ChildrenAssumption == Children \in [Task -> SUBSET Task]
ASSUME QueueCapAssumption == QueueCap \in Nat \ {0}

VARIABLES
  running,   \* running_
  active,    \* active_tasks_
  queue,     \* queue[l]: the claimed positions of one of the three queues
  status,    \* status[k]: how far task k has come
  pc,        \* pc[t]
  spawning,  \* spawning[t]: the task thread t is spawning
  task,      \* task[w]: worker_loop's local variable task
  promised   \* history: promised[c], the tasks c's wait_all() or stop() covers

vars == <<running, active, queue, status, pc, spawning, task, promised>>

(* A task is counted, claimed (a position, not yet published), queued, held *)
(* by a worker, ran (its body returned) and done (no longer counted).      *)
Status == {"new", "counted", "claimed", "queued", "held", "ran", "done"}

Spawned == {k \in Task : status[k] # "new"}
Unfinished == {k \in Task : status[k] \notin {"new", "done"}}

Init ==
  /\ running = TRUE /\ active = 0
  /\ queue = [l \in Level |-> <<>>]
  /\ status = [k \in Task |-> "new"]
  /\ pc = [t \in Thread |-> IF t \in Worker THEN "check" ELSE "idle"]
  /\ spawning = [t \in Thread |-> CHOOSE k \in Task : TRUE]
  /\ task = [w \in Worker |-> CHOOSE k \in Task : TRUE]
  /\ promised = [c \in Client |-> {}]

Goto(t, from, to) == pc[t] = from /\ pc' = [pc EXCEPT ![t] = to]
Mark(k, from, to) == status[k] = from /\ status' = [status EXCEPT ![k] = to]

-----------------------------------------------------------------------------
(* spawn(), by a client or by the body of the task a worker runs *)

(* A client between two calls, and a body that may spawn k. *)
MayCall(t) == t \in Client /\ pc[t] \in {"idle", "waited"}
MaySpawn(t, k) ==
  MayCall(t) \/ (t \in Worker /\ pc[t] = "run" /\ k \in Children[task[t]])

(* What a child of a covered task adds to each wait_all() or stop(). *)
Inherit(t, k) ==
  promised' = [c \in Client |->
    IF t \in Worker /\ task[t] \in promised[c]
    THEN promised[c] \cup {k} ELSE promised[c]]

(* active_tasks_.fetch_add comes before the push. *)
SpawnCount(t, k) ==
  /\ MaySpawn(t, k)
  /\ Mark(k, "new", "counted")
  /\ pc' = [pc EXCEPT ![t] = "push"]
  /\ active' = active + 1
  /\ spawning' = [spawning EXCEPT ![t] = k]
  /\ Inherit(t, k)
  /\ UNCHANGED <<running, queue, task>>

(* The push claims a position; while the queue is full spawn() spins. *)
SpawnClaim(t) ==
  LET k == spawning[t]
      l == Priority[k]
  IN  /\ Len(queue[l]) < QueueCap
      /\ Goto(t, "push", "publish")
      /\ Mark(k, "counted", "claimed")
      /\ queue' = [queue EXCEPT ![l] = Append(@, k)]
      /\ UNCHANGED <<running, active, spawning, task, promised>>

(* The task becomes visible to the workers and spawn() returns. *)
SpawnPublish(t) ==
  /\ Goto(t, "publish", IF t \in Worker THEN "run" ELSE "idle")
  /\ Mark(spawning[t], "claimed", "queued")
  /\ UNCHANGED <<running, active, queue, spawning, task, promised>>

-----------------------------------------------------------------------------
(* worker_loop() *)

(* Mutant: the loop ends as soon as stop() is called. *)
CheckRunning_NoDrain(w) ==
  /\ Goto(w, "check", IF running THEN "high" ELSE "exited")
  /\ UNCHANGED <<running, active, queue, status, spawning, task, promised>>

(* while (running_ || active_tasks_ > 0): two loads, the second only if    *)
(* the first is false.                                                     *)
CheckRunning(w) ==
  /\ Goto(w, "check", IF running THEN "high" ELSE "checkActive")
  /\ UNCHANGED <<running, active, queue, status, spawning, task, promised>>

CheckActive(w) ==
  /\ Goto(w, "checkActive", IF active > 0 THEN "high" ELSE "exited")
  /\ UNCHANGED <<running, active, queue, status, spawning, task, promised>>

Ready(l) == queue[l] # <<>> /\ status[Head(queue[l])] = "queued"

(* Mutant: the position stays in the queue. *)
Take_NotRemoved(w, l) ==
  /\ Ready(l)
  /\ Goto(w, l, "run")
  /\ task' = [task EXCEPT ![w] = Head(queue[l])]
  /\ status' = [status EXCEPT ![Head(queue[l])] = "held"]
  /\ UNCHANGED <<running, active, queue, spawning, promised>>

Take(w, l) ==
  /\ Ready(l)
  /\ Goto(w, l, "run")
  /\ task' = [task EXCEPT ![w] = Head(queue[l])]
  /\ status' = [status EXCEPT ![Head(queue[l])] = "held"]
  /\ queue' = [queue EXCEPT ![l] = Tail(@)]
  /\ UNCHANGED <<running, active, spawning, promised>>

(* The queue tried after l, or the end of the loop body. *)
After(w, l) ==
  CASE l = "high" -> "normal"
    [] l = "normal" -> IF w = HighCore THEN "check" ELSE "low"
    [] l = "low" -> "check"

(* Mutant: a worker that finds no HIGH task polls HIGH again. *)
Miss_StaysHigh(w, l) ==
  /\ ~ Ready(l)
  /\ Goto(w, l, IF l = "high" THEN "check" ELSE After(w, l))
  /\ UNCHANGED <<running, active, queue, status, spawning, task, promised>>

Miss(w, l) ==
  /\ ~ Ready(l)
  /\ Goto(w, l, After(w, l))
  /\ UNCHANGED <<running, active, queue, status, spawning, task, promised>>

(* task.fn() returns. *)
RunTask(w) ==
  /\ Goto(w, "run", "sub")
  /\ Mark(task[w], "held", "ran")
  /\ UNCHANGED <<running, active, queue, spawning, task, promised>>

(* Mutant: the finished task stays counted. *)
TaskDone_NoSub(w) ==
  /\ Goto(w, "sub", "check")
  /\ Mark(task[w], "ran", "done")
  /\ UNCHANGED <<running, active, queue, spawning, task, promised>>

(* active_tasks_.fetch_sub *)
TaskDone(w) ==
  /\ Goto(w, "sub", "check")
  /\ Mark(task[w], "ran", "done")
  /\ active' = active - 1
  /\ UNCHANGED <<running, queue, spawning, task, promised>>

-----------------------------------------------------------------------------
(* wait_all() and stop(), by clients *)

WaitBegin(c) ==
  /\ MayCall(c)
  /\ pc' = [pc EXCEPT ![c] = "waiting"]
  /\ promised' = [promised EXCEPT ![c] = Spawned]
  /\ UNCHANGED <<running, active, queue, status, spawning, task>>

(* Mutant: wait_all() looks at the queues instead of the counter. *)
WaitReturn_QueuesEmpty(c) ==
  /\ \A l \in Level : queue[l] = <<>>
  /\ Goto(c, "waiting", "waited")
  /\ UNCHANGED <<running, active, queue, status, spawning, task, promised>>

(* The load that finds active_tasks_ at zero; the others change nothing. *)
WaitReturn(c) ==
  /\ active = 0
  /\ Goto(c, "waiting", "waited")
  /\ UNCHANGED <<running, active, queue, status, spawning, task, promised>>

(* The first stop(); a later one, which finds running_ false, returns at   *)
(* once and changes nothing.                                               *)
StopBegin(c) ==
  /\ running
  /\ MayCall(c)
  /\ pc' = [pc EXCEPT ![c] = "joining"]
  /\ running' = FALSE
  /\ promised' = [promised EXCEPT ![c] = Spawned]
  /\ UNCHANGED <<active, queue, status, spawning, task>>

StopJoined(c) ==
  /\ \A w \in Worker : pc[w] = "exited"
  /\ Goto(c, "joining", "joined")
  /\ UNCHANGED <<running, active, queue, status, spawning, task, promised>>

-----------------------------------------------------------------------------

SpawnStep(t) == SpawnClaim(t) \/ SpawnPublish(t)

WorkerStep(w) ==
  \/ CheckRunning(w) \/ CheckActive(w)
  \/ \E l \in Level : Take(w, l) \/ Miss(w, l)
  \/ RunTask(w) \/ TaskDone(w)

ClientStep(c) == WaitReturn(c) \/ StopJoined(c)

Next ==
  \/ \E t \in Thread : SpawnStep(t) \/ \E k \in Task : SpawnCount(t, k)
  \/ \E w \in Worker : WorkerStep(w)
  \/ \E c \in Client : ClientStep(c) \/ WaitBegin(c) \/ StopBegin(c)

Spec == Init /\ [][Next]_vars

(* Every thread inside the library keeps taking steps; no client has to    *)
(* call anything.  Task bodies return.                                     *)
Fairness ==
  /\ \A t \in Thread : WF_vars(SpawnStep(t))
  /\ \A w \in Worker : WF_vars(WorkerStep(w))
  /\ \A c \in Client : WF_vars(ClientStep(c))

FairSpec == Spec /\ Fairness

-----------------------------------------------------------------------------

TypeOK ==
  /\ running \in BOOLEAN /\ active \in Nat
  /\ queue \in [Level -> Seq(Task)]
  /\ status \in [Task -> Status]
  /\ pc \in [Thread -> {"idle", "push", "publish", "waiting", "waited",
                        "joining", "joined", "check", "checkActive", "high",
                        "normal", "low", "run", "sub", "exited"}]
  /\ spawning \in [Thread -> Task]
  /\ task \in [Worker -> Task]
  /\ promised \in [Client -> SUBSET Task]

(* The counter behind wait_all() and stop() counts exactly the tasks that  *)
(* were spawned and have not been taken off again, whatever else happens   *)
(* between the fetch_add, the push, the pop, the body and the fetch_sub.   *)
ActiveCounts == active = Cardinality(Unfinished)

Finished(S) == \A k \in S : status[k] = "done"

(* When wait_all() returns, the bodies of all tasks spawned before the     *)
(* call have returned, and so have those of the tasks they spawned in turn *)
(* while the caller was waiting.                                           *)
WaitAllSound ==
  \A c \in Client : pc[c] = "waited" => Finished(promised[c])

(* When stop() has joined the workers, no task spawned before the call,    *)
(* nor any of their children, is left in a queue or half run.              *)
StopDrains ==
  \A c \in Client : pc[c] = "joined" => Finished(promised[c])

(* Every task spawned before a stop() runs: no lost wake-up, and no worker *)
(* leaves while one is still to come.  A pool of one worker never serves   *)
(* LOW, so the runs of this property have two.                             *)
EveryTaskRuns ==
  \A k \in Task : (status[k] = "counted" /\ running) ~> (status[k] = "done")

(* A task spawned too late for the wait_all() or stop() of c to cover it.  *)
Late(c) == \E k \in Unfinished : k \notin promised[c]

(* wait_all() returns, unless the pool is stopped meanwhile, and stop()     *)
(* returns, unless somebody goes on spawning after it: a task that comes   *)
(* when the other workers have left may never run.                         *)
WaitersReturn ==
  \A c \in Client :
    /\ (pc[c] = "waiting") ~> (pc[c] # "waiting" \/ ~ running)
    /\ (pc[c] = "joining") ~> (pc[c] = "joined" \/ Late(c))

-----------------------------------------------------------------------------
(* The inductive invariant behind WaitAllSound and StopDrains. *)

InSpawn(t) == pc[t] \in {"push", "publish"}
Busy(w) == pc[w] \in {"run", "push", "publish", "sub"}

(* Where the clients and the workers can be. *)
Places ==
  /\ \A c \in Client : pc[c] \in {"idle", "push", "publish", "waiting",
                                  "waited", "joining", "joined"}
  /\ \A w \in Worker : pc[w] \in {"check", "checkActive", "high", "normal",
                                  "low", "run", "push", "publish", "sub",
                                  "exited"}

(* Every task between spawn() and fetch_sub is in one place: in the hands  *)
(* of the thread that spawns it, in its queue, or with one worker.         *)
BeingSpawned ==
  /\ \A t \in Thread :
       /\ pc[t] = "push" => status[spawning[t]] = "counted"
       /\ pc[t] = "publish" => status[spawning[t]] = "claimed"
  /\ \A t, u \in Thread :
       (t # u /\ InSpawn(t) /\ InSpawn(u)) => spawning[t] # spawning[u]

InQueues ==
  \A l \in Level : \A i \in 1 .. Len(queue[l]) :
    /\ status[queue[l][i]] \in {"claimed", "queued"}
    /\ Priority[queue[l][i]] = l
    /\ \A j \in 1 .. Len(queue[l]) : i # j => queue[l][i] # queue[l][j]

HeldByWorkers ==
  /\ \A w \in Worker :
       Busy(w) => status[task[w]] = (IF pc[w] = "sub" THEN "ran" ELSE "held")
  /\ \A v, w \in Worker : (v # w /\ Busy(v) /\ Busy(w)) => task[v] # task[w]

(* What a call covers was counted; it is over when the call has returned,  *)
(* and already when one worker has left the loop.                          *)
Promises ==
  /\ \A c \in Client : promised[c] \subseteq Spawned
  /\ \A c \in Client : pc[c] = "waited" => Finished(promised[c])
  /\ \A w \in Worker : pc[w] \in {"checkActive", "exited"} => ~ running
  /\ \A c \in Client : pc[c] \in {"joining", "joined"} => ~ running
  /\ \A c \in Client : pc[c] = "joined" => \A w \in Worker : pc[w] = "exited"
  /\ \A c \in Client, w \in Worker :
       (pc[c] \in {"joining", "joined"} /\ pc[w] = "exited")
         => Finished(promised[c])

IInv ==
  /\ TypeOK /\ ActiveCounts /\ Places
  /\ BeingSpawned /\ InQueues /\ HeldByWorkers /\ Promises

=============================================================================
