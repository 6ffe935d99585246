------------------------------ MODULE ActorSystem ------------------------------
(***************************************************************************)
(* Actors on the task pool: runtime/actor_system.hpp.  send() pushes a     *)
(* message to the mailbox of its actor (an MPMCQueue), schedule_actor()    *)
(* spawns a task that drains the mailbox, and wait_all() polls the counter *)
(* of scheduled drains and then the one of the pool.  A caller sends and   *)
(* then schedules, as the tests do; handlers send and schedule as well.    *)
(*                                                                         *)
(* The mailbox is what MPMCQueue shows a queue to be: push() claims a      *)
(* position and publishes it later, and pop() answers "empty" while the    *)
(* oldest position is unpublished.  The pool is what TriPriorityScheduler  *)
(* shows it to be: a spawned task is counted, run once by some worker, and *)
(* taken off the count after its body.  Actor identifiers, the registry    *)
(* (written by spawn(), read by nothing) and the payloads are left out.    *)
(***************************************************************************)
EXTENDS Integers, Sequences, FiniteSets

CONSTANTS
  Actor,
  Message,    \* one send() each
  Target,     \* Target[m]: the actor message m is sent to
  Replies,    \* Replies[m]: the messages the handler of m may send
  Client,     \* threads that call send(), schedule_actor() and wait_all()
  Worker,     \* the workers of the pool
  MailboxCap  \* capacity of a mailbox (2048 in the code)

Thread == Client \cup Worker

ASSUME ActorAssumption ==
  /\ IsFiniteSet(Message) /\ Message # {} /\ IsFiniteSet(Thread)
  /\ Client \cap Worker = {}
  /\ Target \in [Message -> Actor] /\ Replies \in [Message -> SUBSET Message]
  /\ MailboxCap \in Nat \ {0}

VARIABLES
  mailbox,       \* mailbox[a]: the claimed positions of actor a's mailbox_
  mstatus,       \* mstatus[m]: how far message m has come
  pc,            \* where each thread is
  sending,       \* sending[t]: the message thread t sends, then schedules for
  draining,      \* draining[w]: the actor of the task worker w runs
  message,       \* message[w]: process_one's local variable msg
  runningActors, \* running_actors_
  activeTasks,   \* the pool's active_tasks_
  pending,       \* pending[a]: drain tasks of actor a no worker has taken
  covered        \* history: covered[c], the messages c's wait_all() is about

vars == <<mailbox, mstatus, pc, sending, draining, message,
          runningActors, activeTasks, pending, covered>>

(* A message is new, claimed (a position of the mailbox, not published),   *)
(* queued, received (its handler runs), handled, or dropped.               *)
MStatus == {"new", "claimed", "queued", "received", "handled", "dropped"}

Init ==
  /\ mailbox = [a \in Actor |-> <<>>]
  /\ mstatus = [m \in Message |-> "new"]
  /\ pc = [t \in Thread |-> "idle"]
  /\ sending = [t \in Thread |-> CHOOSE m \in Message : TRUE]
  /\ message = [w \in Worker |-> CHOOSE m \in Message : TRUE]
  /\ draining = [w \in Worker |-> Target[CHOOSE m \in Message : TRUE]]
  /\ runningActors = 0 /\ activeTasks = 0
  /\ pending = [a \in Actor |-> 0]
  /\ covered = [c \in Client |-> {}]

Goto(t, from, to) == pc[t] = from /\ pc' = [pc EXCEPT ![t] = to]
Mark(m, from, to) == mstatus[m] = from /\ mstatus' = [mstatus EXCEPT ![m] = to]

-----------------------------------------------------------------------------
(* send() and schedule_actor(), by a client or by a handler *)

IsReply(m) == \E n \in Message : m \in Replies[n]

MaySend(t, m) ==
  \/ t \in Client /\ pc[t] \in {"idle", "waited"} /\ ~ IsReply(m)
  \/ t \in Worker /\ pc[t] = "receive" /\ m \in Replies[message[t]]

SendClaim(t, m) ==
  /\ MaySend(t, m)
  /\ Len(mailbox[Target[m]]) < MailboxCap
  /\ pc' = [pc EXCEPT ![t] = "publish"]
  /\ Mark(m, "new", "claimed")
  /\ mailbox' = [mailbox EXCEPT ![Target[m]] = Append(@, m)]
  /\ sending' = [sending EXCEPT ![t] = m]
  /\ UNCHANGED <<draining, message, runningActors, activeTasks, pending, covered>>

(* A full mailbox: send() returns false, and the message it was given by   *)
(* value is destroyed with the argument.                                   *)
SendRefused(t, m) ==
  /\ MaySend(t, m)
  /\ Len(mailbox[Target[m]]) >= MailboxCap
  /\ Mark(m, "new", "dropped")
  /\ UNCHANGED <<mailbox, pc, sending, draining, message, runningActors,
                 activeTasks, pending, covered>>

SendPublish(t) ==
  /\ Goto(t, "publish", "schedule")
  /\ Mark(sending[t], "claimed", "queued")
  /\ UNCHANGED <<mailbox, sending, draining, message, runningActors,
                 activeTasks, pending, covered>>

(* schedule_actor(): running_actors_.fetch_add ... *)
ScheduleCount(t) ==
  /\ Goto(t, "schedule", "spawn")
  /\ runningActors' = runningActors + 1
  /\ UNCHANGED <<mailbox, mstatus, sending, draining, message, activeTasks,
                 pending, covered>>

(* ... and then the spawn of a drain task. *)
ScheduleSpawn(t) ==
  LET a == Target[sending[t]]
  IN  /\ Goto(t, "spawn", IF t \in Worker THEN "receive" ELSE "idle")
      /\ pending' = [pending EXCEPT ![a] = @ + 1]
      /\ activeTasks' = activeTasks + 1
      /\ UNCHANGED <<mailbox, mstatus, sending, draining, message,
                     runningActors, covered>>

-----------------------------------------------------------------------------
(* A worker runs a drain task. *)

Start(w, a) ==
  /\ pending[a] > 0
  /\ Goto(w, "idle", "drain")
  /\ pending' = [pending EXCEPT ![a] = @ - 1]
  /\ draining' = [draining EXCEPT ![w] = a]
  /\ UNCHANGED <<mailbox, mstatus, sending, message, runningActors,
                 activeTasks, covered>>

Ready(a) == mailbox[a] # <<>> /\ mstatus[Head(mailbox[a])] = "queued"

(* process_one() pops a message and calls on_receive(). *)
Receive(w) ==
  LET a == draining[w]
      m == Head(mailbox[a])
  IN  /\ Ready(a)
      /\ Goto(w, "drain", "receive")
      /\ message' = [message EXCEPT ![w] = m]
      /\ mstatus' = [mstatus EXCEPT ![m] = "received"]
      /\ mailbox' = [mailbox EXCEPT ![a] = Tail(@)]
      /\ UNCHANGED <<sending, draining, runningActors, activeTasks, pending,
                     covered>>

(* Mutant: the task handles one message instead of draining the mailbox. *)
Received_OneOnly(w) ==
  /\ Goto(w, "receive", "endActor")
  /\ Mark(message[w], "received", "handled")
  /\ UNCHANGED <<mailbox, sending, draining, message, runningActors,
                 activeTasks, pending, covered>>

(* on_receive() returns. *)
Received(w) ==
  /\ Goto(w, "receive", "drain")
  /\ Mark(message[w], "received", "handled")
  /\ UNCHANGED <<mailbox, sending, draining, message, runningActors,
                 activeTasks, pending, covered>>

(* Mutant: the drain ends although there is a message. *)
Drained_GivesUp(w) ==
  /\ Goto(w, "drain", "endActor")
  /\ UNCHANGED <<mailbox, mstatus, sending, draining, message, runningActors,
                 activeTasks, pending, covered>>

(* process_one() finds nothing: the drain ends ... *)
Drained(w) ==
  /\ ~ Ready(draining[w])
  /\ Goto(w, "drain", "endActor")
  /\ UNCHANGED <<mailbox, mstatus, sending, draining, message, runningActors,
                 activeTasks, pending, covered>>

(* ... running_actors_.fetch_sub ... *)
EndActor(w) ==
  /\ Goto(w, "endActor", "endTask")
  /\ runningActors' = runningActors - 1
  /\ UNCHANGED <<mailbox, mstatus, sending, draining, message, activeTasks,
                 pending, covered>>

(* Mutant: the task stays counted. *)
EndTask_NoSub(w) ==
  /\ Goto(w, "endTask", "idle")
  /\ UNCHANGED <<mailbox, mstatus, sending, draining, message, runningActors,
                 activeTasks, pending, covered>>

(* ... and the pool takes the task off its own count. *)
EndTask(w) ==
  /\ Goto(w, "endTask", "idle")
  /\ activeTasks' = activeTasks - 1
  /\ UNCHANGED <<mailbox, mstatus, sending, draining, message, runningActors,
                 pending, covered>>

-----------------------------------------------------------------------------
(* wait_all(), by a client *)

(* It covers the messages whose send() and schedule_actor() have returned. *)
Scheduled ==
  {m \in Message : mstatus[m] \notin {"new", "dropped", "claimed"}
     /\ \A t \in Thread : pc[t] \in {"schedule", "spawn"} => sending[t] # m}

(* Mutant: wait_all() returns at once if it finds the workers idle. *)
WaitBegin_IdleWorkers(c) ==
  /\ pc[c] \in {"idle", "waited"}
  /\ pc' = [pc EXCEPT ![c] = IF \A w \in Worker : pc[w] = "idle"
                             THEN "waited" ELSE "waitActors"]
  /\ covered' = [covered EXCEPT ![c] = Scheduled]
  /\ UNCHANGED <<mailbox, mstatus, sending, draining, message, runningActors,
                 activeTasks, pending>>

WaitBegin(c) ==
  /\ pc[c] \in {"idle", "waited"}
  /\ pc' = [pc EXCEPT ![c] = "waitActors"]
  /\ covered' = [covered EXCEPT ![c] = Scheduled]
  /\ UNCHANGED <<mailbox, mstatus, sending, draining, message, runningActors,
                 activeTasks, pending>>

(* The load that finds running_actors_ at zero, and then the pool's wait.  *)
WaitActors(c) ==
  /\ runningActors = 0
  /\ Goto(c, "waitActors", "waitTasks")
  /\ UNCHANGED <<mailbox, mstatus, sending, draining, message, runningActors,
                 activeTasks, pending, covered>>

WaitTasks(c) ==
  /\ activeTasks = 0
  /\ Goto(c, "waitTasks", "waited")
  /\ UNCHANGED <<mailbox, mstatus, sending, draining, message, runningActors,
                 activeTasks, pending, covered>>

-----------------------------------------------------------------------------

CallStep(t) == SendPublish(t) \/ ScheduleCount(t) \/ ScheduleSpawn(t)

WorkerStep(w) ==
  \/ \E a \in Actor : Start(w, a)
  \/ Receive(w) \/ Received(w) \/ Drained(w) \/ EndActor(w) \/ EndTask(w)

WaitStep(c) == WaitActors(c) \/ WaitTasks(c)

Next ==
  \/ \E t \in Thread :
       CallStep(t) \/ \E m \in Message : SendClaim(t, m) \/ SendRefused(t, m)
  \/ \E w \in Worker : WorkerStep(w)
  \/ \E c \in Client : WaitStep(c) \/ WaitBegin(c)

Spec == Init /\ [][Next]_vars

(* A call that was begun is carried through, workers keep working and      *)
(* handlers return; no client has to call anything.                        *)
FairSpec ==
  /\ Spec
  /\ \A t \in Thread : WF_vars(CallStep(t))
  /\ \A w \in Worker : WF_vars(WorkerStep(w))
  /\ \A c \in Client : WF_vars(WaitStep(c))

-----------------------------------------------------------------------------

Place == {"idle", "publish", "schedule", "spawn", "waitActors", "waitTasks",
          "waited", "drain", "receive", "endActor", "endTask"}

TypeOK ==
  /\ mailbox \in [Actor -> Seq(Message)]
  /\ mstatus \in [Message -> MStatus]
  /\ pc \in [Thread -> Place]
  /\ sending \in [Thread -> Message]
  /\ draining \in [Worker -> Actor]
  /\ message \in [Worker -> Message]
  /\ runningActors \in Nat /\ activeTasks \in Nat
  /\ pending \in [Actor -> Nat]
  /\ covered \in [Client -> SUBSET Message]

(* A worker is inside the drain of its actor, its handlers included. *)
InDrain(w) == w \in Worker /\ pc[w] \in {"drain", "receive", "publish",
                                         "schedule", "spawn"}

(* No lost wake-up: while the oldest message of a mailbox can be popped,   *)
(* a drain of that actor is running, queued, or about to be spawned, even  *)
(* though a drain that meets an unpublished position gives up.             *)
NoLostWakeup ==
  \A a \in Actor : Ready(a) =>
    \/ pending[a] > 0
    \/ \E w \in Worker : InDrain(w) /\ draining[w] = a
    \/ \E t \in Thread : pc[t] \in {"schedule", "spawn"} /\ Target[sending[t]] = a

(* When wait_all() returns, every message sent and scheduled before it     *)
(* has been handled.                                                       *)
WaitAllSound ==
  \A c \in Client :
    pc[c] = "waited" => \A m \in covered[c] : mstatus[m] = "handled"

(* Every message that entered a mailbox is handled. *)
EveryMessageHandled ==
  \A m \in Message : (mstatus[m] = "claimed") ~> (mstatus[m] = "handled")

(* wait_all() returns. *)
WaitReturns ==
  \A c \in Client : (pc[c] = "waitActors") ~> (pc[c] = "waited")

-----------------------------------------------------------------------------
(* The inductive invariant behind NoLostWakeup and WaitAllSound. *)

(* A mailbox holds the messages to its actor that were claimed and not yet *)
(* received, each once.                                                    *)
InMailbox(m) == \E i \in 1 .. Len(mailbox[Target[m]]) : mailbox[Target[m]][i] = m

MailboxesExact ==
  /\ \A a \in Actor : \A i, j \in 1 .. Len(mailbox[a]) :
       /\ Target[mailbox[a][i]] = a
       /\ mstatus[mailbox[a][i]] \in {"claimed", "queued"}
       /\ mailbox[a][i] = mailbox[a][j] => i = j
  /\ \A m \in Message : mstatus[m] \in {"claimed", "queued"} => InMailbox(m)

(* A message half sent or half handled has a thread at work on it.         *)
Handling(w) == pc[w] \in {"receive", "publish", "schedule", "spawn"}

InHand ==
  \A m \in Message :
    /\ mstatus[m] = "claimed" => \E t \in Thread : pc[t] = "publish" /\ sending[t] = m
    /\ mstatus[m] = "received" => \E w \in Worker : Handling(w) /\ message[w] = m

(* What running_actors_ and active_tasks_ count: threads about to spawn,   *)
(* the drain tasks that wait for a worker, and the workers in one.         *)
Spawning == {t \in Thread : pc[t] = "spawn"}
Waiting  == UNION {{a} \X (1 .. pending[a]) : a \in Actor}
Draining == {w \in Worker : InDrain(w) \/ pc[w] = "endActor"}
Busy     == {w \in Worker : pc[w] # "idle"}

CountersExact ==
  /\ IsFiniteSet(Waiting)
  /\ runningActors = Cardinality(Spawning) + Cardinality(Waiting) + Cardinality(Draining)
  /\ activeTasks = Cardinality(Waiting) + Cardinality(Busy)

(* A message that a wait_all() covers was sent. *)
CoversSent ==
  \A c \in Client : \A m \in covered[c] : mstatus[m] \notin {"new", "dropped"}

IInv == TypeOK /\ MailboxesExact /\ InHand /\ NoLostWakeup /\ CountersExact /\ CoversSent

(* With one client, a wait_all() that has seen running_actors_ at zero     *)
(* waits in a system at rest, and so does the client until it sends again. *)
OneClient == \A c, d \in Client : c = d

AtRest ==
  \A c \in Client : pc[c] \in {"waitTasks", "waited"} =>
    /\ runningActors = 0
    /\ \A m \in Message : mstatus[m] \in {"new", "dropped", "handled"}

=============================================================================
