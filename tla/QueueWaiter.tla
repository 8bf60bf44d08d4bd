---------------------------- MODULE QueueWaiter ----------------------------
(***************************************************************************)
(* MultiQueueWaiter (threaded_queue.hh:47-76) and the threads that sleep   *)
(* on it: a consumer that has nothing to do calls wait(), which locks all  *)
(* of its queues, tests g_quit and them, and sleeps on the condition       *)
(* variable they share; push() notifies one sleeper under one mutex; the   *)
(* thread that shuts the server down (pipeline.cc quit()) stores g_quit    *)
(* without any mutex, passes through the mutex, notifies, and waits for    *)
(* active_threads to fall to zero.                                         *)
(*                                                                         *)
(* The instances in the program: the indexers on index_request (many       *)
(* consumers, notify_all), the stdout thread on for_stdout (a single       *)
(* consumer, notify_one), and the main loop on on_indexed and on_request   *)
(* (a single consumer of two queues, and the thread that calls quit()).    *)
(* The elements of a queue are only counted; which of them is taken is the *)
(* subject of module ThreadedQueue.                                        *)
(***************************************************************************)
EXTENDS Naturals, FiniteSets

CONSTANTS
  Queues,     \* the queues that share the waiter
  Consumers,  \* the threads that wait on it
  NotifyAll,  \* TRUE: quit() calls notify_all (indexers); FALSE: notify_one
  MaxPushes   \* bound on the number of pushes

ASSUME ConsumersAssumption == IsFiniteSet(Consumers) /\ Consumers /= {}
ASSUME NotifyAssumption ==
  /\ NotifyAll \in BOOLEAN
  /\ ~NotifyAll => Cardinality(Consumers) = 1
ASSUME PushesAssumption == MaxPushes \in Nat

VARIABLES
  g_quit,          \* std::atomic<bool> g_quit
  count,           \* count[q]: elements in queue q
  pushes,          \* number of pushes so far (bounded by MaxPushes)
  pc,              \* pc[c]: where consumer c is
  quitter,         \* how far quit() has come
  active_threads   \* threads that have entered and not left

vars == <<g_quit, count, pushes, pc, quitter, active_threads>>

\* "run": outside wait().  "locked", "tested": inside wait() with every mutex
\* held, before and after g_quit was loaded as false.  "asleep": blocked in
\* cv.wait().  "woken": notified, wants the mutexes back.  "leaving": wait()
\* returned true.  "left": past threadLeave().
Positions == {"run", "locked", "tested", "asleep", "woken", "leaving", "left"}

Phases == {"serving", "stored", "fenced", "notified", "joined"}

Asleep == {c \in Consumers : pc[c] = "asleep"}

\* A consumer between locking and sleeping or returning holds every mutex.
MutexFree == \A c \in Consumers : pc[c] \notin {"locked", "tested"}

hasState == \E q \in Queues : count[q] > 0

Init ==
  /\ g_quit = FALSE
  /\ count = [q \in Queues |-> 0]
  /\ pushes = 0
  /\ pc = [c \in Consumers |-> "run"]
  /\ quitter = "serving"
  /\ active_threads = Cardinality(Consumers)

Goto(c, to) == pc' = [pc EXCEPT ![c] = to]

NotifyOne ==
  \/ Asleep = {} /\ UNCHANGED pc
  \/ \E c \in Asleep : Goto(c, "woken")

\* push() forgets to notify.
PushMutant(q) ==
  /\ MutexFree /\ pushes < MaxPushes
  /\ pushes' = pushes + 1
  /\ count' = [count EXCEPT ![q] = @ + 1]
  /\ UNCHANGED <<g_quit, pc, quitter, active_threads>>

\* push() by any thread: the element goes in and one sleeper is notified under
\* the queue's mutex.
Push(q) ==
  /\ MutexFree /\ pushes < MaxPushes
  /\ pushes' = pushes + 1
  /\ count' = [count EXCEPT ![q] = @ + 1]
  /\ NotifyOne
  /\ UNCHANGED <<g_quit, quitter, active_threads>>

\* tryPopFront() in indexer_Parse.
Take(c, q) ==
  /\ pc[c] = "run" /\ MutexFree /\ count[q] > 0
  /\ count' = [count EXCEPT ![q] = @ - 1]
  /\ UNCHANGED <<g_quit, pushes, pc, quitter, active_threads>>

\* dequeueAll() in the stdout thread and the main loop.
TakeAll(c, q) ==
  /\ pc[c] = "run" /\ MutexFree
  /\ count' = [count EXCEPT ![q] = 0]
  /\ UNCHANGED <<g_quit, pushes, pc, quitter, active_threads>>

\* wait() locks every queue (std::lock).  The caller found nothing to do in a
\* critical section of its own, which ended before: a push may have come since,
\* and a caller may leave elements where they are ...
Lock(c) ==
  /\ pc[c] = "run" /\ MutexFree
  /\ Goto(c, "locked")
  /\ UNCHANGED <<g_quit, count, pushes, quitter, active_threads>>

\* ... and tests g_quit at the top of its loop ...
TestQuit(c) ==
  /\ pc[c] = "locked"
  /\ Goto(c, IF g_quit THEN "leaving" ELSE "tested")
  /\ UNCHANGED <<g_quit, count, pushes, quitter, active_threads>>

\* It sleeps without looking at the queues again.
TestStateMutant(c) ==
  /\ pc[c] = "tested"
  /\ Goto(c, "asleep")
  /\ UNCHANGED <<g_quit, count, pushes, quitter, active_threads>>

\* ... then the queues: it returns false to the caller, or sleeps and releases
\* the mutexes in one step.
TestState(c) ==
  /\ pc[c] = "tested"
  /\ Goto(c, IF hasState THEN "run" ELSE "asleep")
  /\ UNCHANGED <<g_quit, count, pushes, quitter, active_threads>>

\* A notified sleeper takes the mutexes again and is back at the loop's top.
Relock(c) ==
  /\ pc[c] = "woken" /\ MutexFree
  /\ Goto(c, "locked")
  /\ UNCHANGED <<g_quit, count, pushes, quitter, active_threads>>

\* A condition variable may wake a sleeper for no reason.
SpuriousWake(c) ==
  /\ pc[c] = "asleep"
  /\ Goto(c, "woken")
  /\ UNCHANGED <<g_quit, count, pushes, quitter, active_threads>>

threadLeave(c) ==
  /\ pc[c] = "leaving"
  /\ Goto(c, "left")
  /\ active_threads' = active_threads - 1
  /\ UNCHANGED <<g_quit, count, pushes, quitter>>

\* MessageHandler::exit and the first line of quit().
StoreQuit ==
  /\ quitter = "serving"
  /\ g_quit' = TRUE
  /\ quitter' = "stored"
  /\ UNCHANGED <<count, pushes, pc, active_threads>>

\* The empty critical section is left out.
FenceMutant ==
  /\ quitter = "stored"
  /\ quitter' = "fenced"
  /\ UNCHANGED <<g_quit, count, pushes, pc, active_threads>>

\* { std::lock_guard lock(mutex_); }: nobody is between test and sleep.
Fence ==
  /\ quitter = "stored" /\ MutexFree
  /\ quitter' = "fenced"
  /\ UNCHANGED <<g_quit, count, pushes, pc, active_threads>>

\* Only one sleeper is told to leave.
NotifyQuitMutant ==
  /\ quitter = "fenced"
  /\ NotifyOne
  /\ quitter' = "notified"
  /\ UNCHANGED <<g_quit, count, pushes, active_threads>>

NotifyQuit ==
  /\ quitter = "fenced"
  /\ IF NotifyAll
     THEN pc' = [c \in Consumers |-> IF c \in Asleep THEN "woken" ELSE pc[c]]
     ELSE NotifyOne
  /\ quitter' = "notified"
  /\ UNCHANGED <<g_quit, count, pushes, active_threads>>

\* no_active_threads.wait(lock, [] { return !active_threads; }); then mainLoop
\* returns and destroys the objects the threads use.
Join ==
  /\ quitter = "notified" /\ active_threads = 0
  /\ quitter' = "joined"
  /\ UNCHANGED <<g_quit, count, pushes, pc, active_threads>>

ConsumerStep(c) ==
  \/ \E q \in Queues : Take(c, q) \/ TakeAll(c, q)
  \/ Lock(c) \/ TestQuit(c) \/ TestState(c) \/ Relock(c) \/ threadLeave(c)

Quit == StoreQuit \/ Fence \/ NotifyQuit \/ Join

Next ==
  \/ \E q \in Queues : Push(q)
  \/ \E c \in Consumers : ConsumerStep(c) \/ SpuriousWake(c)
  \/ Quit

\* Every thread that can run does.  Threads compete for the mutexes, and a
\* blocked one gets them again and again while others pass: strong fairness.
\* StoreQuit is the client's choice and unfair.
Fairness ==
  /\ \A c \in Consumers : SF_vars(ConsumerStep(c))
  /\ SF_vars(Fence) /\ WF_vars(NotifyQuit) /\ WF_vars(Join)

Spec == Init /\ [][Next]_vars
FairSpec == Spec /\ Fairness

----------------------------------------------------------------------------
TypeOK ==
  /\ g_quit \in BOOLEAN
  /\ count \in [Queues -> Nat]
  /\ pushes \in Nat
  /\ pc \in [Consumers -> Positions]
  /\ quitter \in Phases
  /\ active_threads \in Nat

\* The critical sections of wait() exclude each other.
Exclusion ==
  \A c, d \in Consumers :
    pc[c] \in {"locked", "tested"} /\ pc[d] \in {"locked", "tested"} => c = d

\* No lost wakeup on push(): while an element waits and the server runs, some
\* consumer is awake.  push() locks one queue's mutex and notify_one wakes one
\* sleeper only; that is enough because a consumer tests every queue with every
\* mutex held before it sleeps.
NoLostWakeup == hasState /\ ~g_quit => Asleep /= Consumers

\* No lost wakeup on quit(): once quit() has notified, no consumer sleeps or
\* can still decide to, although g_quit is stored without the mutex.
QuitReachesAll ==
  quitter \in {"notified", "joined"} =>
    \A c \in Consumers : pc[c] \notin {"asleep", "tested"}

\* When quit() returns, no thread of the pool can touch the objects that
\* mainLoop's return destroys.
JoinMeansLeft == quitter = "joined" => \A c \in Consumers : pc[c] = "left"

\* What the shutdown needs: once stored, g_quit makes every consumer leave and
\* quit() return.
QuitTerminates == quitter = "stored" ~> quitter = "joined"

============================================================================
