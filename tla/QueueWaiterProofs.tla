------------------------- MODULE QueueWaiterProofs -------------------------
(***************************************************************************)
(* Proofs about QueueWaiter for any set of queues, any finite set of       *)
(* consumers and any number of pushes: no wakeup is lost on push() or on   *)
(* quit(), and quit() returns only after every thread has left.            *)
(***************************************************************************)
EXTENDS QueueWaiter, FiniteSetTheorems, TLAPS

Staying == {c \in Consumers : pc[c] /= "left"}

\* What each stage of quit() has established: g_quit is stored first; past the
\* fence nobody sits between test and sleep; past the notification nobody sleeps.
QuitStages ==
  /\ quitter /= "serving" => g_quit
  /\ quitter \in {"fenced", "notified", "joined"} =>
       \A c \in Consumers : pc[c] /= "tested"
  /\ quitter \in {"notified", "joined"} => \A c \in Consumers : pc[c] /= "asleep"

\* active_threads counts the threads that have not left.
ActiveCounts ==
  /\ active_threads = Cardinality(Staying)
  /\ quitter = "joined" => active_threads = 0

IInv == TypeOK /\ Exclusion /\ NoLostWakeup /\ QuitStages /\ ActiveCounts

----------------------------------------------------------------------------
LEMMA StayingFinite == IsFiniteSet(Staying)
  BY ConsumersAssumption, FS_Subset DEF Staying

LEMMA InitIInv == Init => IInv
<1> SUFFICES ASSUME Init PROVE IInv
  OBVIOUS
<1> USE DEF Init
<1>1. active_threads \in Nat /\ active_threads = Cardinality(Staying)
  <2>1. Staying = Consumers
    BY DEF Staying
  <2> QED
    BY <2>1, ConsumersAssumption, FS_CardinalityType
<1>2. TypeOK
  BY <1>1 DEF TypeOK, Positions, Phases
<1>3. NoLostWakeup
  BY DEF NoLostWakeup, hasState
<1> QED
  BY <1>1, <1>2, <1>3 DEF IInv, Exclusion, QuitStages, ActiveCounts

\* NotifyOne wakes a sleeper if there is one, and changes nothing else.
LEMMA NotifyOneWakes ==
  ASSUME TypeOK, NotifyOne
  PROVE  /\ pc' \in [Consumers -> Positions]
         /\ \A c \in Consumers : pc'[c] = pc[c] \/ (pc[c] = "asleep" /\ pc'[c] = "woken")
         /\ Asleep /= {} => \E c \in Asleep : pc'[c] = "woken"
  BY DEF TypeOK, NotifyOne, Goto, Asleep, Positions

LEMMA PushStep == ASSUME IInv, NEW q \in Queues, Push(q) PROVE IInv'
<1> USE DEF IInv, Push
<1>1. /\ pc' \in [Consumers -> Positions]
      /\ \A c \in Consumers : pc'[c] = pc[c] \/ (pc[c] = "asleep" /\ pc'[c] = "woken")
      /\ Asleep /= {} => \E c \in Asleep : pc'[c] = "woken"
  BY NotifyOneWakes
<1>2. TypeOK'
  BY <1>1 DEF TypeOK
<1>3. Exclusion'
  BY <1>1 DEF Exclusion
<1>4. NoLostWakeup'
  <2>1. Asleep' /= Consumers
    BY <1>1, ConsumersAssumption DEF Asleep
  <2> QED
    BY <2>1 DEF NoLostWakeup
<1>5. QuitStages'
  BY <1>1 DEF QuitStages
<1>6. ActiveCounts'
  <2>1. Staying' = Staying
    BY <1>1 DEF Staying
  <2> QED
    BY <2>1 DEF ActiveCounts
<1> QED
  BY <1>2, <1>3, <1>4, <1>5, <1>6

LEMMA TakeStep ==
  ASSUME IInv, NEW c \in Consumers, NEW q \in Queues, Take(c, q) \/ TakeAll(c, q)
  PROVE  IInv'
<1> USE DEF IInv, Take, TakeAll
<1>1. TypeOK'
  BY DEF TypeOK
<1>2. NoLostWakeup'
  BY DEF TypeOK, NoLostWakeup, hasState, Asleep
<1> QED
  BY <1>1, <1>2 DEF Exclusion, QuitStages, ActiveCounts, Staying

\* The steps of wait() and the spurious wakeup move one consumer that stays.
LEMMA WaitStep ==
  ASSUME IInv, NEW c \in Consumers,
         Lock(c) \/ TestQuit(c) \/ TestState(c) \/ Relock(c) \/ SpuriousWake(c)
  PROVE  IInv'
<1> USE DEF IInv
<1>1. UNCHANGED <<g_quit, count, pushes, quitter, active_threads>>
  BY DEF Lock, TestQuit, TestState, Relock, SpuriousWake
<1>2. \E to \in Positions \ {"left"} : pc[c] /= "left" /\ pc' = [pc EXCEPT ![c] = to]
  BY DEF Lock, TestQuit, TestState, Relock, SpuriousWake, Goto, Positions
<1>3. TypeOK'
  BY <1>1, <1>2 DEF TypeOK
<1>4. Exclusion'
  BY <1>3 DEF TypeOK, Exclusion, Lock, TestQuit, TestState, Relock, SpuriousWake,
              Goto, MutexFree
<1>5. NoLostWakeup'
  <2>1. CASE TestState(c)
    BY <2>1, <1>1 DEF TypeOK, NoLostWakeup, TestState, Goto, hasState, Asleep
  <2>2. CASE ~TestState(c)
    BY <2>2, <1>1 DEF TypeOK, NoLostWakeup, Lock, TestQuit, Relock, SpuriousWake,
                      Goto, hasState, Asleep
  <2> QED
    BY <2>1, <2>2
<1>6. QuitStages'
  <2>1. CASE TestState(c)
    BY <2>1, <1>1 DEF TypeOK, QuitStages, TestState, Goto
  <2>2. CASE TestQuit(c)
    BY <2>2, <1>1 DEF TypeOK, QuitStages, TestQuit, Goto
  <2>3. CASE Lock(c) \/ Relock(c) \/ SpuriousWake(c)
    BY <2>3, <1>1 DEF TypeOK, QuitStages, Lock, Relock, SpuriousWake, Goto
  <2> QED
    BY <2>1, <2>2, <2>3
<1>7. ActiveCounts'
  <2>1. Staying' = Staying
    BY <1>2 DEF TypeOK, Staying
  <2> QED
    BY <2>1, <1>1 DEF ActiveCounts
<1> QED
  BY <1>3, <1>4, <1>5, <1>6, <1>7

LEMMA LeaveStep == ASSUME IInv, NEW c \in Consumers, threadLeave(c) PROVE IInv'
<1> USE DEF IInv, threadLeave, Goto
<1>1. Staying' = Staying \ {c} /\ c \in Staying
  BY DEF TypeOK, Staying
<1>2. /\ Cardinality(Staying') = Cardinality(Staying) - 1
      /\ Cardinality(Staying) \in Nat \ {0}
  BY <1>1, StayingFinite, FS_RemoveElement, FS_CardinalityType, FS_EmptySet
<1>3. TypeOK'
  BY <1>2 DEF TypeOK, ActiveCounts, Positions
<1>4. ActiveCounts'
  BY <1>2 DEF ActiveCounts
<1>5. Exclusion' /\ QuitStages'
  BY DEF TypeOK, Exclusion, QuitStages
<1>6. NoLostWakeup'
  BY DEF TypeOK, NoLostWakeup, hasState, Asleep
<1> QED
  BY <1>3, <1>4, <1>5, <1>6

LEMMA QuitStep == ASSUME IInv, Quit PROVE IInv'
<1> USE DEF IInv
<1>1. CASE StoreQuit
  BY <1>1 DEF StoreQuit, TypeOK, Exclusion, NoLostWakeup, QuitStages, ActiveCounts,
              Staying, Phases
<1>2. CASE Fence
  BY <1>2 DEF Fence, MutexFree, TypeOK, Exclusion, NoLostWakeup, hasState, Asleep,
              QuitStages, ActiveCounts, Staying, Phases
<1>3. CASE NotifyQuit
  <2> USE <1>3 DEF NotifyQuit
  <2>1. /\ pc' \in [Consumers -> Positions]
        /\ \A c \in Consumers : pc'[c] = pc[c] \/ (pc[c] = "asleep" /\ pc'[c] = "woken")
    BY NotifyOneWakes DEF TypeOK, Asleep, Positions
  <2>2. \A c \in Consumers : pc'[c] /= "asleep"
    <3>1. CASE NotifyAll
      BY <3>1 DEF TypeOK, Asleep
    <3>2. CASE ~NotifyAll
      <4>1. PICK d : Consumers = {d}
        BY <3>2, ConsumersAssumption, NotifyAssumption, FS_Singleton
      <4>2. Asleep /= {} => pc'[d] = "woken"
        BY <3>2, <4>1, NotifyOneWakes DEF Asleep
      <4> QED
        BY <4>1, <4>2, <2>1 DEF Asleep
    <3> QED
      BY <3>1, <3>2
  <2>3. TypeOK'
    BY <2>1 DEF TypeOK, Phases
  <2>4. Exclusion' /\ QuitStages'
    BY <2>1, <2>2 DEF Exclusion, QuitStages
  <2>5. NoLostWakeup'
    BY <2>2, ConsumersAssumption DEF NoLostWakeup, Asleep
  <2>6. Staying' = Staying
    BY <2>1 DEF Staying
  <2> QED
    BY <2>3, <2>4, <2>5, <2>6 DEF ActiveCounts
<1>4. CASE Join
  BY <1>4 DEF Join, TypeOK, Exclusion, NoLostWakeup, hasState, Asleep,
              QuitStages, ActiveCounts, Staying, Phases
<1> QED
  BY <1>1, <1>2, <1>3, <1>4 DEF Quit

\* The invariant is inductive.
THEOREM Inductive == Spec => []IInv
<1>1. IInv /\ [Next]_vars => IInv'
  <2> SUFFICES ASSUME IInv, [Next]_vars PROVE IInv'
    OBVIOUS
  <2>1. CASE \E q \in Queues : Push(q)
    BY <2>1, PushStep
  <2>2. CASE \E c \in Consumers : ConsumerStep(c) \/ SpuriousWake(c)
    BY <2>2, TakeStep, WaitStep, LeaveStep DEF ConsumerStep
  <2>3. CASE Quit
    BY <2>3, QuitStep
  <2>4. CASE UNCHANGED vars
    BY <2>4 DEF vars, IInv, TypeOK, Exclusion, NoLostWakeup, hasState, Asleep,
                QuitStages, ActiveCounts, Staying
  <2> QED
    BY <2>1, <2>2, <2>3, <2>4 DEF Next
<1> QED
  BY InitIInv, <1>1, PTL DEF Spec

\* The variables keep their types; active_threads never falls below zero.
THEOREM TypesHold == Spec => []TypeOK
<1>1. IInv => TypeOK
  BY DEF IInv
<1> QED
  BY Inductive, <1>1, PTL

\* The critical sections of wait() exclude each other.
THEOREM ExclusionHolds == Spec => []Exclusion
<1>1. IInv => Exclusion
  BY DEF IInv
<1> QED
  BY Inductive, <1>1, PTL

\* push() wakes one thread and that is enough: while an element waits and the
\* server runs, not every consumer sleeps.
THEOREM NoWakeupLost == Spec => []NoLostWakeup
<1>1. IInv => NoLostWakeup
  BY DEF IInv
<1> QED
  BY Inductive, <1>1, PTL

\* quit() reaches every consumer although it stores g_quit without the mutex.
THEOREM QuitReaches == Spec => []QuitReachesAll
<1>1. IInv => QuitReachesAll
  BY DEF IInv, QuitStages, QuitReachesAll
<1> QED
  BY Inductive, <1>1, PTL

\* quit() returns only when every thread of the pool is past threadLeave().
THEOREM JoinIsSafe == Spec => []JoinMeansLeft
<1>1. IInv => JoinMeansLeft
  <2> SUFFICES ASSUME IInv, quitter = "joined", NEW c \in Consumers
               PROVE  pc[c] = "left"
    BY DEF JoinMeansLeft
  <2>1. Staying = {}
    BY StayingFinite, FS_EmptySet DEF IInv, ActiveCounts
  <2> QED
    BY <2>1 DEF Staying
<1> QED
  BY Inductive, <1>1, PTL
============================================================================
