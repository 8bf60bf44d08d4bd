--------------------------- MODULE ThreadedQueue ---------------------------
(***************************************************************************)
(* One ccls::ThreadedQueue<T> (threaded_queue.hh): two deques, `priority_' *)
(* and `queue_', and the atomic `total_count_' that size() and isEmpty()   *)
(* read without the mutex.  Every operation runs under `mutex_', so each   *)
(* is one action.  Elements are the numbers of their pushes, which makes   *)
(* loss, duplication and reordering visible.  Blocking and waking is the   *)
(* subject of module QueueWaiter.                                          *)
(*                                                                         *)
(* Operators whose name ends in Mutant are seeded defects: what the action *)
(* after them would be with one plausible mistake.  No action uses them.   *)
(***************************************************************************)
EXTENDS Naturals, Sequences, FiniteSets

CONSTANTS
  Keep,      \* the argument keep_only_latest of dequeue(); 0 keeps everything
  MaxPushes  \* bound on the number of pushes

ASSUME KeepAssumption == Keep \in Nat
ASSUME MaxPushesAssumption == MaxPushes \in Nat

VARIABLES
  priority_,     \* deque of urgent elements
  queue_,        \* deque of ordinary elements
  total_count_,  \* what size() returns
  pushed,        \* number of pushes so far: the name of the newest element
  urgent,        \* history: the elements pushed with priority = true
  taken,         \* history: the elements handed to consumers, in order
  erased         \* history: the elements keep_only_latest erased

vars == <<priority_, queue_, total_count_, pushed, urgent, taken, erased>>

----------------------------------------------------------------------------
Elements(s) == {s[i] : i \in DOMAIN s}

\* What dequeue() leaves of a deque before it takes the front: the newest Keep.
Latest(q) == IF Keep > 0 /\ Len(q) > Keep
             THEN SubSeq(q, Len(q) - Keep + 1, Len(q))
             ELSE q

Init ==
  /\ priority_ = <<>> /\ queue_ = <<>>
  /\ total_count_ = 0
  /\ pushed = 0
  /\ urgent = {} /\ taken = <<>> /\ erased = {}

\* An urgent element is not counted.
pushMutant(priority) ==
  /\ pushed < MaxPushes
  /\ pushed' = pushed + 1
  /\ priority_' = IF priority THEN Append(priority_, pushed + 1) ELSE priority_
  /\ queue_' = IF priority THEN queue_ ELSE Append(queue_, pushed + 1)
  /\ urgent' = IF priority THEN urgent \cup {pushed + 1} ELSE urgent
  /\ total_count_' = IF priority THEN total_count_ ELSE total_count_ + 1
  /\ UNCHANGED <<taken, erased>>

push(priority) ==
  /\ pushed < MaxPushes
  /\ pushed' = pushed + 1
  /\ priority_' = IF priority THEN Append(priority_, pushed + 1) ELSE priority_
  /\ queue_' = IF priority THEN queue_ ELSE Append(queue_, pushed + 1)
  /\ urgent' = IF priority THEN urgent \cup {pushed + 1} ELSE urgent
  /\ total_count_' = total_count_ + 1
  /\ UNCHANGED <<taken, erased>>

\* The ordinary elements are copied out but stay in their deque.
dequeueAllMutant ==
  /\ total_count_' = 0
  /\ taken' = taken \o priority_ \o queue_
  /\ priority_' = <<>>
  /\ UNCHANGED <<queue_, pushed, urgent, erased>>

dequeueAll ==
  /\ total_count_' = 0
  /\ taken' = taken \o priority_ \o queue_
  /\ priority_' = <<>> /\ queue_' = <<>>
  /\ UNCHANGED <<pushed, urgent, erased>>

\* dequeue(): the `execute' lambda on the urgent deque if it has an element,
\* else on the ordinary one; it blocks while both are empty.  The counter loses
\* one however many elements are erased.
dequeueUrgent ==
  /\ priority_ /= <<>>
  /\ LET q == Latest(priority_) IN
     /\ taken' = Append(taken, Head(q))
     /\ priority_' = Tail(q)
     /\ erased' = erased \cup (Elements(priority_) \ Elements(q))
  /\ total_count_' = total_count_ - 1
  /\ UNCHANGED <<queue_, pushed, urgent>>

dequeueOrdinary ==
  /\ priority_ = <<>> /\ queue_ /= <<>>
  /\ LET q == Latest(queue_) IN
     /\ taken' = Append(taken, Head(q))
     /\ queue_' = Tail(q)
     /\ erased' = erased \cup (Elements(queue_) \ Elements(q))
  /\ total_count_' = total_count_ - 1
  /\ UNCHANGED <<priority_, pushed, urgent>>

\* tryPopFront() takes the newest ordinary element.
tryPopOrdinaryMutant ==
  /\ priority_ = <<>> /\ queue_ /= <<>>
  /\ taken' = Append(taken, queue_[Len(queue_)])
  /\ queue_' = SubSeq(queue_, 1, Len(queue_) - 1)
  /\ total_count_' = total_count_ - 1
  /\ UNCHANGED <<priority_, pushed, urgent, erased>>

tryPopOrdinary ==
  /\ priority_ = <<>> /\ queue_ /= <<>>
  /\ taken' = Append(taken, Head(queue_))
  /\ queue_' = Tail(queue_)
  /\ total_count_' = total_count_ - 1
  /\ UNCHANGED <<priority_, pushed, urgent, erased>>

tryPopUrgent ==
  /\ priority_ /= <<>>
  /\ taken' = Append(taken, Head(priority_))
  /\ priority_' = Tail(priority_)
  /\ total_count_' = total_count_ - 1
  /\ UNCHANGED <<queue_, pushed, urgent, erased>>

Next ==
  \/ \E priority \in BOOLEAN : push(priority)
  \/ dequeueAll
  \/ dequeueUrgent \/ dequeueOrdinary
  \/ tryPopUrgent \/ tryPopOrdinary

Spec == Init /\ [][Next]_vars

----------------------------------------------------------------------------
Pending == Elements(priority_) \cup Elements(queue_)

ClassOf(e) == IF e \in urgent THEN urgent ELSE 1..pushed \ urgent

\* Types: the deques and the histories hold names of pushes made so far, and
\* the counter, an atomic<int>, never goes below zero.
TypeOK ==
  /\ priority_ \in Seq(1..pushed) /\ queue_ \in Seq(1..pushed)
  /\ total_count_ \in Nat
  /\ pushed \in Nat
  /\ urgent \subseteq 1..pushed
  /\ taken \in Seq(1..pushed)
  /\ erased \subseteq 1..pushed

\* threaded_queue.hh:87 and 125: size() is the number of elements, isEmpty()
\* tells whether there are none.
CountIsSize == total_count_ = Len(priority_) + Len(queue_)

\* The counter never reports fewer elements than there are, so isEmpty() never
\* hides an element from the consumer that is about to sleep on it, whatever
\* keep_only_latest erased before.
CountCoversSize == total_count_ >= Len(priority_) + Len(queue_)

\* Every element pushed is waiting, was handed to exactly one consumer, or was
\* erased by keep_only_latest: none is lost and none is handed out twice.
ExactlyOnce ==
  /\ 1..pushed = Pending \cup Elements(taken) \cup erased
  /\ Len(priority_) + Len(queue_) + Len(taken) + Cardinality(erased) = pushed

\* Within one class (urgent or not) elements come out in the order they went
\* in: an element handed out is older than every element of its class that is
\* handed out after it or still waits.
ClassOrder ==
  \A i \in DOMAIN taken :
    \A e \in Elements(SubSeq(taken, i + 1, Len(taken))) \cup Pending :
      e \in ClassOf(taken[i]) => taken[i] < e

============================================================================
