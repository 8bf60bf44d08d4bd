------------------------------ MODULE Progress ------------------------------
(***************************************************************************)
(* The $/progress report of mainLoop() (pipeline.cc:706-743) and the       *)
(* counters it reads (pipeline.hh IndexStats): index() counts a request in *)
(* before it is queued, the indexer that took it counts it out when        *)
(* indexer_Parse returns, after its updates were pushed, and the main      *)
(* thread reports on every turn of its loop that finds a new count.        *)
(*                                                                         *)
(* The counters are atomic and relaxed; enqueued is only changed by the    *)
(* main thread itself, and completed is loaded once per report, so that a  *)
(* report is one step.                                                     *)
(***************************************************************************)
EXTENDS Integers

CONSTANT MaxEnqueued  \* bound on the number of requests

ASSUME BoundAssumption == MaxEnqueued \in Nat

VARIABLES
  enqueued, completed, last_idle,  \* IndexStats
  taken,                           \* requests an indexer has taken
  last_completed,                  \* locals of mainLoop
  work_done_created,
  in_progress,
  sent                             \* the last report to the client

stats == <<enqueued, completed, taken>>
vars == <<stats, last_idle, last_completed, work_done_created, in_progress, sent>>

NoReport == [kind |-> "none", percentage |-> 0]

Init ==
  /\ enqueued = 0 /\ completed = 0 /\ taken = 0
  /\ last_idle = 0 /\ last_completed = 0
  /\ work_done_created = FALSE /\ in_progress = FALSE
  /\ sent = NoReport

\* pipeline::index, called n times by a handler on the main thread.
index(n) ==
  /\ enqueued' = enqueued + n
  /\ enqueued' <= MaxEnqueued
  /\ UNCHANGED <<completed, taken, last_idle, last_completed, work_done_created,
                 in_progress, sent>>

\* tryPopFront by an indexer.
Take ==
  /\ taken < enqueued
  /\ taken' = taken + 1
  /\ UNCHANGED <<enqueued, completed, last_idle, last_completed,
                 work_done_created, in_progress, sent>>

\* ~RAII() by the indexer.
Complete ==
  /\ completed < taken
  /\ completed' = completed + 1
  /\ UNCHANGED <<enqueued, taken, last_idle, last_completed, work_done_created,
                 in_progress, sent>>

\* The value of the progress bar.
percentage == (100 * (completed - last_idle)) \div (enqueued - last_idle)

\* in_progress is not set.
ReportBusyMutant ==
  /\ completed /= last_completed /\ completed /= enqueued
  /\ sent' = [kind |-> "report", percentage |-> percentage]
  /\ last_completed' = completed
  /\ work_done_created' = TRUE
  /\ UNCHANGED <<stats, last_idle, in_progress>>

\* Something was done and something is left: "begin" if need be, and "report".
ReportBusy ==
  /\ completed /= last_completed /\ completed /= enqueued
  /\ in_progress' = TRUE
  /\ sent' = [kind |-> "report", percentage |-> percentage]
  /\ last_completed' = completed
  /\ work_done_created' = TRUE
  /\ UNCHANGED <<stats, last_idle>>

\* The idle mark is set ahead of what is completed.
ReportIdleMutant ==
  /\ completed /= last_completed
  /\ last_idle' = enqueued
  /\ sent' = [kind |-> "end", percentage |-> 0]
  /\ in_progress' = FALSE
  /\ last_completed' = completed
  /\ work_done_created' = TRUE
  /\ UNCHANGED stats

\* All is done: "end", if there was a beginning.
ReportIdle ==
  /\ completed /= last_completed /\ completed = enqueued
  /\ IF in_progress
     THEN /\ last_idle' = enqueued
          /\ sent' = [kind |-> "end", percentage |-> 0]
     ELSE UNCHANGED <<last_idle, sent>>
  /\ in_progress' = FALSE
  /\ last_completed' = completed
  /\ work_done_created' = TRUE
  /\ UNCHANGED stats

Report == ReportBusy \/ ReportIdle

Next == (\E n \in Nat : index(n)) \/ Take \/ Complete \/ Report

Spec == Init /\ [][Next]_vars

----------------------------------------------------------------------------
Kinds == {"none", "report", "end"}

\* The counters keep their order, which makes every difference in a report
\* non-negative and its divisor positive.
CountersInOrder ==
  /\ 0 <= last_idle /\ last_idle <= last_completed
  /\ last_completed <= completed /\ completed <= taken /\ taken <= enqueued

TypeOK ==
  /\ enqueued \in Nat /\ completed \in Nat /\ taken \in Nat
  /\ last_idle \in Nat /\ last_completed \in Nat
  /\ work_done_created \in BOOLEAN /\ in_progress \in BOOLEAN
  /\ sent \in [kind : Kinds, percentage : Nat]

\* What the client is shown is a percentage, and short of 100 while work is left
\* (pipeline.cc:727): no division by zero, no negative count.
PercentageInRange == sent.percentage \in 0..99

\* The client sees work in progress exactly between a report and the next end,
\* and only while the count it was told lags behind.
ShownInProgress ==
  /\ in_progress <=> sent.kind = "report"
  /\ in_progress => last_completed < enqueued
============================================================================
