--------------------------- MODULE MCQueueWaiter ---------------------------
(* An instance of QueueWaiter: three consumers of two queues. *)
EXTENDS QueueWaiter
============================================================================
