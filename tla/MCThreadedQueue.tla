-------------------------- MODULE MCThreadedQueue --------------------------
(* Instances of ThreadedQueue: the queues that keep everything, and the     *)
(* queue of preambles, which keeps the session.maxNum newest tasks.         *)
EXTENDS ThreadedQueue
============================================================================
