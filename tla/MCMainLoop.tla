----------------------------- MODULE MCMainLoop -----------------------------
(* An instance of MainLoop: two requests for either of two files. *)
EXTENDS MainLoop
============================================================================
