--------------------------- MODULE MC_WorkQueue -----------------------------
(* An instance of WorkQueue for liveness and the free functions: a ring of    *)
(* two slots wraps and fills with three jobs.                                 *)
EXTENDS WorkQueue
=============================================================================
