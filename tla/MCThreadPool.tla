---------------------------- MODULE MCThreadPool ----------------------------
(***************************************************************************)
(* An instance of ThreadPool for TLC: two workers and three jobs, one more *)
(* than the queue holds.                                                   *)
(***************************************************************************)
EXTENDS ThreadPool

CONSTANTS w1, w2

MCWorkers == {w1, w2}
=============================================================================
