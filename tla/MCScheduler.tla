----------------------------- MODULE MCScheduler -----------------------------
(***************************************************************************)
(* The Python scheduler alone, with one thread.                            *)
(***************************************************************************)
EXTENDS SchedulerApi

MCTotal == [n1 |-> 3]
MCSize == [a |-> 1, b |-> 1]
=============================================================================
