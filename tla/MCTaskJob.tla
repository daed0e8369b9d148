------------------------------ MODULE MCTaskJob ------------------------------
(***************************************************************************)
(* Instances of TaskJobController: independent tasks, and a chain of two.  *)
(***************************************************************************)
EXTENDS TaskJobController

CONSTANTS prep, side, train

NoDependencies == [t \in Task |-> <<>>]
TrainAfterPrep == [t \in Task |-> IF t = train THEN <<prep>> ELSE <<>>]
=============================================================================
