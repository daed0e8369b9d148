------------------------------ MODULE MCGateway ------------------------------
(***************************************************************************)
(* Three instances of Gateway, one per behaviour.  "limiter" is without a  *)
(* client of Module 1: the pipelines of the limiter are lost, late and     *)
(* sent again.  "module1" is without a limiter: the calls of Module 1 are. *)
(* "chain" has both, with pipelines that Redis answers in time and clients *)
(* that wait.  Either limit can be the one that binds.                     *)
(***************************************************************************)
EXTENDS Gateway

VARIABLE part

MCLimits == {<<1, 2>>, <<2, 1>>}

MCInit ==
    /\ Init
    /\ part \in {"limiter", "module1", "chain"}
    /\ limiter = (part # "module1") /\ client = (part # "limiter")
    /\ part = "module1" => limits = <<1, 2>>

MCNext ==
    /\ Next
    /\ part = "limiter" => UNCHANGED mockVars
    /\ part = "module1" => UNCHANGED now
    /\ part = "chain" => unread' = {} /\ \A r \in Request : req'[r].sent \in {0, 1} /\ ~req'[r].expired
    /\ UNCHANGED part

MCSpec == MCInit /\ [][MCNext]_<<vars, part>> /\ Fairness
=============================================================================
