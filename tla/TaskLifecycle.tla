---------------------------- MODULE TaskLifecycle ----------------------------
(***************************************************************************)
(* What a reader of TaskJob objects is promised, whatever caches, faults   *)
(* and restarts do behind it: an incarnation of a task moves freely among  *)
(* the phases "", Queued and Running, ends in Completed or Failed at most  *)
(* once, and never leaves that phase.  A task whose work has not been done *)
(* does not become Completed.                                              *)
(***************************************************************************)
EXTENDS Naturals

CONSTANT Task

VARIABLES phase,  \* phase[t]: the phase a reader sees, or "absent"
          done    \* the tasks some Pod of which has Succeeded

Open == {"", "Queued", "Running"}
Closed == {"Completed", "Failed"}

Init == phase = [t \in Task |-> "absent"] /\ done = {}

Appear(t) == phase[t] = "absent" /\ phase' = [phase EXCEPT ![t] = ""]
Vanish(t) == phase[t] # "absent" /\ phase' = [phase EXCEPT ![t] = "absent"]
Move(t) ==
    /\ phase[t] \in Open
    /\ \E p \in (Open \ {""}) \cup Closed :
         /\ p = "Completed" => t \in done
         /\ phase' = [phase EXCEPT ![t] = p]

Next ==
    \/ \E t \in Task : (Appear(t) \/ Vanish(t) \/ Move(t)) /\ UNCHANGED done
    \/ \E t \in Task : done' = done \cup {t} /\ UNCHANGED phase

Spec == Init /\ [][Next]_<<phase, done>>
=============================================================================
