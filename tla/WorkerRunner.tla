---------------------------- MODULE WorkerRunner ----------------------------
(***************************************************************************)
(* The worker: worker/runner.py.  One process runs one command and reports *)
(* it through Redis.  log and set_status each send two commands, the       *)
(* second of which only publishes; any of them may raise, and from then on *)
(* others may still work.                                                  *)
(***************************************************************************)
EXTENDS Naturals

CONSTANT MaxLines     \* bound: lines of output

ASSUME WorkerAssumption == MaxLines \in Nat

VARIABLES
    workerPc,    \* the next call of run_task
    exitCode,    \* of the command: "none" until it ends
    status,      \* cloudos:status, as Redis has it
    lines,       \* lines of output that were logged
    faults       \* a command to Redis has raised

workerVars == <<workerPc, exitCode, status, lines, faults>>

WorkerInit ==
    /\ workerPc = "start"
    /\ exitCode = "none"
    /\ status = "none"
    /\ lines = 0
    /\ faults = FALSE

\* Mutant: an exception on the way to the final status is passed over.
HandlerPcSkips ==
    CASE workerPc \in {"start", "running", "except", "exceptStatus"} -> "crashed"
      [] workerPc = "output" -> "except"
      [] OTHER -> "done"

\* Where an exception leads: the try of run_task begins after "running" was set.
HandlerPc == IF workerPc \in {"start", "running", "except", "exceptStatus"} THEN "crashed" ELSE "except"

\* log: rpush and publish, and the next call; or one of them raises.
log(from, to) ==
    /\ workerPc = from
    /\ \/ workerPc' = to /\ UNCHANGED faults
       \/ workerPc' = HandlerPc /\ faults' = TRUE
    /\ UNCHANGED <<exitCode, status, lines>>

\* set_status: SET may raise, before or after Redis has run it, and so may the
\* publish that follows.
set_status(from, value, to) ==
    /\ workerPc = from
    /\ \/ workerPc' = to /\ status' = value /\ UNCHANGED faults
       \/ workerPc' = HandlerPc /\ faults' = TRUE /\ status' \in {status, value}
    /\ UNCHANGED <<exitCode, lines>>

\* A line of output is read and logged.
OutputLine ==
    /\ lines < MaxLines
    /\ lines' = lines + 1
    /\ workerPc = "output"
    /\ \/ UNCHANGED <<workerPc, faults>>
       \/ workerPc' = HandlerPc /\ faults' = TRUE
    /\ UNCHANGED <<exitCode, status>>

\* The command ends and process.wait returns; or Popen raises, or the reading of
\* output that is not text does.
CommandEnds ==
    /\ workerPc = "output"
    /\ \/ /\ exitCode' \in {"zero", "nonzero"}
          /\ workerPc' = "ended"
       \/ /\ workerPc' = "except"
          /\ UNCHANGED exitCode
    /\ UNCHANGED <<status, lines, faults>>

run_task ==
    \/ log("start", "running")
    \/ set_status("running", "running", "output")
    \/ OutputLine
    \/ CommandEnds
    \/ log("ended", "report")
    \/ exitCode = "zero" /\ set_status("report", "completed", "done")
    \/ exitCode = "nonzero" /\ set_status("report", "failed", "done")
    \/ log("except", "exceptStatus")
    \/ set_status("exceptStatus", "failed", "done")

WorkerNext == run_task
-----------------------------------------------------------------------------
\* "completed" is only ever set for a command that ended with 0; a run that ends
\* without crashing has set a final status; and if Redis never failed, that status
\* is "completed" exactly for a command that was seen to end with 0.
WorkerTellsTheTruth ==
    /\ status = "completed" => exitCode = "zero"
    /\ workerPc = "done" => status \in {"completed", "failed"}
    /\ workerPc = "done" /\ ~faults => (status = "completed" <=> exitCode = "zero")
=============================================================================
