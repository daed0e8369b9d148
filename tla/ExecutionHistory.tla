-------------------------- MODULE ExecutionHistory --------------------------
(***************************************************************************)
(* The history of executions in PostgreSQL:                                *)
(* module2-orchestrator/pkg/storage/postgres.go.                           *)
(*                                                                         *)
(* Every call is a check of ps.closed and one statement.  The statement is *)
(* atomic and may fail before it has run, or after, when its answer is     *)
(* lost; the caller then repeats the call.  Executions are known by what   *)
(* the caller names, a task and a pod, and may share both: the operator    *)
(* has one pod name for all attempts of a CloudTask.  They follow each     *)
(* other or overlap (an old pod reports late), and a reader pages through  *)
(* the history of the tenant with a filter meanwhile.                      *)
(***************************************************************************)
EXTENDS Naturals, Sequences, FiniteSets

CONSTANTS Execution,
          TaskOf,      \* TaskOf[e]: the task that e is an execution of
          PodOf,       \* PodOf[e]: the name of its pod
          Instant,     \* the values of created_at
          Filter,      \* TaskFilter: [status, onlyFailed, start, end, pods]
          PageSize,    \* filter.Limit
          MaxRows      \* bound: rows of the table

ASSUME HistoryAssumption ==
    /\ DOMAIN TaskOf = Execution
    /\ DOMAIN PodOf = Execution
    /\ Instant \subseteq Nat
    /\ PageSize \in Nat \ {0}
    /\ MaxRows \in Nat

VARIABLES
    rows,          \* the table: [task, pod, status, created], and the execution it is of
    dbOpen,        \* the pool of connections is open
    storeClosed,   \* ps.closed
    execution,     \* execution[e]: [outcome, acked]
    reader         \* [pc, filter, offset, began, seen, left]

historyVars == <<rows, dbOpen, storeClosed, execution, reader>>

Outcome == {"Completed", "Failed"}

\* The conditions of GetTaskHistory: a status, only failures, the first and the
\* last instant (0 for none), and the pods whose name has the text asked for.
Fulfils(row, f) ==
    /\ f.status \in {"any", row.status}
    /\ f.onlyFailed => row.status = "Failed"
    /\ f.start <= row.created
    /\ f.end = 0 \/ row.created <= f.end
    /\ row.pod \in f.pods

Selected(f) == {i \in DOMAIN rows : Fulfils(rows[i], f)}

HistoryInit ==
    /\ rows = <<>>
    /\ dbOpen = TRUE
    /\ storeClosed = FALSE
    /\ execution = [e \in Execution |-> [outcome |-> "none", acked |-> FALSE]]
    /\ reader = [pc |-> "idle", filter |-> "none", offset |-> 0, began |-> {}, seen |-> {}, left |-> FALSE]

\* INSERT of a row that is Running.  created_at is the time at which the statement
\* began: rows do not appear in its order, and two may have the same.
RecordTaskStart(e, created) ==
    /\ execution[e].outcome = "none"
    /\ dbOpen /\ ~storeClosed
    /\ Len(rows) < MaxRows
    /\ rows' = Append(rows, [task |-> TaskOf[e], pod |-> PodOf[e], status |-> "Running",
                             created |-> created, execution |-> e])
    /\ UNCHANGED <<dbOpen, storeClosed, execution, reader>>

\* The pod ends, whether its start was recorded or not.
PodEnds(e, outcome) ==
    /\ execution[e].outcome = "none"
    /\ execution' = [execution EXCEPT ![e].outcome = outcome]
    /\ UNCHANGED <<rows, dbOpen, storeClosed, reader>>

\* Mutant: the condition on pod_name is missing.
MatchesTask(row, e, outcome) == row.task = TaskOf[e] /\ row.status # outcome

\* WHERE pod_name = ... AND task_id = ... AND status != ...
Matches(row, e, outcome) == row.pod = PodOf[e] /\ row.task = TaskOf[e] /\ row.status # outcome

\* RecordTaskCompletion and RecordTaskFailure: an error if no row matched.  A reader
\* notes that a row left its result.
RecordOutcome(e, outcome) ==
    LET matched == {i \in DOMAIN rows : Matches(rows[i], e, outcome)}
    IN  /\ execution[e].outcome = outcome
        /\ dbOpen /\ ~storeClosed
        /\ rows' = [i \in DOMAIN rows |-> IF i \in matched THEN [rows[i] EXCEPT !.status = outcome] ELSE rows[i]]
        /\ execution' \in {execution, [execution EXCEPT ![e].acked = @ \/ matched # {}]}
        /\ reader' = [reader EXCEPT !.left = @ \/ (reader.pc = "reading" /\
                                     \E i \in Selected(reader.filter) : ~Fulfils(rows'[i], reader.filter))]
        /\ UNCHANGED <<dbOpen, storeClosed>>

RecordTaskCompletion(e) == RecordOutcome(e, "Completed")
RecordTaskFailure(e) == RecordOutcome(e, "Failed")

\* The places that the rows of one instant take in the result, the newest first.
Places(f, created) ==
    LET newer == Cardinality({i \in Selected(f) : rows[i].created > created})
    IN  newer + 1..newer + Cardinality({i \in Selected(f) : rows[i].created = created})

\* Mutant: the offset is off by one.
PagesOffByOne(f, offset) ==
    {page \in SUBSET Selected(f) :
        \A created \in Instant :
            Cardinality({i \in page : rows[i].created = created})
                = Cardinality(Places(f, created) \cap (offset + 2..offset + 1 + PageSize))}

\* ORDER BY created_at DESC LIMIT ... OFFSET ...: the pages it may return.  Rows of
\* one instant are in no certain order, nor in the same one for every page.
Pages(f, offset) ==
    {page \in SUBSET Selected(f) :
        \A created \in Instant :
            Cardinality({i \in page : rows[i].created = created})
                = Cardinality(Places(f, created) \cap (offset + 1..offset + PageSize))}

\* The reader asks for the first page, or with the same filter for the next one; a short page is the last.
GetTaskHistory(f) ==
    /\ dbOpen /\ ~storeClosed
    /\ reader.pc = "idle" \/ (reader.pc = "reading" /\ f = reader.filter)
    /\ \E page \in Pages(f, reader.offset) :
           reader' = [reader EXCEPT !.pc = IF Cardinality(page) < PageSize THEN "done" ELSE "reading",
                                    !.filter = f,
                                    !.offset = @ + PageSize,
                                    !.began = IF reader.pc = "idle" THEN Selected(f) ELSE @,
                                    !.seen = @ \cup page]
    /\ UNCHANGED <<rows, dbOpen, storeClosed, execution>>

\* ps.closed is set only if the pool could be closed, which it is in any case.
CloseStore ==
    /\ ~storeClosed
    /\ dbOpen' = FALSE
    /\ storeClosed' \in {TRUE, ~dbOpen}
    /\ UNCHANGED <<rows, execution, reader>>

ExecutionNext(e) ==
    \/ \E created \in Instant : RecordTaskStart(e, created)
    \/ \E outcome \in Outcome : PodEnds(e, outcome)
    \/ RecordTaskCompletion(e) \/ RecordTaskFailure(e)

HistoryNext ==
    \/ \E e \in Execution : ExecutionNext(e)
    \/ \E f \in Filter : GetTaskHistory(f)
    \/ CloseStore
-----------------------------------------------------------------------------
\* A row tells Running or an outcome that some execution of its task and pod name
\* had, and not Running once the report of its own execution was acknowledged: an
\* execution with a pod name of its own has its own outcome there, however late or
\* often the others report, and one that shares its name may have another's.
RowsTellTheOutcome ==
    \A i \in DOMAIN rows :
        /\ rows[i].status = "Running" \/
               \E e \in Execution : /\ rows[i].task = TaskOf[e] /\ rows[i].pod = PodOf[e]
                                   /\ rows[i].status = execution[e].outcome
        /\ execution[rows[i].execution].acked => rows[i].status # "Running"

\* A reader that pages through the history while executions start and end misses no
\* row that fulfilled its filter when it began, provided that no row ceased to fulfil
\* it meanwhile and that no two rows were created at the same instant.
PagingMissesNothing ==
    /\ reader.pc = "done" /\ ~reader.left
    /\ \A i, j \in DOMAIN rows : rows[i].created = rows[j].created => i = j
    => reader.began \subseteq reader.seen
=============================================================================
