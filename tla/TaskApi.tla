------------------------------ MODULE TaskApi ------------------------------
(***************************************************************************)
(* The REST API of Module 2 on CloudTasks: the routes and the middleware   *)
(* of pkg/api/router.go, the token check of pkg/auth/jwt.go, the           *)
(* validators of pkg/api/validators/task_validator.go and the handlers of  *)
(* pkg/api/handlers/task_handler.go, for the namespace of one tenant.      *)
(*                                                                         *)
(* A handler is a sequence of calls of Kubernetes; between two of them     *)
(* other requests and the operator change the CloudTasks.  An incarnation  *)
(* is a CloudTask from its creation to its removal, and has a uid.         *)
(***************************************************************************)
EXTENDS Integers, FiniteSets

CONSTANTS Client,         \* whoever calls the API, one request at a time
          LastName,       \* names of CloudTasks are numbers in the order of the names
          GeneratedName,  \* what CreateTask calls a task without a name
          Request,        \* the bodies of POST /v1/tasks that clients send
          PageLimit,      \* the limit that the reader of a listing asks for
          MaxMade,        \* bound: incarnations
          MaxRequests     \* bound: requests that name a task

TaskName == 1..LastName
Text == {"absent", "malformed", "valid"}

ASSUME TaskApiAssumption ==
    /\ LastName \in Nat
    /\ GeneratedName \in TaskName
    /\ PageLimit \in 1..500
    /\ MaxMade \in Nat
    /\ MaxRequests \in Nat
    /\ Request \subseteq [json : BOOLEAN, image : Text, command : Text, resources : Text, timeout : Text,
                          priority : Int, retries : Int, own : BOOLEAN, name : TaskName \cup {0, LastName + 1}]

VARIABLES
    tasks,    \* tasks[n]: the CloudTask of that name; uid 0 for none
    made,     \* incarnations so far
    calls,    \* calls[c]: the request of c
    requests, \* how many there were
    pager     \* a client that reads the listing page by page

taskApiVars == <<tasks, made, calls, requests, pager>>

None == [uid |-> 0, own |-> FALSE, phase |-> "", marked |-> FALSE]
Present == {n \in TaskName : tasks[n].uid # 0}

TaskApiInit ==
    /\ tasks = [n \in TaskName |-> None]
    /\ made = 0
    /\ calls = [c \in Client |-> [pc |-> "idle", op |-> "", name |-> 0, uid |-> 0, answer |-> 0]]
    /\ requests = 0
    /\ pager = [pc |-> "idle", status |-> "", offset |-> 0, began |-> {}, seen |-> {}, removed |-> FALSE]
-----------------------------------------------------------------------------
\* The connection is closed without an answer.
Aborted == 0

\* The detail of an error is asked for although there may be none: the panic ends
\* the request before anything was flushed.
writeError(status, isError) == IF isError THEN status ELSE Aborted

\* The Authorization header: none, of another scheme, or with a token that is good or
\* not (its signature, its expiry or its claims).
Header == {"none", "other", "invalid", "valid"}
extractBearerToken(header) == IF header \in {"none", "other"} THEN "" ELSE header
ValidateToken(token) == token = "valid"

\* 200 stands for a request that is let through.
authMiddleware(header) ==
    LET token == extractBearerToken(header)
    IN  IF token = "" THEN 401 ELSE IF ValidateToken(token) THEN 200 ELSE 403

\* Without claims in the context the limiter is not asked.
rateLimitMiddleware(claims, next) == IF claims THEN {429, 500, next} ELSE {next}

\* chainMiddleware: the first of the list is the outermost, so that the limiter runs
\* before the token was looked at.  CORS, request id and logging let everything pass.
Through(header) == rateLimitMiddleware(FALSE, authMiddleware(header))

\* The fields that are in error.  Retries below zero pass.
ValidateCreateTaskRequest(body) ==
    {f \in {"image", "command"} : body[f] # "valid"}
        \cup {f \in {"resources", "timeout"} : body[f] = "malformed"}
        \cup (IF body.priority \in 0..100 THEN {} ELSE {"priority"})
        \cup (IF body.retries > 10 THEN {"retries"} ELSE {})

\* LastName + 1 stands for the names that Kubernetes does not take.
ValidateTaskID(name) == name \in TaskName

TaskID(body) == IF body.name = 0 THEN GeneratedName ELSE body.name

\* CreateTask up to the call of Kubernetes: the answer of the first check that fails.
Refusal(body) ==
    CASE ~body.json -> 400
      [] body.json /\ ValidateCreateTaskRequest(body) # {} -> 400
      [] body.json /\ ValidateCreateTaskRequest(body) = {} ->
            IF ~body.own THEN writeError(403, FALSE)
            ELSE IF ~ValidateTaskID(TaskID(body)) THEN 400 ELSE 200
-----------------------------------------------------------------------------
\* The request is answered.  What it made or deleted is kept to tell whether the
\* answer was true.
Answer(c, status, name, uid) ==
    calls' = [calls EXCEPT ![c] = [pc |-> "answered", op |-> "", name |-> name, uid |-> uid, answer |-> status]]
Done(c, status) == Answer(c, status, 0, 0)

\* A request arrives: it goes on to Kubernetes, or is answered at once.
Arrives(c, op, name, status, next) ==
    /\ calls[c].pc \in {"idle", "answered"}
    /\ requests < MaxRequests
    /\ requests' = requests + 1
    /\ IF status = 200
         THEN calls' = [calls EXCEPT ![c] = [pc |-> next, op |-> op, name |-> name, uid |-> 0, answer |-> 0]]
         ELSE Done(c, status)
    /\ UNCHANGED <<tasks, made, pager>>

\* POST /v1/tasks.
CreateArrives(c, header, body) ==
    \E through \in Through(header) :
        Arrives(c, "create", TaskID(body), IF through = 200 THEN Refusal(body) ELSE through, "create")

\* GET or DELETE /v1/tasks/{id}, or GET /v1/tasks/{id}/logs.
NamedArrives(c, header, op, name) ==
    \E through \in Through(header) :
        Arrives(c, op, name, IF through = 200 /\ ~ValidateTaskID(name) THEN 400 ELSE through, "get")

Make(n, own) ==
    /\ made < MaxMade
    /\ made' = made + 1
    /\ tasks' = [tasks EXCEPT ![n] = [uid |-> made + 1, own |-> own, phase |-> "", marked |-> FALSE]]

\* CreateTask creates the CloudTask; or the name is taken; or Kubernetes fails, or
\* its answer is lost.
CreateTask(c) ==
    LET n == calls[c].name IN
    /\ calls[c].pc = "create"
    /\ \/ tasks[n].uid = 0 /\ Make(n, TRUE) /\ (Answer(c, 201, n, made + 1) \/ Done(c, 500))
       \/ tasks[n].uid # 0 /\ Done(c, writeError(409, FALSE)) /\ UNCHANGED <<tasks, made>>
       \/ Done(c, 500) /\ UNCHANGED <<tasks, made>>
    /\ UNCHANGED <<requests, pager>>

\* Three handlers get the CloudTask first and look whose it is.
Own(c) == LET task == tasks[calls[c].name] IN task.uid # 0 /\ task.own
NotServed(c) ==
    \/ tasks[calls[c].name].uid = 0 /\ Done(c, writeError(404, FALSE))
    \/ tasks[calls[c].name].uid # 0 /\ ~Own(c) /\ Done(c, writeError(403, FALSE))
    \/ Done(c, 500)

GetTask(c) ==
    /\ calls[c].pc = "get" /\ calls[c].op = "get"
    /\ NotServed(c) \/ (Own(c) /\ Done(c, 200))
    /\ UNCHANGED <<tasks, made, requests, pager>>

\* With a pod or without, the answer is 200: the logs are not fetched yet.
GetTaskLogs(c) ==
    /\ calls[c].pc = "get" /\ calls[c].op = "logs"
    /\ NotServed(c) \/ (Own(c) /\ Done(c, 200))
    /\ UNCHANGED <<tasks, made, requests, pager>>

\* DeleteTask up to the deletion.
DeleteTaskGets(c) ==
    /\ calls[c].pc = "get" /\ calls[c].op = "delete"
    /\ \/ NotServed(c)
       \/ Own(c) /\ calls' = [calls EXCEPT ![c].pc = "delete", ![c].uid = tasks[calls[c].name].uid]
    /\ UNCHANGED <<tasks, made, requests, pager>>

\* Kubernetes marks a CloudTask that a finalizer holds, and removes any other.
Removed(n) ==
    /\ tasks' = [tasks EXCEPT ![n] = None]
    /\ pager' = [pager EXCEPT !.removed = @ \/ pager.pc = "reading"]
Deleted(n) ==
    \/ tasks' = [tasks EXCEPT ![n].marked = TRUE] /\ UNCHANGED pager
    \/ Removed(n)

\* Mutant: every error of the deletion is taken for a task that is gone.
DeleteTaskAnyError(c) ==
    /\ calls[c].pc = "delete"
    /\ UNCHANGED <<tasks, pager>> \/ (tasks[calls[c].name].uid # 0 /\ Deleted(calls[c].name))
    /\ Answer(c, 204, calls[c].name, calls[c].uid)
    /\ UNCHANGED <<made, requests>>

\* DeleteTask deletes by name whatever incarnation there is now; none is a success.
DeleteTask(c) ==
    LET n == calls[c].name
        success == Answer(c, 204, n, calls[c].uid)
    IN
    /\ calls[c].pc = "delete"
    /\ \/ tasks[n].uid # 0 /\ Deleted(n) /\ (success \/ Done(c, 500))
       \/ tasks[n].uid = 0 /\ success /\ UNCHANGED <<tasks, pager>>
       \/ Done(c, 500) /\ UNCHANGED <<tasks, pager>>
    /\ UNCHANGED <<made, requests>>
-----------------------------------------------------------------------------
Position(n, S) == Cardinality({m \in S : m <= n})

\* Mutant: the offset is not added to what is fetched.
ItemsFetchesPage(status, limit, offset) ==
    LET fetched == {n \in Present : Position(n, Present) <= limit}
        matching == {n \in fetched : status \in {"", tasks[n].phase}}
    IN  {n \in matching : Position(n, matching) \in offset + 1..offset + limit}

\* ListTasks fetches up to the end of the page in the order of the names, keeps those
\* in that status and takes the page from the rest.
Items(status, limit, offset) ==
    LET fetched == {n \in Present : Position(n, Present) <= limit + offset}
        matching == {n \in fetched : status \in {"", tasks[n].phase}}
    IN  {n \in matching : Position(n, matching) \in offset + 1..offset + limit}

\* A reader of the listing starts.
StartReading(status) ==
    /\ pager.pc = "idle"
    /\ pager' = [pc |-> "reading", status |-> status, offset |-> 0,
                  began |-> {tasks[n].uid : n \in Present}, seen |-> {}, removed |-> FALSE]
    /\ UNCHANGED <<tasks, made, calls, requests>>

\* ListTasks for its next page; a page that is not full is the last one.  A page that
\* is answered with an error is asked for again, which changes nothing.
ListTasks ==
    LET items == Items(pager.status, PageLimit, pager.offset)
    IN  /\ pager.pc = "reading"
        /\ pager' = [pager EXCEPT !.seen = @ \cup {tasks[n].uid : n \in items},
                                    !.offset = @ + PageLimit,
                                    !.pc = IF Cardinality(items) < PageLimit THEN "read" ELSE "reading"]
        /\ UNCHANGED <<tasks, made, calls, requests>>
-----------------------------------------------------------------------------
\* Outside the API: kubectl creates a CloudTask of any tenant in the namespace or
\* deletes one, and the operator lets it run and finishes a deletion.
Apply(n, own) == tasks[n].uid = 0 /\ Make(n, own) /\ UNCHANGED <<calls, requests, pager>>
Run(n) ==
    /\ tasks[n].uid # 0 /\ tasks[n].phase = ""
    /\ tasks' = [tasks EXCEPT ![n].phase = "Running"]
    /\ UNCHANGED <<made, calls, requests, pager>>
Withdraw(n) == Deleted(n) /\ tasks[n].uid # 0 /\ UNCHANGED <<made, calls, requests>>
FinishDeletion(n) == Removed(n) /\ tasks[n].marked /\ UNCHANGED <<made, calls, requests>>

RequestNext ==
    \/ \E c \in Client, header \in Header :
          \/ \E body \in Request : CreateArrives(c, header, body)
          \/ \E op \in {"get", "logs", "delete"}, name \in 1..LastName + 1 : NamedArrives(c, header, op, name)
    \/ \E c \in Client : CreateTask(c) \/ GetTask(c) \/ GetTaskLogs(c) \/ DeleteTaskGets(c) \/ DeleteTask(c)

ReaderNext ==
    \/ \E status \in {"", "Running"} : StartReading(status)
    \/ ListTasks

ClusterNext ==
    \E n \in TaskName : (\E own \in BOOLEAN : Apply(n, own)) \/ Run(n) \/ Withdraw(n) \/ FinishDeletion(n)

TaskApiNext == RequestNext \/ ReaderNext \/ ClusterNext
-----------------------------------------------------------------------------
\* 201 tells of an incarnation that this request and no other made, and 204 of one
\* that is marked or gone: the one that was read, although another may have taken
\* its name before the deletion.
AnswersAreTrue ==
    \A c \in Client : calls[c].pc = "answered" =>
        /\ calls[c].answer = 201 =>
              /\ calls[c].uid \in 1..made
              /\ \A d \in Client \ {c} : calls[d].answer = 201 => calls[d].uid # calls[c].uid
              /\ \A n \in Present : tasks[n].uid = calls[c].uid => n = calls[c].name /\ tasks[n].own
        /\ calls[c].answer = 204 =>
              \A n \in Present : tasks[n].uid = calls[c].uid => tasks[n].marked

\* Who reads the listing page by page without a status, while nothing is removed,
\* has seen every task that was there at the start, whatever is created meanwhile.
ListingMissesNothing ==
    pager.pc = "read" /\ pager.status = "" /\ ~pager.removed => pager.began \subseteq pager.seen
=============================================================================
