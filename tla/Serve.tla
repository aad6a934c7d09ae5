------------------------------- MODULE Serve -------------------------------
(***************************************************************************)
(* mcpeval serve: the accept loop, the worker pool behind it (serve_       *)
(* workers.rs), the routing of a request, and the lock that admits one     *)
(* evaluation at a time (serve.rs).  Connections are numbered in the order *)
(* they are accepted.  What a tool computes is left out: a data query ends *)
(* by itself, an evaluation may take for ever.                             *)
(***************************************************************************)
EXTENDS Naturals, Sequences, FiniteSets

CONSTANTS
    Workers,            \* the worker threads (WORKERS)
    QueuedConnections,  \* capacity of the queue between accept and workers
    AllowSpawn,         \* --allow-spawn
    Requests,           \* what clients send: sets of defects, a method, a tool, arguments
    MaxConnections,     \* bound: connections accepted
    MaxPanics           \* bound: handlers that panic

ASSUME ServeAssumption ==
    /\ QueuedConnections \in Nat \ {0}
    /\ AllowSpawn \in BOOLEAN
    /\ MaxConnections \in Nat /\ MaxPanics \in Nat

VARIABLES
    accepting,   \* whether the accept loop still runs
    conns,       \* the accepted connections: request, status, reply
    queue,       \* the bounded channel
    workers,     \* per worker: where it is and the connection it has
    evaluation,  \* the worker that holds the evaluation lock
    panics

serveVars == <<accepting, conns, queue, workers, evaluation, panics>>

Nobody == "nobody"
Poisoned == "poisoned"
None == "none"

ASSUME LockAssumption == {Nobody, Poisoned} \cap Workers = {}

Evaluations == {"run_probe", "scaffold", "score", "verify_finding"}
Queries == {"list_findings", "get_finding", "get_readiness_trends"}
ListedTools ==
    Queries \cup {"record_annotation"} \cup (IF AllowSpawn THEN Evaluations ELSE {})

\* The checks of handle_connection in their order, with their HTTP status;
\* those of a request's provenance are the loopback policy's.
Screening ==
    << [defect |-> "unreadable", reply |-> "400"],     [defect |-> "repeated", reply |-> "400"],
       [defect |-> "foreign_origin", reply |-> "403"], [defect |-> "no_host", reply |-> "400"],
       [defect |-> "foreign_host", reply |-> "403"],   [defect |-> "not_post", reply |-> "405"],
       [defect |-> "not_json", reply |-> "415"],       [defect |-> "garbled", reply |-> "400"],
       [defect |-> "no_id", reply |-> "202"] >>

Screened(r) == {k \in DOMAIN Screening : Screening[k].defect \in r.defects}

\* handle_call up to the lock: the reasons to refuse a tools/call.
\* record_annotation, score and verify_finding check their own arguments.
Misaddressed(r) ==
    \/ r.tool = None
    \/ r.tool \notin ListedTools
    \/ r.fits = FALSE /\ r.tool \notin {"record_annotation", "score", "verify_finding"}

Passes(r) == Screened(r) = {} /\ r.method = "tools/call" /\ ~Misaddressed(r)

\* The one reply to a request that runs no tool: that of the first check it
\* does not pass, or of its method.
DirectReply(r) ==
    {Screening[k].reply : k \in {i \in Screened(r) : \A j \in Screened(r) : i <= j}}
    \cup (IF Screened(r) # {} THEN {}
          ELSE IF r.method \in {"initialize", "ping", "tools/list"} THEN {"result"}
          ELSE IF r.method = "tools/call" THEN {"-32602"}
          ELSE IF r.method = None THEN {"-32600"}
          ELSE {"-32601"})

IsEvaluation(r) == Passes(r) /\ r.tool \in Evaluations

ServeInit ==
    /\ accepting = TRUE
    /\ conns = <<>>
    /\ queue = <<>>
    /\ workers = [w \in Workers |-> [pc |-> "idle", conn |-> 0]]
    /\ evaluation = Nobody
    /\ panics = 0

Alive == {w \in Workers : workers[w].pc \notin {"ended", "dead"}}

\* submit: a connection is queued, or dropped when the queue is full; with no
\* worker left the channel is closed and the accept loop ends with an error.
Accept ==
    /\ accepting /\ Len(conns) < MaxConnections
    /\ \E r \in Requests :
         LET status == IF Alive = {} THEN "lost"
                       ELSE IF Len(queue) < QueuedConnections THEN "queued" ELSE "shed"
         IN  /\ conns' = Append(conns, [request |-> r, status |-> status, reply |-> None])
             /\ queue' = IF status = "queued" THEN Append(queue, Len(conns) + 1) ELSE queue
             /\ accepting' = (status # "lost")
    /\ UNCHANGED <<workers, evaluation, panics>>

\* An accept error ends the loop; the pool is dropped, the sender with it, and
\* the workers are joined.
AcceptFails ==
    /\ accepting
    /\ accepting' = FALSE
    /\ UNCHANGED <<conns, queue, workers, evaluation, panics>>

Goto(w, pc) == workers' = [workers EXCEPT ![w].pc = pc]

\* The receiver is locked while recv waits and released before the connection
\* is handled; waiting for the lock and waiting for a connection are one.
Take(w) ==
    /\ workers[w].pc = "idle" /\ queue # <<>>
    /\ workers' = [workers EXCEPT ![w] = [pc |-> "reading", conn |-> Head(queue)]]
    /\ conns' = [conns EXCEPT ![Head(queue)].status = "taken"]
    /\ queue' = Tail(queue)
    /\ UNCHANGED <<accepting, evaluation, panics>>

\* The channel is empty and its sender dropped.
Drained(w) ==
    /\ workers[w].pc = "idle" /\ queue = <<>> /\ ~accepting
    /\ Goto(w, "ended")
    /\ UNCHANGED <<accepting, conns, queue, evaluation, panics>>

Decide(w, pc, reply) ==
    /\ Goto(w, pc)
    /\ conns' = [conns EXCEPT ![workers[w].conn].reply = reply]
    /\ UNCHANGED <<accepting, queue, panics>>

Handled(w) == conns[workers[w].conn].request

\* read_request, bounded by its deadline, and the routing of the request.
RouteDirect(w) ==
    /\ workers[w].pc = "reading" /\ ~Passes(Handled(w))
    /\ \E reply \in DirectReply(Handled(w)) : Decide(w, "replying", reply)
    /\ UNCHANGED evaluation

RouteQuery(w) ==
    /\ workers[w].pc = "reading" /\ Passes(Handled(w)) /\ Handled(w).tool \notin Evaluations
    /\ Decide(w, "querying", None)
    /\ UNCHANGED evaluation

\* (A mutant of TryEvaluation.) The worker waits for the lock.
BlockingLock(w) ==
    evaluation = Nobody /\ Decide(w, "evaluating", None) /\ evaluation' = w

\* evaluation.try_lock(): taken, or the call is refused at once.
TryEvaluation(w) ==
    IF evaluation = Nobody
    THEN Decide(w, "evaluating", None) /\ evaluation' = w
    ELSE Decide(w, "replying", "busy") /\ UNCHANGED evaluation

RouteEvaluation(w) ==
    /\ workers[w].pc = "reading" /\ IsEvaluation(Handled(w))
    /\ TryEvaluation(w)

Query(w) ==
    /\ workers[w].pc = "querying"
    /\ Decide(w, "replying", "result")
    /\ UNCHANGED evaluation

\* (A mutant of FinishEvaluation.) The guard outlives the call.
GuardKept(w) ==
    /\ workers[w].pc = "evaluating"
    /\ Decide(w, "replying", "result")
    /\ UNCHANGED evaluation

\* handle_call returns: the guard is dropped before the reply is written.
FinishEvaluation(w) ==
    /\ workers[w].pc = "evaluating"
    /\ Decide(w, "replying", "result")
    /\ evaluation' = Nobody

\* write_http; its errors are ignored.
Reply(w) ==
    /\ workers[w].pc = "replying"
    /\ conns' = [conns EXCEPT ![workers[w].conn].status = "answered"]
    /\ workers' = [workers EXCEPT ![w] = [pc |-> "idle", conn |-> 0]]
    /\ UNCHANGED <<accepting, queue, evaluation, panics>>

\* Nothing catches a panic: the thread ends, its connection closes, and a lock
\* it holds is poisoned, so that every later try_lock fails.
Panic(w) ==
    /\ workers[w].pc \in {"querying", "evaluating"} /\ panics < MaxPanics
    /\ panics' = panics + 1
    /\ Goto(w, "dead")
    /\ conns' = [conns EXCEPT ![workers[w].conn].status = "lost"]
    /\ evaluation' = IF evaluation = w THEN Poisoned ELSE evaluation
    /\ UNCHANGED <<accepting, queue>>

ServeNext ==
    \/ Accept \/ AcceptFails
    \/ \E w \in Workers :
         \/ Take(w) \/ Drained(w)
         \/ RouteDirect(w) \/ RouteQuery(w) \/ RouteEvaluation(w)
         \/ Query(w) \/ FinishEvaluation(w) \/ Reply(w) \/ Panic(w)

\* A worker's own steps; an evaluation need never end, nor clients connect.
WorkerStep(w) ==
    \/ Take(w) \/ Drained(w)
    \/ RouteDirect(w) \/ RouteQuery(w) \/ RouteEvaluation(w)
    \/ Query(w) \/ Reply(w)

ServeSpec ==
    ServeInit /\ [][ServeNext]_serveVars /\ \A w \in Workers : WF_serveVars(WorkerStep(w))
-----------------------------------------------------------------------------
\* serve keeps "one admitted evaluation at a time", and no fewer: an evaluation
\* begins only when no other one runs, and is refused only while another one's
\* client still waits for its answer, or after one panicked: an agent that
\* retries once the running evaluation answered is not turned away for it.
Evaluating(w) == workers[w].pc = "evaluating"
EvaluationsAdmitted ==
    [][/\ \A w \in Workers : Evaluating(w)' /\ ~Evaluating(w) => \A v \in Workers : ~Evaluating(v)
       /\ \A c \in DOMAIN conns :
            conns'[c].reply = "busy" /\ conns[c].reply # "busy" =>
               \/ evaluation = Poisoned
               \/ \E d \in DOMAIN conns \ {c} :
                    IsEvaluation(conns[d].request) /\ conns[d].status = "taken"]_serveVars

\* Every connection that got into the queue and asks for no evaluation is
\* settled, although an evaluation may never end and the accept loop may fail,
\* as long as panics have left two workers: no worker waits for the evaluation
\* lock, and none handles a connection while it holds the receiver.
QueriesAnswered ==
    []<>(\/ Cardinality({w \in Workers : workers[w].pc # "dead"}) < 2
         \/ \A c \in DOMAIN conns :
               \/ IsEvaluation(conns[c].request)
               \/ conns[c].status \in {"answered", "shed", "lost"})
=============================================================================
