----------------------------- MODULE Evaluation -----------------------------
(* One evaluation (src/src/probe.rs:308-424, 600-689, 902-963): the cases of *)
(* a manifest run one after the other on a shared connection, under a budget *)
(* that every connection and thread of the evaluation draws from. A case     *)
(* whose runner reports an error costs its connection; the contention case   *)
(* runs a second session on a thread of its own.                             *)
EXTENDS ProbeContract, FiniteSets

CONSTANTS
    Manifests,      \* sequences of cases
    Servers,        \* what a server declares: capabilities and catalog
    Answers(_, _),  \* Answers(c, h): what may come back once c has had h
    ResponseTimeout,\* the manifest's timeout, or the transport's
    MaxRequests     \* requests of one evaluation

\* A manifest is read before it is run, and only a valid one is; a catalog has
\* a size for each tool.
ASSUME ManifestsAssumption ==
    \A m \in Manifests : m \in Seq(Range(m)) /\ \A k \in DOMAIN m : ValidCase(m[k])
ASSUME ServersAssumption ==
    \A s \in Servers : s.tokens \in Seq(Nat) /\ s.bytes \in Nat

VARIABLES
    manifest, srv,
    pc,          \* where run is
    next,        \* the case it is at
    h,           \* the answers that case has had
    conn,        \* the exchanges of the shared connection: "sound" or "broken"
    unlisted,    \* why the catalog is incomplete, or "none"
    unreachable, \* why no connection could be opened, or "none"
    cut,         \* the budget refused a request, or a wait, of this case
    granted, denied, expired,
    worker,      \* the contention thread: where it is, and its answer
    primary,     \* the same for the thread that runs the case
    coordinated, \* start_tx and ready_rx are open
    reports,
    readiness
budget == <<granted, denied>>
session == <<conn, unlisted, unreachable>>
threads == <<worker, primary, coordinated>>
vars == <<manifest, srv, pc, next, h, session, cut, budget, expired, threads,
          reports, readiness>>

B == INSTANCE RequestBudget

Case == manifest[next]
Ok == [out |-> "ok"]
Error == [out |-> "error"]
LostAnswers == [out : LostOuts]
Cut == [out |-> "exhausted"]
Idle == [at |-> "idle", got |-> Ok]

Init ==
    /\ manifest \in Manifests /\ srv \in Servers
    /\ pc = "open" /\ next = 1 /\ h = <<>>
    /\ conn = "sound" /\ unlisted = "none" /\ unreachable = "none"
    /\ cut = FALSE /\ B!Init /\ expired = FALSE
    /\ worker = Idle /\ primary = Idle /\ coordinated = FALSE
    /\ reports = <<>> /\ readiness = "unmeasured"

\* Budget::check
Spent == denied \/ expired

\* One request: reserved first, and refused once the budget is spent.
Asked(answers, a) ==
    \/ Spent /\ a = Cut /\ UNCHANGED budget
    \/ ~Spent /\ B!Deny /\ a = Cut
    \/ ~Spent /\ B!Grant /\ a \in answers

\* The deadline passes while the evaluation runs.
Expire ==
    /\ pc \notin {"ended", "failed"} /\ ~expired
    /\ expired' = TRUE
    /\ UNCHANGED <<manifest, srv, pc, next, h, session, cut, budget, threads,
                   reports, readiness>>
-----------------------------------------------------------------------------
(* run, up to its cases. *)

Opening == {Ok, Error} \cup LostAnswers

Open ==
    /\ pc = "open"
    /\ \E a \in Opening \cup {Cut} :
        /\ Asked(Opening, a)
        /\ pc' = IF a.out = "ok" THEN "discover" ELSE "failed"
    /\ UNCHANGED <<manifest, srv, next, h, session, cut, expired, threads,
                   reports, readiness>>

\* A first page that fails, a budget that is spent or a tool no page lists
\* end the run; a later page that fails leaves the catalog incomplete.
Discover ==
    /\ pc = "discover"
    /\ \E a \in Opening \cup {Cut}, later \in BOOLEAN :
        /\ Asked(Opening, a)
        /\ IF a.out = "ok"
             THEN pc' = "case" /\ UNCHANGED unlisted
             ELSE IF later /\ a.out # "exhausted"
               THEN pc' = "case" /\ unlisted' = TransportReason(a)
               ELSE pc' = "failed" /\ UNCHANGED unlisted
        /\ conn' = IF Lost(a) THEN "broken" ELSE conn
    /\ UNCHANGED <<manifest, srv, next, h, unreachable, cut, expired,
                   threads, reports, readiness>>

Report(v, detail) ==
    /\ reports' = Append(reports,
         [verdict |-> v, detail |-> detail, cut |-> cut])
    /\ next' = next + 1
    /\ h' = <<>>

\* A case the catalog or the server's absence rules out.
SkipCase ==
    /\ pc = "case" /\ next <= Len(manifest)
    /\ \/ unlisted # "none" /\ Case.kind # "pagination"
          /\ Report(Errored(unlisted), NoDetail)
       \/ (unlisted = "none" \/ Case.kind = "pagination") /\ unreachable # "none"
          /\ Report(Errored(unreachable), NoDetail)
    /\ UNCHANGED <<manifest, srv, pc, session, cut, budget, expired, threads,
                   readiness>>

\* run_case checks the budget before the runner starts.
StartCase ==
    /\ pc = "case" /\ next <= Len(manifest)
    /\ unlisted = "none" \/ Case.kind = "pagination"
    /\ unreachable = "none"
    /\ cut' = Spent
    /\ pc' = IF Spent THEN "finish"
             ELSE IF Case.kind = "contention" THEN "contend" ELSE "runner"
    /\ IF pc' = "contend"
         THEN /\ worker' = [Idle EXCEPT !.at = "initialize"]
              /\ primary' = [Idle EXCEPT !.at = "begin"]
              /\ coordinated' = TRUE
         ELSE UNCHANGED threads
    /\ UNCHANGED <<manifest, srv, next, h, session, budget, expired, reports,
                   readiness>>

\* The wait for a resource update sends nothing.
Waits == /\ Case.kind = "resource-subscription"
         /\ SubscriptionSteps(Case)[Len(h) + 1] = "wait"

\* A latency case waits for its budget and the timeout; what comes later is a
\* timeout.
CaseTimeout(c) ==
    ResponseTimeout + (IF c.kind = "latency-budget" THEN c.maxLatency ELSE 0)
InTime(c, a) ==
    IF c.kind = "latency-budget" /\ a.out = "ok" /\ a.is > CaseTimeout(c)
      THEN [a EXCEPT !.out = "timeout"] ELSE a

\* The runner of a case other than contention: its next exchange. A workflow
\* has a session of its own.
Exchange ==
    /\ pc = "runner" /\ Judge(Case, h, srv).says = "more"
    /\ \E a \in Answers(Case, h) \cup {Cut} :
        /\ IF Waits THEN a = (IF Spent THEN Error ELSE a) /\ a # Cut
                         /\ UNCHANGED budget
                    ELSE Asked(Answers(Case, h), a)
        /\ h' = Append(h, InTime(Case, a))
        /\ conn' = IF Last(h').out \in LostOuts /\ Case.kind # "workflow"
                     THEN "broken" ELSE conn
        /\ cut' = (cut \/ a = Cut \/ (Waits /\ Spent))
    /\ UNCHANGED <<manifest, srv, pc, next, unlisted, unreachable, expired,
                   threads, reports, readiness>>

Decide ==
    /\ pc = "runner" /\ Judge(Case, h, srv).says # "more"
    /\ pc' = "finish"
    /\ UNCHANGED <<manifest, srv, next, h, session, cut, budget, expired,
                   threads, reports, readiness>>

\* Budget::finish: whatever the runner made of its answers, a case that ends
\* with the budget spent is not a verdict.
\* (A mutant of FinishedVerdict.) The runner's verdict stands.
UnfinishedVerdict ==
    IF h = <<>> /\ cut THEN Errored("evaluation-budget-exceeded") ELSE Judge(Case, h, srv)
FinishedVerdict ==
    IF Spent THEN Errored("evaluation-budget-exceeded") ELSE Judge(Case, h, srv)

\* run_case returns, and run reports the case; an error costs the connection.
Finish ==
    /\ pc = "finish"
    /\ LET v == FinishedVerdict
       IN /\ Report(v, IF v.says = "errored" THEN NoDetail
                       ELSE BoundDetail(Case, h, srv, v))
          /\ pc' = IF v.says = "errored" THEN "reconnect" ELSE "case"
    /\ cut' = FALSE
    /\ UNCHANGED <<manifest, srv, session, budget, expired, threads, readiness>>

Reconnect ==
    /\ pc = "reconnect"
    /\ \E a \in Opening \cup {Cut} :
        /\ Asked(Opening, a)
        /\ conn' = IF a.out = "ok" THEN "sound" ELSE conn
        /\ unreachable' = IF a.out = "ok" THEN "none" ELSE TransportReason(a)
    /\ pc' = "case"
    /\ UNCHANGED <<manifest, srv, next, h, unlisted, cut, expired, threads,
                   reports, readiness>>

\* The standard battery has a connection of its own and the same budget; a
\* battery that cannot finish leaves readiness unmeasured.
Standard ==
    /\ pc = "case" /\ next > Len(manifest)
    /\ \E a \in Opening \cup {Cut} :
        /\ Asked(Opening, a)
        /\ readiness' = IF a.out = "ok" THEN "measured" ELSE TransportReason(a)
    /\ pc' = "ended"
    /\ UNCHANGED <<manifest, srv, next, h, session, cut, expired, threads, reports>>
-----------------------------------------------------------------------------
(* The contention case: the primary (the thread of the run) and the worker   *)
(* meet twice, through channels without room.                                *)

OthersThanThreads == <<manifest, srv, next, unlisted, unreachable, expired,
                       reports, readiness>>
Stop(t, a) == [at |-> "stopped", got |-> a]
At(t, at) == [t EXCEPT !.at = at]
Broken == [out |-> "invalid"]

\* A request of the worker: initialize, tools/list, the call.
WorkerAsks ==
    /\ worker.at \in {"initialize", "list", "call"}
    /\ \E a \in Opening \cup {Cut} :
        /\ Asked(Opening, a)
        /\ cut' = (cut \/ a = Cut)
        /\ worker' =
             IF worker.at = "call" THEN Stop(worker, a)
             ELSE IF a.out = "ok"
               THEN At(worker, IF worker.at = "list" THEN "ready" ELSE "list")
             ELSE Stop(worker, IF a.out = "error" THEN Broken ELSE a)
    /\ UNCHANGED <<OthersThanThreads, pc, h, conn, primary, coordinated>>

\* ready_tx.send, start_rx.recv_timeout: the other side is gone, or late.
WorkerGivesUp ==
    /\ \/ worker.at = "ready" /\ ~coordinated
       \/ worker.at = "released" /\ Spent
       \/ worker.at = "wait"
    /\ worker' = Stop(worker, IF Spent /\ worker.at # "ready" THEN Cut ELSE Broken)
    /\ cut' = (cut \/ worker'.got = Cut)
    /\ UNCHANGED <<OthersThanThreads, pc, h, conn, primary, coordinated, budget>>

WorkerWaits ==
    /\ worker.at = "released" /\ ~Spent
    /\ worker' = At(worker, "wait")
    /\ UNCHANGED <<OthersThanThreads, pc, h, conn, cut, primary, coordinated, budget>>

\* Budget::timeout, before the first meeting.
PrimaryBegins ==
    /\ primary.at = "begin"
    /\ primary' = IF Spent THEN [at |-> "drop", got |-> Cut] ELSE At(primary, "ready")
    /\ cut' = (cut \/ Spent)
    /\ UNCHANGED <<OthersThanThreads, pc, h, conn, worker, coordinated, budget>>

\* The meetings: ready_tx with ready_rx, start_tx with start_rx.
Meet ==
    /\ \/ /\ primary.at = "ready" /\ worker.at = "ready"
          /\ primary' = At(primary, "start") /\ worker' = At(worker, "released")
       \/ /\ primary.at = "start" /\ worker.at = "wait"
          /\ primary' = At(primary, "call") /\ worker' = At(worker, "call")
    /\ UNCHANGED <<OthersThanThreads, pc, h, conn, cut, coordinated, budget>>

\* The worker is late, or its end of the channel is closed.
PrimaryGivesUp ==
    /\ primary.at = "ready" \/ (primary.at = "start" /\ worker.at = "stopped")
    /\ primary' = [at |-> "drop", got |-> Broken]
    /\ UNCHANGED <<OthersThanThreads, pc, h, conn, cut, worker, coordinated, budget>>

PrimaryCalls ==
    /\ primary.at = "call"
    /\ \E a \in Opening \cup {Cut} :
        /\ Asked(Opening, a)
        /\ primary' = [at |-> "drop", got |-> a]
        /\ conn' = IF a.out \in LostOuts THEN "broken" ELSE conn
        /\ cut' = (cut \/ a = Cut)
    /\ UNCHANGED <<OthersThanThreads, pc, h, worker, coordinated>>

\* (A mutant of DropChannels.) Nothing is dropped before the join.
DropNothing ==
    /\ primary.at = "drop"
    /\ primary' = At(primary, "join")
    /\ UNCHANGED <<OthersThanThreads, pc, h, conn, cut, worker, coordinated, budget>>

DropChannels ==
    /\ primary.at = "drop"
    /\ primary' = At(primary, "join")
    /\ coordinated' = FALSE
    /\ UNCHANGED <<OthersThanThreads, pc, h, conn, cut, worker, budget>>

\* join, and the records of the two answers.
Recorded(a) == {a} \cup (IF Lost(a) THEN {} ELSE {[out |-> "unrecorded"]})

Join ==
    /\ primary.at = "join" /\ worker.at = "stopped"
    /\ \E a \in Recorded(primary.got), b \in Recorded(worker.got) : h' = <<a, b>>
    /\ pc' = "finish"
    /\ worker' = Idle /\ primary' = Idle
    /\ UNCHANGED <<OthersThanThreads, conn, cut, coordinated, budget>>

Main ==
    \/ Open \/ Discover \/ SkipCase \/ StartCase \/ Exchange \/ Decide \/ Finish
    \/ Reconnect \/ Standard
    \/ PrimaryBegins \/ PrimaryGivesUp \/ PrimaryCalls \/ DropChannels \/ Join
Worker == WorkerAsks \/ WorkerGivesUp \/ WorkerWaits
Next == Main \/ Worker \/ Meet \/ Expire

\* Both threads run, and every wait of theirs is bounded or is answered.
Spec == Init /\ [][Next]_vars
FairSpec == Spec /\ WF_vars(Main) /\ WF_vars(Worker) /\ WF_vars(Meet)
-----------------------------------------------------------------------------
\* A report says of the answers what the manifest's documentation says of the
\* kind: a runner passes a case exactly when they keep it, but for a completion
\* WithoutValues, which breaks it and passes; and the bound named in a report
\* is one that its measurement exceeds, whichever of the case's bounds it is
\* (bound_detail, probe.rs:546-598).
VerdictMeansContract ==
    /\ pc = "finish" /\ ~Spent =>
         LET v == Judge(Case, h, srv)
         IN v.says # "errored" /\ ~WithoutValues(Case, h) =>
              (v.says = "passed" <=> Contract(Case, h, srv))
    /\ \A k \in DOMAIN reports : \A d \in Range(reports[k].detail) : d.observed > d.limit

\* "Budget exhaustion takes precedence over transport symptoms and partial
\* verdicts" (evaluation_budget.rs:121): several runners turn a refused
\* request into a verdict on the server, and none of these is reported.
NoVerdictAfterExhaustion ==
    \A k \in DOMAIN reports :
        reports[k].cut => reports[k].verdict = Errored("evaluation-budget-exceeded")

\* run has returned: its reports, or the error that kept it from beginning.
Over == pc \in {"ended", "failed"}
=============================================================================
