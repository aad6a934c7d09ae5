----------------------------- MODULE Lifecycle -----------------------------
(***************************************************************************)
(* The life of a finding (lifecycle.rs, verify.rs, target_identity.rs and  *)
(* the lifecycle half of promote.rs).                                      *)
(*                                                                         *)
(* Two SQLite files share the state.  lifecycle.db (evidence, history,     *)
(* imported) is authoritative; index.db holds the calls a promotion reads, *)
(* the findings it derives and a projection of the evidence (cache).       *)
(* Several processes work on them: verifications, which hold nothing but   *)
(* local variables while the target server runs, promotions, which group   *)
(* the failures before they open their transaction, and index refreshes.   *)
(* A transaction is one atomic step; everything a process keeps across two *)
(* transactions is in its local state, and it may die between them.        *)
(***************************************************************************)
EXTENDS Naturals, Sequences, FiniteSets

CONSTANTS Groups,        \* (server, tool, error template) triples
          Failing,       \* the issues that captured calls can support
          Codes,         \* error codes that releases before 0.3 put in the id
          Cases,         \* manifest cases whose tool is the findings' tool
          OracleCases,   \* the cases with a result assertion or expected error
          Verifiers,     \* processes running `verify`
          Promoters,     \* processes running `promote`
          LegacyRows,    \* lifecycle rows of the pre-upgrade index.db, by id
          LegacyHistory, \* probe history of the pre-upgrade index.db
          MaxPasses,     \* i64::MAX, where the streak counter saturates
          MaxRuns,       \* bound: verification runs in a behaviour
          MaxBytes       \* bound: versions of the target's bytes on disk

\* The identity of a finding: finding_id(server, tool, None, template) is
\* <<g, "error">>, false_success_id(server, tool) is <<g, "semantic">> and the
\* ids of older releases, which hashed the error code too, are <<g, code>>.
\* A semantic finding has no template, so its row agrees with the untemplated
\* error finding of the same tool on every column a re-key selects by.
Ids == Groups \X ({"error", "semantic"} \cup Codes)
CurrentIds == Groups \X {"error", "semantic"}
ErrorId(g) == <<g, "error">>
SemanticId(g) == <<g, "semantic">>

\* An issue of the index is named by the id it is promoted under.
Issues == Failing

Bytes == 0 .. MaxBytes
Bindings == Cases \X Bytes
States == {"open", "fix-claimed", "verifying", "closed"}

NoRow == [state |-> "none", binding |-> {}, passes |-> 0, updated |-> 0]

\* binding is {} where definition_id is NULL, updated is the row's updated_at.
Rows == [state : States, binding : SUBSET Bindings,
         passes : 0 .. MaxPasses, updated : Nat]

\* run is 0 where run_id is NULL.  on is an auxiliary field: the bytes that
\* really answered the run, which the program cannot see.
Records == [finding : Ids, binding : SUBSET Bindings, passed : BOOLEAN,
            run : Nat, on : Bytes]

ASSUME ConstantsAssumption ==
    /\ OracleCases \subseteq Cases
    /\ Failing \subseteq CurrentIds
    /\ Codes \cap {"error", "semantic"} = {}
    /\ MaxPasses \in Nat /\ MaxPasses >= 3
    /\ MaxRuns \in Nat /\ MaxBytes \in Nat

\* What an earlier release can have left behind: no row is bound to a
\* definition, no run has an id, and semantic findings did not exist.
ASSUME LegacyAssumption ==
    /\ LegacyRows \in [Ids -> Rows \cup {NoRow}]
    /\ \A id \in Ids : LegacyRows[id].binding = {}
    /\ \A g \in Groups : LegacyRows[SemanticId(g)] = NoRow
    /\ LegacyHistory \in Seq(Records)
    /\ \A k \in 1 .. Len(LegacyHistory) :
          LegacyHistory[k].binding = {} /\ LegacyHistory[k].run = 0

VARIABLES
    evidence,   \* lifecycle.db, finding_lifecycle
    history,    \* lifecycle.db, probe_history in id order
    imported,   \* lifecycle.db, evidence_metadata holds 'legacy-imported'
    calls,      \* index.db, the issues its calls and annotations support
    indexed,    \* index.db has a calls table
    findings,   \* index.db, the promoted findings and the calls they rest on
    cache,      \* index.db, finding_lifecycle and probe_history
    verifier,   \* local state of the verification processes
    snapshot,   \* local state of the promotions: {} or {the grouped issues}
    target,     \* bytes of the target server on disk
    clock       \* number of verification outcomes so far: time and run ids

vars == <<evidence, history, imported, calls, indexed, findings, cache,
          verifier, snapshot, target, clock>>

indexVars == <<calls, indexed, findings>>

Exists(id) == evidence[id] # NoRow

\* The tables of index.db that depend on the release that wrote them: classed
\* says that issues has the class column verification reads.
NoFindings == [present |-> FALSE, classed |-> FALSE, ids |-> {}, basis |-> {}]

AbsentCache == [kind |-> "absent", rows |-> [id \in Ids |-> NoRow], log |-> <<>>]
LegacyCache == [kind |-> "legacy", rows |-> LegacyRows, log |-> LegacyHistory]
Projection(rows, log) == [kind |-> "current", rows |-> rows, log |-> log]

Idle == [pc |-> "idle", finding |-> {}, case |-> {}, binding |-> {},
         on |-> 0, passed |-> FALSE, run |-> 0]

Caches == [kind : {"absent", "legacy", "current"},
           rows : [Ids -> Rows \cup {NoRow}], log : Seq(Records)]

Promoted == [present : BOOLEAN, classed : BOOLEAN,
             ids : SUBSET Ids, basis : SUBSET Issues]

Verifications ==
    [pc : {"idle", "prepared", "bound", "running", "recording", "recorded"},
     finding : SUBSET Ids, case : SUBSET Cases, binding : SUBSET Bindings,
     on : Bytes, passed : BOOLEAN, run : Nat]

\* A new store, or the index.db of an earlier release.  Ids with a code were
\* promoted by releases without the class column, and a release with it had
\* already re-keyed every group it promoted.
Init ==
    /\ evidence = [id \in Ids |-> NoRow]
    /\ history = <<>>
    /\ imported = FALSE
    /\ verifier = [v \in Verifiers |-> Idle]
    /\ snapshot = [p \in Promoters |-> {}]
    /\ target = 0
    /\ clock = Len(LegacyHistory)
    /\ \/ /\ cache = AbsentCache
          /\ calls = {} /\ indexed = FALSE /\ findings = NoFindings
       \/ /\ cache = LegacyCache
          /\ indexed = TRUE
          /\ calls \in SUBSET Issues
          /\ \E classed \in BOOLEAN, ids \in SUBSET {id \in Ids : LegacyRows[id] # NoRow} :
                /\ classed => /\ ids \subseteq calls
                              /\ \A id \in ids, c \in Codes : LegacyRows[<<id[1], c>>] = NoRow
                /\ findings = [present |-> TRUE, classed |-> classed,
                               ids |-> ids, basis |-> calls]

-----------------------------------------------------------------------------
(* attach: every command that needs the evidence opens lifecycle.db and, in *)
(* a transaction of its own, imports what an older index.db holds, once.    *)
AttachAlwaysImporting ==
    /\ imported' = TRUE
    /\ IF cache.kind # "absent"
       THEN /\ evidence' = [id \in Ids |-> IF Exists(id) THEN evidence[id]
                                                         ELSE cache.rows[id]]
            /\ history' = history \o cache.log
       ELSE UNCHANGED <<evidence, history>>
    /\ UNCHANGED <<indexVars, cache, verifier, snapshot, target, clock>>

Attach ==
    /\ ~imported
    /\ imported' = TRUE
    /\ IF cache.kind # "absent"
       THEN /\ evidence' = [id \in Ids |-> IF Exists(id) THEN evidence[id]
                                                         ELSE cache.rows[id]]
            /\ history' = history \o cache.log
       ELSE UNCHANGED <<evidence, history>>
    /\ UNCHANGED <<indexVars, cache, verifier, snapshot, target, clock>>

-----------------------------------------------------------------------------
(* A verification.                                                          *)

\* prepare: the finding must have a row and be a promoted finding now.
Prepare(v, id, case) ==
    /\ imported
    /\ verifier[v].pc = "idle"
    /\ findings.present /\ id \in findings.ids /\ Exists(id)
    /\ verifier' = [verifier EXCEPT ![v] =
                       [Idle EXCEPT !.pc = "prepared", !.finding = {id}, !.case = {case}]]
    /\ UNCHANGED <<evidence, history, imported, indexVars, cache, snapshot, target, clock>>

\* The class comes from index.db over a second connection, after prepare has
\* closed the first: the finding may be gone by then.  The observed launch
\* bytes become part of the definition the run is bound to.
FalseSuccess(id) == id[2] = "semantic"

Bind(v) ==
    /\ verifier[v].pc = "prepared"
    /\ \E id \in verifier[v].finding, case \in verifier[v].case :
          /\ findings.present /\ findings.classed /\ id \in findings.ids
          /\ FalseSuccess(id) => case \in OracleCases
          /\ verifier' = [verifier EXCEPT ![v] =
                           [@ EXCEPT !.pc = "bound", !.binding = {<<case, target>>}]]
    /\ UNCHANGED <<evidence, history, imported, indexVars, cache, snapshot, target, clock>>

\* The target process is started from what is on disk at that moment.
Launch(v) ==
    /\ verifier[v].pc = "bound"
    /\ verifier' = [verifier EXCEPT ![v] = [@ EXCEPT !.pc = "running", !.on = target]]
    /\ UNCHANGED <<evidence, history, imported, indexVars, cache, snapshot, target, clock>>

\* LaunchIdentity::unchanged compares the bytes after the run.
BytesNotCompared(v) == TRUE
BytesUnchanged(v) == \A b \in verifier[v].binding : b[2] = target

\* The case was evaluated (no transport failure) and the bytes are the bound
\* ones: the verifier takes a run id and the time and goes on to record.
Finish(v, passed) ==
    /\ verifier[v].pc = "running"
    /\ clock < Len(LegacyHistory) + MaxRuns
    /\ BytesUnchanged(v)
    /\ clock' = clock + 1
    /\ verifier' = [verifier EXCEPT ![v] = [@ EXCEPT !.pc = "recording", !.passed = passed,
                                                  !.run = clock + 1]]
    /\ UNCHANGED <<evidence, history, imported, indexVars, cache, snapshot, target>>

\* Every other way out of a verification leaves nothing behind: a refused
\* prepare or bind, a transport failure, changed bytes, a kill, or success.
Exit(v) ==
    /\ verifier[v].pc # "idle"
    /\ verifier' = [verifier EXCEPT ![v] = Idle]
    /\ UNCHANGED <<evidence, history, imported, indexVars, cache, snapshot, target, clock>>

-----------------------------------------------------------------------------
(* record: one immediate transaction over both files.                       *)
(* Operators called after what they leave out are mutated forms: a plausible *)
(* bug in the definition that follows, which its property must notice.       *)

Same(row, binding) == row.binding = {binding}

StreakAcrossDefinitions(row, binding, passed) ==
    IF passed THEN (IF row.passes < MaxPasses THEN row.passes + 1 ELSE MaxPasses) ELSE 0

Streak(row, binding, passed) ==
    IF ~passed THEN 0
    ELSE IF ~Same(row, binding) THEN 1
    ELSE IF row.passes < MaxPasses THEN row.passes + 1 ELSE MaxPasses

StateAfterReopeningOnlyClosed(row, binding, passed) ==
    IF passed
    THEN IF Streak(row, binding, passed) >= 3 THEN "closed" ELSE "verifying"
    ELSE IF row.state = "closed" THEN "open" ELSE "fix-claimed"

StateAfter(row, binding, passed) ==
    IF passed
    THEN IF Streak(row, binding, passed) >= 3 THEN "closed" ELSE "verifying"
    ELSE IF Same(row, binding) /\ row.state = "fix-claimed" THEN "fix-claimed"
    ELSE IF row.state \in {"verifying", "closed"} THEN "open"
    ELSE "fix-claimed"

Transition(row, binding, passed) ==
    [state |-> StateAfter(row, binding, passed), passes |-> Streak(row, binding, passed)]

NoRunsNamed(run) == {}

RunsNamed(run) == {k \in 1 .. Len(history) : history[k].run = run}

\* The history row of a run id, of which the unique index allows one.
RowOfRun(log, run) == log[CHOOSE k \in 1 .. Len(log) : log[k].run = run]

ProjectHistoryOnly(id, run, rows, log) ==
    IF cache.kind # "current"
    THEN Projection(rows, log)
    ELSE Projection(cache.rows, Append(cache.log, RowOfRun(log, run)))

\* project_result: the row and the run in question are copied; a projection of
\* another release, or none, is replaced as a whole.
ProjectResult(id, run, rows, log) ==
    IF cache.kind # "current"
    THEN Projection(rows, log)
    ELSE Projection([cache.rows EXCEPT ![id] = rows[id]],
                    Append(cache.log, RowOfRun(log, run)))

RecordNew(id, entry) ==
    LET binding == CHOOSE b \in entry.binding : TRUE
        next == Transition(evidence[id], binding, entry.passed)
    IN  /\ evidence' = [evidence EXCEPT ![id] =
                           [state |-> next.state, passes |-> next.passes,
                            binding |-> entry.binding, updated |-> entry.run]]
        /\ history' = Append(history, entry)
        /\ cache' = ProjectResult(id, entry.run, evidence', history')

\* A run id that is already in the history changes nothing, whether it agrees
\* with the recorded result or conflicts with it.
Record(v) ==
    /\ verifier[v].pc = "recording"
    /\ \E id \in verifier[v].finding :
          /\ Exists(id)
          /\ IF RunsNamed(verifier[v].run) # {}
             THEN UNCHANGED <<evidence, history, cache>>
             ELSE RecordNew(id, [finding |-> id, binding |-> verifier[v].binding,
                                 passed |-> verifier[v].passed,
                                 run |-> verifier[v].run, on |-> verifier[v].on])
    /\ verifier' = [verifier EXCEPT ![v] = [@ EXCEPT !.pc = "recorded"]]
    /\ UNCHANGED <<imported, indexVars, snapshot, target, clock>>

\* The caller of record never learned of the commit and presents the run
\* again, possibly with another outcome.
Replay(v, passed) ==
    /\ verifier[v].pc = "recorded"
    /\ verifier' = [verifier EXCEPT ![v] = [@ EXCEPT !.pc = "recording", !.passed = passed]]
    /\ UNCHANGED <<evidence, history, imported, indexVars, cache, snapshot, target, clock>>

-----------------------------------------------------------------------------
(* A promotion reads and groups the failures before its transaction.        *)

PromoteRead(p) ==
    /\ imported /\ indexed
    /\ snapshot[p] = {}
    /\ snapshot' = [snapshot EXCEPT ![p] = {calls}]
    /\ UNCHANGED <<evidence, history, imported, indexVars, cache, verifier, target, clock>>

\* migrate_lifecycle: the rows of the group other than the semantic finding's.
RekeyedWithSemantic(g) == {id \in Ids : id[1] = g /\ Exists(id)}
Rekeyed(g) == {id \in Ids : id[1] = g /\ Exists(id) /\ id # SemanticId(g)}

\* The most recently updated of them survives; ids break ties in hash order.
Latest(ids) ==
    {id \in ids : \A other \in ids : evidence[other].updated <= evidence[id].updated}

\* Its state moves to the error id, all their history is renamed.
MigratedRow(id, survivor) ==
    IF id \in DOMAIN survivor THEN evidence[survivor[id]]
    ELSE IF \E error \in DOMAIN survivor : id \in Rekeyed(error[1]) THEN NoRow
    ELSE evidence[id]

MigratedRecord(r, survivor) ==
    IF ErrorId(r.finding[1]) \in DOMAIN survivor /\ r.finding \in Rekeyed(r.finding[1])
    THEN [r EXCEPT !.finding = ErrorId(r.finding[1])]
    ELSE r

FreshRow == [state |-> "open", binding |-> {}, passes |-> 0, updated |-> clock]

\* qualifying are the issues seen in two sessions whose score meets the
\* threshold; an issue that does not qualify is re-keyed all the same.
PromoteCommit(p) ==
    /\ \E issues \in snapshot[p] :
       \E qualifying \in SUBSET issues,
          survivor \in [{id \in issues : id[2] = "error" /\ Rekeyed(id[1]) # {}} -> Ids] :
          /\ \A id \in DOMAIN survivor : survivor[id] \in Latest(Rekeyed(id[1]))
          /\ evidence' = [id \in Ids |->
                             IF id \in qualifying /\ MigratedRow(id, survivor) = NoRow
                             THEN FreshRow ELSE MigratedRow(id, survivor)]
          /\ history' = [k \in 1 .. Len(history) |-> MigratedRecord(history[k], survivor)]
          /\ findings' = [present |-> TRUE, classed |-> TRUE,
                          ids |-> qualifying, basis |-> issues]
          /\ cache' = Projection(evidence', history')
    /\ snapshot' = [snapshot EXCEPT ![p] = {}]
    /\ UNCHANGED <<imported, calls, indexed, verifier, target, clock>>

\* A promotion fails or is killed: its transaction is rolled back.
PromoteAbort(p) ==
    /\ snapshot[p] # {}
    /\ snapshot' = [snapshot EXCEPT ![p] = {}]
    /\ UNCHANGED <<evidence, history, imported, indexVars, cache, verifier, target, clock>>

-----------------------------------------------------------------------------
(* The surroundings.                                                        *)

\* index: the derived rows change with the journals, and the promotion derived
\* from the old ones is dropped in the same transaction.
IndexRefresh ==
    /\ \E new \in SUBSET Issues : calls' = new
    /\ indexed' = TRUE
    /\ findings' = NoFindings
    /\ UNCHANGED <<evidence, history, imported, cache, verifier, snapshot, target, clock>>

\* index.db is deleted while no promotion has it open.
DeleteIndex ==
    /\ \A p \in Promoters : snapshot[p] = {}
    /\ calls' = {} /\ indexed' = FALSE /\ findings' = NoFindings
    /\ cache' = AbsentCache
    /\ UNCHANGED <<evidence, history, imported, verifier, snapshot, target, clock>>

\* The developer rebuilds the target; the new bytes differ from all before.
\* (Old bytes put back before the second comparison would not be noticed.)
Rebuild ==
    /\ target' \in {b \in Bytes : b > target}
    /\ UNCHANGED <<evidence, history, imported, indexVars, cache, verifier, snapshot, clock>>

Verification(v) ==
    \/ \E id \in Ids, case \in Cases : Prepare(v, id, case)
    \/ Bind(v)
    \/ Launch(v)
    \/ \E passed \in BOOLEAN : Finish(v, passed) \/ Replay(v, passed)
    \/ Record(v)
    \/ Exit(v)

Promotion(p) == PromoteRead(p) \/ PromoteCommit(p) \/ PromoteAbort(p)

Next ==
    \/ Attach
    \/ \E v \in Verifiers : Verification(v)
    \/ \E p \in Promoters : Promotion(p)
    \/ IndexRefresh
    \/ DeleteIndex
    \/ Rebuild

Spec == Init /\ [][Next]_vars
-----------------------------------------------------------------------------
(* Properties.                                                              *)

\* Every variable has its type; a verification past bind holds a binding.
TypeOK ==
    /\ evidence \in [Ids -> Rows \cup {NoRow}]
    /\ history \in Seq(Records)
    /\ imported \in BOOLEAN /\ indexed \in BOOLEAN
    /\ calls \in SUBSET Issues
    /\ findings \in Promoted
    /\ cache \in Caches
    /\ verifier \in [Verifiers -> Verifications]
    /\ snapshot \in [Promoters -> SUBSET (SUBSET Issues)]
    /\ target \in Bytes
    /\ clock \in Nat

\* The verification runs recorded for a finding, as opposed to the outcomes
\* imported from an older release.
RunsOf(id) == {k \in 1 .. Len(history) : history[k].finding = id /\ history[k].run # 0}

\* From run k on, every run recorded for the finding was green and bound to
\* the definition the finding is verified with now.
GreenSince(id, k) ==
    \A r \in RunsOf(id) : r >= k => history[r].passed /\ history[r].binding = evidence[id].binding

\* A finding that a verification closed is closed because the last three runs
\* in the durable history are green and bound to one definition: transition's
\* counter is never ahead of the history, whatever promotions re-keyed, index
\* refreshes dropped and other verifications recorded in between.
ClosedByThreeGreens ==
    \A id \in Ids :
        evidence[id].state = "closed" /\ evidence[id].binding # {} =>
            \E i, j, k \in RunsOf(id) : i < j /\ j < k /\ GreenSince(id, i)

\* Pass credit is never larger than the number of distinct green runs recorded
\* for that finding and that definition: neither the replay of a run nor
\* legacy passes without a definition add to it.
CreditHasRuns ==
    \A id \in Ids : evidence[id].binding # {} =>
        evidence[id].passes <=
            Cardinality({history[k].run : k \in {r \in RunsOf(id) :
                history[r].passed /\ history[r].binding = evidence[id].binding}})

\* A run is evidence about the bytes it is bound to: what was executed after
\* LaunchIdentity::observe is what was observed, although the target may be
\* rebuilt between observing, launching and comparing again.
EvidenceRanOnBoundBytes ==
    \A k \in 1 .. Len(history) : history[k].run # 0 =>
        \A b \in history[k].binding : b[2] = history[k].on

\* The import of an older index.db happens once: no legacy outcome is in the
\* durable history twice, however often commands attach it (attach).
LegacyImportedOnce ==
    Cardinality({k \in 1 .. Len(history) : history[k].run = 0}) <= Len(LegacyHistory)

\* The query tables of index.db show the durable evidence whenever they were
\* written by this release: record and promote update both files or neither.
CacheAgrees ==
    cache.kind = "current" => cache.rows = evidence /\ cache.log = history

\* A promotion describes the calls that the index holds: index drops the
\* findings it outdates because promotion is derived from the refreshed index.
FindingsFromCurrentCalls == findings.present => findings.basis = calls

\* Every historical verification is retained: the history only grows, a run
\* keeps its finding for good, and an imported outcome changes at most from an
\* id of an older release to the error finding of the same group.
HistoryRetained ==
    [][\A k \in 1 .. Len(history) :
          /\ k <= Len(history')
          /\ history'[k] # history[k] =>
                /\ history[k].run = 0 /\ history[k].finding[2] \in Codes
                /\ history'[k] = [history[k] EXCEPT !.finding = ErrorId(@[1])]]_vars

\* The finding lifecycle of the documentation, read off the durable history:
\* an outcome that was run for a finding extends the log of the finding.
Logged(logs, r) ==
    IF r.run = 0 THEN logs
    ELSE [logs EXCEPT ![r.finding] =
             Append(@, [definition |-> CHOOSE b \in r.binding : TRUE, passed |-> r.passed])]

NoLogs == [id \in Ids |-> <<>>]
LogsOf(s) ==
    LET after[k \in 0 .. Len(s)] == IF k = 0 THEN NoLogs ELSE Logged(after[k - 1], s[k])
    IN  after[Len(s)]
Logs == LogsOf(history)

Streaks == INSTANCE VerificationStreak WITH
    Findings <- Ids,
    Definitions <- Bindings,
    status <- [id \in Ids |-> evidence[id].state],
    runs <- Logs

\* The stored states, counters and bindings implement the documented rule.
ImplementsStreaks == Streaks!Spec
============================================================================
