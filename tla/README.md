# mcp-eval in TLA+

Specifications of `mcpeval` (the Rust program under `src/src/`): what its
processes, threads and databases do, model-checked with TLC on small instances,
and proved with TLAPS for every instance where that was in reach.
`PROJECT.json` maps every definition to the lines it translates and lists
the runs, the mutated definitions that show each property can fail, the
theorems and the hazards the properties are for.

## The system

`mcpeval` measures how well an MCP server works for agents. It is a command-line
program whose commands share a directory (the store root):

    agent <-> shim <-> server         records calls into store/*.jsonl
    index                             store/*.jsonl -> index.db
    promote                           index.db -> findings, lifecycle.db
    verify                            runs a manifest case against the server,
                                      records the outcome in lifecycle.db
    probe, score, compare, diff       evaluate a server, compare reports
    serve                             offers the above as an MCP server
    trends, report, share, doctor     read the store

Several of these commands run at the same time on one store, agents keep
recording while the store is indexed, and any of them can die at any step.

### Inventory

| Component | State | Operations | What makes it correct |
|---|---|---|---|
| Finding lifecycle: `lifecycle.rs`, `target_identity.rs` | `lifecycle.db` (authoritative rows, runs, import mark), a projection in `index.db` | attach and import, prepare, record, replay of a run id, project | three green runs of one definition close, a red one reopens; a run counts once; import happens once; both files agree |
| Verification: `verify.rs` | local state of one process, target bytes on disk | select a case, observe the bytes, run, compare the bytes, record | evidence is about the bytes that ran; semantic findings need an oracle |
| Promotion: `promote.rs` | findings in `index.db`, re-keyed lifecycle rows | group failures, migrate former ids, replace findings | no run is lost or moved; findings describe the indexed calls |
| Index: `index.rs`, `index/journal.rs`, `jsonl.rs` | `index.db`, checkpoint of each journal's prefix | incremental refresh, reconstruction | the index is what a reconstruction would give, of one moment |
| Journals: `store.rs` | `store/**/*.jsonl` | append under a lock | whole lines, in order |
| Stdio proxy: `shim.rs`, `frame.rs`, `correlate.rs` | two pumps, a channel, `FrameOrder`, pending requests | forward, reserve, complete, correlate, shut down | causal order, right pairs, nothing lost at shutdown, always ends |
| Stdio client: `mcp_client.rs`, `stdio.rs` | two threads, a bounded queue, given-up ids, buffered notifications | request, observed call, cancelled call, wait, drop | late answers are no defects; updates are not lost; no operation hangs |
| Evaluation: `probe.rs`, `probe/*` | list of case reports, current client, a second thread in one case | case loop, reconnect, twenty kinds of case, contention | a verdict is what the kind promises; exhaustion is no verdict; always ends |
| Evaluation budget: `evaluation_budget.rs` | a counter, a flag and a deadline that connections and threads share | acquire | never more requests than the limit, none refused before |
| Standard and score: `standard.rs`, `score.rs`, `measurement.rs` | a connection; rules over what it observed | battery, arguments from schemas, areas, deductions, floors | leaving tools out does not pay; the gate does not depend on the machine |
| Comparison and gates: `diff.rs`, `readiness_gate.rs`, `catalog_contract.rs` | a committed baseline report | compare, gate | no regression passes, over a chain of baselines too |
| Guidance: `guidance.rs` | a session and a catalog per client profile | list page by page, compare with instructions | no finding from half a catalog |
| Command line: `main.rs`, `exit.rs` | stages of one process | probe, score, guidance, diff | the exit code tells a red server from a broken run |
| MCP server: `serve.rs`, `serve_workers.rs` | worker pool, queue, evaluation lock | accept, screen, route, evaluate, refuse, shut down | data queries stay served; evaluations exclude each other |
| HTTP client: `http_client.rs` | session id; a thread per cancelled call | request, discovery, observed call, cancelled call | roots requests are answered in time; a cancelled call is joined and judged |
| HTTP proxy: `http_proxy.rs` | workers, one correlator and journal behind a mutex | exchange | pairs per exchange; the journal tells what clients saw |
| Trends: `trends.rs`, `trends/cache.rs` | `probes/history.jsonl`, `trends.db` with a checkpoint | append, load through the cache | what is served is the journal |
| Salt: `fingerprint.rs` | salt file | create once | one salt, whole |
| Share: `share.rs` | output, staging and backup directories | stage, validate, preserve, publish, restore | the prior envelope is never lost |
| Manifests: `manifest.rs` | the cases of an evaluation | parse, validate | every setting a runner counts with is bounded |
| Records, `compare`, rendering, demo server, packaging | data formats and texts | | not about steps |

The components interact through files (journals, databases, reports), through
pipes and channels (proxy, client) and through SQLite transactions. What is hard:

- two verifications, a promotion and an index refresh interleave between their
  transactions, and each keeps what it read before in local variables;
- the two pumps of the proxy report through one channel in an order nobody
  chooses, and fail, block and are cancelled independently;
- journals grow, are left half written, edited or removed while they are read;
- answers arrive after the client gave up, and a peer may stop reading;
- an evaluation goes on after a lost exchange with another connection, and every
  kind of case has to turn whatever came back into one verdict;
- workers, readers, starters and shares of one store race, panic and die;
- reports are compared in pairs while what matters is a chain of them;
- stores of earlier releases are upgraded in place.

## Modules

| Module | Models | State, and the code it stands for |
|---|---|---|
| `VerificationStreak` | what the lifecycle promises (abstract) | a log of runs and a status per finding |
| `Lifecycle` | `lifecycle.rs`, `verify.rs`, `target_identity.rs`, half of `promote.rs` | both databases, one process per verification and promotion, the target's bytes |
| `Correlator` | `correlate.rs` | operators on the pending requests of one correlator, used by both proxies |
| `Shim` | `shim.rs`, `frame.rs`, and `stdio.rs` as it uses it | agent, server, pipes, pumps, channel, `FrameOrder`, journal |
| `JournalIndex` | `index.rs`, `index/journal.rs`, `jsonl.rs`, `store.rs` | journals as chunks of lines, the committed index, a refresh's transaction |
| `McpClient` | `mcp_client.rs`, and `stdio.rs` as it uses it | client, threads, pipes, queue, a server that does what it likes |
| `RequestBudget` | what a budget promises (abstract) | requests granted, exhausted or not |
| `EvaluationBudget` | `evaluation_budget.rs` | the counter and the threads' relaxed loads and exchanges |
| `ProbeCases` | the runners of `probe.rs` and `probe/*` | functions from the answers so far to the next step or a verdict |
| `ProbeContract` | what a passed case promises (reference definition) | a predicate on all the answers of a case |
| `Evaluation` | `run` of `probe.rs`, the contention probe, `probe/transport.rs` | the case, its answers, the connection, the two threads, the reports |
| `ToolInput` | the arguments of `standard.rs` | recursive operators on schemas |
| `Score` | `score.rs`, `readiness_gate.rs` | operators from observations to areas, deductions and floors |
| `Standard` | the battery of `standard.rs` | its stage, its connection, what it observed |
| `Command` | `probe` and `score` of `main.rs`, `exit.rs` | the stage of the process and its exit code, on top of `Standard` |
| `Serve` | `serve.rs`, `serve_workers.rs`, `loopback.rs` | connections, queue, workers, evaluation lock |
| `HttpProxy` | `http_proxy.rs` | exchanges, workers, the shared correlator and journal |
| `HttpClient` | `http_client.rs` | one operation, its call thread, the server's script |
| `TrendCache` | `trends.rs`, `trends/cache.rs` | the journal, the cache, one load per reader |
| `Salt` | `fingerprint.rs` | the salt, a temporary file per process |
| `Share` | `share.rs` | output, backups, the stage of each share |
| `Gates` | `diff.rs`, `catalog_contract.rs`, `readiness_gate.rs`, `diff` of `main.rs` | the first and the newest report of a chain |
| `Guidance` | `guidance.rs`, `guidance` of `main.rs` | the pages each session was served |
| `..._proofs` | theorems and proofs | `Lifecycle`; `Shim`; `JournalIndex`; `McpClient`; `Journals` on `HttpProxy` and `TrendCache`; `Evaluation`; `Standard` on `Command`; `Services` on the rest of the programs of `services` |
| `MC...` | small instances for TLC | model values, legacy stores, cases, schemas, reports |

`Evaluation` uses `RequestBudget` and `ProbeCases`; `EvaluationBudget` implements
`RequestBudget`; `Command` extends `Standard`, which extends `Score`; `Shim` and
`HttpProxy` extend `Correlator`. `MCEvaluation` puts `Evaluation` and, apart from it, `McpClient`
in one run; a client's operations are the exchanges that `Evaluation` reduces to an answer or a loss;
`MCServices` puts the programs next to one another that share a store but not a step, so
in one of its behaviours one of them is at work. `subject` says which.

In every module a definition named after a mistake (`AttachAlwaysImporting`,
`ReadyInAnyOrder`, ...) is a mutated form of the definition that follows it. The
specification does not use it; put in place of that definition it breaks the
property `PROJECT.json` names under "mutants".

### Lifecycle

A transaction is one step; what a process keeps across transactions is in its
record in `verifier` or `snapshot`, and `Exit` and `PromoteAbort` end it anywhere. A verification
is `Prepare` (`lifecycle::prepare`), `Bind` (class, oracle, digests of the
target), `Launch`, `Finish` (verdict and second digest), `Record` or, after a
lost acknowledgement, `Replay`. A promotion is `PromoteRead` and `PromoteCommit`,
which includes the re-key of former ids (`migrate_lifecycle`) and the
projection. `IndexRefresh`, `DeleteIndex` and `Rebuild` are the surroundings. Every
command that opens the store starts with `Attach`, which imports the evidence
of an `index.db` of an earlier release. An id is a pair of a group (server, tool,
template) and what releases hashed with it: `"error"`, `"semantic"` or, before
0.3.0, an error code. `binding` is the verified definition: the case and the version of
the target's bytes; HTTP targets, which have no bytes on disk, are bound to the
case alone and are the instances with `MaxBytes = 0`.

`VerificationStreak` is the rule of the guide `findings-and-verification.md`
without counters: a status is a function of the log of runs. `ImplementsStreaks`
shows that rows, counters and bindings implement it under the refinement
mapping that reads the log off `lifecycle.db`.

### Shim and Correlator

A pump is reading, forwarding, completing or finishing one frame; each step that
takes the event lock sends one event (`TakeFrame`, `Complete`, `Finish`). The main thread is
`run`'s loop: `Poll`, `Receive` or `Timeout`, then `Drain`, `Stop`, `Join` and
`Rest`. `HandleEvent` applies an event to `FrameOrder` and hands every ready frame to the
correlator and to the journal, as one step, because only this thread touches
them. A frame's auxiliary field `known` holds what its sender had seen, so
that causal order can be stated without trusting the numbers the code assigns.
`CancelVisible` distinguishes the platforms: on Windows a blocked write learns
of its cancellation from the same handle, on Unix the input pump asks its reader.
`habits`, chosen at the start, says what peers and files may do in a behaviour: an
instance can so combine many frames with calm peers and few frames with wild ones.

Abstracted: the contents of frames; stderr; I/O errors of `try_wait` and `kill`;
descendants of the server that keep its pipes open. The branch of `run` for a
disconnected channel is absent because the main thread itself holds a sender
until it drains. The channel is unbounded (`shim.rs:263`): that pumps can forward
faster than the journal is appended to, and memory grows, is not a question the bounded model can ask.

### JournalIndex

A journal is a sequence of whole lines, heads and tails of lines; the digest of
a prefix is the prefix itself, row ids are positions. A refresh is one immediate
transaction, so one at a time: `Begin`, `Prepare` per file (does it still begin
with its recorded prefix?), `Decide`, `Visit` per file, `Correlate`, `Visit` the
annotations, `Relink`, `Inventory`, `FinishFile` per file, `Commit`; any refusal rolls
back, and `Die` is a crash. Recorders append under the lock of one file between any two of
these steps; editors do not lock. A scenario, chosen at the start, says what is written and
how the files are edited. `Accept` is what the visitors of `build_mode` do with one record, `AcceptAll` and `Lines` are the
folds over the records and the bytes of a file. A refresh checks that files have not changed, not that they never did: a file that is
created and removed after the directory was listed, a truncation made up for by an append, or a line put back by a second edit
refutes `OneMoment`. The scenarios of `index_edits`, and the theorem, therefore have at most one edit, which replaces a line.

### McpClient

The client is sequential: one operation (`Begin` with `"request"`, `"observe"`,
`"cancel"`, or `BeginWait`) at a time, which writes through the writer thread, then takes frames from the reader's
queue until its deadline. Time is abstract: whoever waits for a deadline may
pass it at any step, and the evaluation's own deadline (`Expire`) too. The server
answers a request at most once, in any order, late or never, sends updates and
requests of its own, stops reading, exits, and leaves its pipes to a descendant or not.

Abstracted: the handshake, paging, banners and invalid JSON, the null-id frame
rejection of the size-bound probe, the classification of results.

### Evaluation, ProbeCases and ProbeContract

`Evaluation` is the loop of `run`: open the connection, list the tools, then case by case
acquire, ask, judge, report, and replace a connection that a case has cost. A workflow borrows
the connection and gives it back; a contention case runs a second session on a
thread of its own, and both hand over through rendezvous channels (`Meet`). The deadline may pass
(`Expire`) and the budget be refused at any request. A runner of `ProbeCases` is a function of the
answers so far, so the order of its requests and its early returns are kept and TLC can
give it every answer that the kind tells apart. `ProbeContract` says what a pass means without any order;
`VerdictMeansContract` compares the two in every state that reports, but for the one departure that `WithoutValues` names: a
completion without values breaks the documented contract and passes (see below). `ValidCase` is what
`validate_case` (`manifest.rs:617-902`) and the types of a manifest's fields demand of a case, and `Readable` what a client
can make of an answer; `ManifestsAssumption` says that only valid manifests are run.

Abstracted: what answers say, up to the finite sets of `MCEvaluation`'s `Replies`; the
wording of details, of which only the bound and the measurement they name are kept.

### Standard, Score, ToolInput and Command

`Standard` goes through the battery's stages (refusals, calls, the two cases on the whole server, protocol checks)
over a connection that any request may lose and a reconnect may not bring back. `Score` folds
what was observed as `score.rs` does: deductions, weights, redistribution, ceilings, medians, rounding. The
code computes in `f64`; the model in integers of a hundredth part, exactly, so a tie that
a floating-point error would tip is rounded the way the exact value rounds. The logarithmic curve is
a constant that is monotone and right at both ends. `Command` adds the stages and exit codes of a process.

`ToolInput` is recursive over schemas with the budgets of the code, scaled. A schema has one
rule, the first that applies; numbers are integers. "Must be refused" is JSON Schema 2020-12, minus
documents with pattern properties, whose names `standard.rs:593` does not look at. Only TLC looks at it: an
operator declared RECURSIVE is out of the prover's reach.

### Serve, HttpProxy, HttpClient, TrendCache, Salt, Share, Guidance

- `Serve`: a connection is accepted, queued or shed; a worker takes it, screens the request
  (in the code's order, so a request with several defects gets the first one's answer), routes it, and replies. The guard of
  the evaluation lock is dropped before the reply; a panic poisons the lock and costs the worker.
- `HttpProxy`: every exchange has its own scope in the one correlator. Upstream, client and the append
  of a record may each fail.
- `HttpClient`: the server plays a script of messages, may be slow, and may wait for the answer to
  a request of its own. A cancelled call is on a thread of its own: the notification may overtake the call.
- `TrendCache`: appenders and readers lock, an editor does not. `seen` holds the journals that existed during a load.
- `Salt`: load, create a temporary file, write, link without replacing, unlink; each process may die anywhere.
- `Share`: stage, validate, look, preserve, publish, restore or discard; each process may die anywhere.
- `Guidance`: pages arrive as the server likes, also with cursors that repeat or are no strings; tools appear and vanish between pages and profiles.

### Gates

One comparison only sees two reports. `Gates` keeps the first and the newest report of a chain whose
every link passed, under options that stay, and asks what is left of the first one's promise. `Regenerate`
starts a chain anew.

A schema is what stands at the paths of its document, references unfolded: the wording of an object's own keywords, its
reference, and what is hidden, that is said below keys named like prose (`title`, `default`, ...) where they are
no keywords, as in an object of an `enum` or in `dependentRequired`. Prose itself constrains nothing and is left out. `Digest` is `constraints` and `constraint_digest`: a
local reference is followed, up to `MaxRefDepth` of them on the way to a place, its object's siblings and their subschemas are dropped, what is
hidden is dropped, and everything else is kept with its place. Only the SHA-256 prefix of that text is taken as injective.
`Meaning` is all that the schema says, and `Accepts` may be any function of it, so combinators such as `anyOf` and `not` are covered.
Two schemas of one digest may therefore accept different values: one that narrows an argument beside a `$ref`, in a hidden
key, or behind more references than are followed is listed by `diff` neither as breaking nor for review. `CallersServed`
leaves such schemas out by name: `Transparent` schemas, on which `DigestDecides` proves the digest to lose nothing, accept the same
values at both ends of a chain; of the opaque ones (and of schemas that refer to themselves, whose unfolding has no end)
only their presence is promised. The instance has an opaque schema of each of the three sorts, and without the exception
`CallersServed` fails on it. Siblings of a `$ref` count, as in JSON Schema 2020-12; in draft-07 they constrain nothing. Left out: data of a `const`
or an `enum` with a `$ref` key of its own, which the code takes for a reference.

Not in a contract, in the code and here: keywords outside properties and required. A parameter that is required
but not declared and later gets a declaration is no change to `catalog_contract.rs`, so `Knows` speaks of callers
that pass declared parameters. Case ids are taken as unique, which `manifest.rs:623` checks
for manifests and nothing checks for a report read from a file.

## Runs

| Run | Question | Instance |
|---|---|---|
| `lifecycle_upgrade` | does an upgrade keep, import once and re-key what an older store holds, and do both files agree? | a store with two ids for one template, two cases of which one has an oracle, one verification, one promotion, 2 runs |
| `lifecycle_concurrent` | can interleaved verifications and promotions close a finding too early, do rows implement the documented rule, is evidence about the bytes that ran? | two verifications, one promotion, one rebuild, 4 runs |
| `lifecycle_promote` | violation, see below | |
| `shim_order` | are frames correlated in causal order and paired right? | two ids and four frames with failures and server exit; two frames of any kind, peers that leave |
| `shim_terminates` | does the shim end, does a status mean that all was recorded, does output flow while the input pump is stuck? | pipes of one; two calls with failures and peers that leave; three frames of chatty peers that stay |
| `shim_aborted` | violation, see below | Unix |
| `index_appends` | is an incremental index the reconstruction, under appends, half lines, truncation and removal? | three files, three writes, one edit, two refreshes |
| `index_edits` | are edits during a refresh noticed, contradictions refused alike, known calls linked? | a replaced record; events that contradict; annotations; two or three files, up to four writes |
| `evaluation` | does a verdict mean what the kind promises, does every evaluation and every operation of a client end, are late answers tolerated and updates kept? | a case of every kind and setting, then a plain one, nine requests; a client with two requests and pipes, queue and buffer of one |
| `readiness` | does skipping tools pay, does the gate depend on the machine, does the exit code tell the truth, do arguments serve their purpose? | surfaces of up to two tools; 9992 schemas |
| `readiness_surfaces` | violation, see below | |
| `services` | do the budget, serve, the HTTP recorder and client, the trend history, the salt, shares, gates and guidance keep what they promise? | two or three actors each, one death or lost append, see `MCServices.cfg` |

### Bounds, and why they are enough

`MaxPasses = 3` makes the counter saturate where the real one does after
2^63 runs. Closing needs three runs,
and the shortest histories that could fool the rule (a run of another
definition, a replay, a red run between) fit into three or four. Two
verifications are enough to have one record between another's preparation and
its record; `LastRunAlone` lets the fourth run, which shows what follows the third, not overlap another one. Two legacy ids are the least that a re-key can merge.

In the proxy the interesting cases need a reused id: request, response,
request again and its response are four frames. Pipes of one frame make every
write block; larger pipes only hide it. An index refresh depends on earlier ones
through the checkpoint alone, so two refreshes with writes before, between and
during them show what a sequence of them does. In the client two requests suffice for an answer to
arrive during another request; capacities of one reach every limit, and one thing sent unasked (`MaxUnasked`) is
either an update or a request.

A case of an evaluation reaches another one only through the connection and the budget, so every kind followed by a
plain case shows both. Nine requests are fewer than some of these evaluations need and enough for the others, so the
budget ends before, in and after a case. Three threads have two that race and one that is stale. Three comparisons are the shortest chain whose
middle links differ; the theorems are about every length. Two workers and a queue of one make the pool run full while an evaluation hangs.
One edit of the trend file is one ABA less than could be: bytes changed twice between two reads of a loader are not covered.

TLC finds no deadlock in the proxy and lifecycle runs; the other systems stop at their end or at
their bounds, so these runs do not check deadlock (`OperationsEnd`, `EvaluationEnds` and `QueriesAnswered` say where they may stop).

### Fairness

- `Shim`: the threads and the main loop are scheduled; the agent reads what it is
  sent; a server exits after the end of its input, which is what the shim waits
  for by design. Nothing forces reads to fail, peers to write or to leave. An output pump
  that is blocked on an agent which neither reads nor leaves keeps the shim: this
  lies in a proxy's nature and is why the agent is assumed to read. `Terminates` excepts a
  live server that never reads its full pipe.
- `McpClient`: the client proceeds, deadlines pass (the code computes one for every
  wait), the two threads are scheduled. Nothing is assumed of the server.
- `Evaluation`: its main thread, the contention thread and their rendezvous proceed; an exchange
  ends, with an answer or as lost, because `OperationsEnd` says so of the client below. Nothing is assumed of the deadline.
- `Serve`: every worker's own steps; evaluations need not end, clients need not connect. Panics may cost workers: with fewer
  than two left nothing is promised.
- The other runs check safety only.

## Proofs

`tlapm` proves, for every value of the constants that satisfies the modules' named assumptions (`ConstantsAssumption`, `LegacyAssumption`,
`ShimAssumption`, `BudgetAssumption`, `GatesAssumption`, `GuidanceAssumption`, `LockAssumption`, `SaltAssumption`, `ShareAssumption`, `HttpClientAssumption`,
`ProxyAssumption`, `TrendAssumption`, `StandardAssumption`, `CommandAssumption`, `ManifestsAssumption`, `ServersAssumption`; TLC evaluates them in every run):

**Lifecycle** (`Lifecycle_proofs`)

- `TypeCorrect`: `Spec => []TypeOK`.
- `ClosedSafely`: `Spec => []ClosedByThreeGreens`. The property is not
  inductive: the transition reads a counter. `StreakInv` says that a bound row's
  counter is backed by as many green runs at the end of its log. A promotion
  renames history, so one also has to know that it never renames runs: `CodesInv` (no
  run is recorded for an id of an older release), which rests on `ClassedInv`
  (what this release promoted has a current id) and `VerifierInv` (a verification
  past its binding is for such a finding). `UnimportedInv` makes the import harmless.
- `CreditEarned`: `Spec => []CreditHasRuns`. A record adds one run id to the green ones, which is new because a run id already
  in the history changes nothing (`RunsNamed`); the set is finite as run ids are bounded by the clock (`RunsCounted`). `HistoryKept`
  (`HistoryRetained`) is read off each step under `IInv`; `ImportedOnce` uses that imported outcomes come first (`LegacyFirst`); `RanOnBoundBytes`
  that bytes on disk only get newer (`BytesInv`); `CacheFollows` that the run a record copies is the only one of its id.
- `FollowsStreaks`: `Spec => ImplementsStreaks`, the refinement of `VerificationStreak`. The logs of the abstract specification are a fold of the
  concrete history (`Logs`), so every step needs to know what the fold does when a run is recorded, when outcomes are
  imported in front and when a promotion renames them: the lemmas on reading (`ReadsExist`, `ReadAlike` and those after), by induction. `LogsInv` says that every row
  says what its log says (status, credit, binding); `CleanInv` that a group whose error finding can be verified has no row of an older release left, so that a
  promotion moves nothing a run was recorded for.

**Proxy** (`Shim_proofs`)

- `TypeCorrect` and `NoEventRefused` (`EventsAccepted`): `FrameOrder` never refuses
  an event. `ReservedInv` says that the reservations in the channel continue those
  handled, ascending and without gaps; `ForwardedInv` that a completion on its way
  finds its reservation open (ahead of it in the channel, or pending and not
  retired), is the only one, and precedes the end of its pump; `PumpInv` carries this
  back to the pump that still forwards the frame.
- `CorrelatedInCausalOrder` (`CausalOrder`): whatever the sender of a reserved frame had seen is `Ahead` of it: correlated, or carried by a lower reservation that is `Secured`
  (forwarded, or its completion on the way, so that it cannot be retired). `Coming` says the same of frames still in a pipe. Ready frames are handed on
  by number, which needs a count of the numbers below each (`Ranks`). Together: `CInv`.
- `CallsAreNotMixedUp` (`CallsPaired`): what the two peers wrote pairs by itself (`Pairs`: a response is known to follow its request, has its id, and is the only one; of two requests of an id one
  knows the other's answer), and frames are correlated after all they know of (`Ordered`, from `CausalOrder`). So a request that waits in the
  correlator has no answer among the frames correlated (`Outstanding`), and the next response of its id is its own. `PeerInv` and
  `StreamInv` carry the pairing through pumps and pipes (`FInv`).
- `NothingIsLost` (`StatusMeansRecorded`): the main thread that has seen every pump end (`EndingInv`, `JoinedInv`) has no frame in
  the channel nor pending (`RInv`), because draining is a fold that handles every event (`FoldSteps`).

**Evaluation** (`Services_proofs`, `Evaluation_proofs`)

- `BudgetIsKept` and `RefinesRequestBudget`: relaxed loads may be stale, but a counter only grows, so whatever a thread has
  read is at most the counter, and one that read the limit, or saw the flag, does so after the last grant. The refinement is
  proved step by step: only a successful exchange and the first refusal are steps of `RequestBudget`.
- `RefusalIsNoVerdict` (`NoVerdictAfterExhaustion`): a refused request is the last of its case and is what cut it (`CutInv`). Its hypothesis, that no
  server's answer is the client's own refusal, holds in the code by type: `CallError` against a result.
- `VerdictsKeepContracts` (`VerdictMeansContract`): for each of the twenty kinds, a decided case passes exactly when its answers keep the contract (completions `WithoutValues` excepted), and a
  bound that a report names is exceeded by the measurement beside it. The contract speaks of all the answers at once, the runner of the last one or two; what links them is that
  a runner has seen every prefix of the answers and has decided on none (`Unsettled`). `VerdictInv` says so of the case under way (`Heard`, in `PlaceInv`), of what the threads of
  a contention were told (`ThreadsInv`) and, for cases that are left, that their verdict is `Sound` (`DetailsInv`). `HeardIs` and `HeardBefore` turn
  it into facts about the answers (all but the last were good ones, the last may be a loss), and one lemma for each kind (`ContentionSound`, `FidelitySound`,
  `PaginationSound`, `ListingSound`, ...) finishes the case, with an induction where a kind goes on until something ends it: pages whose entries must
  not repeat, listings one after the other, retries, workflow repetitions. Sums of tokens, the slowest answer and the entries of all pages are folds of
  the community modules, whose recursive functions have to be shown to exist first (`SumSteps` and the lemmas around it).
  Its hypothesis `AnswersAreReadable` asks of the servers only what the clients' types let through (`Readable`: a cancellation has one of three outcomes, only
  a page has a cursor); TLC evaluates it on the instance's answers as `AnswersAssumption`.
  Manifests may be as long as they like, servers may have any catalog, and budgets and deadlines may end an evaluation anywhere.

**Client** (`McpClient_proofs`)

- `ResponsesMatch` (`NoFalseMismatch`): the id of a request is in one place, with the writer, in a pipe, with the server or in the queue (`OnceInv`), and as long
  as the client may still take frames, an id anywhere is the one it waits for or one it has given up (`CoverInv`). Forgetting an id is safe because its one
  answer has just been taken; every other way out of an operation fails the connection, has spent the budget or has seen the end of the output.
- `UpdatesAreKept` (`UpdatesKept`): what the server had sent before a response is taken, or ahead of it in the queue and the pipe (`Explained`,
  `UpdateInv`), and what was taken is reported, skipped or kept.

**Index** (`JournalIndex_proofs`)

- `IndexIsThatOfWhatWasRead` and `IncrementalIsReconstruction` (`SameAsReconstruction`), for any files, scenarios and number of refreshes. A committed index says
  nothing about how it came about, so the invariant follows the refresh: `WorkingInv` says that the open transaction holds exactly the index of what was
  read so far (`Working`), which is of every file the lines before its offset, and all complete lines of the files visited (`Seen`); `PreparingInv` that
  what the sources claim is what `basis` holds; `Ready`, which `Decide` establishes, that what is still to be read comes after all
  records of its kind, because only the last old file of a kind has grown and the new ones follow it. So the reference grows at its end
  when a file is visited (`JournalGrows`), and the visitors' fold can be compared with it record by record: `AcceptCalls` shows by induction that
  it keeps the first record of each event in their order, counts the replays, and stops at a contradiction exactly if the records do not `Agree`; `LinesOfConcat`
  that reading on after complete lines gives the rest of what reading from the start gives. Windows and links may be out of
  date before `Correlate` and `Relink` only if something they depend on has changed. Editors need no hypothesis: what a refresh takes in is its
  snapshot, and `Begins` compares it with the file.
- `CommitsOneMoment` (`OneMoment`), under `FewEdits`: a file that does not begin with its snapshot when all of them have been read keeps not doing so, as
  one edit cannot be taken back (`Noticed`), so `FinishFile` meets it. Without an edit journals only grow (`StillThere`). `FewEdits` is an assumption on the scenarios, not on the
  sizes; why the code promises nothing more is said above.
- `KnownCallsAreLinked` (`KnownCallsLinked`): annotation files are named, and so read, before those of calls (`InOrder`). Where an annotation is in a snapshot, its call
  was in a journal before it (`NoteIsKnown`), and that journal is read later, or was created after the directory was listed, in which case
  `Inventory` refuses. `TargetOfKnown` needs `SameAsReconstruction`'s invariant: an event is one call of the index, so its target is unique.

**Journals** (`Journals_proofs`)

- `ProxyIsFaithful` (`JournalFaithful`): an exchange that waits for the lock, numbers, remembers and appends (`ProxyIInv`) writes what its peer heard, under
  its own number, or counts a gap.
- `QueryIsScan`: a page of the trend history is the scan of the file. `Tracks` relates the rows to the kept lines in their order, `RowNumber` counts them.
- `CacheServesJournal` (`ServedIsJournal`): a reader's rows belong to a journal that existed during its load (`Sound`), or its load will not commit
  (`Doomed`). The theorem assumes `MaxEdits <= 1`: with two edits TLC finds an editor who puts back what was digested while a reader commits
  the lines it read in between, and the next reader is served those. Editors take no lock, so this is a limit of the code and not of the proof.

**Services** (`Services_proofs`)

- `RootsAreAnswered`, `CancellationsAreJudged` (`HttpClient`): `RepliesInv` says which requests of the server were answered, `VerdictInv` that the
  verdict is of the first message that is the call's own (`OwnIsFirst`, `VerdictSound`).
- `CallersAreServed`, `RegressionsAreSeen`, `DriftIsBounded` (`Gates`): by induction along the chain. `ContractsKept` compares the first catalog with the newest by
  `Unbroken`, which is transitive, where "no breaking change between neighbours" is not; `NoChangeBreaks` shows that a pair that passes is unbroken, parameter
  by parameter, in terms of digests. `DigestDecides` is about `constraints` itself: transparent schemas that share a digest say the same. Equal
  digests are transitive, so only the schemas at the two ends need be transparent, not those in between. `CasesKept` and `ScoreKept` carry the missing cases and the number of comparisons.
- `EvaluationsAreAdmitted` (`Serve`): `LockInv` (who evaluates holds the lock and the other way round), `QueueInv` and `HandlingInv` (a
  connection is queued once or with one worker), `AskedInv` (who evaluates was asked to).
- `SaltIsOne`: what is linked is whole (`SaltInv`), and past its link a process finds a salt, whoever won.
- `EnvelopesAreKept` (`Share`): a share that has preserved nothing has an empty backup (`BackupInv`), and while any share discards
  what it replaced there is an envelope that none of those who discard holds (`DiscardInv`): two shares cannot each drop the other's.
- `GuidanceIsFounded`: a session gets past its listing only with a last page, and the verdict waits for the last session.

**Battery** (`Standard_proofs`)

- `ExitIsTruthful` (`ExitTellsTheRun`): a battery is begun only when one was asked for, and a floor is judged only after a battery (`RunInv`).
- `ScoreIsMachineIndependent` and `SkippingIsNoGain` (`MachineIndependent`, `SkippingNeverPays`): `ObservedInv`, proved of every step by `BatteryObserves`, says that the
  observations are the catalog's tools in order, each with the shape of an observation, and that a tool has a verdict on its refusals
  exactly when it is to be judged, also when it was skipped (else skipping would take it out of the denominator). The rest is about the score: a sum over a finite set grows with
  its terms (`SumGrows`, by induction on the size of the set), a rounded share grows with its part and shrinks with its whole
  (`RoundGrows`, `RoundShrinks`), and so area by area what is skipped, or slow, scores no more. Both assume `CurveIsPercent`, that
  `log_curve` (`score.rs`) gives 0 to 100. `CommandRunsBattery` carries them over to `probe` and `score`.

Each was checked as an invariant or property by TLC before it was proved; `TypeOK` of `Lifecycle` and `Shim` is not listed in a run any more.

Induction over numbers and over what a fold has consumed is available in the form of one lemma per module (`InductionOnNat`), obtained from
`NatLessThanWellFounded` and the minimal element of a well-founded relation: it speaks of a set, not of an operator, so it can be cited. That is how the folds
of `Lifecycle`, `Shim` and `JournalIndex`, the query of `TrendCache`, the sums of `Score` and the answers of a case are reasoned about.

Only model-checked: every liveness property (`Terminates`, `OutputDelivered`, `OperationsEnd`, `EvaluationEnds`, `QueriesAnswered`), because liveness
under fairness and `ENABLED` are out of the prover's reach; `ArgumentsServeTheirPurpose`, because operators declared RECURSIVE are.

## Findings

- `lifecycle_promote`: `promote` groups failures before it opens its transaction
  (`promote.rs:220`, `257`). An `index` in between leaves findings that do not
  describe the indexed calls, although `index.rs:92` derives promotion from the refreshed index.
- `shim_aborted`: on Unix a pump cancelled while it forwards reports the aborted
  write as a failure, so `run` returns an error in place of the child's status;
  `shim/tests.rs` has a test that says cancellation suppresses an aborted write.
- `readiness_surfaces`: the check of declared resources and prompts asks the live client what the server declares
  (`standard.rs:846`). When the check before it lost the connection and the server does not come back, the check is left out in place of
  failing, although `standard.rs:173` promises each applicable one.

Seen while modelling:

- target bytes that are changed and put back between the two digests of a verification are not noticed;
- a torn append makes every later refresh refuse the journal;
- a server's own request is compared with the ids of the client's abandoned requests (`mcp_client.rs:833`);
- a buffered update of an earlier subscription satisfies a later wait (`mcp_client.rs:705`);
- `exit.rs:8-9` says of an operational error that nothing was evaluated, while `probe` with an unknown `--skip-tool` runs the whole gate first (`probe.rs:412-420`, `475-477`);
- `probe.rs:355-357` promises a fresh connection after a lost exchange; `run_sampling` and the payload probe report a verdict on a lost call and keep theirs;
- `probe.rs:1986-1993` and `evaluation-dimensions.md:141-145` require `completion.values` to be an array of strings; `probe.rs:2059-2063` takes missing
  values, or values that are no array, for an empty list, and the case passes. `Contract` has the documented rule, `WithoutValues` the exception;
- `catalog_contract.rs:52` calls a change breaking if a call that worked can now fail, and the digests of `catalog_contract.rs:182-212` do not see
  what stands beside a followed `$ref`, below a key named like prose in a `const`, an `enum` or `dependentRequired`, or behind a ninth reference:
  a schema narrowed there passes `--fail-on-breaking` with nothing listed for review. `Opaque` is the exception;
- `call_tool_observing` of the HTTP client answers the server's requests after the end of the stream only (`http_client.rs:227`), and an event with the
  id of a call counts as its answer although it is a request;
- two edits of the trend file during one load, the second of which restores what the load digested, leave a cache that the next load serves
  although no journal had those lines when it ran (`trends/cache.rs`; an editor takes no lock);
- a share without `--force` that looked before another one published moves that one's envelope aside; it stays in a backup (`share.rs:261`).

## Plan

Done, in order of importance: lifecycle with its abstract specification and
proofs; proxy and correlator with proofs; index with its proof against the reconstruction; stdio client; evaluation with its contract, its budget and the refinement between them;
battery, score, arguments and exit codes; serve; gates over a chain; the HTTP recorder and client; trends, salt, share and guidance.

What would come next: `wait_for_resource_update` of the HTTP client; `synthesize_value` as a recursive function, so that
`ArgumentsServeTheirPurpose` can be reasoned about.

## Not modelled

- `compare.rs`: a table of reports side by side; it decides nothing.
- Manifests and scaffolding: parsing, generation, and the validation of paths, identifiers, access and texts. What validation demands of the numbers and lists
  that runners use is `ValidCase`; the instances stay within it.
- Records, sanitising, diagnosis: about texts. Rendering and publishing of reports: no state of their own.
- The handshake of both clients, `wait_for_resource_update` over HTTP, the parsing of URLs, events, frames and arguments.
- The platform calls behind `stdio.rs`; the demo server; packaging, actions and corpus scripts.
