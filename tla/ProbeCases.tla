----------------------------- MODULE ProbeCases -----------------------------
(* How each kind of probe case judges what the server answered               *)
(* (src/src/probe.rs:689-2076). A runner is a function of the case c, of     *)
(* what the server declares, srv, and of the answers h it has had so far: it *)
(* asks for More, or it reports. An answer [out, is] came back ("ok" or      *)
(* "error", of which `is` says what the case looks at) or was lost, with the *)
(* exchange in an unknown state.                                             *)
EXTENDS Integers, Sequences, SequencesExt

More == [says |-> "more", attempts |-> 0, first |-> 0, reason |-> "none"]
Pass(n) == [says |-> "passed", attempts |-> n, first |-> 0, reason |-> "none"]
FailAt(n, first, reason) ==
    [says |-> "failed", attempts |-> n, first |-> first, reason |-> reason]
Fail(n, reason) == FailAt(n, n, reason)
Errored(reason) ==
    [says |-> "errored", attempts |-> 0, first |-> 0, reason |-> reason]

LostOuts == {"timeout", "closed", "invalid"}
Lost(a) == a.out \in LostOuts \cup {"exhausted"}

TransportReason(a) ==
    CASE a.out = "exhausted" -> "evaluation-budget-exceeded"
      [] a.out = "timeout"   -> "transport-timeout"
      [] a.out = "closed"    -> "transport-closed"
      [] OTHER               -> "transport-error"

\* The `?` of a call, and of the journal append that follows an answered one.
Raised(h) == h # <<>> /\ (Lost(Last(h)) \/ Last(h).out = "unrecorded")
Raise(h) == Errored(TransportReason(Last(h)))

Unless(failed, n, reason) == IF failed THEN Fail(n, reason) ELSE Pass(n)

\* What the clients make of the n-th answer of a case: a cancellation has one of
\* three outcomes; what is no result of the method, or no page, is invalid, and
\* only an answered tool call is recorded.
Readable(c, n, a) ==
    /\ a.out \in {"ok", "error", "unrecorded", "flood"} \cup LostOuts
    /\ a.out = "flood" => c.kind \in {"sampling", "elicitation"}
    /\ a.out = "unrecorded" => c.kind # "completion"
    /\ a.out = "error" => c.kind # "protocol-negotiation" /\ (c.kind = "cancellation" => n # 2)
    /\ a.out = "ok" =>
         /\ c.kind = "latency-budget" => a \in [out : {"ok"}, is : Nat]
         /\ c.kind = "cancellation" /\ n = 2 => a.is \in {"honored", "ignored", "errored"}
         /\ c.kind = "pagination" => a.is.entries \in Seq(Range(a.is.entries)) /\ a.is.more \in BOOLEAN
         /\ c.kind = "surface-listing" => a.is.more \in BOOLEAN
-----------------------------------------------------------------------------
(* What a manifest may ask (src/src/manifest.rs): validate_case bounds what *)
(* the cases count, and serde its types.  A case that gives no limit for    *)
(* single tools has the total's, which no tool exceeds by itself.           *)

ValidExpectation(e) ==
    \/ e.outcome = "ok" /\ e.code = 0
    \/ e.outcome = "error" /\ e.required = {} /\ e.equals = {}

Kinds == {"discovery-cost", "token-cost", "schema-guessability", "degradation-over-n",
          "instruction-fidelity", "workflow", "error-honesty", "state-recovery",
          "latency-budget", "output-schema", "cancellation", "pagination",
          "surface-listing", "payload-bounds", "protocol-negotiation", "sampling",
          "elicitation", "resource-subscription", "completion", "contention"}

Limits == [tools |-> 10000, bytes |-> 10000000, total |-> 1000000, tool |-> 100000,
           latency |-> 600000, pages |-> 1000]

ValidCase(c) ==
    /\ c.kind \in Kinds
    /\ c.kind = "discovery-cost" => c.maxTools \in 1 .. Limits.tools /\ c.maxBytes \in 1 .. Limits.bytes
    /\ c.kind = "token-cost" =>
         /\ c.maxTotal \in 1 .. Limits.total /\ c.maxTool \in 1 .. c.maxTotal
         /\ c.maxTool <= Limits.tool \/ c.maxTool = c.maxTotal
    /\ c.kind = "schema-guessability" =>
         c.schema.object \in BOOLEAN /\ c.schema.required \in Seq(Range(c.schema.required))
    /\ c.kind = "degradation-over-n" => c.maxAttempts \in 2 .. 100
    /\ c.kind = "instruction-fidelity" => ValidExpectation(c.expect)
    /\ c.kind = "workflow" =>
         /\ c.repetitions \in 1 .. 20 /\ c.steps \in Seq(Range(c.steps)) /\ Len(c.steps) \in 2 .. 32
         /\ \A i \in DOMAIN c.steps : ValidExpectation(c.steps[i])
    /\ c.kind = "error-honesty" =>
         c.maxAttempts \in 2 .. 20 /\ c.expectRetryable \in {"true", "false"}
    /\ c.kind = "latency-budget" => c.attempts \in 2 .. 20 /\ c.maxLatency \in 1 .. Limits.latency
    /\ c.kind \in {"pagination", "surface-listing"} => c.maxPages \in 1 .. Limits.pages
    /\ c.kind = "resource-subscription" => c.trigger \in BOOLEAN
-----------------------------------------------------------------------------
(* Cases that only look at the catalog: no request. *)

Total(sizes) == FoldLeft(LAMBDA x, y : x + y, 0, sizes)

DiscoveryCost(c, srv) ==
    Unless(Len(srv.tokens) > c.maxTools \/ srv.bytes > c.maxBytes,
           1, "discovery-limit-exceeded")

TokenCost(c, srv) ==
    Unless(\/ Total(srv.tokens) > c.maxTotal
           \/ \E i \in DOMAIN srv.tokens : srv.tokens[i] > c.maxTool,
           1, "token-budget-exceeded")

\* The first required field, in order, that is undeclared or not given.
CheckSchema(schema, arguments) ==
    LET broken == {i \in DOMAIN schema.required :
                     schema.required[i] \notin schema.properties \cap arguments}
        first == CHOOSE i \in broken : \A j \in broken : i <= j
    IN IF ~schema.object THEN "invalid-schema"
       ELSE IF broken = {} THEN "none"
       ELSE IF schema.required[first] \notin schema.properties THEN "invalid-schema"
       ELSE "missing-required-argument"
-----------------------------------------------------------------------------
(* Cases that call a tool, and record each answered call. *)

SchemaGuessability(c, h) ==
    LET preflight == CheckSchema(c.schema, c.arguments)
    IN IF preflight # "none" THEN FailAt(0, 1, preflight)
       ELSE IF h = <<>> THEN More
       ELSE IF Raised(h) THEN Raise(h)
       ELSE Unless(h[1].out = "error", 1, "unexpected-outcome")

DegradationOverN(c, h) ==
    LET n == Len(h)
    IN IF Raised(h) THEN Raise(h)
       ELSE IF n > 0 /\ Last(h).out = "error" THEN Fail(n, "unexpected-outcome")
       ELSE IF n = c.maxAttempts THEN Pass(n)
       ELSE More

CheckExpectation(e, a) ==
    IF e.outcome # a.out THEN "unexpected-outcome"
    ELSE IF a.out = "error"
      THEN IF e.code \in {0, a.is.code} THEN "none" ELSE "error-code-mismatch"
    ELSE IF ~a.is.object \/ ~(e.required \subseteq a.is.has) THEN "missing-field"
    ELSE IF ~(e.equals \subseteq a.is.same) THEN "value-mismatch"
    ELSE "none"

InstructionFidelity(c, h) ==
    IF h = <<>> THEN More
    ELSE IF Raised(h) THEN Raise(h)
    ELSE LET reason == CheckExpectation(c.expect, h[1])
         IN Unless(reason # "none", 1, reason)

\* Two answers open the session: initialize and the catalog, in which no step
\* may be a writer or missing.
WorkflowOpening == 2
Workflow(c, h) ==
    LET n == Len(h) - WorkflowOpening
        step == c.steps[((n - 1) % Len(c.steps)) + 1]
        reason == CheckExpectation(step, Last(h))
    IN IF Raised(h) THEN Raise(h)
       ELSE IF n <= 0
         THEN IF h # <<>> /\ Last(h).out = "error" THEN Errored("transport-error")
              ELSE More
       ELSE IF reason # "none" THEN Fail(n, reason)
       ELSE IF n = c.repetitions * Len(c.steps) THEN Pass(n)
       ELSE More

\* (A mutant of HintMatches.) Nobody compares the two places.
FirstHintMatches(c, a) ==
    c.expectRetryable = IF a.is.data # "absent" THEN a.is.data ELSE a.is.legacy

\* A missing hint is no hint; the current place of the hint wins over the old
\* one, and the two must not disagree.
HintMatches(c, a) ==
    LET hint == IF a.is.data # "absent" THEN a.is.data ELSE a.is.legacy
    IN /\ hint = c.expectRetryable
       /\ "absent" \in {a.is.data, a.is.legacy} \/ a.is.data = a.is.legacy

ErrorHonesty(c, h) ==
    LET n == Len(h)
    IN IF n = 0 THEN More
       ELSE IF Raised(h) THEN Raise(h)
       ELSE IF Last(h).out = "ok"
         THEN IF n = 1 THEN Fail(1, "expected-error")
              ELSE Unless(c.expectRetryable # "true", n, "unexpected-outcome")
       ELSE IF Last(h).is.code # h[1].is.code THEN Fail(n, "unstable-error-code")
       ELSE IF ~HintMatches(c, Last(h)) THEN Fail(n, "retryability-mismatch")
       ELSE IF c.expectRetryable # "true" /\ n = 2 THEN Pass(2)
       ELSE IF n = c.maxAttempts THEN Fail(n, "retry-did-not-recover")
       ELSE More

\* The failing call, the recovering call and the validating call.
StateRecovery(c, h) ==
    LET n == Len(h)
    IN IF n = 0 THEN More
       ELSE IF Raised(h) THEN Raise(h)
       ELSE IF (n = 1) = (Last(h).out = "ok")
         THEN Fail(n, <<"failure-not-observed", "recovery-failed",
                        "validation-failed">>[n])
       ELSE IF n = 3 THEN Pass(3)
       ELSE More

\* The latency of an answer is what it says.
Slowest(h) == CHOOSE l \in {a.is : a \in Range(h)} : \A a \in Range(h) : a.is <= l

LatencyBudget(c, h) ==
    LET n == Len(h)
    IN IF Raised(h) THEN Raise(h)
       ELSE IF n > 0 /\ Last(h).out = "error" THEN Fail(n, "unexpected-outcome")
       ELSE IF n > 0 /\ Last(h).is > c.maxLatency THEN Fail(n, "latency-budget-exceeded")
       ELSE IF n = c.attempts THEN Pass(n)
       ELSE More

\* A tool without an output schema is not called.
OutputSchema(c, h) ==
    IF ~c.declared THEN Pass(0)
    ELSE IF h = <<>> THEN More
    ELSE IF Raised(h) THEN Raise(h)
    ELSE IF h[1].out = "error" \/ h[1].is = "unstructured"
      THEN Fail(1, "output-schema-declared-but-missing")
    ELSE IF h[1].is = "incomplete" THEN Fail(1, "output-schema-field-missing")
    ELSE Unless(h[1].is # "conforming", 1, "output-schema-invalid-result")

\* A call, the cancelled call's outcome, and where cancelling is optional a
\* call that shows the session still works.
Cancellation(c, h) ==
    LET n == Len(h)
    IN IF n = 0 THEN More
       ELSE IF Raised(h) THEN Raise(h)
       ELSE IF n = 1 THEN IF h[1].out = "ok" THEN More ELSE Fail(1, "unexpected-outcome")
       ELSE IF n = 3 THEN Unless(h[3].out = "error", 3, "recovery-failed")
       ELSE IF h[2].is = "errored" THEN Fail(2, "cancellation-errored")
       ELSE IF ~c.requireHonored THEN More
       ELSE Unless(h[2].is = "ignored", 2, "cancellation-ignored")
-----------------------------------------------------------------------------
(* Cases that look at the envelopes themselves. *)

\* The entries of a page are judged one by one: malformed, or seen before.
FirstBadEntry(seen, entries) ==
    LET bad == {i \in DOMAIN entries :
                  \/ entries[i] = "malformed"
                  \/ entries[i] \in seen \cup {entries[j] : j \in 1 .. (i - 1)}}
    IN IF bad = {} THEN "none"
       ELSE IF entries[CHOOSE i \in bad : \A j \in bad : i <= j] = "malformed"
         THEN "pagination-invalid-entry"
       ELSE "pagination-duplicate-tool"

\* (A mutant of Stalled.) The pages that were asked for.
StalledAt(pages) == pages
Stalled(pages) == pages + 1

Pagination(c, h) ==
    LET n == Len(h)
        seen == UNION {Range(h[i].is.entries) : i \in 1 .. (n - 1)}
        reason == FirstBadEntry(seen, Last(h).is.entries)
    IN IF n = 0 THEN More
       ELSE IF Raised(h) THEN Raise(h)
       ELSE IF Last(h).out = "error" THEN Fail(n, "pagination-invalid-entry")
       ELSE IF reason # "none" THEN Fail(n, reason)
       ELSE IF ~Last(h).is.more THEN Pass(n)
       ELSE IF n = c.maxPages THEN Fail(Stalled(n), "pagination-stalled-cursor")
       ELSE More

\* resources/list, then prompts/list: each declared surface has its pages. A
\* lost listing is a verdict on the surface.
SurfaceListing(c, h, srv) ==
    LET surfaces == Cardinality(srv.declares \cap {"resources", "prompts"})
        ended == {i \in DOMAIN h : h[i].out = "ok" /\ ~h[i].is.more}
        pages == Len(h) - (IF ended = {} THEN 0 ELSE Max(ended))
    IN IF Cardinality(ended) = surfaces THEN Pass(1)
       ELSE IF pages = 0 THEN More
       ELSE IF Last(h).out # "ok" THEN Fail(pages, "surface-invalid-envelope")
       ELSE IF pages = c.maxPages THEN Fail(Stalled(pages), "surface-stalled-cursor")
       ELSE More

\* The oversized call, then a ping on the same session; only a case that
\* passes is recorded. A lost exchange is a verdict on the payload.
PayloadBounds(c, h) ==
    IF h = <<>> THEN More
    ELSE IF Last(h).out = "unrecorded" THEN Raise(h)
    ELSE IF Lost(Last(h)) THEN Fail(1, "payload-unhandled")
    ELSE IF Len(h) = 1
      THEN IF h[1].out = "error" /\ c.expectHandled
             THEN Fail(1, "unexpected-outcome") ELSE More
    ELSE Unless(h[2].out = "error", 1, "payload-unhandled")

\* The version each answer names; "none" without one. A supported version,
\* or another one that is then echoed; not the unknown one; and the version
\* named for the unknown one is then echoed.
DateShaped == {"supported", "another", "unknown"}
ProtocolNegotiation(c, h) ==
    LET n == Len(h)
        extra == IF h[1].is = "supported" THEN 0 ELSE 1
    IN IF n = 0 THEN More
       ELSE IF Raised(h) THEN Raise(h)
       ELSE IF n = 1
         THEN IF h[1].is \in DateShaped THEN More
              ELSE Fail(1, "negotiation-invalid-version")
       ELSE IF n = 1 + extra
         THEN IF h[2].is = h[1].is THEN More
              ELSE Fail(1, "negotiation-inconsistent-support")
       ELSE IF n = 2 + extra
         THEN IF Last(h).is = "unknown" THEN Fail(2, "negotiation-echoed-unknown")
              ELSE IF Last(h).is \in DateShaped THEN More
              ELSE Fail(2, "negotiation-invalid-version")
       ELSE Unless(h[n].is # h[n - 1].is, 3, "negotiation-inconsistent-support")

\* A call during which the server may ask for samples or input. Too many
\* requests and a deadline are verdicts; any other loss is not.
ServerRequests(h, flood, stalled, invalid) ==
    IF h = <<>> THEN More
    ELSE IF h[1].out = "flood" THEN Fail(1, flood)
    ELSE IF h[1].out = "timeout" THEN Fail(1, stalled)
    ELSE IF Raised(h) THEN Raise(h)
    ELSE Unless(h[1].out = "error" /\ h[1].is = "coded", 1, invalid)

Sampling(c, h) ==
    ServerRequests(h, "sampling-request-flood", "sampling-stalled-call",
                   "sampling-invalid-request")

Elicitation(c, h) ==
    ServerRequests(h, "elicitation-request-flood", "elicitation-stalled-call",
                   "elicitation-invalid-request")

\* Read, subscribe, trigger (where there is one), wait, unsubscribe.
SubscriptionSteps(c) ==
    <<"read", "subscribe">> \o (IF c.trigger THEN <<"trigger">> ELSE <<>>)
                            \o <<"wait", "unsubscribe">>

ResourceSubscription(c, h, srv) ==
    LET n == Len(h)
        at == SubscriptionSteps(c)[n]
    IN IF "subscribe" \notin srv.declares THEN Pass(0)
       ELSE IF n = 0 THEN More
       ELSE IF at = "read" /\ Last(h).out # "ok" THEN Fail(1, "resource-unreadable")
       ELSE IF at = "subscribe" /\ Last(h).out # "ok" THEN Fail(2, "subscription-rejected")
       ELSE IF at = "trigger" /\ Raised(h) THEN Raise(h)
       ELSE IF at = "trigger" /\ Last(h).out # "ok" THEN Fail(3, "unexpected-outcome")
       ELSE IF at # "unsubscribe" THEN More
       ELSE IF h[n - 1].out # "ok" THEN Fail(3, "subscription-notification-missing")
       ELSE Unless(Last(h).out # "ok", 3, "subscription-rejected")

\* What the answer's completion holds: values that are missing or no list count
\* as an empty list.
Completion(c, h, srv) ==
    IF "completions" \notin srv.declares THEN Pass(0)
    ELSE IF h = <<>> THEN More
    ELSE IF Lost(h[1]) THEN Fail(1, "completion-stalled-request")
    ELSE IF h[1].out = "error"
      THEN Fail(1, IF h[1].is = "names-argument" THEN "completion-argument-unknown"
                   ELSE "completion-invalid-request")
    ELSE IF h[1].is = "not-strings" THEN Fail(1, "completion-invalid-request")
    ELSE Unless(h[1].is = "too-many", 1, "completion-value-flood")

\* The answers of the two sessions, the primary's first.
Contention(c, h) ==
    IF Raised(<<h[1]>>) THEN Raise(<<h[1]>>)
    ELSE IF Raised(h) THEN Raise(h)
    ELSE Unless("error" \in {h[1].out, h[2].out}, 2, "contended-client-failed")

Judge(c, h, srv) ==
    CASE c.kind = "discovery-cost"        -> DiscoveryCost(c, srv)
      [] c.kind = "token-cost"            -> TokenCost(c, srv)
      [] c.kind = "schema-guessability"   -> SchemaGuessability(c, h)
      [] c.kind = "degradation-over-n"    -> DegradationOverN(c, h)
      [] c.kind = "instruction-fidelity"  -> InstructionFidelity(c, h)
      [] c.kind = "workflow"              -> Workflow(c, h)
      [] c.kind = "error-honesty"         -> ErrorHonesty(c, h)
      [] c.kind = "state-recovery"        -> StateRecovery(c, h)
      [] c.kind = "latency-budget"        -> LatencyBudget(c, h)
      [] c.kind = "output-schema"         -> OutputSchema(c, h)
      [] c.kind = "cancellation"          -> Cancellation(c, h)
      [] c.kind = "pagination"            -> Pagination(c, h)
      [] c.kind = "surface-listing"       -> SurfaceListing(c, h, srv)
      [] c.kind = "payload-bounds"        -> PayloadBounds(c, h)
      [] c.kind = "protocol-negotiation"  -> ProtocolNegotiation(c, h)
      [] c.kind = "sampling"              -> Sampling(c, h)
      [] c.kind = "elicitation"           -> Elicitation(c, h)
      [] c.kind = "resource-subscription" -> ResourceSubscription(c, h, srv)
      [] c.kind = "completion"            -> Completion(c, h, srv)
      [] c.kind = "contention"            -> Contention(c, h)
-----------------------------------------------------------------------------
(* The declared bound behind a failure, beside what was measured. *)

NoDetail == <<>>
Detail(bound, limit, observed) ==
    <<[bound |-> bound, limit |-> limit, observed |-> observed]>>

BoundDetail(c, h, srv, v) ==
    CASE v.reason = "discovery-limit-exceeded" ->
           IF Len(srv.tokens) > c.maxTools
             THEN Detail("max_tools", c.maxTools, Len(srv.tokens))
             ELSE Detail("max_schema_bytes", c.maxBytes, srv.bytes)
      [] v.reason = "token-budget-exceeded" ->
           IF Total(srv.tokens) > c.maxTotal
             THEN Detail("max_total_tokens", c.maxTotal, Total(srv.tokens))
             ELSE Detail("max_tool_tokens", c.maxTool, Max(Range(srv.tokens)))
      [] v.reason = "latency-budget-exceeded" ->
           Detail("max_latency_ms", c.maxLatency, Slowest(h))
      [] v.reason \in {"pagination-stalled-cursor", "surface-stalled-cursor"} ->
           Detail("max_pages", c.maxPages, v.attempts)
      [] OTHER -> NoDetail
=============================================================================
