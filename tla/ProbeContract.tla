---------------------------- MODULE ProbeContract ----------------------------
(* What a passed case promises of the server, read off all its answers at    *)
(* once (the kinds of probe in the manifest's reference, and the comments of *)
(* src/src/probe.rs): the runners of ProbeCases decide it answer by answer,  *)
(* and stop at the first one that settles it.  WithoutValues names the       *)
(* answers for which a runner departs from what its documentation demands.   *)
EXTENDS ProbeCases

AllOk(h) == \A i \in DOMAIN h : h[i].out = "ok"

\* What an expectation asks of one answer.
Satisfies(e, a) ==
    /\ a.out = e.outcome
    /\ a.out = "ok" => /\ a.is.object
                       /\ e.required \subseteq a.is.has
                       /\ e.equals \subseteq a.is.same
    /\ a.out = "error" => e.code = 0 \/ e.code = a.is.code

\* The errors a client can act on: one code, and hints that all say the same.
Honest(c, h) ==
    LET errors == {i \in DOMAIN h : h[i].out = "error"}
    IN /\ \A i, j \in errors : h[i].is.code = h[j].is.code
       /\ \A i \in errors :
            {h[i].is.data, h[i].is.legacy} \ {"absent"} = {c.expectRetryable}
       /\ errors = 1 .. (IF c.expectRetryable = "true" THEN Len(h) - 1 ELSE 2)
       /\ Len(h) >= 2

\* The pages of a listing, without their ends.
Entries(h) == FlattenSeq([i \in DOMAIN h |-> h[i].is.entries])
Traversed(c, h) ==
    /\ AllOk(h)
    /\ \A i \in DOMAIN h : h[i].is.more <=> i < Len(h)
    /\ Len(h) <= c.maxPages
    /\ IsInjective(Entries(h)) /\ "malformed" \notin Range(Entries(h))

\* The declared surfaces are listed to their ends, none over more pages than
\* allowed.
SurfacesTraversed(c, h, srv) ==
    LET ends == {i \in DOMAIN h : ~h[i].is.more}
    IN /\ AllOk(h)
       /\ Cardinality(ends) = Cardinality(srv.declares \cap {"resources", "prompts"})
       /\ \A i \in 0 .. (Len(h) - c.maxPages) :
            ends \cap ((i + 1) .. (i + c.maxPages)) # {}

\* A version the server named is one it speaks.
Negotiates(h) ==
    LET n == Len(h)
    IN /\ n \in {3, 4}
       /\ \A i \in 1 .. n : h[i].is \in DateShaped
       /\ n = 3 => h[1].is = "supported"
       /\ n = 4 => h[1].is = h[2].is
       /\ h[n - 1].is # "unknown" /\ h[n].is = h[n - 1].is

Contract(c, h, srv) ==
    CASE c.kind = "discovery-cost" ->
           Len(srv.tokens) <= c.maxTools /\ srv.bytes <= c.maxBytes
      [] c.kind = "token-cost" ->
           /\ Total(srv.tokens) <= c.maxTotal
           /\ \A t \in Range(srv.tokens) : t <= c.maxTool
      [] c.kind = "schema-guessability" ->
           /\ c.schema.object
           /\ Range(c.schema.required) \subseteq c.schema.properties \cap c.arguments
           /\ AllOk(h) /\ Len(h) = 1
      [] c.kind = "degradation-over-n" -> AllOk(h) /\ Len(h) = c.maxAttempts
      [] c.kind = "instruction-fidelity" -> Len(h) = 1 /\ Satisfies(c.expect, h[1])
      [] c.kind = "workflow" ->
           /\ Len(h) = WorkflowOpening + c.repetitions * Len(c.steps)
           /\ \A r \in 0 .. (c.repetitions - 1), s \in DOMAIN c.steps :
                Satisfies(c.steps[s], h[WorkflowOpening + r * Len(c.steps) + s])
      [] c.kind = "error-honesty" -> Honest(c, h)
      [] c.kind = "state-recovery" ->
           [i \in DOMAIN h |-> h[i].out] = <<"error", "ok", "ok">>
      [] c.kind = "latency-budget" ->
           AllOk(h) /\ Len(h) = c.attempts /\ \A a \in Range(h) : a.is <= c.maxLatency
      [] c.kind = "output-schema" ->
           c.declared => AllOk(h) /\ \A a \in Range(h) : a.is = "conforming"
      [] c.kind = "cancellation" ->
           /\ AllOk(h) /\ h[2].is # "errored"
           /\ IF c.requireHonored THEN h[2].is = "honored" ELSE Len(h) = 3
      [] c.kind = "pagination" -> Traversed(c, h)
      [] c.kind = "surface-listing" -> SurfacesTraversed(c, h, srv)
      [] c.kind = "payload-bounds" ->
           /\ h[Len(h)].out = "ok" /\ Len(h) = 2
           /\ h[1].out \in (IF c.expectHandled THEN {"ok"} ELSE {"ok", "error"})
      [] c.kind = "protocol-negotiation" -> Negotiates(h)
      [] c.kind \in {"sampling", "elicitation"} ->
           h[1].out = "ok" \/ (h[1].out = "error" /\ h[1].is # "coded")
      [] c.kind = "resource-subscription" ->
           "subscribe" \in srv.declares =>
               AllOk(h) /\ Len(h) = Len(SubscriptionSteps(c))
      [] c.kind = "completion" ->
           "completions" \in srv.declares =>
               AllOk(h) /\ h[1].is \notin {"no-values", "not-strings", "too-many"}
      [] c.kind = "contention" -> AllOk(h)

\* A completion whose values are missing or are no list.  It is malformed by
\* probe.rs:1986-1993 and by evaluation-dimensions.md, so it breaks the
\* contract; the runner takes it for an empty list, which passes.
WithoutValues(c, h) ==
    c.kind = "completion" /\ Len(h) = 1 /\ h[1].out = "ok" /\ h[1].is = "no-values"
=============================================================================
