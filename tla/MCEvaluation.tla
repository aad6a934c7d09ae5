---------------------------- MODULE MCEvaluation ----------------------------
(* Small instances of an evaluation and, apart from it, of the stdio client  *)
(* whose exchanges it reduces to an answer or a loss: a behaviour is either  *)
(* one evaluation or the life of one client.                                 *)
EXTENDS Evaluation, McpClient

VARIABLE subject  \* "evaluation" or "client"

-----------------------------------------------------------------------------
(* The evaluation: one case of every kind and of every setting its runner    *)
(* tells apart, followed by a plain one.                                     *)

Of(kind) == [kind |-> kind]
Fields == {"f", "g"}
Expects(outcome, code, required, equals) ==
    [outcome |-> outcome, code |-> code, required |-> required, equals |-> equals]
ExpectsOk == Expects("ok", 0, {"f"}, {"g"})
ExpectsError == Expects("error", 1, {}, {})
Schema(required, properties) ==
    [object |-> TRUE, required |-> required, properties |-> properties]
Guess(schema) ==
    [kind |-> "schema-guessability", schema |-> schema, arguments |-> {"f"}]

Plain == [kind |-> "instruction-fidelity", expect |-> ExpectsOk]

Cases ==
    {[kind |-> "discovery-cost", maxTools |-> t, maxBytes |-> b] : t, b \in {1, 3}}
    \cup {c \in [kind : {"token-cost"}, maxTotal : {2, 4}, maxTool : {2, 4}] : c.maxTool <= c.maxTotal}
    \cup {Guess(Schema(<<"f">>, {"f"})), Guess(Schema(<<"g", "f">>, {"f"})),
          Guess(Schema(<<"g">>, {"f", "g"})),
          Guess([Schema(<<>>, {}) EXCEPT !.object = FALSE])}
    \cup {[kind |-> "degradation-over-n", maxAttempts |-> 3]}
    \cup {[kind |-> "instruction-fidelity", expect |-> e] : e \in {ExpectsOk, ExpectsError}}
    \cup {[kind |-> "workflow", repetitions |-> 2, steps |-> <<ExpectsOk, ExpectsError>>]}
    \cup {[kind |-> "error-honesty", maxAttempts |-> 3, expectRetryable |-> r] :
            r \in {"true", "false"}}
    \cup {Of("state-recovery"), Of("sampling"), Of("elicitation"), Of("completion"),
          Of("contention"), Of("protocol-negotiation")}
    \cup {[kind |-> "latency-budget", attempts |-> 2, maxLatency |-> 2]}
    \cup {[kind |-> "output-schema", declared |-> d] : d \in BOOLEAN}
    \cup {[kind |-> "cancellation", requireHonored |-> r] : r \in BOOLEAN}
    \cup {[kind |-> "pagination", maxPages |-> 2],
          [kind |-> "surface-listing", maxPages |-> 2]}
    \cup {[kind |-> "payload-bounds", expectHandled |-> e] : e \in BOOLEAN}
    \cup {[kind |-> "resource-subscription", trigger |-> t] : t \in BOOLEAN}

MCManifests == {<<c, Plain>> : c \in Cases} \cup {<<Plain, Of("contention"), Plain>>}

MCServers ==
    {[declares |-> d, tokens |-> t, bytes |-> Len(t)] :
        d \in {{}, {"resources", "prompts", "subscribe", "completions"}},
        t \in {<<2>>, <<1, 3>>}}

\* What comes back for a request, and what of it the case looks at.
Is(out, values) == {[out |-> out, is |-> v] : v \in values}
Unrecorded == {[out |-> "unrecorded"]}
Called == {Ok, Error} \cup Unrecorded

Result == [object : BOOLEAN, has : SUBSET Fields, same : SUBSET Fields, code : {0}]
Results == {r \in Result : r.same \subseteq r.has /\ (r.object \/ r.has = {})}
Expected == Is("ok", Results) \cup Unrecorded
            \cup Is("error", {[object |-> FALSE, has |-> {}, same |-> {}, code |-> n] : n \in 1 .. 2})
Hints == {"absent", "true", "false", "other"}
Hinted == Is("error", [code : 1 .. 2, data : Hints, legacy : Hints])
          \cup {Ok} \cup Unrecorded
Page == [entries : {<<>>, <<"a">>, <<"b">>, <<"malformed", "a">>, <<"a", "a">>, <<"a", "b">>},
         more : BOOLEAN]
Listing == [more : BOOLEAN]

Replies(c, given) ==
    CASE c.kind = "instruction-fidelity" -> Expected
      [] c.kind = "workflow" ->
           IF Len(given) < WorkflowOpening THEN {Ok, Error} ELSE Expected
      [] c.kind = "error-honesty" -> Hinted
      [] c.kind = "latency-budget" -> Is("ok", 1 .. 4) \cup Is("error", {1}) \cup Unrecorded
      [] c.kind = "output-schema" ->
           Is("ok", {"unstructured", "incomplete", "nonconforming", "conforming"})
           \cup {Error} \cup Unrecorded
      [] c.kind = "cancellation" ->
           IF Len(given) = 1 THEN Is("ok", {"honored", "ignored", "errored"}) ELSE Called
      [] c.kind = "pagination" -> Is("ok", Page) \cup {Error}
      [] c.kind = "surface-listing" -> Is("ok", Listing) \cup {Error}
      [] c.kind = "payload-bounds" ->
           {Ok, Error} \cup (IF Len(given) = 1 THEN Unrecorded ELSE {})
      [] c.kind = "protocol-negotiation" ->
           Is("ok", DateShaped \cup {"malformed", "none"})
      [] c.kind \in {"sampling", "elicitation"} ->
           {Ok, [out |-> "flood"]} \cup Is("error", {"coded", "uncoded"}) \cup Unrecorded
      [] c.kind = "completion" ->
           Is("ok", {"strings", "too-many", "not-strings", "no-values"})
           \cup Is("error", {"names-argument", "other"})
      [] c.kind = "resource-subscription" ->
           {Ok, Error} \cup (IF SubscriptionSteps(c)[Len(given) + 1] = "trigger"
                               THEN Unrecorded ELSE {})
      [] OTHER -> Called

\* A wait for an update only ends with one, or without; a call whose latency
\* is measured times out by it.
MCAnswers(c, given) ==
    Replies(c, given) \cup
    (IF c.kind = "resource-subscription" /\ SubscriptionSteps(c)[Len(given) + 1] = "wait"
       THEN {}
     ELSE {a \in LostAnswers : c.kind = "latency-budget" => a.out # "timeout"})
\* These are answers a client can make, whichever exchange they end: from the
\* fourth exchange on, a case asks for what it asked for before, or the last.
ASSUME AnswersAssumption ==
    \A c \in Cases, n \in 0 .. 3 :
        \A a \in MCAnswers(c, [i \in 1 .. n |-> Ok]) : Readable(c, n + 1, a)
-----------------------------------------------------------------------------
\* Bound: what the server sends unasked, updates and requests of its own.
MaxUnasked == 1

IdleEvaluation ==
    /\ manifest = <<Plain>> /\ srv = [declares |-> {}, tokens |-> <<2>>, bytes |-> 1]
    /\ pc = "open" /\ next = 1 /\ h = <<>>
    /\ conn = "sound" /\ unlisted = "none" /\ unreachable = "none"
    /\ cut = FALSE /\ B!Init /\ expired = FALSE
    /\ worker = Idle /\ primary = Idle /\ coordinated = FALSE
    /\ reports = <<>> /\ readiness = "unmeasured"

EitherInit ==
    /\ subject \in {"evaluation", "client"}
    /\ McpInit
    /\ IF subject = "evaluation" THEN Init ELSE IdleEvaluation

EitherNext ==
    /\ UNCHANGED subject
    /\ \/ subject = "evaluation" /\ UNCHANGED clientVars /\ Next
       \/ /\ subject = "client" /\ UNCHANGED vars /\ McpNext
          /\ server'.updates + server'.asks <= MaxUnasked

\* Each under the fairness of its own specification.
EitherSpec ==
    /\ EitherInit /\ [][EitherNext]_<<subject, vars, clientVars>>
    /\ WF_vars(subject = "evaluation" /\ Main)
    /\ WF_vars(subject = "evaluation" /\ Worker)
    /\ WF_vars(subject = "evaluation" /\ Meet)
    /\ WF_clientVars(subject = "client" /\ Proceed)
    /\ WF_clientVars(subject = "client" /\ (WriterWrites \/ WriterEnds))
    /\ WF_clientVars(subject = "client" /\ (ReaderReads \/ ReaderEnds))

-----------------------------------------------------------------------------
\* The shared client is replaced by a workflow's and given back, by a new one
\* after an error, and lent to a thread's peer: the evaluation still comes to
\* an end whatever the server, the worker and the deadline do.
EvaluationEnds == <>(subject = "client" \/ Over)
=============================================================================
