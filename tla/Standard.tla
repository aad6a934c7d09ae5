------------------------------ MODULE Standard ------------------------------
(* The standard battery (src/src/standard.rs:206-935): on a connection of    *)
(* its own it looks at every tool of the catalog, refuses to call writers,   *)
(* checks how the others refuse and answer calls, runs two cases on the      *)
(* whole server and the protocol checks. A request that does not come back   *)
(* costs the connection, and each part goes on with a new one if there is    *)
(* one to be had.                                                            *)
EXTENDS Score

CONSTANTS
    Surfaces,   \* what is evaluated: a catalog, the options and the server
    Latencies   \* the medians a tool's calls may take

\* A catalog is a list of tools with a size, and an answer to invalid
\* arguments is an answer.
ASSUME StandardAssumption ==
    \A s \in Surfaces :
        /\ s.tools \in Seq({s.tools[i] : i \in DOMAIN s.tools})
        /\ \A i \in DOMAIN s.tools : s.tools[i].tokens \in Nat
        /\ "none" \notin s.answers.refusal

VARIABLES
    surface,
    pc,
    tool,       \* the tool it is at
    client,     \* there is a connection
    honesty,    \* what is known of how the tool refuses
    outs,       \* how its calls ended
    succeeded,  \* tools whose three calls all succeeded
    obs,        \* Observations
    spent       \* the budget of the evaluation is exhausted
vars == <<surface, pc, tool, client, honesty, outs, succeeded, obs, spent>>

Repeats == 3
Tools == surface.tools
Tool == Tools[tool]

Class(t) ==
    IF t.readOnly = "false" \/ t.destructive = "true" THEN "writer"
    ELSE IF t.readOnly = "true" THEN "read-only"
    ELSE "unannotated"
Callable(t) ==
    \/ Class(t) = "read-only"
    \/ Class(t) = "unannotated" /\ surface.attested
IsSkipped(t) == Callable(t) /\ t.name \in surface.skip

NotExercised(reason) ==
    [is |-> "not", reason |-> reason, consistent |-> FALSE, latency |-> 0, schema |-> "none"]
ExercisedWith(calls, latency, t) ==
    LET succeeding == {k \in DOMAIN calls : calls[k] \in {"success", "off-schema"}}
        kind(k) == IF k \in succeeding THEN "success" ELSE calls[k]
    IN [is |-> "exercised", reason |-> "none",
        consistent |-> Cardinality({kind(k) : k \in DOMAIN calls}) = 1,
        latency |-> latency,
        schema |-> IF ~t.schema \/ succeeding = {} THEN "none"
                   ELSE IF \E k \in succeeding : calls[k] = "off-schema" THEN "broken"
                   ELSE "kept"]

Observation(t, exercise, refusal, successes) ==
    [name |-> t.name, class |-> Class(t), tokens |-> t.tokens, facts |-> t.facts,
     exercise |-> exercise, honesty |-> refusal, successes |-> successes]

\* A tool is judged by its refusals when some arguments violate its schema.
SkippedHonesty(t) == IF t.refusable THEN "coverage-skipped" ELSE "none"
SkippedObservation(t) ==
    Observation(t, NotExercised("coverage-skipped"), SkippedHonesty(t), 0)

Init ==
    /\ surface \in Surfaces
    /\ pc = "connect" /\ tool = 1 /\ client = FALSE /\ spent = FALSE
    /\ honesty = "none" /\ outs = <<>> /\ succeeded = <<>>
    /\ obs = [tools |-> <<>>, contention |-> "none", payload |-> "none", protocol |-> <<>>]

\* run has returned: readiness, an error, or a usage error.
Over == pc \in {"ended", "failed", "misused"}

\* The requests or the time of the evaluation run out.
Exhaust ==
    /\ ~Over /\ ~spent
    /\ spent' = TRUE
    /\ UNCHANGED <<surface, pc, tool, client, honesty, outs, succeeded, obs>>

\* connect(target).ok(): the server may not come back.
Connects == IF spent THEN {FALSE} ELSE surface.comesBack

\* One request, on a new connection if there is none. What does not come back
\* costs the connection.
Exchange(answers, a) ==
    \E up \in (IF client THEN {TRUE} ELSE Connects) :
        IF ~up THEN a = "lost" /\ client' = FALSE
        ELSE \/ ~spent /\ a \in answers /\ client' = TRUE
             \/ (spent \/ "lost" \in answers) /\ a = "lost" /\ client' \in Connects
Answers == surface.answers
-----------------------------------------------------------------------------
Connect ==
    /\ pc = "connect"
    /\ \E up \in Connects, listed \in BOOLEAN :
        /\ client' = up
        /\ pc' = IF ~(up /\ listed /\ ~spent) THEN "failed"
                 ELSE IF ~(surface.skip \subseteq {Tools[i].name : i \in DOMAIN Tools})
                   THEN "misused"
                 ELSE IF Tools = <<>> THEN "contention" ELSE "tool"
    /\ UNCHANGED <<surface, tool, honesty, outs, succeeded, obs, spent>>

StartTool ==
    /\ pc = "tool"
    /\ pc' = IF spent THEN "failed"
             ELSE IF Callable(Tool) /\ ~IsSkipped(Tool) /\ Tool.refusable THEN "refusal"
             ELSE "exercise"
    /\ honesty' = IF IsSkipped(Tool) THEN SkippedHonesty(Tool) ELSE "none"
    /\ UNCHANGED <<surface, tool, client, outs, succeeded, obs, spent>>

\* Invalid arguments must be refused with words, and the session survive it.
HonestyOf(a) ==
    CASE a = "lost" -> "honesty-call-failed"
      [] a \in {"refused", "error-with-words"} -> "honest"
      [] OTHER -> a
ProbeRefusal ==
    /\ pc = "refusal"
    /\ \E a \in Answers.refusal \cup {"lost"} :
        /\ Exchange(Answers.refusal, a)
        /\ honesty' = HonestyOf(a)
        /\ pc' = IF a = "lost" THEN "exercise" ELSE "ping"
    /\ UNCHANGED <<surface, tool, outs, succeeded, obs, spent>>
Ping ==
    /\ pc = "ping"
    /\ \E a \in {"pong", "lost"} :
        /\ Exchange(Answers.pong, a)
        /\ honesty' = IF a = "lost" THEN HonestyOf(a) ELSE honesty
    /\ pc' = "exercise"
    /\ UNCHANGED <<surface, tool, outs, succeeded, obs, spent>>

Observe(exercise, calls) ==
    LET successes == Cardinality({k \in DOMAIN calls : calls[k] \in {"success", "off-schema"}})
    IN /\ obs' = [obs EXCEPT !.tools =
                    Append(@, Observation(Tool, exercise, honesty, successes))]
       /\ succeeded' = IF successes = Repeats THEN Append(succeeded, tool) ELSE succeeded
       /\ tool' = tool + 1
       /\ pc' = IF tool = Len(Tools) THEN "contention" ELSE "tool"
       /\ outs' = <<>>
       /\ UNCHANGED <<surface, honesty, spent>>

WhyNotCalled ==
    IF Class(Tool) = "writer" THEN "writer"
    ELSE IF ~Callable(Tool) THEN "coverage-unannotated"
    ELSE IF ~Tool.synthesizable THEN "coverage-unsynthesizable"
    ELSE IF IsSkipped(Tool) THEN "coverage-skipped"
    ELSE "none"
LeaveOut ==
    /\ pc = "exercise" /\ WhyNotCalled # "none"
    /\ Observe(NotExercised(WhyNotCalled), <<>>)
    /\ UNCHANGED <<client>>

\* One of three calls; the first that does not complete, or whose arguments
\* are refused, is the last.
Call ==
    /\ pc = "exercise" /\ WhyNotCalled = "none"
    /\ \E a \in Answers.call \cup {"lost"} :
        /\ Exchange(Answers.call, a)
        /\ IF a = "lost" THEN Observe(NotExercised("coverage-call-failed"), outs)
           ELSE IF a = "rejected"
             THEN Observe(NotExercised("coverage-rejected-arguments"), outs)
           ELSE IF Len(outs) + 1 < Repeats
             THEN outs' = Append(outs, a)
                  /\ UNCHANGED <<surface, pc, tool, honesty, succeeded, obs, spent>>
           ELSE \E latency \in Latencies :
                  LET calls == Append(outs, a)
                  IN Observe(ExercisedWith(calls, latency, Tool), calls)
-----------------------------------------------------------------------------
\* A case on the whole server needs a tool that answers.
Carriers(case) ==
    IF AnySkipped(obs.tools) THEN {}
    ELSE {k \in DOMAIN succeeded : case = "contention" \/ Tools[succeeded[k]].strings}
After(case) == IF case = "contention" THEN "payload" ELSE "unknown-method"
ServerCase(case) ==
    /\ pc = case
    /\ IF Carriers(case) = {} THEN UNCHANGED <<client, obs>>
       ELSE \E a \in Answers.case \cup {"lost"} :
              /\ Exchange(Answers.case, a)
              /\ obs' = [obs EXCEPT ![case] = IF a = "passed" THEN a ELSE "failed"]
    /\ pc' = After(case)
    /\ UNCHANGED <<surface, tool, honesty, outs, succeeded, spent>>

Checks == <<"unknown-method", "protocol-ping", "unknown-tool", "pagination",
            "surfaces", "negotiation", "finish">>
NextCheck == Checks[CHOOSE k \in 2 .. Len(Checks) : Checks[k - 1] = pc]

\* The surfaces are listed when the server declares them: the client that is
\* there knows.
Applies == pc = "surfaces" => client /\ surface.declares
ProtocolCheck ==
    /\ pc \in Range(Checks) \ {"finish"}
    /\ IF ~Applies THEN UNCHANGED <<client, obs>>
       ELSE \E a \in Answers.check \cup {"lost"} :
              /\ Exchange(Answers.check, a)
              /\ obs' = [obs EXCEPT !.protocol = Append(@,
                           [id |-> pc, reason |-> IF a = "lost" THEN "protocol-call-failed" ELSE a])]
    /\ pc' = NextCheck
    /\ UNCHANGED <<surface, tool, honesty, outs, succeeded, spent>>

Finish ==
    /\ pc = "finish"
    /\ pc' = IF spent THEN "failed" ELSE "ended"
    /\ UNCHANGED <<surface, tool, client, honesty, outs, succeeded, obs, spent>>

Next ==
    \/ Exhaust \/ Connect \/ StartTool \/ ProbeRefusal \/ Ping \/ LeaveOut \/ Call
    \/ ServerCase("contention") \/ ServerCase("payload") \/ ProtocolCheck \/ Finish
Spec == Init /\ [][Next]_vars
-----------------------------------------------------------------------------
\* "A skipped tool is never called; it scores as the worst call it could have
\* made, so skipping never pays" (standard.rs:257-258): had any of the tools
\* that were called been skipped, with the rest of the server as it was, the
\* score would be no higher.
Skipping(names) ==
    [tools |-> [i \in DOMAIN Tools |->
                  IF Tools[i].name \in names /\ Callable(Tools[i]) /\ Tools[i].synthesizable
                    THEN SkippedObservation(Tools[i]) ELSE obs.tools[i]],
     contention |-> "none", payload |-> "none", protocol |-> obs.protocol]
SkippingNeverPays ==
    pc = "ended" =>
        \A names \in SUBSET {Tools[i].name : i \in DOMAIN Tools} :
            AnySkipped(Skipping(names).tools) =>
                Fold(Skipping(names)).score <= Fold(obs).score

\* "The score with every latency check at full marks: the part of the score
\* that does not depend on the machine" (score.rs:363-365): floors that a run
\* just meets with --exclude-latency are met on a machine of any latency.
SlowedTo(ms) ==
    [obs EXCEPT !.tools = [i \in DOMAIN @ |-> [@[i] EXCEPT !.exercise.latency = ms]]]
FloorsOf(readiness) ==
    [score |-> {readiness.withoutLatency}, excludeLatency |-> TRUE,
     areas |-> [area \in Areas |-> IF area = "reliability" THEN readiness.reliabilityWithoutLatency
                                                         ELSE readiness.areas[area].score]]
MachineIndependent ==
    pc = "ended" =>
        LET readiness == Fold(obs)
        IN  /\ readiness.score <= readiness.withoutLatency
            /\ \A ms \in Latencies : Shortfalls(FloorsOf(readiness), Fold(SlowedTo(ms))) = {}

\* "Each applicable protocol check and, when it failed, why"
\* (standard.rs:173): the listing of declared resources and prompts is judged
\* also when the connection is lost just before it.
DeclaredSurfacesJudged ==
    pc = "ended" /\ surface.declares =>
        \E k \in DOMAIN obs.protocol : obs.protocol[k].id = "surfaces"
=============================================================================
