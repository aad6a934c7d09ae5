------------------------------- MODULE Score -------------------------------
(* How the observations of the standard battery fold into readiness          *)
(* (src/src/score.rs:370-905). A percentage is an integer in Units of a      *)
(* hundredth part, in which three calls and two or three parts of an entry   *)
(* divide without a rest.                                                    *)
EXTENDS Integers, Sequences, FiniteSetsExt, SequencesExt

CONSTANT LogCurve(_, _, _)  \* LogCurve(value, full, zero), 0 to 100

Units == 18

Areas == {"protocol", "catalog", "context", "error-honesty", "reliability", "coverage"}
Weight(area) == IF area \in {"catalog", "reliability"} THEN 20 ELSE 15

\* round(n / d), halves up.
Round(n, d) == (2 * n + d) \div (2 * d)
Share(part, whole) == Round(100 * part, whole)

Check(id, tool, score, reason) ==
    [id |-> id, tool |-> tool, score |-> score, reason |-> reason]
\* A check is listed when it lost points.
Lost(id, tool, score, reason) ==
    IF score < 100 THEN {Check(id, tool, score, reason)} ELSE {}
LostAll(id, tool, reason) == Lost(id, tool, 0, reason)
AreaScore(score, checks) == [score |-> score, checks |-> checks]

ReadOnlySurface(tools) == {i \in DOMAIN tools : tools[i].class # "writer"}
Skipped(tool) == tool.exercise.is = "not" /\ tool.exercise.reason = "coverage-skipped"
AnySkipped(tools) == \E i \in DOMAIN tools : Skipped(tools[i])
Exercised(tool) == tool.exercise.is = "exercised"
-----------------------------------------------------------------------------
Protocol(results) ==
    LET passed == {k \in DOMAIN results : results[k].reason = "none"}
    IN IF results = <<>>
         THEN AreaScore(0, LostAll("protocol.ping", "none", "protocol-call-failed"))
         ELSE AreaScore(Share(Cardinality(passed), Len(results)),
                UNION {LostAll(results[k].id, "none", results[k].reason) :
                         k \in DOMAIN results \ passed})

\* The checks of a catalog entry that apply to the tool, and those it passes.
EntryChecks(tool) ==
    {"description", "read-only-declared", "output-schema"}
    \cup (IF tool.facts.properties > 0 THEN {"params-described", "params-typed"} ELSE {})
    \cup (IF tool.class = "writer" THEN {"destructive-declared"} ELSE {})
EntryPassed(tool) ==
    LET facts == tool.facts
    IN {c \in EntryChecks(tool) :
          CASE c = "description"          -> facts.described
            [] c = "params-described"     -> facts.describedProperties = facts.properties
            [] c = "params-typed"         -> facts.typedProperties = facts.properties
            [] c = "read-only-declared"   -> facts.readOnly
            [] c = "destructive-declared" -> facts.destructive
            [] OTHER                      -> facts.outputSchema}

\* Shares of three to six checks, in sixtieths.
Catalog(tools) ==
    LET shares == [i \in DOMAIN tools |-> (60 * Cardinality(EntryPassed(tools[i])))
                                            \div Cardinality(EntryChecks(tools[i]))]
    IN IF tools = <<>>
         THEN AreaScore(0, LostAll("catalog.empty", "none", "catalog-no-tools"))
         ELSE AreaScore(
                Round(100 * SumFunction(shares), 60 * Len(tools)),
                UNION {UNION {LostAll(c, tools[i].name, c) :
                                c \in EntryChecks(tools[i]) \ EntryPassed(tools[i])} :
                         i \in DOMAIN tools})

Context(tools) ==
    LET total == SumFunction([i \in DOMAIN tools |-> tools[i].tokens])
        heaviest == Max({0} \cup {tools[i].tokens : i \in DOMAIN tools})
        catalog == LogCurve(total, 2000, 40000)
        tool == LogCurve(heaviest, 500, 5000)
    IN AreaScore(Round(3 * catalog + tool, 4),
         Lost("context.catalog", "none", catalog, "context-catalog-heavy")
         \cup Lost("context.heaviest-tool", "none", tool, "context-tool-heavy"))

\* Tools whose schema admits every input are not judged.
ErrorHonesty(tools) ==
    LET judged == {i \in DOMAIN tools : tools[i].honesty # "none"}
        honest == {i \in judged : tools[i].honesty = "honest"}
    IN IF judged = {}
         THEN AreaScore(0, LostAll("error-honesty.untestable", "none",
                IF ReadOnlySurface(tools) = {} THEN "no-read-only-tools" ELSE "honesty-untestable"))
         ELSE AreaScore(Share(Cardinality(honest), Cardinality(judged)),
                UNION {LostAll("error-honesty.invalid-arguments", tools[i].name, tools[i].honesty) :
                         i \in judged \ honest})
-----------------------------------------------------------------------------
LatencyBand(ms) ==
    CASE ms <= 100 -> 100 [] ms <= 300 -> 80 [] ms <= 1000 -> 50
      [] ms <= 3000 -> 20 [] OTHER -> 0

Percent(kept) == IF kept THEN 100 ELSE 0

\* (Mutant of Parts.) The band counts whether it is wanted or not.
BandedParts(exercise, banded) ==
    <<[id |-> "consistent", score |-> Percent(exercise.consistent),
       reason |-> "reliability-inconsistent"],
      [id |-> "latency", score |-> LatencyBand(exercise.latency), reason |-> "reliability-slow"]>>

\* The parts of an exercised tool's entry, and what each of them is called.
Parts(exercise, banded) ==
    <<[id |-> "consistent", score |-> Percent(exercise.consistent),
       reason |-> "reliability-inconsistent"],
      [id |-> "latency", score |-> IF banded THEN LatencyBand(exercise.latency) ELSE 100,
       reason |-> "reliability-slow"]>>
    \o IF exercise.schema = "none" THEN <<>>
       ELSE <<[id |-> "output-schema", score |-> Percent(exercise.schema = "kept"),
               reason |-> "reliability-output-schema-broken"]>>

\* A tool's entry, in Units: three calls completed, so the share of its
\* successes is a number of thirds.
Entry(tool, banded) ==
    IF ~Exercised(tool) THEN 0
    ELSE LET parts == Parts(tool.exercise, banded)
             sum == SumFunction([k \in DOMAIN parts |-> parts[k].score])
         IN (Units * tool.successes * sum) \div (3 * Len(parts))

EntryLosses(tool, banded) ==
    IF Skipped(tool) THEN LostAll("skipped", tool.name, "coverage-skipped")
    ELSE IF ~Exercised(tool) THEN LostAll("none-exercised", tool.name, tool.exercise.reason)
    ELSE Lost("success", tool.name, Share(tool.successes, 3), "reliability-call-failed")
         \cup UNION {Lost(p.id, tool.name, p.score, p.reason) :
                       p \in Range(Parts(tool.exercise, banded))}

\* (Mutant of ServerCases.) Cases that were not run do not count.
ServerCasesThatRan(obs) ==
    {[id |-> c, score |-> Percent(obs[c] = "passed"), reason |-> c] :
       c \in {c \in {"contention", "payload"} : obs[c] # "none"}}

\* The cases on the whole server: with a tool skipped they count as failed.
ServerCases(obs) ==
    LET skipped == AnySkipped(obs.tools)
    IN {[id |-> c, score |-> IF skipped THEN 0 ELSE Percent(obs[c] = "passed"),
         reason |-> IF skipped THEN "coverage-skipped" ELSE c] :
          c \in {c \in {"contention", "payload"} : skipped \/ obs[c] # "none"}}

Reliability(obs, banded) ==
    LET tools == obs.tools
        surface == ReadOnlySurface(tools)
        cases == ServerCases(obs)
        entries == [i \in surface |-> Entry(tools[i], banded)]
        values == [c \in cases |-> Units * c.score]
    IN IF surface = {}
         THEN AreaScore(0, LostAll("none-exercised", "none", "no-read-only-tools"))
         ELSE AreaScore(
                Round(SumFunction(entries) + SumFunction(values),
                      Units * (Cardinality(surface) + Cardinality(cases))),
                UNION {EntryLosses(tools[i], banded) : i \in surface}
                \cup UNION {Lost(c.id, "none", c.score, c.reason) : c \in cases})

Coverage(tools) ==
    LET surface == ReadOnlySurface(tools)
        exercised == {i \in surface : tools[i].successes > 0}
    IN IF surface = {}
         THEN AreaScore(0, LostAll("coverage.exercised", "none", "no-read-only-tools"))
         ELSE AreaScore(Share(Cardinality(exercised), Cardinality(surface)),
                UNION {LostAll("coverage.exercised", tools[i].name,
                         IF Exercised(tools[i]) THEN "coverage-call-failed"
                                                ELSE tools[i].exercise.reason) :
                         i \in surface \ exercised})
-----------------------------------------------------------------------------
AreaOf(obs, area, banded) ==
    CASE area = "protocol"      -> Protocol(obs.protocol)
      [] area = "catalog"       -> Catalog(obs.tools)
      [] area = "context"       -> Context(obs.tools)
      [] area = "error-honesty" -> ErrorHonesty(obs.tools)
      [] area = "reliability"   -> Reliability(obs, banded)
      [] OTHER                  -> Coverage(obs.tools)

WeightedScore(obs, banded) ==
    Round(SumFunction([area \in Areas |-> Weight(area) * AreaOf(obs, area, banded).score]), 100)

\* Every area is always scored: none drops out of the denominator.
Fold(obs) ==
    [score |-> WeightedScore(obs, TRUE),
     withoutLatency |-> WeightedScore(obs, FALSE),
     areas |-> [area \in Areas |-> AreaOf(obs, area, TRUE)],
     reliabilityWithoutLatency |-> Reliability(obs, FALSE).score]
-----------------------------------------------------------------------------
(* readiness_gate.rs: declared minimums, with or without latency *)

FloorSubject(floors, readiness, area) ==
    IF floors.excludeLatency /\ area = "reliability"
    THEN readiness.reliabilityWithoutLatency ELSE readiness.areas[area].score

\* What is under its floor.
Shortfalls(floors, readiness) ==
    {area \in DOMAIN floors.areas : FloorSubject(floors, readiness, area) < floors.areas[area]}
    \cup {"score" : s \in {s \in floors.score :
             (IF floors.excludeLatency THEN readiness.withoutLatency ELSE readiness.score) < s}}
=============================================================================
