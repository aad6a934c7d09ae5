-------------------------------- MODULE Gates --------------------------------
(***************************************************************************)
(* The gates of mcpeval diff over time (diff.rs, catalog_contract.rs, the  *)
(* diff command of main.rs).  A committed baseline report is compared with *)
(* each new one; a report that passes the declared gates becomes the next  *)
(* baseline.  Every comparison sees two neighbours only: the properties    *)
(* are about the oldest and the newest report of such a chain.             *)
(*                                                                         *)
(* A catalog holds the server's schemas; comparisons see their Digest only.*)
(* The digest keeps less than a schema says, and the properties speak of   *)
(* what it keeps (Transparent).  The hash behind it is taken as injective. *)
(* Keywords of an input schema outside its properties and its required     *)
(* list are not part of a contract and are left out.                       *)
(***************************************************************************)
EXTENDS Integers, Sequences, FiniteSets

CONSTANTS
    MaxRefDepth,       \* references followed on the way to a place (8)
    Accepts(_),        \* the values accepted by a schema of that Meaning
    Params, Values,    \* parameter names and the values of arguments
    Reports,           \* the reports that runs produce
    Options,           \* the gates a job declares
    NoCatalog,         \* the catalog of a report that carries none
    MaxDiffs           \* bound: comparisons of one chain

Classes == {"read-only", "unannotated", "writer"}
Reasons == {"none", "failed", "slow", "unreachable"}  \* none: the case passed
NoOutput == <<>>
NoScore == -1
-----------------------------------------------------------------------------
(* catalog_contract.rs: constraints, constraint_digest                       *)

\* A schema is what stands at each path of its document.  A path is the keys
\* that lead there, "$ref" the one to the target of a local reference; a path
\* without them is a place.  An object says the wording of its own keywords,
\* but for its prose; what it says below keys that are named like prose without
\* being keywords or names of NAME_MAPS, as in an enum of objects or in
\* dependentRequired, is hidden.
Leads(s, p) == Append(p, "$ref") \in DOMAIN s
IsSchema(s) ==
    /\ <<>> \in DOMAIN s
    /\ \A p \in DOMAIN s : Leads(s, p) => s[p].ref # "none"
Place(p) == SelectSeq(p, LAMBDA key : key # "$ref")
References(p) == Cardinality({n \in DOMAIN p : p[n] = "$ref"})

\* A followed reference is replaced by its target, with all that stands beside
\* it; any other is text like the rest.
Followed(s, p) == Leads(s, p) /\ References(p) < MaxRefDepth
Reached(s, p) == \A n \in DOMAIN p : p[n] = "$ref" <=> Followed(s, SubSeq(p, 1, n - 1))

\* (A mutant of Digest.) References are kept as they are written.
Unresolved(s) ==
    {[at |-> p, says |-> s[p].says, ref |-> s[p].ref] : p \in {q \in DOMAIN s : References(q) = 0}}

Digest(s) ==
    {[at |-> Place(p), says |-> s[p].says, ref |-> s[p].ref] :
        p \in {q \in DOMAIN s : Reached(s, q) /\ ~Followed(s, q)}}
-----------------------------------------------------------------------------
IsContract(c) ==
    /\ c.class \in Classes
    /\ c.required \subseteq Params
    /\ DOMAIN c.parameters \subseteq Params
    /\ \A p \in DOMAIN c.parameters : IsSchema(c.parameters[p])
    /\ c.output # NoOutput => IsSchema(c.output)

IsReport(r) ==
    /\ r.catalog # NoCatalog => \A t \in DOMAIN r.catalog : IsContract(r.catalog[t])
    /\ \A k \in DOMAIN r.cases : r.cases[k] \in Reasons
    /\ r.score \in Nat \cup {NoScore} /\ r.withoutLatency \in Nat \cup {NoScore}

ASSUME GatesAssumption ==
    /\ MaxRefDepth \in Nat
    /\ \A r \in Reports : IsReport(r)
    /\ \A o \in Options :
         /\ o.regression \in BOOLEAN /\ o.change \in BOOLEAN /\ o.breaking \in BOOLEAN
         /\ o.dropped \in BOOLEAN /\ o.maxDrop \in Nat /\ o.excludeLatency \in BOOLEAN
    /\ MaxDiffs \in Nat

VARIABLES
    options,   \* the gates of the job
    origin,    \* the report the chain began with
    baseline,  \* the committed baseline
    accepted,  \* how many reports have become the baseline since
    missing,   \* cases that one of them did not have
    reviewed,  \* whether one of them came with changes listed for review
    exit       \* the last exit: none, ok, verdict or usage

gateVars == <<options, origin, baseline, accepted, missing, reviewed, exit>>
-----------------------------------------------------------------------------
(* catalog_contract.rs: compare *)

Kinds == {"tool-removed", "tool-added", "class-changed", "parameter-required",
          "parameter-optional", "parameter-removed", "parameter-added", "parameter-changed",
          "output-schema-removed", "output-schema-added", "output-schema-changed"}

\* (A mutant of ParametersRemoved.) Only an optional parameter counts.
OptionalsRemoved(b, a) == (DOMAIN b.parameters \ DOMAIN a.parameters) \ b.required

ParametersRemoved(b, a) == DOMAIN b.parameters \ DOMAIN a.parameters
ParametersChanged(b, a) ==
    {p \in DOMAIN b.parameters \cap DOMAIN a.parameters :
        Digest(b.parameters[p]) # Digest(a.parameters[p])}

\* The kinds of change of a tool that both catalogs have.
ToolChanges(b, a) ==
    {k \in Kinds :
        \/ k = "class-changed" /\ b.class # a.class
        \/ k = "parameter-required" /\ a.required \ b.required # {}
        \/ k = "parameter-optional" /\ (b.required \ a.required) \cap DOMAIN a.parameters # {}
        \/ k = "parameter-removed" /\ ParametersRemoved(b, a) # {}
        \/ k = "parameter-added"
             /\ (DOMAIN a.parameters \ DOMAIN b.parameters) \ a.required # {}
        \/ k = "parameter-changed" /\ ParametersChanged(b, a) # {}
        \/ k = "output-schema-removed" /\ b.output # NoOutput /\ a.output = NoOutput
        \/ k = "output-schema-added" /\ b.output = NoOutput /\ a.output # NoOutput
        \/ k = "output-schema-changed"
             /\ b.output # NoOutput /\ a.output # NoOutput /\ Digest(b.output) # Digest(a.output)}

\* ChangeKind::severity; from and to are the classes of a class change.
Severity(k, from, to) ==
    IF k = "class-changed"
    THEN IF to = "writer" \/ (from = "read-only" /\ to = "unannotated")
         THEN "breaking" ELSE "compatible"
    ELSE IF k \in {"tool-removed", "parameter-required", "parameter-removed",
                   "output-schema-removed"} THEN "breaking"
    ELSE IF k \in {"parameter-changed", "output-schema-changed"} THEN "review"
    ELSE "compatible"

\* Some change from one catalog to the other has the severity.
HasChange(before, after, severity) ==
    \/ \E t \in DOMAIN before \ DOMAIN after :
         Severity("tool-removed", "none", "none") = severity
    \/ \E t \in DOMAIN after \ DOMAIN before :
         Severity("tool-added", "none", "none") = severity
    \/ \E t \in DOMAIN before \cap DOMAIN after :
         \E k \in ToolChanges(before[t], after[t]) :
            Severity(k, before[t].class, after[t].class) = severity
-----------------------------------------------------------------------------
(* diff.rs: diff *)

Matched(b, c) == DOMAIN b.cases \cap DOMAIN c.cases

\* (A mutant of Regressed.) A case that lost its transport does not count.
FailedNow(b, c) ==
    {k \in Matched(b, c) : b.cases[k] = "none" /\ c.cases[k] \notin {"none", "unreachable"}}

Regressed(b, c) == {k \in Matched(b, c) : b.cases[k] = "none" /\ c.cases[k] # "none"}
Changed(b, c) ==
    {k \in Matched(b, c) : b.cases[k] # "none" /\ c.cases[k] # "none" /\ b.cases[k] # c.cases[k]}

\* A legacy report has a score and neither a standard nor a profile.
Comparable(b, c) ==
    /\ b.score # NoScore /\ c.score # NoScore
    /\ b.standard # "none" /\ b.standard = c.standard
    /\ b.profile # "none" /\ b.profile = c.profile

Measured(r) == IF options.excludeLatency THEN r.withoutLatency ELSE r.score

\* (A mutant of Drop.) The two sides are swapped.
Rise(b, c) == IF Measured(c) > Measured(b) THEN Measured(c) - Measured(b) ELSE 0

\* saturating_sub
Drop(b, c) == IF Measured(b) > Measured(c) THEN Measured(b) - Measured(c) ELSE 0

Unusable(b, c) ==
    \/ b.server # "none" /\ c.server # "none" /\ b.server # c.server
    \/ options.dropped /\ (~Comparable(b, c) \/ Measured(b) = NoScore \/ Measured(c) = NoScore)
    \/ options.breaking /\ (b.catalog = NoCatalog \/ c.catalog = NoCatalog)

Gated(b, c) ==
    \/ options.regression /\ Regressed(b, c) # {}
    \/ options.change /\ Changed(b, c) # {}
    \/ options.dropped /\ Drop(b, c) > options.maxDrop
    \/ options.breaking /\ HasChange(b.catalog, c.catalog, "breaking")

DiffExit(b, c) ==
    IF Unusable(b, c) THEN "usage" ELSE IF Gated(b, c) THEN "verdict" ELSE "ok"
-----------------------------------------------------------------------------
GatesInit ==
    /\ options \in Options
    /\ origin \in Reports /\ baseline = origin
    /\ accepted = 0 /\ missing = {} /\ reviewed = FALSE
    /\ exit = "none"

\* mcpeval diff of the baseline and a new report; a job commits what passes.
DiffReport(r) ==
    /\ accepted < MaxDiffs
    /\ exit' = DiffExit(baseline, r)
    /\ IF exit' = "ok"
       THEN /\ baseline' = r
            /\ accepted' = accepted + 1
            /\ missing' = missing \cup (DOMAIN baseline.cases \ DOMAIN r.cases)
            /\ reviewed' = (reviewed \/ (options.breaking
                                         /\ HasChange(baseline.catalog, r.catalog, "review")))
       ELSE UNCHANGED <<baseline, accepted, missing, reviewed>>
    /\ UNCHANGED <<options, origin>>

\* The baseline is regenerated deliberately: a new chain begins.
Regenerate(r) ==
    /\ origin' = r /\ baseline' = r
    /\ accepted' = 0 /\ missing' = {} /\ reviewed' = FALSE /\ exit' = "none"
    /\ UNCHANGED options

GatesNext == \E r \in Reports : DiffReport(r) \/ Regenerate(r)

GatesSpec == GatesInit /\ [][GatesNext]_gateVars
-----------------------------------------------------------------------------
\* All that a schema says, whatever its digest keeps of it: at each place what
\* stands there and at the targets of references, however far they lead.
Statement(s, p) ==
    [at |-> Place(p), says |-> s[p].says, hidden |-> s[p].hidden,
     ref |-> IF Leads(s, p) THEN "none" ELSE s[p].ref]
IsEmpty(m) == m.says = "nothing" /\ m.hidden = "nothing" /\ m.ref = "none"
Meaning(s) == {m \in {Statement(s, p) : p \in DOMAIN s} : ~IsEmpty(m)}

\* A schema of which the digest loses nothing: every reference is followed and
\* nothing stands beside it, and nothing is hidden.
Transparent(s) ==
    \A p \in DOMAIN s :
        /\ Reached(s, p) /\ s[p].hidden = "nothing"
        /\ s[p].ref # "none" => Followed(s, p) /\ s[p].says = "nothing"

\* A contract knows a call that gives what is required, and only what is declared;
\* the schemas refuse some of its values.
Arguments == UNION {[P -> Values] : P \in SUBSET Params}
Knows(contract, args) ==
    contract.required \subseteq DOMAIN args /\ DOMAIN args \subseteq DOMAIN contract.parameters
Rejected(contract, args) ==
    {p \in DOMAIN args : args[p] \notin Accepts(Meaning(contract.parameters[p]))}
Opaque(contract) == {p \in DOMAIN contract.parameters : ~Transparent(contract.parameters[p])}

\* A caller of the one contract can go on with the other: it is as safe to call
\* unattended, its results keep a declared schema that allows nothing new, and
\* its calls are known and refused for no value that they were not refused for;
\* of opaque schemas nothing is said but that they are still there.
Danger(class) == IF class = "read-only" THEN 0 ELSE IF class = "unannotated" THEN 1 ELSE 2
Serves(after, before) ==
    /\ Danger(after.class) <= Danger(before.class)
    /\ before.output # NoOutput =>
         /\ after.output # NoOutput
         /\ Transparent(before.output) /\ Transparent(after.output) =>
              Accepts(Meaning(after.output)) \subseteq Accepts(Meaning(before.output))
    /\ \A args \in Arguments :
         Knows(before, args) =>
             /\ Knows(after, args)
             /\ Rejected(after, args) \subseteq
                  Rejected(before, args) \cup Opaque(before) \cup Opaque(after)

\* "Breaking: A call that worked against the baseline can now fail or do harm"
\* (catalog_contract.rs:52), over a whole chain: while --fail-on-breaking
\* passes and nothing is listed for review, a caller written against the first
\* report's catalog is served by the newest.  The code does not keep this for
\* schemas that its digests see in part only (constraints,
\* catalog_contract.rs:182-212), so Serves leaves the opaque ones out.
CallersServed ==
    options.breaking /\ accepted > 0 /\ ~reviewed =>
        \A t \in DOMAIN origin.catalog :
            t \in DOMAIN baseline.catalog /\ Serves(baseline.catalog[t], origin.catalog[t])

\* With --fail-on-regression, a case that passed in the first report and fails
\* in the newest was missing from one in between: "added and removed cases are
\* informational" is the only way past the gate.
NoRegressionSlipsBy ==
    options.regression =>
        \A k \in (DOMAIN origin.cases \cap DOMAIN baseline.cases) \ missing :
            origin.cases[k] = "none" => baseline.cases[k] = "none"

\* With --max-readiness-drop, readiness measured the same way has fallen since
\* the first report by no more than the allowance of every comparison.
DriftBounded ==
    options.dropped /\ accepted > 0 =>
        /\ Comparable(origin, baseline)
        /\ Measured(origin) - Measured(baseline) <= accepted * options.maxDrop
=============================================================================
