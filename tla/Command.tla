------------------------------- MODULE Command -------------------------------
(***************************************************************************)
(* mcpeval probe and mcpeval score as a process (src/src/main.rs:190-402): *)
(* the cases of a manifest, the standard battery and the floors declared   *)
(* for it become one exit code and, of a complete run, a trend point.      *)
(***************************************************************************)
EXTENDS Standard

CONSTANT CommandsOn(_)  \* what may be asked of a surface: [is, floors, gateOnly, selected]

\* mcpeval score has no --gate-only (cli.rs).
ASSUME CommandAssumption ==
    \A s \in Surfaces : \A c \in CommandsOn(s) :
        c.is = "probe" \/ (c.is = "score" /\ ~c.gateOnly)

VARIABLES
    asked,      \* the command: "probe" or "score", and its options
    phase,      \* where it is
    cases,      \* how cases of the manifest ended that did not pass
    exit,       \* the exit code
    point       \* a trend point was recorded
commandVars == <<asked, phase, cases, exit, point>>

\* exit.rs
Success == 0
Verdict == 1
Usage == 2
Infrastructure == 3

CommandInit ==
    /\ Init
    /\ asked \in CommandsOn(surface)
    /\ phase = "declare" /\ cases = {} /\ exit = {} /\ point = FALSE

Exit(code) == phase' = "exit" /\ exit' = {code}

\* The whole battery is asked for: no case selected, not the gate alone.
Full == asked.is = "score" \/ ~asked.selected
WithBattery == Full /\ ~asked.gateOnly
Declared(floors) == floors.score # {} \/ floors.areas # <<>>

\* A floor needs the battery, and --exclude-latency needs a floor.
Comparable == IF Declared(asked.floors) THEN WithBattery ELSE ~asked.floors.excludeLatency

\* declared_floors, load_arguments, and the store of a probe.
Declare ==
    /\ phase = "declare"
    /\ IF Comparable
       THEN phase' = (IF asked.is = "probe" THEN "gate" ELSE "battery") /\ UNCHANGED exit
       ELSE Exit(Usage)
    /\ UNCHANGED <<vars, asked, cases, point>>
\* A file of arguments that does not parse; a store that does not open.
DeclareFails ==
    /\ phase = "declare"
    /\ \/ Exit(Usage)
       \/ asked.is = "probe" /\ Exit(Infrastructure)
    /\ UNCHANGED <<vars, asked, cases, point>>

\* The manifest's cases are run (Evaluation.tla), or cannot be begun with.
Gate ==
    /\ phase = "gate"
    /\ \/ /\ cases' \in SUBSET {"failed", "errored"}
          /\ phase' = IF WithBattery THEN "battery" ELSE "report"
          /\ UNCHANGED exit
       \/ \E code \in {Usage, Infrastructure} : Exit(code) /\ UNCHANGED cases
    /\ UNCHANGED <<vars, asked, point>>

Battery ==
    /\ phase = "battery"
    /\ Next
    /\ UNCHANGED commandVars

\* measure_standard: a usage error ends the run, whatever the gate found.
Misused ==
    /\ phase = "battery" /\ pc = "misused"
    /\ Exit(Usage)
    /\ UNCHANGED <<vars, asked, cases, point>>
-----------------------------------------------------------------------------
\* The report
Measured == WithBattery /\ pc = "ended"
Failed == "failed" \in cases
Errored ==
    \/ "errored" \in cases
    \/ WithBattery /\ pc = "failed"
BelowFloor ==
    Declared(asked.floors) /\ Measured /\ Shortfalls(asked.floors, Fold(obs)) # {}

\* exit_for_report: incomplete runs outrank red verdicts.
\* (Mutant of ExitForReport.) A red verdict comes first.
VerdictFirst ==
    IF Failed \/ BelowFloor THEN Verdict ELSE IF Errored THEN Infrastructure ELSE Success
ExitForReport ==
    IF Errored THEN Infrastructure ELSE IF Failed \/ BelowFloor THEN Verdict ELSE Success

\* A trend point is a complete battery; one that is not recorded is no error.
ReportRun ==
    /\ \/ phase = "report"
       \/ phase = "battery" /\ pc \in {"ended", "failed"}
    /\ point' \in IF asked.is = "probe" /\ Full /\ ~Errored /\ Measured THEN BOOLEAN ELSE {FALSE}
    /\ Exit(ExitForReport)
    /\ UNCHANGED <<vars, asked, cases>>

CommandNext ==
    \/ Declare \/ DeclareFails \/ Gate \/ Battery \/ Misused \/ ReportRun
CommandSpec == CommandInit /\ [][CommandNext]_<<vars, commandVars>>
-----------------------------------------------------------------------------
\* The contract of the exit codes (exit.rs:4-13): a pipeline that reads 0 has
\* every case passed and every floor met by a battery that finished; one that
\* reads 1 has a complete evaluation in which the server, not the run, fell
\* short; and the trend has points of such evaluations only.
ExitTellsTheRun ==
    LET complete == "errored" \notin cases /\ (WithBattery => pc = "ended")
        red == \/ "failed" \in cases
               \/ pc = "ended" /\ Shortfalls(asked.floors, Fold(obs)) # {}
    IN  /\ exit = {Success} => complete /\ ~red /\ (Declared(asked.floors) => pc = "ended")
        /\ exit = {Verdict} => complete /\ red
        /\ point => complete /\ pc = "ended" /\ exit \subseteq {Success, Verdict}
=============================================================================
