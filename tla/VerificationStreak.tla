------------------------ MODULE VerificationStreak ------------------------
(***************************************************************************)
(* What the finding lifecycle promises, without databases, processes or    *)
(* counters: every finding has a log of verification runs and a status     *)
(* that is a function of the runs.  A run counts towards closing only      *)
(* together with the two runs before it, all green and all bound to the    *)
(* same definition; a red run reopens what was verifying or closed         *)
(* (docs/mcp-eval/source/pages/guides/findings-and-verification.md).       *)
(***************************************************************************)
EXTENDS Naturals, Sequences

CONSTANTS Findings,     \* identities a finding can have
          Definitions   \* what a run can be bound to

VARIABLES status,       \* [Findings -> Statuses]
          runs          \* [Findings -> Seq of [definition, passed]]

vars == <<status, runs>>

Statuses == {"none", "open", "fix-claimed", "verifying", "closed"}

Init ==
    /\ status = [f \in Findings |-> "none"]
    /\ runs = [f \in Findings |-> <<>>]

ThreeGreens(log) ==
    /\ Len(log) >= 3
    /\ \A k \in Len(log) - 2 .. Len(log) :
          log[k].passed /\ log[k].definition = log[Len(log)].definition

\* Promotion, the one-time import and re-keying decide the status of findings
\* that no run has been recorded for; they never touch one that has runs.
Adopt ==
    /\ UNCHANGED runs
    /\ status' \in [Findings -> Statuses]
    /\ \A f \in Findings : runs[f] = <<>> \/ status'[f] = status[f]

Green(f, d) ==
    LET log == Append(runs[f], [definition |-> d, passed |-> TRUE])
    IN  /\ runs' = [runs EXCEPT ![f] = log]
        /\ status' = [status EXCEPT ![f] =
                         IF ThreeGreens(log) THEN "closed" ELSE "verifying"]

Red(f, d) ==
    /\ runs' = [runs EXCEPT ![f] = Append(@, [definition |-> d, passed |-> FALSE])]
    /\ status' = [status EXCEPT ![f] =
                     IF @ \in {"verifying", "closed"} THEN "open" ELSE "fix-claimed"]

Next ==
    \/ Adopt
    \/ \E f \in Findings, d \in Definitions :
          status[f] # "none" /\ (Green(f, d) \/ Red(f, d))

Spec == Init /\ [][Next]_vars
============================================================================
