---------------------------- MODULE MCLifecycle ----------------------------
(* Small instances of Lifecycle: one group of failures, two legacy codes.   *)
EXTENDS Lifecycle, TLC

CONSTANTS g, c1, c2, k1, k2, v1, v2, p1

MCSymmetry == Permutations(Verifiers)

LegacyRow(state, passes, updated) ==
    [state |-> state, binding |-> {}, passes |-> passes, updated |-> updated]

\* Two ids of release 0.2 for one template: the newer one was verifying.
TwoCodesRows == [id \in Ids |->
    CASE id = <<g, c1>> -> LegacyRow("verifying", 2, 2)
      [] id = <<g, c2>> -> LegacyRow("open", 0, 1)
      [] OTHER -> NoRow]

LegacyOutcome(id, passed) ==
    [finding |-> id, binding |-> {}, passed |-> passed, run |-> 0, on |-> 0]

TwoCodesHistory == <<LegacyOutcome(<<g, c2>>, FALSE), LegacyOutcome(<<g, c1>>, TRUE)>>

\* What the captured calls fail at: errors only, or semantically too.
ErrorIssues == {ErrorId(g)}
AllIssues == {ErrorId(g), SemanticId(g)}

NoRows == [id \in Ids |-> NoRow]
NoRecords == <<>>
\* A run after the third is not concurrent with another one.
LastRunAlone ==
    Len(history) >= 3 => Cardinality({v \in Verifiers : verifier[v] # Idle}) <= 1
============================================================================
