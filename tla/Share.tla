------------------------------- MODULE Share -------------------------------
(***************************************************************************)
(* Publishing a share envelope (share.rs): a checked snapshot is staged    *)
(* next to the output directory and put in its place by renames, the prior *)
(* envelope being kept aside until the new one is there.  Several shares   *)
(* to one output may run at once, and each may die between any two steps.  *)
(* An envelope is named by the share that made it.                         *)
(***************************************************************************)
EXTENDS Naturals

CONSTANTS Shares,   \* runs of mcpeval share with the same output
          Prior     \* the envelope that is there before, or Nothing

VARIABLES
    output,    \* what is at the output path
    backup,    \* per share: what its backup directory holds
    share      \* per share: where it is, --force, and whether it saw an output

shareVars == <<output, backup, share>>

Nothing == "nothing"
EmptyDir == "empty"
NoEnvelope == {Nothing, EmptyDir}

ASSUME ShareAssumption == Shares \cap NoEnvelope = {}

ShareInit ==
    /\ output \in {Prior} \cup NoEnvelope
    /\ backup = [s \in Shares |-> Nothing]
    /\ share \in [Shares -> [pc : {"begin"}, force : BOOLEAN, exists : {FALSE}]]

To(s, pc) == share' = [share EXCEPT ![s].pc = pc]

\* validate_output: an envelope is replaced only with --force.
Validate(s) == share[s].force \/ output \in NoEnvelope

\* run up to the staged snapshot; one line the scan
\* flags refuses the whole of it.
Stage(s) ==
    /\ share[s].pc = "begin"
    /\ IF Validate(s) THEN To(s, "staged") \/ To(s, "refused") ELSE To(s, "failed")
    /\ UNCHANGED <<output, backup>>

\* publish: the output is validated again, then looked at.
Revalidate(s) ==
    /\ share[s].pc = "staged"
    /\ To(s, IF Validate(s) THEN "validated" ELSE "failed")
    /\ UNCHANGED <<output, backup>>

Look(s) ==
    /\ share[s].pc = "validated"
    /\ share' = [share EXCEPT ![s].pc = IF output # Nothing THEN "preserve" ELSE "publish",
                              ![s].exists = output # Nothing]
    /\ UNCHANGED <<output, backup>>

\* (A mutant of Preserve.) The prior envelope is removed first.
RemovePrior(s) ==
    /\ share[s].pc = "preserve"
    /\ output' = Nothing
    /\ To(s, IF output = Nothing THEN "failed" ELSE "publish")
    /\ UNCHANGED backup

Preserve(s) ==
    /\ share[s].pc = "preserve"
    /\ IF output = Nothing
       THEN To(s, "failed") /\ UNCHANGED <<output, backup>>
       ELSE /\ backup' = [backup EXCEPT ![s] = output]
            /\ output' = Nothing
            /\ To(s, "publish")

\* rename replaces nothing or an empty directory, and fails on anything else.
Publish(s) ==
    /\ share[s].pc = "publish"
    /\ IF output \in NoEnvelope
       THEN output' = s /\ To(s, IF share[s].exists THEN "discard" ELSE "published")
       ELSE UNCHANGED output /\ To(s, IF share[s].exists THEN "restore" ELSE "failed")
    /\ UNCHANGED backup

\* Any other failure of that rename.
PublishFails(s) ==
    /\ share[s].pc = "publish"
    /\ To(s, IF share[s].exists THEN "restore" ELSE "failed")
    /\ UNCHANGED <<output, backup>>

Restore(s) ==
    /\ share[s].pc = "restore"
    /\ To(s, "failed")
    /\ IF output \in NoEnvelope
       THEN output' = backup[s] /\ backup' = [backup EXCEPT ![s] = Nothing]
       ELSE UNCHANGED <<output, backup>>

Discard(s) ==
    /\ share[s].pc = "discard"
    /\ backup' = [backup EXCEPT ![s] = Nothing]
    /\ To(s, "published")
    /\ UNCHANGED output

ShareDies(s) ==
    /\ share[s].pc \notin {"failed", "refused", "published", "dead"}
    /\ To(s, "dead")
    /\ UNCHANGED <<output, backup>>

ShareNext ==
    \E s \in Shares :
        \/ Stage(s) \/ Revalidate(s) \/ Look(s) \/ Preserve(s) \/ Publish(s)
        \/ PublishFails(s) \/ Restore(s) \/ Discard(s) \/ ShareDies(s)

ShareSpec == ShareInit /\ [][ShareNext]_shareVars

-----------------------------------------------------------------------------
Envelopes == ({output} \cup {backup[s] : s \in Shares}) \ NoEnvelope

\* Once an envelope has been at the output path, one is there or in a backup at
\* every later moment, however shares overlap, fail and die.
EnvelopeKept == [][Envelopes # {} => Envelopes' # {}]_shareVars
=============================================================================
