-------------------------------- MODULE Salt --------------------------------
(***************************************************************************)
(* The per-install secret that salts fingerprints (fingerprint.rs).  The   *)
(* processes of an install may all start for the first time at once, and   *)
(* each may die at any step.  A salt is named by the process that made it. *)
(***************************************************************************)
EXTENDS Naturals

CONSTANTS Starters   \* the processes that load the salt

VARIABLES
    salt,      \* what is at <root>/.salt
    tmp,       \* per process: its temporary file
    starter    \* per process: where it is, and the salt it uses

saltVars == <<salt, tmp, starter>>

Absent == "absent"
HalfWritten == "half"

ASSUME SaltAssumption == {Absent, HalfWritten} \cap Starters = {}

SaltInit ==
    /\ salt = Absent
    /\ tmp = [p \in Starters |-> Absent]
    /\ starter = [p \in Starters |-> [pc |-> "load", uses |-> Absent]]

Move(p, pc, uses) == starter' = [starter EXCEPT ![p] = [pc |-> pc, uses |-> uses]]

\* from_file_bytes: anything but 32 bytes is an error.
FromFile(p) ==
    IF salt = HalfWritten THEN Move(p, "failed", Absent) ELSE Move(p, "done", salt)

LoadSalt(p) ==
    /\ starter[p].pc = "load"
    /\ IF salt = Absent THEN Move(p, "create", Absent) ELSE FromFile(p)
    /\ UNCHANGED <<salt, tmp>>

CreateTmp(p) ==
    /\ starter[p].pc = "create"
    /\ tmp' = [tmp EXCEPT ![p] = HalfWritten]
    /\ Move(p, "write", Absent)
    /\ UNCHANGED salt

\* write_all and sync_all.
WriteTmp(p) ==
    /\ starter[p].pc = "write"
    /\ tmp' = [tmp EXCEPT ![p] = p]
    /\ Move(p, "link", Absent)
    /\ UNCHANGED salt

\* (A mutant of Link.) The temporary file is renamed over the salt.
Rename(p) ==
    /\ starter[p].pc = "link"
    /\ salt' = tmp[p]
    /\ Move(p, "unlink", p)
    /\ UNCHANGED tmp

\* hard_link fails when the path exists: the first link wins.
Link(p) ==
    /\ starter[p].pc = "link"
    /\ IF salt = Absent
       THEN salt' = tmp[p] /\ Move(p, "unlink", p)
       ELSE UNCHANGED salt /\ Move(p, "unlink", Absent)
    /\ UNCHANGED tmp

\* The temporary file is removed; the loser of the race reads the winner's.
Unlink(p) ==
    /\ starter[p].pc = "unlink"
    /\ tmp' = [tmp EXCEPT ![p] = Absent]
    /\ IF starter[p].uses = Absent THEN FromFile(p) ELSE Move(p, "done", starter[p].uses)
    /\ UNCHANGED salt

Dies(p) ==
    /\ starter[p].pc \notin {"done", "failed", "dead"}
    /\ Move(p, "dead", Absent)
    /\ UNCHANGED <<salt, tmp>>

SaltNext ==
    \E p \in Starters :
        LoadSalt(p) \/ CreateTmp(p) \/ WriteTmp(p) \/ Link(p) \/ Unlink(p) \/ Dies(p)

SaltSpec == SaltInit /\ [][SaltNext]_saltVars
-----------------------------------------------------------------------------
\* Every process uses the salt that is on disk, whoever won the race to create
\* it, and none ever reads a half-written one, whichever processes die on the
\* way: "every process ends up returning the one salt that is persisted".
OneSalt ==
    \A p \in Starters :
        /\ starter[p].pc = "done" => starter[p].uses = salt /\ salt \in Starters
        /\ starter[p].pc # "failed"
=============================================================================
